---------------------------- MODULE CacheEvents ----------------------------
(***************************************************************************)
(* The native cache provider (internal/cache/vllm_provider.go): ingestLoop *)
(* applies the KV-cache events of vLLM to the index.  The transport        *)
(* (EventSource) is not part of the repository: it delivers the batches    *)
(* vLLM publishes in order, but may lose a batch, or deliver one again.    *)
(* The events of a batch share its number and are applied one by one.      *)
(* A vLLM that is started anew numbers its batches from the beginning.     *)
(***************************************************************************)
EXTENDS CacheIndex

CONSTANTS
    Batches,       \* the batches vLLM may publish: sequences of events
    BlockTokens,   \* the tokens of a block
    MaxBatches,    \* bound: the batches published
    MaxRedelivered, \* bound: the batches delivered again
    MaxFeedNow     \* bound: the horizon of the clock under a feed of events

Events ==
    [kind : {"block_stored", "block_removed"}, key : Keys] \cup [kind : {"all_blocks_cleared"}]

ASSUME EventsAssumption ==
    /\ \A b \in Batches : b \in Seq(Events) /\ b # <<>>
    /\ BlockTokens \in Nat \ {0}
    /\ MaxBatches \in Nat
    /\ MaxRedelivered \in Nat
    /\ MaxFeedNow \in Nat

VARIABLES
    published,     \* the batches published so far
    earlier,       \* how many of them by vLLM processes that are gone
    blocks,        \* what vLLM held after each of them
    next,          \* the first batch not yet delivered or lost
    redelivered,   \* how many batches arrived again
    batch, pos,    \* the batch being ingested (0: none), and how far
    firstSeq       \* history: the first batch ingested since the last Reset

feed  == <<published, earlier, blocks, next, redelivered, batch, pos, firstSeq>>
evars == <<indexVars, feed>>

EInit ==
    /\ IndexInit
    /\ published = <<>>
    /\ earlier = 0
    /\ blocks = <<>>
    /\ next = 1
    /\ redelivered = 0
    /\ batch = 0
    /\ pos = 1
    /\ firstSeq = 0

-----------------------------------------------------------------------------
(* vLLM and the transport. *)

Stores(ev, k)  == ev.kind = "block_stored" /\ ev.key = k
Touches(ev, k) == ev.kind = "all_blocks_cleared" \/ ev.key = k

\* What vLLM holds after the first n events if it held a set of blocks before
\* them: what was stored, or held, and not touched since.
HeldAfter(held, events, n) ==
    {k \in Keys :
        \/ \E i \in 1..n : Stores(events[i], k) /\ \A j \in (i + 1)..n : ~Touches(events[j], k)
        \/ k \in held /\ \A j \in 1..n : ~Touches(events[j], k)}

\* What the present process holds before batch n.
HeldBefore(n) == IF n = earlier + 1 THEN {} ELSE blocks[n - 1]

Publish(events) ==
    /\ Len(published) < MaxBatches
    /\ published' = Append(published, events)
    /\ blocks' = Append(blocks, HeldAfter(HeldBefore(Len(blocks) + 1), events, Len(events)))
    /\ UNCHANGED <<indexVars, earlier, next, redelivered, batch, pos, firstSeq>>

\* A new process holds no blocks; what the old one published and nobody has
\* received is lost with its socket.
Republish ==
    /\ batch = 0
    /\ earlier' = Len(published)
    /\ next' = Len(published) + 1
    /\ firstSeq' = 0
    /\ UNCHANGED <<published, blocks, redelivered, batch, pos>>

Receive(n) ==
    /\ batch = 0
    /\ batch' = n
    /\ pos' = 1
    /\ firstSeq' = IF firstSeq = 0 THEN n - earlier ELSE firstSeq
    /\ UNCHANGED <<indexVars, published, earlier, blocks>>

Deliver ==
    /\ next <= Len(published)
    /\ Receive(next)
    /\ next' = next + 1
    /\ UNCHANGED redelivered

Lose ==
    /\ next <= Len(published)
    /\ next' = next + 1
    /\ UNCHANGED <<indexVars, published, earlier, blocks, redelivered, batch, pos, firstSeq>>

\* Some batch that was delivered, or thought lost, arrives (again).
Redeliver ==
    /\ redelivered < MaxRedelivered
    /\ redelivered' = redelivered + 1
    /\ \E n \in (earlier + 1)..(next - 1) : Receive(n)
    /\ UNCHANGED next

-----------------------------------------------------------------------------
(* ingestLoop. *)

Apply(ev, seq) ==
    \/ ev.kind = "block_stored" /\ ApplyStore(seq, ev.key, BlockTokens)
    \/ ev.kind = "block_removed" /\ ApplyRemove(seq, ev.key)
    \/ ev.kind = "all_blocks_cleared" /\ ApplyClear(seq)

Ingest ==
    /\ batch # 0
    /\ Apply(published[batch][pos], batch - earlier)
    /\ IF pos < Len(published[batch]) THEN pos' = pos + 1 /\ UNCHANGED batch
                                      ELSE pos' = 1 /\ batch' = 0
    /\ UNCHANGED <<published, earlier, blocks, next, redelivered, firstSeq>>

\* vLLM publishes while it is up.
ENext(up) ==
    \/ up /\ \E events \in Batches : Publish(events)
    \/ Deliver \/ Lose \/ Redeliver \/ Ingest
    \/ now < MaxFeedNow /\ Tick /\ UNCHANGED feed

-----------------------------------------------------------------------------
PresentKeys == {k \in DOMAIN entries : entries[k].Present}

\* The index has ingested whole batches only, and dropped nothing.
Settled == batch = 0 /\ haveSeq /\ eventsDropped = 0
=============================================================================
