--------------------------- MODULE ExplicitCache ---------------------------
(***************************************************************************)
(* The explicit cache provider (internal/cache/explicit_provider.go) in    *)
(* the sidecar: request goroutines call Observe when they dispatch, and    *)
(* the feed loop of cmd/sidecar/main.go calls OnRuntimeRestart when vLLM   *)
(* is healthy again after it was seen unhealthy.                           *)
(*                                                                         *)
(* Observe is two steps: it draws a number, then stores under the index's  *)
(* lock.  Abstracted: the KV headroom, which is only passed on.            *)
(***************************************************************************)
EXTENDS CacheIndex

CONSTANTS
    Observers,     \* goroutines that call Observe
    Tokens,        \* the prefix lengths requests claim, 0 among them
    DirMax,        \* the bound of the published directory
    MaxSeq,        \* bound: the calls of Observe
    MaxRestarts    \* bound: the restarts of vLLM

ASSUME ExplicitAssumption ==
    /\ Tokens \subseteq Nat
    /\ DirMax \in Nat \ {0}
    /\ MaxSeq \in Nat
    /\ MaxRestarts \in Nat

VARIABLES
    seq,           \* the provider's counter
    observe,       \* what each goroutine has drawn and not yet stored
    runtimeUp, healthy, lastUp,
    \* history: restarts so far, the one each key was stored after, the
    \* numbers stored since the last Reset, and the restarts that the last
    \* successful health check and the feed loop have seen the end of
    restarts, storedAfter, applied, checked, caughtUp

feedVars    == <<runtimeUp, healthy, lastUp>>
restartVars == <<restarts, checked, caughtUp>>
xvars == <<indexVars, seq, observe, feedVars, restartVars, storedAfter, applied>>

Nothing == [seq |-> 0]

XInit ==
    /\ IndexInit
    /\ seq = 0
    /\ observe = [o \in Observers |-> Nothing]
    /\ runtimeUp = TRUE
    /\ healthy \in BOOLEAN
    /\ lastUp = TRUE
    /\ restarts = 0
    /\ storedAfter = [k \in Keys |-> 0]
    /\ applied = {}
    /\ checked = 0
    /\ caughtUp = 0

-----------------------------------------------------------------------------
ObserveDraws(o, k, tokens) ==
    /\ tokens > 0
    /\ observe[o] = Nothing
    /\ seq < MaxSeq
    /\ seq' = seq + 1
    /\ observe' = [observe EXCEPT ![o] = [seq |-> seq + 1, key |-> k, tokens |-> tokens]]
    /\ UNCHANGED <<indexVars, feedVars, restartVars, storedAfter, applied>>

ObserveStores(o) ==
    /\ observe[o] # Nothing
    /\ ApplyStore(observe[o].seq, observe[o].key, observe[o].tokens)
    /\ storedAfter' = [storedAfter EXCEPT ![observe[o].key] = restarts]
    /\ applied' = applied \cup {observe[o].seq}
    /\ observe' = [observe EXCEPT ![o] = Nothing]
    /\ UNCHANGED <<seq, feedVars, restartVars>>

-----------------------------------------------------------------------------
(* vLLM, the adapter's health check and the feed loop. *)

RuntimeStops ==
    /\ runtimeUp
    /\ restarts < MaxRestarts
    /\ runtimeUp' = FALSE
    /\ UNCHANGED <<indexVars, seq, observe, healthy, lastUp, restartVars, storedAfter, applied>>

\* vLLM loads a model before it answers: a start takes longer than the
\* health check and the feed loop, which both run every second or so, need
\* to see that it is down.
RuntimeStarts ==
    /\ ~runtimeUp
    /\ ~healthy /\ ~lastUp
    /\ runtimeUp' = TRUE
    /\ restarts' = restarts + 1
    /\ UNCHANGED <<indexVars, seq, observe, healthy, lastUp, storedAfter, applied, checked,
                   caughtUp>>

\* A check of a running vLLM may still time out.
checkHealth ==
    /\ healthy' \in (IF runtimeUp THEN BOOLEAN ELSE {FALSE})
    /\ checked' = IF healthy' THEN restarts ELSE checked
    /\ UNCHANGED <<indexVars, seq, observe, runtimeUp, lastUp, restarts, storedAfter,
                   applied, caughtUp>>

\* Mutant: the index is emptied when vLLM is lost, not when it is back.
FeedTickOnLoss ==
    /\ lastUp' = healthy
    /\ IF ~healthy /\ lastUp THEN Reset /\ applied' = {}
                             ELSE UNCHANGED <<indexVars, applied>>
    /\ caughtUp' = IF healthy THEN checked ELSE caughtUp
    /\ UNCHANGED <<seq, observe, runtimeUp, healthy, restarts, checked, storedAfter>>

\* The once-a-second tick of the feed loop.
FeedTick ==
    /\ lastUp' = healthy
    /\ IF healthy /\ ~lastUp THEN Reset /\ applied' = {}
                             ELSE UNCHANGED <<indexVars, applied>>
    /\ caughtUp' = IF healthy THEN checked ELSE caughtUp
    /\ UNCHANGED <<seq, observe, runtimeUp, healthy, restarts, checked, storedAfter>>

XNext ==
    \/ \E o \in Observers, k \in Keys, t \in Tokens : ObserveDraws(o, k, t)
    \/ \E o \in Observers : ObserveStores(o)
    \/ RuntimeStops \/ RuntimeStarts \/ checkHealth \/ FeedTick
    \/ Tick /\ UNCHANGED <<seq, observe, feedVars, restartVars, storedAfter, applied>>

-----------------------------------------------------------------------------
(* See DirectoryMatchesLookup: what the router is told and what a local    *)
(* lookup answers agree, at every age of the index and of its entries.     *)
(* And what is told is told with some confidence (with none the router     *)
(* would ignore it), however many gaps there were, except at the very end  *)
(* of StaleAfter.                                                          *)
DirectoryAgrees ==
    /\ DirectoryMatchesLookup(DirMax)
    /\ Directory(DirMax) # {{}} /\ now - lastUpdate # StaleAfter => confidence > 0

(* The index keeps the bound by dropping the entry updated longest ago.    *)
EvictsOldest == [][EvictsOldestStep]_xvars
=============================================================================
