----------------------------- MODULE CachePlane -----------------------------
(***************************************************************************)
(* The cache-observation plane of a sidecar as cmd/sidecar/main.go wires   *)
(* it: one index, fed by the provider that the mode selects, and the feed  *)
(* loop, which resets the index in either mode when vLLM is healthy again. *)
(*                                                                         *)
(* Under native events the loop and the stream learn of a restart of vLLM  *)
(* each for itself: the first batches of the new process, numbered from    *)
(* the beginning, may be ingested before the loop resets the index.        *)
(***************************************************************************)
EXTENDS ExplicitCache, CacheEvents

VARIABLE mode

explicitVars == <<seq, observe, storedAfter, applied>>
pvars == <<mode, xvars, feed>>

Init ==
    /\ mode \in {"explicit", "native"}
    /\ XInit
    /\ EInit

Explicit == mode = "explicit" /\ XNext /\ UNCHANGED feed

Native == mode = "native" /\ ENext(runtimeUp) /\ UNCHANGED <<explicitVars, feedVars, restartVars>>

NativeHealth ==
    /\ mode = "native"
    /\ checkHealth
    /\ UNCHANGED feed

NativeStops ==
    /\ mode = "native"
    /\ RuntimeStops
    /\ UNCHANGED feed

\* By the time a new process is up, what was received before is ingested.
NativeStarts ==
    /\ mode = "native"
    /\ RuntimeStarts
    /\ Republish

NativeFeedTick ==
    /\ mode = "native"
    /\ FeedTick
    /\ firstSeq' = IF healthy /\ ~lastUp THEN 0 ELSE firstSeq
    /\ UNCHANGED <<published, earlier, blocks, next, redelivered, batch, pos>>

Next ==
    /\ Explicit \/ Native \/ NativeHealth \/ NativeStops \/ NativeStarts \/ NativeFeedTick
    /\ UNCHANGED mode

Spec == Init /\ [][Next]_pvars

-----------------------------------------------------------------------------
(* However stores overtake each other between drawing a number and taking  *)
(* the lock, last_event_sequence is the newest one stored since the last   *)
(* Reset.                                                                  *)
LastSeqIsNewest ==
    mode = "explicit" =>
        /\ haveSeq <=> applied # {}
        /\ haveSeq => lastSeq \in applied /\ \A s \in applied : s <= lastSeq

(* A restarted vLLM has lost its cache: once the feed loop has seen it     *)
(* healthy again, no key stored before the restart is published, however   *)
(* requests, failing health checks and the loop interleave.  (The native   *)
(* provider publishes no keys.)                                            *)
RestartForgets ==
    mode = "explicit" =>
        \A d \in Directory(DirMax) : \A k \in d : storedAfter[k] >= caughtUp

(* The counters tell when the index can be trusted: while they show no gap *)
(* and no late batch, the index holds exactly what vLLM held after the     *)
(* latest batch, or less if it joined the stream late or was reset in the  *)
(* middle of it, whatever was lost or delivered twice.  After a restart of *)
(* vLLM this is so again as soon as the feed loop has seen it healthy,     *)
(* although its numbers repeat those of the process before it.             *)
CleanStreamExact ==
    mode = "native" /\ Settled /\ sequenceGaps = 0 /\ outOfOrder = 0 /\ caughtUp = restarts =>
        /\ PresentKeys \subseteq blocks[earlier + lastSeq]
        /\ firstSeq = 1 => PresentKeys = blocks[earlier + lastSeq]
=============================================================================
