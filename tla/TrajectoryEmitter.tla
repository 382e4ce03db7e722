------------------------- MODULE TrajectoryEmitter -------------------------
(***************************************************************************)
(* The event emitter of internal/trajectory/emitter.go: Emit, called by    *)
(* the request goroutines; the loop goroutine, which batches and ships the *)
(* events to the collector; and Stop.                                      *)
(*                                                                         *)
(* Abstracted: an event is a model value, and its fields always marshal    *)
(* (they are strings, numbers and booleans).  A POST may reach the         *)
(* collector (cmd/trajcollector) and be acknowledged, reach it without an  *)
(* answer in time, reach it after the client has given it up, or be lost.  *)
(* A line is one unit of a file's size; a write adds it or fails.          *)
(***************************************************************************)
EXTENDS Naturals, Sequences, FiniteSets

CONSTANTS
    Events,          \* the events, each emitted once
    Terminal,        \* those of a terminal kind
    QueueCapacity,
    BatchSize,
    HasFallback,     \* LocalFallbackPath is set and the file is open
    MaxFallback,     \* maxFallback, in lines
    FailingWrites    \* bound: the events whose line the collector may fail to write

ASSUME EmitterAssumption ==
    /\ IsFiniteSet(Events)
    /\ Terminal \subseteq Events
    /\ QueueCapacity \in Nat \ {0}
    /\ BatchSize \in Nat \ {0}
    /\ HasFallback \in BOOLEAN
    /\ MaxFallback \in Nat
    /\ FailingWrites \subseteq Events

VARIABLES
    ch, stop,
    dropped, sent, failed, fallback,
    fbBytes,          \* what this process has written to the fallback file
    emitPc,           \* where the Emit of each event is
    loopPc,           \* "select", "drain", "ship" or "exited"
    resume,           \* where loop goes on after ship
    attempt, batch,
    \* history: events in the order they entered ch and were shipped, those
    \* whose POST was acknowledged, those in ch before Stop, those that the
    \* collector has received, and how often each is in the collector's file
    accepted, shipped, acked, beforeStop, received, filed,
    transit           \* given-up POSTs that may still reach the collector

counterVars == <<dropped, sent, failed, fallback, fbBytes>>
loopVars    == <<loopPc, resume, attempt, batch>>
shipHistory == <<shipped, acked, received, filed, transit>>
history     == <<accepted, beforeStop, shipHistory>>
vars        == <<ch, stop, counterVars, emitPc, loopVars, history>>

Init ==
    /\ ch = <<>>
    /\ stop = FALSE
    /\ dropped = 0
    /\ sent = 0
    /\ failed = 0
    /\ fallback = 0
    /\ fbBytes = 0
    /\ emitPc = [e \in Events |-> "todo"]
    /\ loopPc = "select"
    /\ resume = "select"
    /\ attempt = 0
    /\ batch = <<>>
    /\ accepted = <<>>
    /\ shipped = <<>>
    /\ acked = {}
    /\ beforeStop = {}
    /\ received = {}
    /\ filed = [e \in Events |-> 0]
    /\ transit = {}

-----------------------------------------------------------------------------
(* Emit: a send that does not block; for a terminal event, then one that   *)
(* waits for at most 2ms.                                                  *)

Full == Len(ch) >= QueueCapacity

Enqueue(e) ==
    /\ ~Full
    /\ ch' = Append(ch, e)
    /\ emitPc' = [emitPc EXCEPT ![e] = "accepted"]
    /\ accepted' = Append(accepted, e)
    /\ beforeStop' = IF stop THEN beforeStop ELSE beforeStop \cup {e}
    /\ UNCHANGED <<stop, counterVars, loopVars, shipHistory>>

\* Mutant: a full queue loses the event silently.
DropUncounted(e) ==
    /\ emitPc' = [emitPc EXCEPT ![e] = "dropped"]
    /\ UNCHANGED <<ch, stop, counterVars, loopVars, history>>

Drop(e) ==
    /\ dropped' = dropped + 1
    /\ emitPc' = [emitPc EXCEPT ![e] = "dropped"]
    /\ UNCHANGED <<ch, stop, sent, failed, fallback, fbBytes, loopVars, history>>

EmitAccepted(e) == emitPc[e] = "todo" /\ Enqueue(e)

EmitDropped(e) == emitPc[e] = "todo" /\ Full /\ e \notin Terminal /\ Drop(e)

EmitRetries(e) ==
    /\ emitPc[e] = "todo"
    /\ Full
    /\ e \in Terminal
    /\ emitPc' = [emitPc EXCEPT ![e] = "retrying"]
    /\ UNCHANGED <<ch, stop, counterVars, loopVars, history>>

RetryAccepted(e) == emitPc[e] = "retrying" /\ Enqueue(e)

\* Mutant: the second send has no time limit.
RetryNeverTimesOut(e) == emitPc[e] = "retrying" /\ ~Full /\ Drop(e)

RetryTimesOut(e) == emitPc[e] = "retrying" /\ Drop(e)

-----------------------------------------------------------------------------
(* loop: the select, and the drain after stop.                             *)

\* An event joins the batch; a full batch is flushed.
Receive(here) ==
    /\ ch # <<>>
    /\ batch' = Append(batch, Head(ch))
    /\ ch' = Tail(ch)
    /\ IF Len(batch) + 1 >= BatchSize
       THEN loopPc' = "ship" /\ resume' = here
       ELSE UNCHANGED <<loopPc, resume>>
    /\ UNCHANGED <<stop, counterVars, emitPc, attempt, history>>

Flush(next) ==
    /\ IF batch = <<>> THEN loopPc' = next /\ UNCHANGED resume
                       ELSE loopPc' = "ship" /\ resume' = next
    /\ UNCHANGED <<ch, stop, counterVars, emitPc, attempt, batch, history>>

LoopReceives == loopPc = "select" /\ Receive("select")

LoopTicks == loopPc = "select" /\ Flush("select")

\* Mutant: the loop returns on stop without draining the channel.
LoopStopsAtOnce == loopPc = "select" /\ stop /\ Flush("exited")

LoopStops ==
    /\ loopPc = "select"
    /\ stop
    /\ loopPc' = "drain"
    /\ UNCHANGED <<ch, stop, counterVars, emitPc, resume, attempt, batch, history>>

DrainReceives == loopPc = "drain" /\ Receive("drain")

\* Mutant: the break leaves the inner select only.
DrainEndsInSelect == loopPc = "drain" /\ ch = <<>> /\ Flush("select")

DrainEnds == loopPc = "drain" /\ ch = <<>> /\ Flush("exited")

-----------------------------------------------------------------------------
(* ship: at most two POSTs of the batch.                                   *)

BatchEvents == {batch[i] : i \in 1..Len(batch)}

\* The collector's handler, once the body has been parsed: it writes a line
\* for each event, ignores the errors, and counts them all as received.
Persist(events) ==
    /\ received' = received \cup events
    /\ \E unwritten \in SUBSET (events \cap FailingWrites) :
          filed' = [e \in Events |-> IF e \in events \ unwritten THEN filed[e] + 1 ELSE filed[e]]

\* A POST that was not acknowledged: persisted, still on its way, or lost.
Unacknowledged ==
    \/ Persist(BatchEvents) /\ UNCHANGED transit
    \/ transit' = transit \cup {[events |-> BatchEvents, attempt |-> attempt]}
       /\ UNCHANGED <<received, filed>>
    \/ UNCHANGED <<received, filed, transit>>

LatePost ==
    /\ \E post \in transit :
          Persist(post.events) /\ transit' = transit \ {post}
    /\ UNCHANGED <<ch, stop, counterVars, emitPc, loopVars, accepted, beforeStop,
                   shipped, acked>>

\* Mutant: the batch is not emptied after it was shipped.
ShipDoneKeepsBatch ==
    /\ shipped' = shipped \o batch
    /\ attempt' = 0
    /\ loopPc' = resume
    /\ UNCHANGED <<ch, stop, dropped, emitPc, resume, batch, accepted, beforeStop>>

\* flush's batch[:0], once ship has returned.
ShipDone ==
    /\ shipped' = shipped \o batch
    /\ batch' = <<>>
    /\ attempt' = 0
    /\ loopPc' = resume
    /\ UNCHANGED <<ch, stop, dropped, emitPc, resume, accepted, beforeStop>>

\* Mutant: an answer of any status counts as sent.
ShipSentAnyStatus ==
    /\ loopPc = "ship"
    /\ Persist(BatchEvents) \/ UNCHANGED <<received, filed>>
    /\ sent' = sent + Len(batch)
    /\ acked' = acked \cup BatchEvents
    /\ ShipDone
    /\ UNCHANGED <<failed, fallback, fbBytes, transit>>

\* A 2xx: the collector has taken the batch, written or not.
ShipSent ==
    /\ loopPc = "ship"
    /\ Persist(BatchEvents)
    /\ sent' = sent + Len(batch)
    /\ acked' = acked \cup BatchEvents
    /\ ShipDone
    /\ UNCHANGED <<failed, fallback, fbBytes, transit>>

\* Mutant: one attempt too many.
LastAttemptLate == attempt >= 2

LastAttempt == attempt >= 1

ShipRetries ==
    /\ loopPc = "ship"
    /\ ~LastAttempt
    /\ Unacknowledged
    /\ attempt' = attempt + 1
    /\ UNCHANGED <<ch, stop, counterVars, emitPc, loopPc, resume, batch, accepted,
                   beforeStop, shipped, acked>>

\* One line for each event; a write that fails is counted all the same.
WriteLines ==
    /\ fallback' = fallback + Len(batch)
    /\ \E written \in 0..Len(batch) : fbBytes' = fbBytes + written

\* Mutant: the size is not looked at.
writeFallbackUnbounded ==
    IF HasFallback THEN WriteLines ELSE UNCHANGED <<fallback, fbBytes>>

\* The size is checked before the batch, not before each line.  It is the
\* size this process has written: the file is opened for appending, and
\* what an earlier process left in it is not counted.
writeFallback ==
    IF HasFallback /\ fbBytes <= MaxFallback
    THEN WriteLines ELSE UNCHANGED <<fallback, fbBytes>>

ShipFails ==
    /\ loopPc = "ship"
    /\ LastAttempt
    /\ Unacknowledged
    /\ failed' = failed + Len(batch)
    /\ writeFallback
    /\ ShipDone
    /\ UNCHANGED <<sent, acked>>

-----------------------------------------------------------------------------
Stop ==
    /\ ~stop
    /\ stop' = TRUE
    /\ UNCHANGED <<ch, counterVars, emitPc, loopVars, history>>

Emit(e) ==
    \/ EmitAccepted(e) \/ EmitDropped(e) \/ EmitRetries(e)
    \/ RetryAccepted(e) \/ RetryTimesOut(e)

Ship == ShipSent \/ ShipRetries \/ ShipFails

Loop == LoopReceives \/ LoopTicks \/ LoopStops \/ DrainReceives \/ DrainEnds \/ Ship

Next == (\E e \in Events : Emit(e)) \/ Loop \/ LatePost \/ Stop

Spec == Init /\ [][Next]_vars

(* An Emit that has begun goes on, and its 2ms timer fires.  Nothing is    *)
(* assumed of the loop and the collector.                                  *)
FairSpec ==
    Spec /\ \A e \in Events : WF_vars(RetryAccepted(e) \/ RetryTimesOut(e))

(* The loop goroutine runs, its requests end within RequestTimeout, and a  *)
(* select that finds stop closed again and again takes it some time (Go    *)
(* picks at random among the ready cases).                                 *)
LoopFairness == WF_vars(Loop) /\ SF_vars(LoopStops)

-----------------------------------------------------------------------------
(* Properties. *)

(* Nothing is lost, repeated or reordered between Emit and ship, whatever  *)
(* the flushes by size, by tick and by Stop do: the accepted events are    *)
(* those shipped, those in the batch and those in the channel, in order.   *)
NothingLostInside == accepted = shipped \o batch \o ch

(* The counters of Stats account for every event: a call of Emit that has  *)
(* returned is counted as dropped, or its event as sent or as failed once  *)
(* ship is through with it.  Only failed events are written to the         *)
(* fallback file, to which one process adds at most a batch more than the  *)
(* limit: the bound is per process, not one of the file (emitter.go:73,    *)
(* 85, 211).                                                               *)
StatsAddUp ==
    /\ dropped = Cardinality({e \in Events : emitPc[e] = "dropped"})
    /\ Len(accepted) = Cardinality({e \in Events : emitPc[e] = "accepted"})
    /\ sent = Cardinality(acked)
    /\ sent + failed = Len(shipped)
    /\ fallback <= failed
    /\ fbBytes <= fallback
    /\ fbBytes <= MaxFallback + BatchSize

(* What the collector gets: it has received every event counted as sent    *)
(* (its file may lack it, since the errors of its writes are ignored,      *)
(* trajcollector/main.go:54-59), no event is in its file more than twice,  *)
(* late arrivals included, and one that was dropped never reaches it.      *)
DeliveredAtMostTwice ==
    /\ acked \subseteq received
    /\ \A e \in Events : filed[e] <= 2
    /\ \A e \in Events : emitPc[e] # "accepted" => e \notin received /\ filed[e] = 0

(* Stop flushes: when the loop has returned, no event that was in the      *)
(* channel before Stop is left in it.  (Events emitted after that stay     *)
(* there for ever, counted by nobody.)                                     *)
StopFlushes ==
    loopPc = "exited" =>
        /\ batch = <<>>
        /\ \A i \in 1..Len(ch) : ch[i] \notin beforeStop

(* emitter.go:92, "Emit enqueues an event WITHOUT blocking": whatever the  *)
(* loop and the collector do, a call of Emit returns.                      *)
EmitNeverBlocks ==
    \A e \in Events : emitPc[e] = "retrying" ~> emitPc[e] \in {"accepted", "dropped"}

(* Stop returns: if the loop runs, it ends, however the collector fails.   *)
StopReturns == LoopFairness => (stop ~> loopPc = "exited")
=============================================================================
