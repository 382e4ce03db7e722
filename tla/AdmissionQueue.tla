--------------------------- MODULE AdmissionQueue ---------------------------
(***************************************************************************)
(* The bounded admission queue of the sidecar's data plane                 *)
(* (internal/dataplane/queue.go), as its goroutines use it:                *)
(*   - one handler per request (Proxy.ChatCompletions), which admits the   *)
(*     request, waits for its dispatch, relays it and calls Done;          *)
(*   - the dispatcher, Queue.Run and drain;                                *)
(*   - clients, which may go away (the request's context is cancelled);    *)
(*   - shutdown: the signal that ends Run, then Queue.Close.               *)
(* A critical section of q.mu is one step, and so is everything a          *)
(* goroutine does between two of them that no other goroutine sees.        *)
(*                                                                         *)
(* Abstracted: the relay (the ways it can end are FinalStates), the        *)
(* admission gate's reason, the rate windows and wait samples, and the     *)
(* clock.                                                                  *)
(***************************************************************************)
EXTENDS Naturals, Sequences, FiniteSets

CONSTANTS
    Requests,        \* the requests that arrive
    NoRequest,       \* no ticket in the dispatcher's hands
    MaxQueued,       \* MaxQueuedRequests
    MaxInflight,     \* MaxInflightRequests
    HasTimeout,      \* QueueTimeout > 0
    Disconnecting,   \* the requests whose client may go away
    CanShutdown,     \* the process may be told to stop
    FinalStates      \* the states the relay may pass to Done

ASSUME QueueAssumption ==
    /\ IsFiniteSet(Requests)
    /\ NoRequest \notin Requests
    /\ MaxQueued \in Nat
    /\ MaxInflight \in Nat
    /\ HasTimeout \in BOOLEAN
    /\ Disconnecting \subseteq Requests
    /\ CanShutdown \in BOOLEAN
    /\ FinalStates \subseteq
         {"COMPLETED", "UPSTREAM_FAILED", "CANCELLED", "PARTIAL_STREAM_FAILED"}

VARIABLES
    \* Queue
    waiting, inflight, closed, signal,
    arrivals, dispatched, completed, rejected, timedOut, cancelled,
    \* Tickets: their state, dispatch channels closed, contexts done
    reqState, dispatch, ctxDone,
    \* where each handler is
    pc,
    \* the dispatcher: where it is, and the ticket it has popped
    dispatcher, popped,
    \* shutdown: how far it is, and the tickets Close has still to cancel
    shutdown, toCancel

queueVars      == <<waiting, inflight, closed, signal>>
counterVars    == <<arrivals, dispatched, completed, rejected, timedOut, cancelled>>
ticketVars     == <<reqState, dispatch, ctxDone>>
dispatcherVars == <<dispatcher, popped>>
shutdownVars   == <<shutdown, toCancel>>
vars == <<queueVars, counterVars, ticketVars, pc, dispatcherVars, shutdownVars>>

Init ==
    /\ waiting = <<>>
    /\ inflight = 0
    /\ closed = FALSE
    /\ signal = FALSE
    /\ arrivals = 0
    /\ dispatched = 0
    /\ completed = 0
    /\ rejected = 0
    /\ timedOut = 0
    /\ cancelled = 0
    /\ reqState = [r \in Requests |-> "NONE"]
    /\ dispatch = {}
    /\ ctxDone = {}
    /\ pc = [r \in Requests |-> "idle"]
    /\ dispatcher = "select"
    /\ popped = NoRequest
    /\ shutdown = "running"
    /\ toCancel = <<>>

Goto(r, label) == pc' = [pc EXCEPT ![r] = label]
Transition(r, to) == reqState' = [reqState EXCEPT ![r] = to]

-----------------------------------------------------------------------------
(* Admit. *)

AdmitClosed(r) ==
    /\ pc[r] = "idle"
    /\ closed
    /\ Goto(r, "rejected")
    /\ UNCHANGED <<queueVars, counterVars, ticketVars, dispatcherVars, shutdownVars>>

Refuse(r) ==
    /\ rejected' = rejected + 1
    /\ Goto(r, "rejected")
    /\ UNCHANGED <<queueVars, arrivals, dispatched, completed, timedOut, cancelled,
                   ticketVars, dispatcherVars, shutdownVars>>

\* The gate (lifecycle, health, drain) is called under the lock; any answer.
AdmitGateRefuses(r) ==
    /\ pc[r] = "idle"
    /\ ~closed
    /\ Refuse(r)

AdmitFull(r) ==
    /\ pc[r] = "idle"
    /\ ~closed
    /\ Len(waiting) >= MaxQueued
    /\ Refuse(r)

\* Mutant: the queue takes tickets after Close.
AdmitQueuedClosed(r) ==
    /\ pc[r] = "idle"
    /\ Len(waiting) < MaxQueued
    /\ arrivals' = arrivals + 1
    /\ Transition(r, "RECEIVED")
    /\ waiting' = Append(waiting, r)
    /\ Goto(r, "admitted")
    /\ UNCHANGED <<inflight, closed, signal, dispatched, completed, rejected, timedOut,
                   cancelled, dispatch, ctxDone, dispatcherVars, shutdownVars>>

AdmitQueued(r) ==
    /\ pc[r] = "idle"
    /\ ~closed
    /\ Len(waiting) < MaxQueued
    /\ arrivals' = arrivals + 1
    /\ Transition(r, "RECEIVED")
    /\ waiting' = Append(waiting, r)
    /\ Goto(r, "admitted")
    /\ UNCHANGED <<inflight, closed, signal, dispatched, completed, rejected, timedOut,
                   cancelled, dispatch, ctxDone, dispatcherVars, shutdownVars>>

\* Mutant: wake waits for room in the signal channel.
AnnounceBlocks(r) ==
    /\ pc[r] = "admitted"
    /\ ~signal
    /\ Transition(r, "QUEUED")
    /\ signal' = TRUE
    /\ Goto(r, "waiting")
    /\ UNCHANGED <<waiting, inflight, closed, counterVars, dispatch,
                   ctxDone, dispatcherVars, shutdownVars>>

\* After the unlock: Transition(QUEUED) and wake.
Announce(r) ==
    /\ pc[r] = "admitted"
    /\ Transition(r, "QUEUED")
    /\ signal' = TRUE
    /\ Goto(r, "waiting")
    /\ UNCHANGED <<waiting, inflight, closed, counterVars, dispatch,
                   ctxDone, dispatcherVars, shutdownVars>>

-----------------------------------------------------------------------------
(* WaitForDispatch.  When several cases of the select are ready, any one   *)
(* may be taken.                                                           *)

SelectDispatched(r) ==
    /\ pc[r] = "waiting"
    /\ r \in dispatch
    /\ Transition(r, "DISPATCHING")
    /\ Goto(r, "relaying")
    /\ UNCHANGED <<queueVars, counterVars, dispatch, ctxDone,
                   dispatcherVars, shutdownVars>>

SelectCancelled(r) ==
    /\ pc[r] = "waiting"
    /\ r \in ctxDone
    /\ Goto(r, "cancelRemove")
    /\ UNCHANGED <<queueVars, counterVars, ticketVars, dispatcherVars, shutdownVars>>

SelectTimeout(r) ==
    /\ pc[r] = "waiting"
    /\ HasTimeout
    /\ Goto(r, "timeoutRemove")
    /\ UNCHANGED <<queueVars, counterVars, ticketVars, dispatcherVars, shutdownVars>>

\* removeWaiting: nothing happens if the ticket is not in the queue.
Without(r) ==
    IF \E i \in 1..Len(waiting) : waiting[i] = r
    THEN LET at == CHOOSE i \in 1..Len(waiting) : waiting[i] = r
         IN  SubSeq(waiting, 1, at - 1) \o SubSeq(waiting, at + 1, Len(waiting))
    ELSE waiting

removeWaiting(r) ==
    /\ \/ pc[r] = "cancelRemove" /\ Goto(r, "cancelCount")
       \/ pc[r] = "timeoutRemove" /\ Goto(r, "timeoutCount")
    /\ waiting' = Without(r)
    /\ UNCHANGED <<inflight, closed, signal, counterVars, ticketVars, dispatcherVars,
                   shutdownVars>>

CountCancelled(r) ==
    /\ pc[r] = "cancelCount"
    /\ cancelled' = cancelled + 1
    /\ Transition(r, "CANCELLED")
    /\ Goto(r, "left")
    /\ UNCHANGED <<queueVars, arrivals, dispatched, completed, rejected, timedOut,
                   dispatch, ctxDone, dispatcherVars, shutdownVars>>

CountTimedOut(r) ==
    /\ pc[r] = "timeoutCount"
    /\ timedOut' = timedOut + 1
    /\ Transition(r, "TIMED_OUT")
    /\ Goto(r, "left")
    /\ UNCHANGED <<queueVars, arrivals, dispatched, completed, rejected, cancelled,
                   dispatch, ctxDone, dispatcherVars, shutdownVars>>

-----------------------------------------------------------------------------
(* Done, at the end of the relay: the critical section, then Transition    *)
(* and wake.                                                               *)

\* Mutants: a request whose client has gone does not give its slot back; it
\* is not counted as completed.
DoneKeepsSlot(r) ==
    /\ pc[r] = "relaying"
    /\ inflight' = IF inflight > 0 /\ r \notin ctxDone THEN inflight - 1 ELSE inflight
    /\ completed' = completed + 1
    /\ Goto(r, "finishing")
    /\ UNCHANGED <<waiting, closed, signal, arrivals, dispatched, rejected, timedOut,
                   cancelled, ticketVars, dispatcherVars, shutdownVars>>

DoneUncounted(r) ==
    /\ pc[r] = "relaying"
    /\ inflight' = IF inflight > 0 THEN inflight - 1 ELSE inflight
    /\ completed' = IF r \in ctxDone THEN completed ELSE completed + 1
    /\ Goto(r, "finishing")
    /\ UNCHANGED <<waiting, closed, signal, arrivals, dispatched, rejected, timedOut,
                   cancelled, ticketVars, dispatcherVars, shutdownVars>>

Done(r) ==
    /\ pc[r] = "relaying"
    /\ inflight' = IF inflight > 0 THEN inflight - 1 ELSE inflight
    /\ completed' = completed + 1
    /\ Goto(r, "finishing")
    /\ UNCHANGED <<waiting, closed, signal, arrivals, dispatched, rejected, timedOut,
                   cancelled, ticketVars, dispatcherVars, shutdownVars>>

\* Mutant: no wake at the end of Done.
AfterDoneSilent(r) ==
    /\ pc[r] = "finishing"
    /\ \E final \in FinalStates : Transition(r, final)
    /\ Goto(r, "done")
    /\ UNCHANGED <<queueVars, counterVars, dispatch, ctxDone,
                   dispatcherVars, shutdownVars>>

AfterDone(r) ==
    /\ pc[r] = "finishing"
    /\ \E final \in FinalStates : Transition(r, final)
    /\ signal' = TRUE
    /\ Goto(r, "done")
    /\ UNCHANGED <<waiting, inflight, closed, counterVars, dispatch,
                   ctxDone, dispatcherVars, shutdownVars>>

-----------------------------------------------------------------------------
(* The dispatcher: Run's select, then drain's loop. *)

RunSignalled ==
    /\ dispatcher = "select"
    /\ signal
    /\ signal' = FALSE
    /\ dispatcher' = "drain"
    /\ UNCHANGED <<waiting, inflight, closed, counterVars, ticketVars, pc, popped,
                   shutdownVars>>

RunTick ==
    /\ dispatcher = "select"
    /\ dispatcher' = "drain"
    /\ UNCHANGED <<queueVars, counterVars, ticketVars, pc, popped, shutdownVars>>

RunStop ==
    /\ dispatcher = "select"
    /\ shutdown # "running"
    /\ dispatcher' = "stopped"
    /\ UNCHANGED <<queueVars, counterVars, ticketVars, pc, popped, shutdownVars>>

CanDispatch == waiting # <<>> /\ inflight < MaxInflight

DrainEnds ==
    /\ dispatcher = "drain"
    /\ ~CanDispatch
    /\ dispatcher' = "select"
    /\ UNCHANGED <<queueVars, counterVars, ticketVars, pc, popped, shutdownVars>>

\* Mutant: the newest ticket is popped.
DrainPopsNewest ==
    /\ dispatcher = "drain"
    /\ CanDispatch
    /\ popped' = waiting[Len(waiting)]
    /\ waiting' = SubSeq(waiting, 1, Len(waiting) - 1)
    /\ inflight' = inflight + 1
    /\ dispatched' = dispatched + 1
    /\ dispatcher' = "handoff"
    /\ UNCHANGED <<closed, signal, arrivals, completed, rejected, timedOut, cancelled,
                   ticketVars, pc, shutdownVars>>

DrainPops ==
    /\ dispatcher = "drain"
    /\ CanDispatch
    /\ popped' = Head(waiting)
    /\ waiting' = Tail(waiting)
    /\ inflight' = inflight + 1
    /\ dispatched' = dispatched + 1
    /\ dispatcher' = "handoff"
    /\ UNCHANGED <<closed, signal, arrivals, completed, rejected, timedOut, cancelled,
                   ticketVars, pc, shutdownVars>>

\* close(t.dispatch), outside the lock.
DrainHandsOff ==
    /\ dispatcher = "handoff"
    /\ dispatch' = dispatch \cup {popped}
    /\ popped' = NoRequest
    /\ dispatcher' = "drain"
    /\ UNCHANGED <<queueVars, counterVars, reqState, ctxDone, pc,
                   shutdownVars>>

-----------------------------------------------------------------------------
(* Clients and shutdown. *)

InHandler(r) == pc[r] \notin {"rejected", "left", "done"}

\* The client goes away: the request's context, and the ticket's, is done.
Disconnect(r) ==
    /\ r \in Disconnecting
    /\ InHandler(r)
    /\ r \notin ctxDone
    /\ ctxDone' = ctxDone \cup {r}
    /\ UNCHANGED <<queueVars, counterVars, reqState, dispatch, pc,
                   dispatcherVars, shutdownVars>>

\* SIGINT or SIGTERM: the context of Run is done.
Signal ==
    /\ CanShutdown
    /\ shutdown = "running"
    /\ shutdown' = "signalled"
    /\ UNCHANGED <<queueVars, counterVars, ticketVars, pc, dispatcherVars, toCancel>>

\* Mutant: the queue is emptied before its tickets are taken to be cancelled.
CloseForgetsTickets ==
    /\ shutdown = "signalled"
    /\ closed' = TRUE
    /\ waiting' = <<>>
    /\ toCancel' = <<>>
    /\ shutdown' = "cancelling"
    /\ UNCHANGED <<inflight, signal, counterVars, ticketVars, pc, dispatcherVars>>

\* Deferred by main; srv.Shutdown waits for the handlers only so long, so
\* Close may run while handlers do.
Close ==
    /\ shutdown = "signalled"
    /\ closed' = TRUE
    /\ waiting' = <<>>
    /\ toCancel' = waiting
    /\ shutdown' = "cancelling"
    /\ UNCHANGED <<inflight, signal, counterVars, ticketVars, pc, dispatcherVars>>

CloseCancels ==
    /\ shutdown = "cancelling"
    /\ toCancel # <<>>
    /\ ctxDone' = ctxDone \cup {Head(toCancel)}
    /\ toCancel' = Tail(toCancel)
    /\ UNCHANGED <<queueVars, counterVars, reqState, dispatch, pc,
                   dispatcherVars, shutdown>>

-----------------------------------------------------------------------------
Admit(r) == AdmitClosed(r) \/ AdmitGateRefuses(r) \/ AdmitFull(r) \/ AdmitQueued(r)

\* What a handler does of itself once its request is admitted.
Proceed(r) ==
    \/ Announce(r) \/ SelectDispatched(r) \/ SelectCancelled(r)
    \/ removeWaiting(r) \/ CountCancelled(r) \/ CountTimedOut(r) \/ AfterDone(r)

Dispatcher == RunSignalled \/ RunTick \/ RunStop \/ DrainEnds \/ DrainPops \/ DrainHandsOff

Next ==
    \/ \E r \in Requests :
          Admit(r) \/ Proceed(r) \/ SelectTimeout(r) \/ Done(r) \/ Disconnect(r)
    \/ Dispatcher
    \/ Signal \/ Close \/ CloseCancels

Spec == Init /\ [][Next]_vars

(* Goroutines run: a handler that can proceed does, and so do the          *)
(* dispatcher, on a signal and inside drain, and Close once it is called.  *)
(* A relay ends: the upstream answers, fails, or its client goes away.     *)
(* No fairness for the 50ms tick: it is only the safety net.               *)
GoroutineFairness ==
    /\ \A r \in Requests : WF_vars(Proceed(r)) /\ WF_vars(Done(r))
    /\ WF_vars(RunSignalled \/ DrainEnds \/ DrainPops \/ DrainHandsOff)
    /\ WF_vars(CloseCancels)

FairSpec == Spec /\ GoroutineFairness
-----------------------------------------------------------------------------
(* Properties. *)

Labels == {"idle", "rejected", "admitted", "waiting", "cancelRemove", "cancelCount",
           "timeoutRemove", "timeoutCount", "relaying", "finishing", "done", "left"}

ReqStates == {"NONE", "RECEIVED", "QUEUED", "DISPATCHING", "CANCELLED", "TIMED_OUT"}
                 \cup FinalStates

(* Every variable has its type. *)
TypeOK ==
    /\ waiting \in Seq(Requests)
    /\ inflight \in Nat
    /\ closed \in BOOLEAN
    /\ signal \in BOOLEAN
    /\ arrivals \in Nat
    /\ dispatched \in Nat
    /\ completed \in Nat
    /\ rejected \in Nat
    /\ timedOut \in Nat
    /\ cancelled \in Nat
    /\ reqState \in [Requests -> ReqStates]
    /\ dispatch \in SUBSET Requests
    /\ ctxDone \in SUBSET Requests
    /\ pc \in [Requests -> Labels]
    /\ dispatcher \in {"select", "drain", "handoff", "stopped"}
    /\ popped \in Requests \cup {NoRequest}
    /\ shutdown \in {"running", "signalled", "cancelling"}
    /\ toCancel \in Seq(Requests)

Started == dispatch \cup ({popped} \ {NoRequest})
Finished == {r \in Requests : pc[r] \in {"finishing", "done"}}
Holders == Started \ Finished
Queued == {waiting[i] : i \in 1..Len(waiting)}
Closing == {toCancel[i] : i \in 1..Len(toCancel)}

(* inflight counts exactly the tickets that drain popped and Done has not  *)
(* yet seen.  (The guard "if q.inflight > 0" in Done never hides a slot    *)
(* given back twice.)                                                      *)
InflightExact == inflight = Cardinality(Holders)

(* No ticket is lost: a handler that waits is in the queue, or is being or *)
(* has been handed its slot, or is being or has been cancelled by Close.   *)
(* And no ticket is orphaned: what is in the queue has a handler that has  *)
(* not left.                                                               *)
NoLostTicket ==
    /\ \A r \in Requests :
          pc[r] \in {"admitted", "waiting"} =>
              r \in Queued \cup Started \cup ctxDone \cup Closing
    /\ \A r \in Queued :
          pc[r] \in {"admitted", "waiting", "cancelRemove", "timeoutRemove"}

(* The counters of /v1/queue add up: every arrival is counted as exactly   *)
(* one of completed, cancelled and timed out, once its handler is through. *)
CountersAddUp ==
    /\ arrivals = completed + cancelled + timedOut
                   + Cardinality({r \in Requests :
                        pc[r] \in {"admitted", "waiting", "cancelRemove", "cancelCount",
                                  "timeoutRemove", "timeoutCount", "relaying"}})
    /\ dispatched = Cardinality(Started)

(* The queue is a bounded FIFO slot limiter.                               *)
Limiter == INSTANCE SlotLimiter WITH
    line <- waiting,
    active <- Holders,
    shut <- closed,
    seen <- {r \in Requests : pc[r] \notin {"idle", "rejected"}}
ImplementsSlotLimiter == Limiter!LimiterSpec

\* The tickets whose slot nobody will give back.
Leaked == {r \in Holders : pc[r] = "left"}

(* No wakeup is lost: without the 50ms tick, on wake() alone, no ticket    *)
(* stays in the queue, although clients leave it from the middle.  Only a  *)
(* shutdown can keep the dispatcher from it, or slots that are all leaked  *)
(* (see NoLeakedSlot).                                                     *)
EveryTicketDispatched ==
    \A r \in Requests :
        r \in Queued ~> \/ r \notin Queued
                       \/ shutdown # "running"
                       \/ Cardinality(Leaked) >= MaxInflight

(* Shutdown strands nobody: once Close has been called every handler that  *)
(* was still in the queue returns, also without a queue timeout.           *)
ShutdownReleasesAll ==
    \A r \in Requests :
        closed /\ pc[r] # "idle" ~> pc[r] \in {"rejected", "left", "done"}

(* queue.go:58 says of a ticket that "the caller waits on Dispatched() and,*)
(* when done, calls Done()/Fail()", and Done "frees its in-flight slot"    *)
(* (queue.go:269): a slot would be held only on behalf of a handler that   *)
(* is still there to give it back.                                         *)
NoLeakedSlot == Leaked = {}
=============================================================================
