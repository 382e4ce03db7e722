------------------------------ MODULE Sidecar ------------------------------
(***************************************************************************)
(* The data plane of one sidecar, put together as cmd/sidecar/main.go does *)
(* it: the admission queue, the gate that Admit calls, the device status   *)
(* the gate reads (what the supervisor promises of it, DeviceStatus), the  *)
(* health of the runtime, and the work accountant.                         *)
(*                                                                         *)
(* The gate is not atomic: it asks for the runtime's health, the published *)
(* status and the drain flag one after the other, and each may change at   *)
(* any time, under locks of its own.  But Admit calls it with q.mu held,   *)
(* so that no critical section of the queue falls in between.              *)
(***************************************************************************)
EXTENDS AdmissionQueue, DeviceStatus, WorkAccountant

CONSTANT MaxChanges     \* bound: how often health, drain and device change

ASSUME SidecarAssumption ==
    /\ Handlers = Requests
    /\ MaxChanges \in Nat

VARIABLES
    deviceKnown,        \* -dp-device names a device of the supervisor; it is
                        \* empty by default
    gateAt,             \* of each handler, how far its gate is: "none" outside
    runtimeHealthy,     \* vadapter.Health()
    changes,
    slipped             \* history: the requests admitted since a cause to
                        \* refuse them all has been in force

sidecarVars == <<deviceKnown, gateAt, runtimeHealthy, changes, slipped>>
allVars == <<vars, statusVars, workVars, sidecarVars>>

Causes == {"unhealthy", "offline", "draining"}

\* DeviceReadiness and Draining of a device that the supervisor does not know
\* report neither.
Offline  == deviceKnown /\ shown = "OFFLINE"
Draining == deviceKnown /\ drain

\* The causes in force.
Refusing == {c \in Causes : CASE c = "unhealthy" -> ~runtimeHealthy
                              [] c = "offline"   -> Offline
                              [] c = "draining"  -> Draining}

\* The server listens when the first poll has been published.
SidecarInit ==
    /\ Init
    /\ actual \in DeviceStates \ {"RECOVERING", "DRAINING"}
    /\ shown = actual
    /\ decided = FALSE
    /\ drain = FALSE
    /\ WorkInit
    /\ deviceKnown \in BOOLEAN
    /\ gateAt = [r \in Requests |-> "none"]
    /\ runtimeHealthy \in BOOLEAN
    /\ changes = 0
    /\ slipped = [c \in Causes |-> 0]

-----------------------------------------------------------------------------
(* Admit, with its gate. *)

\* Mutant: the gate is called before q.mu is taken.
LockFreeAlways == TRUE

\* q.mu is held by a handler in its gate; everybody else holds it within one
\* step only.
LockFree == \A r \in Requests : gateAt[r] = "none"

GateTo(r, step) == gateAt' = [gateAt EXCEPT ![r] = step]

GateEnter(r) ==
    /\ pc[r] = "idle"
    /\ LockFree
    /\ ~closed
    /\ gateAt[r] = "none"
    /\ GateTo(r, "health")
    /\ UNCHANGED vars

GateHealth(r) ==
    /\ gateAt[r] = "health"
    /\ IF runtimeHealthy THEN GateTo(r, "device") /\ UNCHANGED vars
                         ELSE GateTo(r, "none") /\ AdmitGateRefuses(r)

GateDevice(r) ==
    /\ gateAt[r] = "device"
    /\ IF ~Offline THEN GateTo(r, "drain") /\ UNCHANGED vars
                   ELSE GateTo(r, "none") /\ AdmitGateRefuses(r)

GateDrain(r) ==
    /\ gateAt[r] = "drain"
    /\ IF ~Draining THEN GateTo(r, "open") /\ UNCHANGED vars
                    ELSE GateTo(r, "none") /\ AdmitGateRefuses(r)

GateOpen(r) ==
    /\ gateAt[r] = "open"
    /\ GateTo(r, "none")
    /\ AdmitFull(r) \/ AdmitQueued(r)

\* Everything but the queue stays as it is.
QueueOnly == UNCHANGED <<statusVars, workVars, runtimeHealthy, changes>>

Gate(r) ==
    /\ GateEnter(r) \/ GateHealth(r) \/ GateDevice(r) \/ GateDrain(r) \/ GateOpen(r)
    /\ QueueOnly

-----------------------------------------------------------------------------
(* The rest of the queue: its critical sections wait for the lock. *)

HandlerStep(r) ==
    /\ \/ Announce(r) \/ SelectDispatched(r) \/ SelectCancelled(r) \/ AfterDone(r)
       \/ /\ LockFree
          /\ AdmitClosed(r) \/ removeWaiting(r) \/ CountCancelled(r) \/ CountTimedOut(r)
    /\ QueueOnly
    /\ UNCHANGED gateAt

\* The relay starts when the request's work is booked.
DoneStep(r) ==
    /\ LockFree
    /\ at[r] = "active"
    /\ Done(r)
    /\ QueueOnly
    /\ UNCHANGED gateAt

DispatcherStep ==
    /\ \/ RunSignalled \/ DrainHandsOff
       \/ LockFree /\ (DrainEnds \/ DrainPops)
    /\ QueueOnly
    /\ UNCHANGED gateAt

CloseStep ==
    /\ \/ LockFree /\ Close
       \/ CloseCancels
    /\ QueueOnly
    /\ UNCHANGED gateAt

\* What may happen or not: the tick, the end of Run, the signal, the timeout
\* of the queue, and a client that goes away.
Chance ==
    /\ \/ RunTick \/ RunStop \/ Signal
       \/ \E r \in Requests : SelectTimeout(r) \/ Disconnect(r)
    /\ QueueOnly
    /\ UNCHANGED gateAt

-----------------------------------------------------------------------------
(* The work of a request is booked after its dispatch, and released when   *)
(* the handler returns, after Done.                                        *)

Book(r) ==
    /\ pc[r] = "relaying"
    /\ ReserveTokens(r) \/ Activate(r)
    /\ UNCHANGED <<vars, statusVars, gateAt, runtimeHealthy, changes>>

ReleaseWork(r) ==
    /\ pc[r] = "done"
    /\ Release(r)
    /\ UNCHANGED <<vars, statusVars, gateAt, runtimeHealthy, changes>>

-----------------------------------------------------------------------------
(* The health loop of the adapter, the supervisor's polls, and /v1/drain.  *)

Change ==
    /\ changes < MaxChanges
    /\ changes' = changes + 1
    /\ \/ runtimeHealthy' = ~runtimeHealthy /\ UNCHANGED statusVars
       \/ (\E s \in DeviceStates : Decide(s)) /\ UNCHANGED runtimeHealthy
       \/ (\E d \in BOOLEAN \ {drain} : SetDrain(d)) /\ UNCHANGED runtimeHealthy
    /\ UNCHANGED <<vars, workVars, gateAt>>

Publish ==
    /\ Show
    /\ UNCHANGED <<vars, workVars, gateAt, runtimeHealthy, changes>>

-----------------------------------------------------------------------------
Admits == arrivals' = arrivals + 1

RecordSlips ==
    slipped' = [c \in Causes |->
        IF c \in Refusing /\ c \in Refusing'
        THEN slipped[c] + (IF Admits THEN 1 ELSE 0) ELSE 0]

SidecarNext ==
    /\ \/ \E r \in Requests :
             Gate(r) \/ HandlerStep(r) \/ DoneStep(r) \/ Book(r) \/ ReleaseWork(r)
       \/ DispatcherStep \/ CloseStep \/ Chance
       \/ Change \/ Publish
    /\ UNCHANGED deviceKnown
    /\ RecordSlips

SidecarSpec == SidecarInit /\ [][SidecarNext]_allVars

-----------------------------------------------------------------------------
(* Properties. *)

(* The gate reads three things one after the other, none of them under a   *)
(* common lock, and yet it closes at once: after the runtime has become    *)
(* unhealthy, OFFLINE has been published or a drain has been requested, at *)
(* most one more request is admitted for as long as that lasts, the one    *)
(* already past that check, however many arrive together (main.go:160-178, *)
(* queue.go:147-158).                                                      *)
AtMostOneSlips == \A c \in Causes : slipped[c] <= 1
=============================================================================
