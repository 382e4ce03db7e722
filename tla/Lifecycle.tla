----------------------------- MODULE Lifecycle -----------------------------
(***************************************************************************)
(* The per-device lifecycle state machine of internal/core/lifecycle.go:   *)
(* LifecycleMachine, its Step (one probe observation) and its drain flag.  *)
(* Step and the setters run under the machine's mutex, so each is one      *)
(* atomic action.                                                          *)
(*                                                                         *)
(* Abstracted: the float comparisons of classifyHealthy (a field of the    *)
(* observation says on which side of the threshold the reading lies), the  *)
(* reason codes (they only annotate a decision), and offlineSince,         *)
(* recoverStart and hasBeenOffline (written, and read by nobody).  Time is *)
(* counted in ticks of the monotonic clock.                                *)
(***************************************************************************)
EXTENDS Integers

CONSTANTS
    OfflineFailures,   \* consecutive soft failures that make a device OFFLINE
    ConfirmSamples,    \* samples that confirm a change between healthy states
    RecoveringHold,    \* RecoveringHoldSec, in clock ticks
    RecoveryStreak,    \* healthy probes in RECOVERING before promotion
    Observations,      \* the observations a probe can yield
    MaxGap,            \* bound: the clock ticks between two probes
    MaxMono            \* bound: the horizon of the clock

Observation ==
    [ProbeOK : BOOLEAN, GPUVisible : BOOLEAN, GPUAccessible : BOOLEAN,
     HardOfflineEvidence : BOOLEAN, SoftFailure : BOOLEAN,
     LowStability : BOOLEAN,   \* StabilityScore < DegradedScore
     NewUncorr : BOOLEAN,      \* NewUncorrErrors > 0
     HighUtil : BOOLEAN,       \* UtilSupported and UtilPct >= BusyUtilPct
     LowMem : BOOLEAN]         \* FreeMemRatio <= BusyMemRatio

\* The code takes any configured integers; nothing validates them.
ASSUME LifecycleConfigAssumption ==
    /\ OfflineFailures \in Int
    /\ ConfirmSamples \in Int
    /\ RecoveringHold \in Int
    /\ RecoveryStreak \in Int
    /\ Observations \subseteq Observation
    /\ MaxGap \in Nat
    /\ MaxMono \in Nat

VARIABLES
    state, pending, pendingCount, draining,
    softFailures, healthyStreak, hardOffline,
    recoveryLatched, recoveryStartedAt, recoveryHealthyStreak,
    mono                \* the clock reading of the latest observation

streakVars  == <<softFailures, healthyStreak>>
pendingVars == <<pending, pendingCount>>
latchVars   == <<recoveryLatched, recoveryStartedAt, recoveryHealthyStreak>>
machineVars == <<state, pendingVars, draining, streakVars, hardOffline,
                 latchVars>>
vars        == <<machineVars, mono>>

States == {"UNKNOWN", "READY", "BUSY", "DEGRADED", "DRAINING", "OFFLINE",
           "RECOVERING"}

Init ==
    /\ state = "UNKNOWN"
    /\ pending = "UNKNOWN"
    /\ pendingCount = 0
    /\ draining = FALSE
    /\ softFailures = 0
    /\ healthyStreak = 0
    /\ hardOffline = FALSE
    /\ recoveryLatched = FALSE
    /\ recoveryStartedAt = 0
    /\ recoveryHealthyStreak = 0
    /\ mono = 0

-----------------------------------------------------------------------------
(* How an observation is read. *)

Hard(o) == o.HardOfflineEvidence \/ (~o.GPUVisible /\ ~o.SoftFailure)

Soft(o) == ~Hard(o) /\ (o.SoftFailure \/ ~o.GPUAccessible \/ ~o.ProbeOK)

Healthy(o) == ~Hard(o) /\ ~Soft(o)

classifyHealthy(o) ==
    IF draining THEN "DRAINING"
    ELSE IF o.LowStability \/ o.NewUncorr THEN "DEGRADED"
    ELSE IF o.HighUtil \/ o.LowMem THEN "BUSY"
    ELSE "READY"

-----------------------------------------------------------------------------
(* The branches of Step. *)

EnterOffline(hard) ==
    /\ hardOffline' = hard
    /\ recoveryLatched' = TRUE
    /\ state' = "OFFLINE"
    /\ pending' = "OFFLINE"
    /\ pendingCount' = 0

HardFailure(o) ==
    /\ Hard(o)
    /\ softFailures' = 0
    /\ healthyStreak' = 0
    /\ recoveryHealthyStreak' = 0
    /\ EnterOffline(TRUE)
    /\ UNCHANGED <<draining, recoveryStartedAt>>

\* Every soft failure counts, and interrupts both streaks.
CountSoftFailure(o) ==
    /\ Soft(o)
    /\ softFailures' = softFailures + 1
    /\ healthyStreak' = 0
    /\ recoveryHealthyStreak' = 0
    /\ UNCHANGED <<draining, recoveryStartedAt>>

SoftThreshold(o) ==
    /\ CountSoftFailure(o)
    /\ softFailures + 1 >= OfflineFailures
    /\ EnterOffline(FALSE)

SoftBelowThresholdOffline(o) ==
    /\ CountSoftFailure(o)
    /\ softFailures + 1 < OfflineFailures
    /\ state = "OFFLINE"
    /\ UNCHANGED <<state, pendingVars, hardOffline, recoveryLatched>>

\* Mutant: a soft failure during recovery shows as DEGRADED.
SoftLatchedDegrades(o) ==
    /\ CountSoftFailure(o)
    /\ softFailures + 1 < OfflineFailures
    /\ state # "OFFLINE"
    /\ recoveryLatched
    /\ state' = "DEGRADED"
    /\ UNCHANGED <<pendingVars, hardOffline, recoveryLatched>>

SoftBelowThresholdLatched(o) ==
    /\ CountSoftFailure(o)
    /\ softFailures + 1 < OfflineFailures
    /\ state # "OFFLINE"
    /\ recoveryLatched
    /\ state' = "RECOVERING"
    /\ UNCHANGED <<pendingVars, hardOffline, recoveryLatched>>

SoftDegrade(o) ==
    /\ CountSoftFailure(o)
    /\ softFailures + 1 < OfflineFailures
    /\ state # "OFFLINE"
    /\ ~recoveryLatched
    /\ state' = "DEGRADED"
    /\ pending' = "DEGRADED"
    /\ pendingCount' = 0
    /\ UNCHANGED <<hardOffline, recoveryLatched>>

CountHealthy(o) ==
    /\ Healthy(o)
    /\ softFailures' = 0
    /\ healthyStreak' = healthyStreak + 1
    /\ UNCHANGED <<draining, hardOffline>>

BeginRecovery(o, now) ==
    /\ CountHealthy(o)
    /\ state = "OFFLINE"
    /\ state' = "RECOVERING"
    /\ recoveryStartedAt' = now
    /\ recoveryHealthyStreak' = 1
    /\ pending' = "RECOVERING"
    /\ pendingCount' = 0
    /\ UNCHANGED recoveryLatched

\* Mutant: one of the two conditions is enough.
RecoveryCompleteEither(now) ==
    \/ now - recoveryStartedAt >= RecoveringHold
    \/ recoveryHealthyStreak + 1 >= RecoveryStreak

RecoveryComplete(now) ==
    /\ now - recoveryStartedAt >= RecoveringHold
    /\ recoveryHealthyStreak + 1 >= RecoveryStreak

ReleaseLatch(o, now) ==
    /\ CountHealthy(o)
    /\ state # "OFFLINE"
    /\ recoveryLatched
    /\ RecoveryComplete(now)
    /\ recoveryHealthyStreak' = recoveryHealthyStreak + 1
    /\ recoveryLatched' = FALSE
    /\ state' = classifyHealthy(o)
    /\ pending' = classifyHealthy(o)
    /\ pendingCount' = 0
    /\ UNCHANGED recoveryStartedAt

\* Mutant: every held probe starts the hold again.
HoldLatchRestamps(o, now) ==
    /\ CountHealthy(o)
    /\ state # "OFFLINE"
    /\ recoveryLatched
    /\ ~RecoveryComplete(now)
    /\ recoveryStartedAt' = now
    /\ recoveryHealthyStreak' = recoveryHealthyStreak + 1
    /\ state' = "RECOVERING"
    /\ UNCHANGED <<pendingVars, recoveryLatched>>

HoldLatch(o, now) ==
    /\ CountHealthy(o)
    /\ state # "OFFLINE"
    /\ recoveryLatched
    /\ ~RecoveryComplete(now)
    /\ recoveryHealthyStreak' = recoveryHealthyStreak + 1
    /\ state' = "RECOVERING"
    /\ UNCHANGED <<pendingVars, recoveryLatched, recoveryStartedAt>>

\* Healthy, and no recovery in progress.
Unlatched(o) ==
    /\ CountHealthy(o)
    /\ state # "OFFLINE"
    /\ ~recoveryLatched
    /\ UNCHANGED latchVars

\* Mutant: a sample of the current class leaves the pending change as it is.
SameStateKeepsPending(o) ==
    /\ Unlatched(o)
    /\ classifyHealthy(o) = state
    /\ UNCHANGED <<state, pendingVars>>

SameState(o) ==
    /\ Unlatched(o)
    /\ classifyHealthy(o) = state
    /\ pending' = state
    /\ pendingCount' = 0
    /\ UNCHANGED state

LeaveDegraded(o) ==
    /\ Unlatched(o)
    /\ state = "DEGRADED"
    /\ classifyHealthy(o) \in {"READY", "BUSY"}
    /\ state' = classifyHealthy(o)
    /\ pending' = classifyHealthy(o)
    /\ pendingCount' = 0

\* DEGRADED and DRAINING are applied fast.
Need(target) == IF target \in {"DEGRADED", "DRAINING"} THEN 1 ELSE ConfirmSamples

Count(target) == IF target = pending THEN pendingCount + 1 ELSE 1

ConfirmChange(o) ==
    /\ Unlatched(o)
    /\ classifyHealthy(o) # state
    /\ ~(state = "DEGRADED" /\ classifyHealthy(o) \in {"READY", "BUSY"})
    /\ pending' = classifyHealthy(o)
    /\ IF Count(classifyHealthy(o)) >= Need(classifyHealthy(o))
       THEN /\ state' = classifyHealthy(o)
            /\ pendingCount' = 0
       ELSE /\ pendingCount' = Count(classifyHealthy(o))
            /\ UNCHANGED state

Step(o, now) ==
    \/ HardFailure(o)
    \/ SoftThreshold(o)
    \/ SoftBelowThresholdOffline(o)
    \/ SoftBelowThresholdLatched(o)
    \/ SoftDegrade(o)
    \/ BeginRecovery(o, now)
    \/ ReleaseLatch(o, now)
    \/ HoldLatch(o, now)
    \/ SameState(o)
    \/ LeaveDegraded(o)
    \/ ConfirmChange(o)

-----------------------------------------------------------------------------
(* One probe cycle; polls are a poll interval apart, so the clock advances. *)
Probe(o) ==
    \E now \in (mono + 1) .. (mono + MaxGap) :
        /\ now <= MaxMono
        /\ mono' = now
        /\ Step(o, now)

\* SetDraining and SetDrainingChecked: the flag only; Step reads it.
SetDraining(d) ==
    /\ draining' = d
    /\ UNCHANGED <<state, pendingVars, streakVars, hardOffline, latchVars, mono>>

Next ==
    \/ \E o \in Observations : Probe(o)
    \/ \E d \in BOOLEAN : SetDraining(d)

Spec == Init /\ [][Next]_vars
=============================================================================
