-------------------------- MODULE LifecycleHistory --------------------------
(***************************************************************************)
(* The lifecycle machine with history variables.  They record what the     *)
(* machine was shown, in terms the machine itself does not keep, so that   *)
(* the properties below are not stated in the counters they are about.     *)
(***************************************************************************)
EXTENDS Lifecycle

VARIABLES
    sameTarget,     \* length of the current unbroken run of healthy probes
                    \* that all classify to lastTarget
    lastTarget,     \* the class of the latest healthy probe
    healthyRun,     \* length of the current unbroken run of healthy probes
    lastOfflineAt,  \* clock of the latest probe that left the device OFFLINE
    backAt          \* clock of the latest probe that took it out of OFFLINE

historyVars == <<sameTarget, lastTarget, healthyRun, lastOfflineAt, backAt>>
hvars == <<vars, historyVars>>

HInit ==
    /\ Init
    /\ sameTarget = 0
    /\ lastTarget = "UNKNOWN"
    /\ healthyRun = 0
    /\ lastOfflineAt = 0
    /\ backAt = 0

Record(o) ==
    /\ lastTarget' = IF Healthy(o) THEN classifyHealthy(o) ELSE lastTarget
    /\ sameTarget' = IF ~Healthy(o) THEN 0
                     ELSE IF lastTarget = classifyHealthy(o) THEN sameTarget + 1 ELSE 1
    /\ healthyRun' = IF Healthy(o) THEN healthyRun + 1 ELSE 0
    /\ lastOfflineAt' = IF state' = "OFFLINE" THEN mono' ELSE lastOfflineAt
    /\ backAt' = IF state = "OFFLINE" /\ state' # "OFFLINE" THEN mono' ELSE backAt

HNext ==
    \/ \E o \in Observations : Probe(o) /\ Record(o)
    \/ \E d \in BOOLEAN : SetDraining(d) /\ UNCHANGED historyVars

HSpec == HInit /\ [][HNext]_hvars

-----------------------------------------------------------------------------
(* Every variable of the machine has its type. *)
TypeOK ==
    /\ state \in States
    /\ pending \in States
    /\ pendingCount \in Nat
    /\ draining \in BOOLEAN
    /\ softFailures \in Nat
    /\ healthyStreak \in Nat
    /\ hardOffline \in BOOLEAN
    /\ recoveryLatched \in BOOLEAN
    /\ recoveryStartedAt \in Nat
    /\ recoveryHealthyStreak \in Nat
    /\ mono \in Nat
    /\ sameTarget \in Nat
    /\ lastTarget \in States
    /\ healthyRun \in Nat
    /\ lastOfflineAt \in Nat
    /\ backAt \in Nat

(* The recovery latch and the visible state never disagree: the latch is   *)
(* engaged exactly in OFFLINE and RECOVERING.  No soft failure, busy or    *)
(* degraded reading shows a latched device as anything else, and no latch  *)
(* survives the return to service (lifecycle.go, Step).                    *)
LatchMatchesState == recoveryLatched <=> state \in {"OFFLINE", "RECOVERING"}

(* A device that went OFFLINE is back in service only by way of RECOVERING,*)
(* after RecoveryStreak consecutive healthy probes and once the hold has   *)
(* passed since it was last OFFLINE, however often it fell back to OFFLINE *)
(* or failed softly in between (lifecycle.go:63-65).                       *)
PromotionEarnedStep ==
    (state \in {"OFFLINE", "RECOVERING"} /\ state' \notin {"OFFLINE", "RECOVERING"})
        => /\ state = "RECOVERING"
           /\ healthyRun' >= RecoveryStreak
           /\ mono' - lastOfflineAt >= RecoveringHold

PromotionEarned == [][PromotionEarnedStep]_hvars

(* The converse, so that recovery cannot hang: a device that came back and *)
(* whose latest probe was healthy is kept in RECOVERING only while less    *)
(* than the hold has passed since it came back, or the run of healthy      *)
(* probes is shorter than RecoveryStreak.  Nothing in between starts the   *)
(* hold again, and every healthy probe counts (lifecycle.go:238-272).  The *)
(* probe that enters RECOVERING never promotes.                            *)
RecoveryNotOverdue ==
    (state = "RECOVERING" /\ healthyRun > 0 /\ mono > backAt)
        => \/ mono - backAt < RecoveringHold
           \/ healthyRun < RecoveryStreak

(* Hysteresis: between READY and BUSY the machine moves only when the last *)
(* ConfirmSamples probes were all healthy and all of the new class, also   *)
(* when drain requests and failures fall between them.                     *)
NoFlappingStep ==
    {state, state'} = {"READY", "BUSY"}
        => lastTarget' = state' /\ sameTarget' >= ConfirmSamples

NoFlapping == [][NoFlappingStep]_hvars

(* The counters tell one story: no soft failures are outstanding during a  *)
(* healthy streak, the streak is the run of healthy probes, and so is the  *)
(* recovery progress; confirmation progress never exceeds the run of its   *)
(* class, and below OFFLINE the soft failures are under the threshold.     *)
CountersConsistent ==
    /\ softFailures = 0 \/ healthyStreak = 0
    /\ healthyStreak = healthyRun
    /\ state = "RECOVERING" => recoveryHealthyStreak = healthyRun
    /\ pendingCount <= sameTarget
    /\ state # "OFFLINE" => softFailures = 0 \/ softFailures < OfflineFailures

(* What makes these properties inductive: a latched machine confirms       *)
(* nothing, confirmation progress is progress of the latest class, an      *)
(* OFFLINE device has no run of healthy probes, and the hold is counted    *)
(* from the probe that took the device out of OFFLINE.                     *)
RecoveryBookkeeping ==
    /\ recoveryLatched => pendingCount = 0
    /\ pendingCount > 0 => pending = lastTarget
    /\ state = "OFFLINE" => healthyRun = 0
    /\ state = "RECOVERING" => lastOfflineAt <= backAt
    /\ recoveryStartedAt = backAt
    /\ backAt <= mono
    /\ lastOfflineAt <= mono
=============================================================================
