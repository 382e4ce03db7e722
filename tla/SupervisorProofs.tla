-------------------------- MODULE SupervisorProofs --------------------------
(***************************************************************************)
(* The safety of the lifecycle machine, for every configuration, every set *)
(* of observations and every clock bound; the safety of the supervisor of  *)
(* one device that drives it, for every outcome of the vendor tool, every  *)
(* history of the device, all thresholds and limits; and that the          *)
(* supervisor implements DeviceStatus.                                     *)
(***************************************************************************)
EXTENDS Supervisor, TLAPS

-----------------------------------------------------------------------------
(* The lifecycle machine. *)

(* The inductive invariant. *)
IInv ==
    /\ TypeOK
    /\ LatchMatchesState
    /\ RecoveryNotOverdue
    /\ CountersConsistent
    /\ RecoveryBookkeeping

(* A recorded probe, as one branch of Step takes it. *)
Probed(o, now) ==
    /\ IInv
    /\ o \in Observation
    /\ now \in Nat
    /\ now > mono
    /\ mono' = now
    /\ Record(o)

(* classifyHealthy returns a state in service. *)
LEMMA ClassType ==
  ASSUME NEW o
  PROVE  classifyHealthy(o) \in {"READY", "BUSY", "DEGRADED", "DRAINING"}
BY DEF classifyHealthy

(* The initial state satisfies the invariant. *)
LEMMA InitIInv == HInit => IInv
<1> SUFFICES ASSUME HInit PROVE IInv
  OBVIOUS
<1> USE DEF HInit, Init
<1>1. TypeOK
  BY DEF TypeOK, States
<1>2. LatchMatchesState
  BY DEF LatchMatchesState
<1>3. RecoveryNotOverdue
  BY DEF RecoveryNotOverdue
<1>4. CountersConsistent
  BY DEF CountersConsistent
<1>5. RecoveryBookkeeping
  BY DEF RecoveryBookkeeping
<1> QED
  BY <1>1, <1>2, <1>3, <1>4, <1>5 DEF IInv

(* Each branch of Step preserves the invariant and obeys the two action    *)
(* properties: first the failures, then the healthy probes.                *)
(* Hard evidence (lifecycle.go:183-196): OFFLINE at once, latched. *)
LEMMA HardFailureIInv ==
  ASSUME NEW o, NEW now, Probed(o, now), HardFailure(o)
  PROVE  IInv' /\ PromotionEarnedStep /\ NoFlappingStep
<1> USE LifecycleConfigAssumption, ClassType
    DEF Probed, IInv, TypeOK, HardFailure, EnterOffline, Healthy
<1>1. TypeOK'
  BY DEF States, Record
<1>2. LatchMatchesState'
  BY DEF LatchMatchesState
<1>3. RecoveryNotOverdue'
  BY DEF LatchMatchesState, CountersConsistent, RecoveryBookkeeping, RecoveryNotOverdue, Record
<1>4. CountersConsistent'
  BY DEF CountersConsistent, LatchMatchesState, RecoveryBookkeeping, Record
<1>5. RecoveryBookkeeping'
  BY DEF RecoveryBookkeeping, LatchMatchesState, Record
<1>6. PromotionEarnedStep
  BY DEF PromotionEarnedStep, LatchMatchesState, CountersConsistent, RecoveryBookkeeping, Record
<1>7. NoFlappingStep
  BY DEF NoFlappingStep, LatchMatchesState, CountersConsistent, RecoveryBookkeeping, Record
<1> QED
  BY <1>1, <1>2, <1>3, <1>4, <1>5, <1>6, <1>7

(* The soft failure that reaches the threshold (203-213): OFFLINE, latched. *)
LEMMA SoftThresholdIInv ==
  ASSUME NEW o, NEW now, Probed(o, now), SoftThreshold(o)
  PROVE  IInv' /\ PromotionEarnedStep /\ NoFlappingStep
<1> USE LifecycleConfigAssumption, ClassType
    DEF Probed, IInv, TypeOK, SoftThreshold, CountSoftFailure, EnterOffline, Healthy
<1>0. hardOffline' = FALSE /\ hardOffline' \in BOOLEAN
  OBVIOUS
<1>1. TypeOK'
  BY <1>0 DEF States, Record
<1>2. LatchMatchesState'
  BY DEF LatchMatchesState
<1>3. RecoveryNotOverdue'
  BY DEF LatchMatchesState, CountersConsistent, RecoveryBookkeeping, RecoveryNotOverdue, Record
<1>4. CountersConsistent'
  BY DEF CountersConsistent, LatchMatchesState, RecoveryBookkeeping, Record
<1>5. RecoveryBookkeeping'
  BY DEF RecoveryBookkeeping, LatchMatchesState, Record
<1>6. PromotionEarnedStep
  BY DEF PromotionEarnedStep, LatchMatchesState, CountersConsistent, RecoveryBookkeeping, Record
<1>7. NoFlappingStep
  BY DEF NoFlappingStep, LatchMatchesState, CountersConsistent, RecoveryBookkeeping, Record
<1> QED
  BY <1>1, <1>2, <1>3, <1>4, <1>5, <1>6, <1>7

(* A soft failure of a device that is OFFLINE already (215-218). *)
LEMMA SoftBelowThresholdOfflineIInv ==
  ASSUME NEW o, NEW now, Probed(o, now), SoftBelowThresholdOffline(o)
  PROVE  IInv' /\ PromotionEarnedStep /\ NoFlappingStep
<1> USE LifecycleConfigAssumption, ClassType
    DEF Probed, IInv, TypeOK, SoftBelowThresholdOffline, CountSoftFailure, pendingVars, Healthy
<1>1. TypeOK'
  BY DEF States, Record
<1>2. LatchMatchesState'
  BY DEF LatchMatchesState
<1>3. RecoveryNotOverdue'
  BY DEF LatchMatchesState, CountersConsistent, RecoveryBookkeeping, RecoveryNotOverdue, Record
<1>4. CountersConsistent'
  BY DEF CountersConsistent, LatchMatchesState, RecoveryBookkeeping, Record
<1>5. RecoveryBookkeeping'
  BY DEF RecoveryBookkeeping, LatchMatchesState, Record
<1>6. PromotionEarnedStep
  BY DEF PromotionEarnedStep, LatchMatchesState, CountersConsistent, RecoveryBookkeeping, Record
<1>7. NoFlappingStep
  BY DEF NoFlappingStep, LatchMatchesState, CountersConsistent, RecoveryBookkeeping, Record
<1> QED
  BY <1>1, <1>2, <1>3, <1>4, <1>5, <1>6, <1>7

(* A soft failure during recovery (221-225): the streak is lost, the latch kept. *)
LEMMA SoftBelowThresholdLatchedIInv ==
  ASSUME NEW o, NEW now, Probed(o, now), SoftBelowThresholdLatched(o)
  PROVE  IInv' /\ PromotionEarnedStep /\ NoFlappingStep
<1> USE LifecycleConfigAssumption, ClassType
    DEF Probed, IInv, TypeOK, SoftBelowThresholdLatched, CountSoftFailure, pendingVars, Healthy
<1>1. TypeOK'
  BY DEF States, Record
<1>2. LatchMatchesState'
  BY DEF LatchMatchesState
<1>3. RecoveryNotOverdue'
  BY DEF LatchMatchesState, CountersConsistent, RecoveryBookkeeping, RecoveryNotOverdue, Record
<1>4. CountersConsistent'
  BY DEF CountersConsistent, LatchMatchesState, RecoveryBookkeeping, Record
<1>5. RecoveryBookkeeping'
  BY DEF RecoveryBookkeeping, LatchMatchesState, Record
<1>6. PromotionEarnedStep
  BY DEF PromotionEarnedStep, LatchMatchesState, CountersConsistent, RecoveryBookkeeping, Record
<1>7. NoFlappingStep
  BY DEF NoFlappingStep, LatchMatchesState, CountersConsistent, RecoveryBookkeeping, Record
<1> QED
  BY <1>1, <1>2, <1>3, <1>4, <1>5, <1>6, <1>7

(* A soft failure in service (227-230): DEGRADED, no latch. *)
LEMMA SoftDegradeIInv ==
  ASSUME NEW o, NEW now, Probed(o, now), SoftDegrade(o)
  PROVE  IInv' /\ PromotionEarnedStep /\ NoFlappingStep
<1> USE LifecycleConfigAssumption, ClassType
    DEF Probed, IInv, TypeOK, SoftDegrade, CountSoftFailure, Healthy
<1>1. TypeOK'
  BY DEF States, Record
<1>2. LatchMatchesState'
  BY DEF LatchMatchesState
<1>3. RecoveryNotOverdue'
  BY DEF LatchMatchesState, CountersConsistent, RecoveryBookkeeping, RecoveryNotOverdue, Record
<1>4. CountersConsistent'
  BY DEF CountersConsistent, LatchMatchesState, RecoveryBookkeeping, Record
<1>5. RecoveryBookkeeping'
  BY DEF RecoveryBookkeeping, LatchMatchesState, Record
<1>6. PromotionEarnedStep
  BY DEF PromotionEarnedStep, LatchMatchesState, CountersConsistent, RecoveryBookkeeping, Record
<1>7. NoFlappingStep
  BY DEF NoFlappingStep, LatchMatchesState, CountersConsistent, RecoveryBookkeeping, Record
<1> QED
  BY <1>1, <1>2, <1>3, <1>4, <1>5, <1>6, <1>7

(* The first healthy probe after OFFLINE (238-246): the hold starts here. *)
LEMMA BeginRecoveryIInv ==
  ASSUME NEW o, NEW now, Probed(o, now), BeginRecovery(o, now)
  PROVE  IInv' /\ PromotionEarnedStep /\ NoFlappingStep
<1> USE LifecycleConfigAssumption, ClassType
    DEF Probed, IInv, TypeOK, BeginRecovery, CountHealthy
<1>1. TypeOK'
  BY DEF States, Record
<1>2. LatchMatchesState'
  BY DEF LatchMatchesState
<1>3. RecoveryNotOverdue'
  BY DEF LatchMatchesState, CountersConsistent, RecoveryBookkeeping, RecoveryNotOverdue, Record
<1>4. CountersConsistent'
  BY DEF CountersConsistent, LatchMatchesState, RecoveryBookkeeping, Record
<1>5. RecoveryBookkeeping'
  BY DEF RecoveryBookkeeping, LatchMatchesState, Record
<1>6. PromotionEarnedStep
  BY DEF PromotionEarnedStep, LatchMatchesState, CountersConsistent, RecoveryBookkeeping, Record
<1>7. NoFlappingStep
  BY DEF NoFlappingStep, LatchMatchesState, CountersConsistent, RecoveryBookkeeping, Record
<1> QED
  BY <1>1, <1>2, <1>3, <1>4, <1>5, <1>6, <1>7

(* A healthy probe that completes the recovery (256-263). *)
LEMMA ReleaseLatchIInv ==
  ASSUME NEW o, NEW now, Probed(o, now), ReleaseLatch(o, now)
  PROVE  IInv' /\ PromotionEarnedStep /\ NoFlappingStep
<1> USE LifecycleConfigAssumption, ClassType
    DEF Probed, IInv, TypeOK, ReleaseLatch, CountHealthy, RecoveryComplete
<1>0. recoveryLatched' = FALSE /\ recoveryLatched' \in BOOLEAN
  OBVIOUS
<1>1. TypeOK'
  BY <1>0 DEF States, Record
<1>2. LatchMatchesState'
  BY DEF LatchMatchesState
<1>3. RecoveryNotOverdue'
  BY DEF LatchMatchesState, CountersConsistent, RecoveryBookkeeping, RecoveryNotOverdue, Record
<1>4. CountersConsistent'
  BY DEF CountersConsistent, LatchMatchesState, RecoveryBookkeeping, Record
<1>5. RecoveryBookkeeping'
  BY DEF RecoveryBookkeeping, LatchMatchesState, Record
<1>6. PromotionEarnedStep
  BY DEF PromotionEarnedStep, LatchMatchesState, CountersConsistent, RecoveryBookkeeping, Record
<1>7. NoFlappingStep
  BY DEF NoFlappingStep, LatchMatchesState, CountersConsistent, RecoveryBookkeeping, Record
<1> QED
  BY <1>1, <1>2, <1>3, <1>4, <1>5, <1>6, <1>7

(* A healthy probe that does not (266-272). *)
LEMMA HoldLatchIInv ==
  ASSUME NEW o, NEW now, Probed(o, now), HoldLatch(o, now)
  PROVE  IInv' /\ PromotionEarnedStep /\ NoFlappingStep
<1> USE LifecycleConfigAssumption, ClassType
    DEF Probed, IInv, TypeOK, HoldLatch, CountHealthy, RecoveryComplete, pendingVars
<1>1. TypeOK'
  BY DEF States, Record
<1>2. LatchMatchesState'
  BY DEF LatchMatchesState
<1>3. RecoveryNotOverdue'
  BY DEF LatchMatchesState, CountersConsistent, RecoveryBookkeeping, RecoveryNotOverdue, Record
<1>4. CountersConsistent'
  BY DEF CountersConsistent, LatchMatchesState, RecoveryBookkeeping, Record
<1>5. RecoveryBookkeeping'
  BY DEF RecoveryBookkeeping, LatchMatchesState, Record
<1>6. PromotionEarnedStep
  BY DEF PromotionEarnedStep, LatchMatchesState, CountersConsistent, RecoveryBookkeeping, Record
<1>7. NoFlappingStep
  BY DEF NoFlappingStep, LatchMatchesState, CountersConsistent, RecoveryBookkeeping, Record
<1> QED
  BY <1>1, <1>2, <1>3, <1>4, <1>5, <1>6, <1>7

(* A healthy probe of the class the device is in (277-281). *)
LEMMA SameStateIInv ==
  ASSUME NEW o, NEW now, Probed(o, now), SameState(o)
  PROVE  IInv' /\ PromotionEarnedStep /\ NoFlappingStep
<1> USE LifecycleConfigAssumption, ClassType
    DEF Probed, IInv, TypeOK, SameState, Unlatched, CountHealthy, latchVars
<1>1. TypeOK'
  BY DEF States, Record
<1>2. LatchMatchesState'
  BY DEF LatchMatchesState
<1>3. RecoveryNotOverdue'
  BY DEF LatchMatchesState, CountersConsistent, RecoveryBookkeeping, RecoveryNotOverdue, Record
<1>4. CountersConsistent'
  BY DEF CountersConsistent, LatchMatchesState, RecoveryBookkeeping, Record
<1>5. RecoveryBookkeeping'
  BY DEF RecoveryBookkeeping, LatchMatchesState, Record
<1>6. PromotionEarnedStep
  BY DEF PromotionEarnedStep, LatchMatchesState, CountersConsistent, RecoveryBookkeeping, Record
<1>7. NoFlappingStep
  BY DEF NoFlappingStep, LatchMatchesState, CountersConsistent, RecoveryBookkeeping, Record
<1> QED
  BY <1>1, <1>2, <1>3, <1>4, <1>5, <1>6, <1>7

(* A healthy probe after a degradation (286-291): applied at once. *)
LEMMA LeaveDegradedIInv ==
  ASSUME NEW o, NEW now, Probed(o, now), LeaveDegraded(o)
  PROVE  IInv' /\ PromotionEarnedStep /\ NoFlappingStep
<1> USE LifecycleConfigAssumption, ClassType
    DEF Probed, IInv, TypeOK, LeaveDegraded, Unlatched, CountHealthy, latchVars
<1>1. TypeOK'
  BY DEF States, Record
<1>2. LatchMatchesState'
  BY DEF LatchMatchesState
<1>3. RecoveryNotOverdue'
  BY DEF LatchMatchesState, CountersConsistent, RecoveryBookkeeping, RecoveryNotOverdue, Record
<1>4. CountersConsistent'
  BY DEF CountersConsistent, LatchMatchesState, RecoveryBookkeeping, Record
<1>5. RecoveryBookkeeping'
  BY DEF RecoveryBookkeeping, LatchMatchesState, Record
<1>6. PromotionEarnedStep
  BY DEF PromotionEarnedStep, LatchMatchesState, CountersConsistent, RecoveryBookkeeping, Record
<1>7. NoFlappingStep
  BY DEF NoFlappingStep, LatchMatchesState, CountersConsistent, RecoveryBookkeeping, Record
<1> QED
  BY <1>1, <1>2, <1>3, <1>4, <1>5, <1>6, <1>7

(* A healthy probe of another class (292-309): counted until confirmed. *)
LEMMA ConfirmChangeIInv ==
  ASSUME NEW o, NEW now, Probed(o, now), ConfirmChange(o)
  PROVE  IInv' /\ PromotionEarnedStep /\ NoFlappingStep
<1> USE LifecycleConfigAssumption, ClassType
    DEF Probed, IInv, TypeOK, ConfirmChange, Unlatched, CountHealthy, latchVars, Count, Need
<1>1. TypeOK'
  BY DEF States, Record
<1>2. LatchMatchesState'
  BY DEF LatchMatchesState
<1>3. RecoveryNotOverdue'
  BY DEF LatchMatchesState, CountersConsistent, RecoveryBookkeeping, RecoveryNotOverdue, Record
<1>4. CountersConsistent'
  BY DEF CountersConsistent, LatchMatchesState, RecoveryBookkeeping, Record
<1>5. RecoveryBookkeeping'
  BY DEF RecoveryBookkeeping, LatchMatchesState, Record
<1>6. PromotionEarnedStep
  BY DEF PromotionEarnedStep, LatchMatchesState, CountersConsistent, RecoveryBookkeeping, Record
<1>7. NoFlappingStep
  BY DEF NoFlappingStep, LatchMatchesState, CountersConsistent, RecoveryBookkeeping, Record
<1> QED
  BY <1>1, <1>2, <1>3, <1>4, <1>5, <1>6, <1>7

(* Whatever branch Step takes, a recorded probe preserves the invariant    *)
(* and obeys both action properties (lifecycle.go:171-310).                *)
LEMMA ProbedIInv ==
  ASSUME NEW o, NEW now, Probed(o, now), Step(o, now)
  PROVE  IInv' /\ PromotionEarnedStep /\ NoFlappingStep
BY HardFailureIInv, SoftThresholdIInv, SoftBelowThresholdOfflineIInv,
   SoftBelowThresholdLatchedIInv, SoftDegradeIInv, BeginRecoveryIInv, ReleaseLatchIInv,
   HoldLatchIInv, SameStateIInv, LeaveDegradedIInv, ConfirmChangeIInv
DEF Step

(* A drain request sets the flag and nothing else (lifecycle.go:82-97).    *)
LEMMA DrainIInv ==
  ASSUME IInv, NEW d \in BOOLEAN, SetDraining(d), UNCHANGED historyVars
  PROVE  IInv' /\ PromotionEarnedStep /\ NoFlappingStep
BY DEF SetDraining, historyVars, pendingVars, streakVars, latchVars, IInv, TypeOK,
       LatchMatchesState, RecoveryNotOverdue, CountersConsistent, RecoveryBookkeeping,
       PromotionEarnedStep, NoFlappingStep

(* The invariant speaks of hvars only.                                     *)
LEMMA StutterIInv ==
  ASSUME IInv, UNCHANGED hvars
  PROVE  IInv'
BY DEF hvars, vars, machineVars, historyVars, pendingVars, streakVars, latchVars, IInv,
       TypeOK, LatchMatchesState, RecoveryNotOverdue, CountersConsistent,
       RecoveryBookkeeping

(* A step of the specification is a recorded probe, a drain request or a   *)
(* stutter; each preserves the invariant and obeys both action properties. *)
LEMMA NextIInv ==
  ASSUME IInv, [HNext]_hvars
  PROVE  IInv' /\ [PromotionEarnedStep]_hvars /\ [NoFlappingStep]_hvars
<1>1. ASSUME NEW o \in Observations, Probe(o), Record(o)
      PROVE  IInv' /\ PromotionEarnedStep /\ NoFlappingStep
  <2>1. PICK now \in (mono + 1) .. (mono + MaxGap) : mono' = now /\ Step(o, now)
    BY <1>1 DEF Probe
  <2>2. Probed(o, now)
    BY <1>1, <2>1, LifecycleConfigAssumption DEF Probed, IInv, TypeOK
  <2> QED
    BY <2>1, <2>2, ProbedIInv
<1> QED
  BY <1>1, DrainIInv, StutterIInv DEF HNext

-----------------------------------------------------------------------------
(* The inductive invariant holds of every behaviour of the machine.        *)
THEOREM LifecycleInvariant == HSpec => []IInv
BY InitIInv, NextIInv, PTL DEF HSpec

(* The machine's fields keep their types (lifecycle.go:51-75).             *)
THEOREM LifecycleTypeOK == HSpec => []TypeOK
<1>1. IInv => TypeOK
  BY DEF IInv
<1> QED
  BY <1>1, LifecycleInvariant, PTL

(* The latch is engaged exactly while the device is shown OFFLINE or       *)
(* RECOVERING (Step, lifecycle.go:171-310).                                *)
THEOREM LatchSafety == HSpec => []LatchMatchesState
<1>1. IInv => LatchMatchesState
  BY DEF IInv
<1> QED
  BY <1>1, LifecycleInvariant, PTL

(* RECOVERING never outlasts the hold and the streak (256-263).            *)
THEOREM RecoveryPromptness == HSpec => []RecoveryNotOverdue
<1>1. IInv => RecoveryNotOverdue
  BY DEF IInv
<1> QED
  BY <1>1, LifecycleInvariant, PTL

(* The machine's counters stay consistent with each other (199-201,        *)
(* 234-235, 253, 292-303).                                                 *)
THEOREM CounterSafety == HSpec => []CountersConsistent
<1>1. IInv => CountersConsistent
  BY DEF IInv
<1> QED
  BY <1>1, LifecycleInvariant, PTL

(* No path promotes a device that was OFFLINE before both the hold and the *)
(* streak are met: the latch of lifecycle.go:63-68 works.                  *)
THEOREM PromotionSafety == HSpec => PromotionEarned
BY LifecycleInvariant, NextIInv, PTL DEF HSpec, PromotionEarned

(* READY and BUSY change places only on ConfirmSamples consecutive probes  *)
(* of the new class (292-305).                                             *)
THEOREM HysteresisSafety == HSpec => NoFlapping
BY LifecycleInvariant, NextIInv, PTL DEF HSpec, NoFlapping

-----------------------------------------------------------------------------
(* The supervisor. *)

Health == [GPUVisible : BOOLEAN, GPUAccessible : BOOLEAN, Timestamp : Nat]

\* Every variable of the supervisor has its type.
STypeOK ==
    /\ vendor \in {"nvidia", "amd", "generic"}
    /\ clock \in Nat
    /\ pollPc \in {"idle", "sampling", "stepped", "others"}
    /\ pollMono \in Nat
    /\ pollHealth \in Health
    /\ wasOffline \in BOOLEAN
    /\ disconnects \in Nat
    /\ rejoins \in Nat
    /\ collected \in BOOLEAN
    /\ lastProbeOK \in BOOLEAN
    /\ lastStatus \in [state : States \cup {""}, health : Health]
    /\ otherStamp \in Nat
    /\ failedPolls \in Nat

\* A poll under way is later than the last one that stepped the machine, and
\* not earlier than any stamp that has been published.
InTime ==
    /\ pollMono <= clock
    /\ lastStatus.health.Timestamp <= clock
    /\ otherStamp <= clock
    /\ pollHealth.Timestamp <= clock
    /\ pollPc = "sampling" => mono < pollMono
    /\ pollPc # "idle" => lastStatus.health.Timestamp <= pollMono /\ otherStamp <= pollMono

\* The machine just had a healthy probe.
JustHealthy == softFailures = 0 /\ healthyStreak > 0

\* What a poll carries from Step to publication, and what is published between
\* polls, is what the machine made of its latest probe.
Agrees ==
    /\ pollPc = "stepped" /\ probeOK(pollHealth) => JustHealthy
    /\ pollPc # "stepped" /\ collected => lastStatus.state = state
    /\ pollPc # "stepped" /\ collected /\ lastProbeOK => JustHealthy

\* The machine counts no failure that was not a failed poll.
FailuresPolled == softFailures <= failedPolls \/ OfflineFailures <= failedPolls

(* The inductive invariant. *)
SInv ==
    /\ IInv
    /\ STypeOK
    /\ InTime
    /\ Agrees
    /\ EdgesMatchOffline
    /\ FailuresPolled

-----------------------------------------------------------------------------
(* What the adapters return (nvidia.go, amd.go, generic.go, faultinject.go):*)
(* a failed sample sees no device, hard evidence is what the tool said,    *)
(* and an invisible device of no class is not accessible either.           *)
LEMMA SampleFacts ==
  ASSUME STypeOK, NEW s \in Samples, NEW access \in Accesses(s)
  PROVE  /\ s.GPUVisible \in BOOLEAN /\ access \in BOOLEAN
         /\ s.LowMem \in BOOLEAN /\ s.HighUtil \in BOOLEAN
         /\ s.Class \in {"none", "soft", "hard"}
         /\ s.Class = "hard" => s.gone
         /\ s.Class # "none" => ~s.GPUVisible
         /\ s.Class = "none" /\ ~s.GPUVisible => ~access
<1>1. PICK f \in Faults, c \in Commands : s = Sampled(vendor, f, c)
  BY DEF Samples
<1>2. c.deadline \in BOOLEAN /\ c.exitZero \in BOOLEAN /\ c.marker \in BOOLEAN
      /\ c.stdout \in {"row", "nothing", "malformed"} /\ c.reading \in Reading
  BY SupervisorAssumption DEF Command
<1>3. f \in {"none", "soft", "hard"} /\ vendor \in {"nvidia", "amd", "generic"}
  BY DEF Faults, STypeOK
<1> DEFINE v == InjectedSample(f, vendor, c)
<1>4. s = [GPUVisible |-> v.GPUVisible, Class |-> v.Class, LowMem |-> LowFreeMem(v.reading),
           HighUtil |-> HighUtilization(v.reading), gone |-> SaysGone(f, vendor, c)]
  BY <1>1 DEF Sampled
<1>5. /\ s.GPUVisible = v.GPUVisible /\ s.Class = v.Class
      /\ s.LowMem = LowFreeMem(v.reading) /\ s.HighUtil = HighUtilization(v.reading)
      /\ s.gone = SaysGone(f, vendor, c)
  BY <1>4
<1>6. /\ v.GPUVisible \in BOOLEAN
      /\ v.Class \in {"none", "soft", "hard"}
      /\ v.Class # "none" => ~v.GPUVisible
      /\ v.Class = "none" /\ ~v.GPUVisible => vendor = "generic"
  BY <1>2, <1>3
  DEF InjectedSample, VendorSample, SampleNVIDIA, SampleAMD, NotSeen, SeenBy,
      classifyFailure
<1>7. v.Class = "hard" => SaysGone(f, vendor, c)
  <2>1. CASE f # "none"
    BY <2>1, <1>3 DEF InjectedSample, NotSeen, SaysGone
  <2>2. CASE f = "none" /\ vendor = "generic"
    BY <2>2 DEF InjectedSample, VendorSample, NotSeen, SaysGone
  <2>3. CASE f = "none" /\ vendor = "nvidia"
    BY <2>3, <1>2
    DEF InjectedSample, VendorSample, SampleNVIDIA, NotSeen, SeenBy, classifyFailure,
        SaysGone, RunFails
  <2>4. CASE f = "none" /\ vendor = "amd"
    BY <2>4, <1>2
    DEF InjectedSample, VendorSample, SampleAMD, NotSeen, SeenBy, classifyFailure,
        SaysGone, RunFails
  <2> QED
    BY <2>1, <2>2, <2>3, <2>4, <1>3
<1>8. LowFreeMem(v.reading) \in BOOLEAN /\ HighUtilization(v.reading) \in BOOLEAN
  BY DEF LowFreeMem, HighUtilization
<1>9. access \in BOOLEAN /\ (vendor = "generic" /\ ~s.GPUVisible => ~access)
  <2>1. CASE AccessProbeEach
    <3>1. PICK g \in Faults, b \in Commands : access = InjectedAccess(g, vendor, b)
      BY <2>1 DEF Accesses
    <3>2. InjectedAccess(g, vendor, b) \in BOOLEAN
      BY DEF InjectedAccess
    <3>3. vendor = "generic" => ~InjectedAccess(g, vendor, b)
      BY DEF InjectedAccess, VendorAccess
    <3> QED
      BY <3>1, <3>2, <3>3
  <2>2. CASE ~AccessProbeEach
    BY <2>2, <1>5, <1>6 DEF Accesses
  <2> QED
    BY <2>1, <2>2
<1> HIDE DEF v
<1>10. s.Class = "hard" => s.gone
  BY <1>5, <1>7
<1> QED
  BY <1>5, <1>6, <1>8, <1>9, <1>10

(* How pollDevice reads a sample (supervisor.go:236-258): it is healthy to *)
(* the machine exactly when the probe was successful, and hard only when   *)
(* the tool said that the device is gone.                                  *)
LEMMA ReadingFacts ==
  ASSUME STypeOK, NEW s \in Samples, NEW access \in Accesses(s), NEW j \in Judgements
  PROVE  LET o == ObservationOf(s, access, j)
         IN  /\ o \in Observation
             /\ Healthy(o) <=> (s.GPUVisible /\ access)
             /\ Hard(o) => s.gone
<1> DEFINE o == ObservationOf(s, access, j)
<1>1. j.LowStability \in BOOLEAN /\ j.NewUncorr \in BOOLEAN
  BY SupervisorAssumption DEF Judgement
<1>2. /\ s.GPUVisible \in BOOLEAN /\ access \in BOOLEAN
      /\ s.LowMem \in BOOLEAN /\ s.HighUtil \in BOOLEAN
      /\ s.Class \in {"none", "soft", "hard"}
      /\ s.Class = "hard" => s.gone
      /\ s.Class # "none" => ~s.GPUVisible
      /\ s.Class = "none" /\ ~s.GPUVisible => ~access
  BY SampleFacts
<1>3. o \in Observation
  BY <1>1, <1>2 DEF ObservationOf, Observation, hardEvidence, softFailure
<1>4. /\ o.ProbeOK <=> (s.GPUVisible /\ access)
      /\ o.GPUVisible <=> s.GPUVisible
      /\ o.GPUAccessible <=> access
      /\ o.HardOfflineEvidence <=> s.Class = "hard"
      /\ o.SoftFailure <=> (s.Class = "soft" \/ (s.Class = "none" /\ ~access))
  BY <1>2 DEF ObservationOf, hardEvidence, softFailure
<1> HIDE DEF o
<1>5. Hard(o) <=> s.Class = "hard"
  BY <1>2, <1>4 DEF Hard
<1>6. Healthy(o) <=> (s.GPUVisible /\ access)
  BY <1>2, <1>4, <1>5 DEF Healthy, Soft
<1> QED
  BY <1>2, <1>3, <1>5, <1>6 DEF o

(* Where a step of the machine may go (lifecycle.go:171-310): the rules of *)
(* DeviceStatus, what takes it to OFFLINE, and what a probe does to the    *)
(* count of soft failures.                                                 *)
LEMMA StepRules ==
  ASSUME IInv, NEW o, NEW now, Step(o, now)
  PROVE  /\ state = "OFFLINE" => state' \in {"OFFLINE", "RECOVERING"}
         /\ state' = "RECOVERING" => state \in {"OFFLINE", "RECOVERING"}
         /\ state' = "DRAINING" => draining \/ state = "DRAINING"
         /\ state' = "UNKNOWN" => state = "UNKNOWN"
         /\ draining' = draining
         /\ state' = "OFFLINE" /\ state # "OFFLINE"
              => Hard(o) \/ (Soft(o) /\ softFailures + 1 >= OfflineFailures)
         /\ Healthy(o) => softFailures' = 0 /\ healthyStreak' = healthyStreak + 1
         /\ softFailures' = 0 \/ softFailures' = softFailures + 1
<1> USE DEF IInv, LatchMatchesState, TypeOK, Healthy
<1>1. CASE HardFailure(o)
  BY <1>1 DEF HardFailure, EnterOffline
<1>2. CASE SoftThreshold(o)
  BY <1>2 DEF SoftThreshold, CountSoftFailure, EnterOffline
<1>3. CASE SoftBelowThresholdOffline(o) \/ SoftBelowThresholdLatched(o) \/ SoftDegrade(o)
  BY <1>3 DEF SoftBelowThresholdOffline, SoftBelowThresholdLatched, SoftDegrade, CountSoftFailure
<1>4. CASE BeginRecovery(o, now)
  BY <1>4 DEF BeginRecovery, CountHealthy
<1>5. CASE ReleaseLatch(o, now) \/ HoldLatch(o, now)
  BY <1>5 DEF ReleaseLatch, HoldLatch, CountHealthy, classifyHealthy
<1>6. CASE SameState(o) \/ LeaveDegraded(o) \/ ConfirmChange(o)
  BY <1>6 DEF SameState, LeaveDegraded, ConfirmChange, Unlatched, CountHealthy, classifyHealthy
<1> QED
  BY <1>1, <1>2, <1>3, <1>4, <1>5, <1>6 DEF Step

(* The initial state satisfies the invariant. *)
LEMMA SInitSInv == SInit => SInv
<1> SUFFICES ASSUME SInit PROVE SInv
  OBVIOUS
<1>1. IInv
  BY InitIInv DEF SInit
<1>2. /\ clock = 1 /\ pollPc = "idle" /\ pollMono = 0
      /\ disconnects = 0 /\ rejoins = 0 /\ otherStamp = 0 /\ failedPolls = 0
      /\ state = "UNKNOWN" /\ softFailures = 0
  BY DEF SInit, HInit, Init
<1>3. pollHealth = NoHealth /\ lastStatus = [state |-> "", health |-> NoHealth]
  BY DEF SInit
<1>4. ~wasOffline /\ ~collected /\ ~lastProbeOK
  BY DEF SInit
<1>5. STypeOK
  <2>1. vendor \in {"nvidia", "amd", "generic"}
    BY DEF SInit, Detect
  <2>2. NoHealth \in Health /\ "" \in States \cup {""}
    BY DEF NoHealth, Health
  <2>3. lastStatus \in [state : States \cup {""}, health : Health]
    BY <1>3, <2>2
  <2>4. wasOffline \in BOOLEAN /\ collected \in BOOLEAN /\ lastProbeOK \in BOOLEAN
    BY DEF SInit
  <2> QED
    BY <1>2, <1>3, <2>1, <2>2, <2>3, <2>4 DEF STypeOK
<1>6. InTime
  <2>1. lastStatus.health.Timestamp = 0 /\ pollHealth.Timestamp = 0
    BY <1>3 DEF NoHealth
  <2> QED
    BY <1>2, <2>1 DEF InTime
<1>7. Agrees
  BY <1>2, <1>4 DEF Agrees
<1>8. EdgesMatchOffline
  BY <1>2, <1>4 DEF EdgesMatchOffline
<1>9. FailuresPolled
  BY <1>2 DEF FailuresPolled
<1> QED
  BY <1>1, <1>5, <1>6, <1>7, <1>8, <1>9 DEF SInv

-----------------------------------------------------------------------------
(* Sample and Step (supervisor.go:230-339): the machine is stepped with    *)
(* the clock of the poll's start, which is later than its last step.       *)
LEMMA PollStepSInv ==
  ASSUME SInv, NEW s \in Samples, NEW access \in Accesses(s), NEW j \in Judgements,
         PollStep(s, access, j)
  PROVE  /\ SInv'
         /\ PromotionEarnedStep /\ NoFlappingStep /\ OfflineEarnedStep
<1> DEFINE o == ObservationOf(s, access, j)
<1>1. /\ o \in Observation
      /\ Healthy(o) <=> (s.GPUVisible /\ access)
      /\ Hard(o) => s.gone
  BY ReadingFacts DEF SInv
<1>2. /\ pollPc = "sampling" /\ pollPc' = "stepped"
      /\ mono' = pollMono /\ Step(o, pollMono) /\ Record(o)
      /\ UNCHANGED <<vendor, clock, pollMono, publishedVars>>
  BY DEF PollStep
<1> HIDE DEF o
<1>3. Probed(o, pollMono)
  BY <1>1, <1>2 DEF Probed, SInv, STypeOK, InTime
<1>4. IInv' /\ PromotionEarnedStep /\ NoFlappingStep
  BY <1>2, <1>3, ProbedIInv
<1>5. /\ state = "OFFLINE" => state' \in {"OFFLINE", "RECOVERING"}
      /\ state' = "RECOVERING" => state \in {"OFFLINE", "RECOVERING"}
      /\ state' = "OFFLINE" /\ state # "OFFLINE"
           => Hard(o) \/ (Soft(o) /\ softFailures + 1 >= OfflineFailures)
      /\ Healthy(o) => softFailures' = 0 /\ healthyStreak' = healthyStreak + 1
      /\ softFailures' = 0 \/ softFailures' = softFailures + 1
  BY <1>2, StepRules DEF SInv
<1>6. s.GPUVisible \in BOOLEAN /\ access \in BOOLEAN
  BY SampleFacts DEF SInv
<1>7. PICK stamp \in pollMono .. clock :
          pollHealth' = [GPUVisible |-> s.GPUVisible, GPUAccessible |-> access,
                         Timestamp |-> stamp]
  BY DEF PollStep
<1>8. clock \in Nat /\ pollMono \in Nat /\ failedPolls \in Nat
       /\ disconnects \in Nat /\ rejoins \in Nat
  BY DEF SInv, STypeOK
<1>9. pollHealth' \in Health /\ pollHealth'.Timestamp <= clock
      /\ (probeOK(pollHealth') <=> (s.GPUVisible /\ access))
  <2>1. stamp \in Nat /\ stamp <= clock
    BY <1>8
  <2>2. pollHealth' \in Health /\ pollHealth'.Timestamp = stamp
    BY <1>6, <1>7, <2>1 DEF Health
  <2>3. probeOK(pollHealth') <=> (s.GPUVisible /\ access)
    BY <1>7 DEF probeOK
  <2> QED
    BY <2>1, <2>2, <2>3
<1>10. wasOffline' = (state' = "OFFLINE" \/ (wasOffline /\ state' # "RECOVERING"))
  BY DEF PollStep, OfflineEdges
<1>11. /\ disconnects' = IF state' = "OFFLINE" /\ ~wasOffline THEN disconnects + 1 ELSE disconnects
      /\ rejoins' = IF wasOffline /\ state' = "RECOVERING" THEN rejoins + 1 ELSE rejoins
  BY DEF PollStep, OfflineEdges
<1>12. /\ saidGone' = s.gone
       /\ failedPolls' = IF s.GPUVisible /\ access THEN 0
                         ELSE IF failedPolls < OfflineFailures THEN failedPolls + 1
                         ELSE failedPolls
  BY DEF PollStep, RecordSaid
<1>13. STypeOK'
  <2>1. wasOffline' \in BOOLEAN
    BY <1>10
  <2>2. disconnects' \in Nat /\ rejoins' \in Nat
    BY <1>8, <1>11
  <2>3. failedPolls' \in Nat
    BY <1>8, <1>12
  <2> QED
    BY <1>2, <1>9, <2>1, <2>2, <2>3 DEF SInv, STypeOK, publishedVars
<1>14. InTime'
  BY <1>2, <1>9 DEF SInv, InTime, publishedVars
<1>15. Agrees'
  <2>1. probeOK(pollHealth') => softFailures' = 0 /\ healthyStreak' = healthyStreak + 1
    BY <1>1, <1>5, <1>9
  <2>2. healthyStreak \in Nat
    BY DEF SInv, IInv, TypeOK
  <2>3. probeOK(pollHealth)' => JustHealthy'
    BY <2>1, <2>2 DEF JustHealthy, probeOK
  <2> QED
    BY <1>2, <2>3 DEF Agrees
<1>16. EdgesMatchOffline'
  <2>1. wasOffline <=> state = "OFFLINE"
    BY DEF SInv, EdgesMatchOffline
  <2>2. wasOffline' <=> state' = "OFFLINE"
    BY <1>5, <1>10, <2>1
  <2>3. disconnects = rejoins + (IF wasOffline THEN 1 ELSE 0)
    BY DEF SInv, EdgesMatchOffline
  <2>4. disconnects' = rejoins' + (IF wasOffline' THEN 1 ELSE 0)
    BY <1>5, <1>8, <1>11, <2>1, <2>2, <2>3
  <2> QED
    BY <2>2, <2>4 DEF EdgesMatchOffline
<1>17. FailuresPolled' /\ OfflineEarnedStep
  <2>1. /\ softFailures \in Nat /\ failedPolls \in Nat /\ OfflineFailures \in Int
        /\ softFailures <= failedPolls \/ OfflineFailures <= failedPolls
    BY LifecycleConfigAssumption DEF SInv, IInv, TypeOK, STypeOK, FailuresPolled
  <2>2. CASE s.GPUVisible /\ access
    <3>1. failedPolls' = 0 /\ softFailures' = 0
      BY <1>1, <1>5, <1>12, <2>2
    <3>2. ~Soft(o) /\ ~Hard(o)
      BY <1>1, <2>2 DEF Healthy
    <3> QED
      BY <1>5, <3>1, <3>2 DEF FailuresPolled, OfflineEarnedStep
  <2>3. CASE ~(s.GPUVisible /\ access)
    <3>1. failedPolls' = IF failedPolls < OfflineFailures THEN failedPolls + 1 ELSE failedPolls
      BY <1>12, <2>3
    <3>2. softFailures' <= failedPolls' \/ OfflineFailures <= failedPolls'
      BY <1>5, <2>1, <3>1
    <3>3. softFailures + 1 >= OfflineFailures => failedPolls' >= OfflineFailures
      BY <2>1, <3>1
    <3>4. Hard(o) => saidGone'
      BY <1>1, <1>12
    <3> QED
      BY <1>5, <3>2, <3>3, <3>4 DEF FailuresPolled, OfflineEarnedStep
  <2> QED
    BY <2>2, <2>3
<1> QED
  BY <1>4, <1>13, <1>14, <1>15, <1>16, <1>17 DEF SInv

(* The other actions of a poll, the clock and the readers leave the        *)
(* machine and the edges alone.                                            *)
LEMMA MachineQuiet ==
  ASSUME SInv, UNCHANGED <<hvars, edgeVars, failedPolls>>
  PROVE  IInv' /\ EdgesMatchOffline' /\ FailuresPolled' /\ OfflineEarnedStep
<1>1. UNCHANGED hvars /\ UNCHANGED state /\ UNCHANGED softFailures
  BY DEF hvars, vars, machineVars, streakVars
<1>2. IInv'
  BY <1>1, StutterIInv DEF SInv
<1>3. EdgesMatchOffline'
  BY <1>1 DEF SInv, EdgesMatchOffline, edgeVars
<1>4. FailuresPolled' /\ OfflineEarnedStep
  BY <1>1 DEF SInv, FailuresPolled, OfflineEarnedStep
<1> QED
  BY <1>2, <1>3, <1>4

(* A poll of this device or of another one starts (220-229): its clock     *)
(* reading is later than every stamp published before.                     *)
LEMMA StartSInv ==
  ASSUME SInv, PollStart \/ OthersStart
  PROVE  SInv' /\ OfflineEarnedStep
<1>1. /\ pollPc = "idle" /\ pollPc' \in {"sampling", "others"}
      /\ pollMono' = clock /\ (pollPc' = "sampling" => mono < clock)
      /\ UNCHANGED <<hvars, vendor, clock, pollHealth, edgeVars, publishedVars, saidVars>>
  BY DEF PollStart, OthersStart
<1>2. IInv' /\ EdgesMatchOffline' /\ FailuresPolled' /\ OfflineEarnedStep
  BY <1>1, MachineQuiet DEF saidVars
<1>3. STypeOK'
  BY <1>1 DEF SInv, STypeOK, edgeVars, publishedVars, saidVars
<1>4. InTime'
  <2>1. clock \in Nat /\ lastStatus.health.Timestamp <= clock /\ otherStamp <= clock
        /\ pollHealth.Timestamp <= clock
    BY DEF SInv, STypeOK, InTime
  <2>2. UNCHANGED <<mono, clock, pollHealth, lastStatus, otherStamp>>
    BY <1>1 DEF publishedVars, hvars, vars
  <2>3. clock <= clock
    BY <2>1
  <2> QED
    BY <1>1, <2>1, <2>2, <2>3 DEF InTime
<1>5. Agrees'
  BY <1>1 DEF SInv, Agrees, JustHealthy, publishedVars, hvars, vars, machineVars, streakVars
<1> QED
  BY <1>2, <1>3, <1>4, <1>5 DEF SInv

(* The status is published (341-370): what the poll carried from Step.     *)
LEMMA PollPublishSInv ==
  ASSUME SInv, PollPublish
  PROVE  SInv' /\ OfflineEarnedStep
<1>1. /\ pollPc = "stepped" /\ pollPc' = "idle" /\ pollMono' = 0
      /\ lastStatus' = [state |-> state, health |-> pollHealth]
      /\ collected' = TRUE /\ lastProbeOK' = probeOK(pollHealth)
      /\ pollHealth' = NoHealth
      /\ UNCHANGED <<hvars, vendor, clock, otherStamp, edgeVars, failedPolls>>
  BY DEF PollPublish, PublishedStatus
<1>2. IInv' /\ EdgesMatchOffline' /\ FailuresPolled' /\ OfflineEarnedStep
  BY <1>1, MachineQuiet
<1>3. UNCHANGED state /\ UNCHANGED <<softFailures, healthyStreak>>
  BY <1>1 DEF hvars, vars, machineVars, streakVars
<1>4. lastStatus'.state = state /\ lastStatus'.health = pollHealth /\ NoHealth.Timestamp = 0
  BY <1>1 DEF NoHealth
<1>5. clock \in Nat /\ otherStamp <= clock /\ pollHealth.Timestamp <= clock
  BY DEF SInv, STypeOK, InTime
<1>6. STypeOK'
  <2>1. NoHealth \in Health
    BY DEF NoHealth, Health
  <2>2. lastStatus' \in [state : States \cup {""}, health : Health]
    BY <1>1 DEF SInv, STypeOK, IInv, TypeOK
  <2>3. lastProbeOK' \in BOOLEAN
    BY <1>1 DEF probeOK, SInv, STypeOK, Health
  <2> QED
    BY <1>1, <2>1, <2>2, <2>3 DEF SInv, STypeOK, edgeVars
<1>7. InTime'
  BY <1>1, <1>4, <1>5 DEF InTime
<1>8. Agrees'
  <2>1. probeOK(pollHealth) => JustHealthy
    BY <1>1 DEF SInv, Agrees
  <2>2. lastProbeOK' => JustHealthy'
    BY <1>1, <1>3, <2>1 DEF JustHealthy
  <2> QED
    BY <1>1, <1>3, <1>4, <2>2 DEF Agrees
<1> QED
  BY <1>2, <1>6, <1>7, <1>8 DEF SInv

(* Another device's status is published, with a stamp of its own poll.     *)
LEMMA OthersPublishSInv ==
  ASSUME SInv, OthersPublish
  PROVE  SInv' /\ OfflineEarnedStep
<1>1. /\ pollPc = "others" /\ pollPc' = "idle" /\ pollMono' = 0
      /\ otherStamp' \in pollMono .. clock
      /\ UNCHANGED <<hvars, vendor, clock, pollHealth, edgeVars, collected, lastProbeOK,
                     hasSample, lastSampleWall, lastStatus, saidVars>>
  BY DEF OthersPublish
<1>2. IInv' /\ EdgesMatchOffline' /\ FailuresPolled' /\ OfflineEarnedStep
  BY <1>1, MachineQuiet DEF saidVars
<1>3. clock \in Nat /\ pollMono \in Nat
  BY DEF SInv, STypeOK
<1>4. otherStamp' \in Nat /\ otherStamp' <= clock
  BY <1>1, <1>3
<1>5. STypeOK'
  BY <1>1, <1>4 DEF SInv, STypeOK, edgeVars, saidVars
<1>6. InTime'
  BY <1>1, <1>3, <1>4 DEF SInv, InTime
<1>7. Agrees'
  BY <1>1 DEF SInv, Agrees, JustHealthy, hvars, vars, machineVars, streakVars
<1> QED
  BY <1>2, <1>5, <1>6, <1>7 DEF SInv

(* A drain request takes the machine's mutex only (463-484).               *)
LEMMA DrainSInv ==
  ASSUME SInv, NEW d \in BOOLEAN, Drain(d)
  PROVE  SInv' /\ PromotionEarnedStep /\ NoFlappingStep /\ OfflineEarnedStep
<1>1. /\ SetDraining(d)
      /\ UNCHANGED <<historyVars, vendor, clock, pollVars, edgeVars, publishedVars, saidVars>>
  BY DEF Drain
<1>2. IInv' /\ PromotionEarnedStep /\ NoFlappingStep
  BY <1>1, DrainIInv DEF SInv
<1>3. UNCHANGED <<state, softFailures, healthyStreak, mono>>
  BY <1>1 DEF SetDraining, streakVars
<1>4. STypeOK'
  BY <1>1 DEF SInv, STypeOK, pollVars, edgeVars, publishedVars, saidVars
<1>5. InTime'
  BY <1>1, <1>3 DEF SInv, InTime, pollVars, publishedVars
<1>6. Agrees'
  BY <1>1, <1>3 DEF SInv, Agrees, JustHealthy, pollVars, publishedVars
<1>7. EdgesMatchOffline'
  BY <1>1, <1>3 DEF SInv, EdgesMatchOffline, edgeVars
<1>8. FailuresPolled' /\ OfflineEarnedStep
  BY <1>1, <1>3 DEF SInv, FailuresPolled, OfflineEarnedStep, saidVars
<1> QED
  BY <1>2, <1>4, <1>5, <1>6, <1>7, <1>8 DEF SInv

(* Time passes, or nothing happens. *)
LEMMA TickSInv ==
  ASSUME SInv, Tick \/ UNCHANGED svars
  PROVE  SInv' /\ OfflineEarnedStep
<1>1. UNCHANGED <<hvars, vendor, pollVars, edgeVars, publishedVars, saidVars>>
  BY DEF Tick, svars
<1>2. clock \in Nat /\ clock' \in Nat /\ clock <= clock'
  <2>1. clock \in Nat
    BY DEF SInv, STypeOK
  <2>2. clock' = clock + 1 \/ clock' = clock
    BY DEF Tick, svars
  <2> QED
    BY <2>1, <2>2
<1>3. IInv' /\ EdgesMatchOffline' /\ FailuresPolled' /\ OfflineEarnedStep
  BY <1>1, MachineQuiet DEF saidVars
<1>4. STypeOK'
  BY <1>1, <1>2 DEF SInv, STypeOK, pollVars, edgeVars, publishedVars, saidVars
<1>5. InTime'
  <2>1. UNCHANGED <<mono, pollPc, pollMono, pollHealth, lastStatus, otherStamp>>
    BY <1>1 DEF pollVars, publishedVars, hvars, vars
  <2>2. /\ pollMono \in Nat /\ otherStamp \in Nat
        /\ lastStatus.health.Timestamp \in Nat /\ pollHealth.Timestamp \in Nat
    BY DEF SInv, STypeOK, Health
  <2>3. /\ pollMono <= clock' /\ otherStamp <= clock'
        /\ lastStatus.health.Timestamp <= clock' /\ pollHealth.Timestamp <= clock'
    BY <1>2, <2>2 DEF SInv, InTime
  <2> QED
    BY <2>1, <2>3 DEF SInv, InTime
<1>6. Agrees'
  BY <1>1
  DEF SInv, Agrees, JustHealthy, pollVars, publishedVars, hvars, vars, machineVars, streakVars
<1> QED
  BY <1>3, <1>4, <1>5, <1>6 DEF SInv

-----------------------------------------------------------------------------
(* Every step keeps the invariant and obeys the rules. *)
LEMMA SNextSInv ==
  ASSUME SInv, [SNext]_svars
  PROVE  /\ SInv'
         /\ [PromotionEarnedStep]_hvars /\ [NoFlappingStep]_hvars
         /\ OfflineEarnedStep
<1>1. CASE \E s \in Samples, j \in Judgements : \E access \in Accesses(s) : PollStep(s, access, j)
  BY <1>1, PollStepSInv
<1>2. CASE \E d \in BOOLEAN : Drain(d)
  BY <1>2, DrainSInv
<1>3. CASE PollStart \/ OthersStart
  <2>1. UNCHANGED hvars
    BY <1>3 DEF PollStart, OthersStart
  <2> QED
    BY <1>3, <2>1, StartSInv
<1>4. CASE PollPublish
  <2>1. UNCHANGED hvars
    BY <1>4 DEF PollPublish
  <2> QED
    BY <1>4, <2>1, PollPublishSInv
<1>5. CASE OthersPublish
  <2>1. UNCHANGED hvars
    BY <1>5 DEF OthersPublish
  <2> QED
    BY <1>5, <2>1, OthersPublishSInv
<1>6. CASE Tick \/ UNCHANGED svars
  <2>1. UNCHANGED hvars
    BY <1>6 DEF Tick, svars
  <2> QED
    BY <1>6, <2>1, TickSInv
<1> QED
  BY <1>1, <1>2, <1>3, <1>4, <1>5, <1>6 DEF SNext

(* The invariant gives readiness its meaning. *)
LEMMA ReadyMeans ==
  ASSUME SInv
  PROVE  ReadyMeansHealthy
<1> SUFFICES ASSUME deviceReady
             PROVE  /\ pollPc # "stepped" => softFailures = 0 /\ healthyStreak > 0 /\ ~wasOffline
                    /\ pollPc # "idle" => clock - pollMono <= StallLimit
  BY DEF ReadyMeansHealthy
<1>1. collected /\ lastProbeOK /\ lastStatus.state # "OFFLINE" /\ ~collectorStalled
  BY DEF deviceReady
<1>2. ASSUME pollPc # "stepped"
      PROVE  softFailures = 0 /\ healthyStreak > 0 /\ ~wasOffline
  <2>1. JustHealthy /\ state # "OFFLINE"
    BY <1>1, <1>2 DEF SInv, Agrees
  <2>2. ~wasOffline
    BY <2>1 DEF SInv, EdgesMatchOffline
  <2> QED
    BY <2>1, <2>2 DEF JustHealthy
<1>3. ASSUME pollPc # "idle"
      PROVE  clock - pollMono <= StallLimit
  <2>1. /\ clock \in Nat /\ pollMono \in Nat /\ otherStamp \in Nat
        /\ lastStatus.health.Timestamp \in Nat
    BY DEF SInv, STypeOK, Health
  <2>2. lastStatus.health.Timestamp <= pollMono /\ otherStamp <= pollMono
    BY <1>3 DEF SInv, InTime
  <2>3. \/ ~(clock - lastStatus.health.Timestamp > StallLimit)
        \/ ~(clock - otherStamp > StallLimit)
    BY <1>1 DEF collectorStalled
  <2>4. StallLimit \in Nat
    BY SupervisorAssumption
  <2> QED
    BY ONLY <2>1, <2>2, <2>3, <2>4
<1> QED
  BY <1>2, <1>3

-----------------------------------------------------------------------------
(* The invariant holds whatever the adapter returns and whenever the poll, *)
(* the drain request and the clock interleave.                             *)
THEOREM SupervisorInvariance == SSpec => []SInv
<1>1. SInit => SInv
  BY SInitSInv
<1>2. SInv /\ [SNext]_svars => SInv'
  BY SNextSInv
<1> QED
  BY <1>1, <1>2, PTL DEF SSpec

(* Disconnects and rejoins alternate and match the machine                 *)
(* (supervisor.go:313-329).                                                *)
THEOREM EdgesAlwaysMatch == SSpec => []EdgesMatchOffline
<1>1. SInv => EdgesMatchOffline
  BY DEF SInv
<1> QED
  BY <1>1, SupervisorInvariance, PTL

(* A device reported ready is ready, for every stall limit and every       *)
(* interleaving with the polls of other devices (supervisor.go:672-695).   *)
THEOREM ReadyIsHealthy == SSpec => []ReadyMeansHealthy
<1>1. SInv => ReadyMeansHealthy
  BY ReadyMeans
<1> QED
  BY <1>1, SupervisorInvariance, PTL

(* The latch of a supervised machine is engaged exactly in RECOVERING      *)
(* or OFFLINE (Step, lifecycle.go:171-310).                                 *)
THEOREM SupervisedLatch == SSpec => []LatchMatchesState
<1>1. SInv => LatchMatchesState
  BY DEF SInv, IInv
<1> QED
  BY <1>1, SupervisorInvariance, PTL

(* A supervised device leaves RECOVERING on the poll that completes the    *)
(* hold and the streak (lifecycle.go:256-263).                             *)
THEOREM SupervisedRecovery == SSpec => []RecoveryNotOverdue
<1>1. SInv => RecoveryNotOverdue
  BY DEF SInv, IInv
<1> QED
  BY <1>1, SupervisorInvariance, PTL

(* Only the tool's own words, or OfflineFailures failed polls in a row,    *)
(* declare a device OFFLINE (nvidia.go:266-283, lifecycle.go:125-132).     *)
THEOREM OfflineIsEarned == SSpec => OfflineEarned
<1>1. SInv /\ [SNext]_svars => [OfflineEarnedStep]_svars
  BY SNextSInv
<1> QED
  BY <1>1, SupervisorInvariance, PTL DEF SSpec, OfflineEarned

(* A recovered device is promoted only by the hold and the streak          *)
(* together (lifecycle.go:63-68, 256-263).                                 *)
THEOREM SupervisedPromotion == SSpec => PromotionEarned
<1>1. SInv /\ [SNext]_svars => [PromotionEarnedStep]_hvars
  BY SNextSInv
<1> QED
  BY <1>1, SupervisorInvariance, PTL DEF SSpec, PromotionEarned

(* Hysteresis holds for a supervised device (lifecycle.go:292-305).        *)
THEOREM SupervisedNoFlapping == SSpec => NoFlapping
<1>1. SInv /\ [SNext]_svars => [NoFlappingStep]_hvars
  BY SNextSInv
<1> QED
  BY <1>1, SupervisorInvariance, PTL DEF SSpec, NoFlapping

-----------------------------------------------------------------------------
(* The first state of the supervisor is the first one of DeviceStatus.     *)
LEMMA StatusInitially ==
  ASSUME SInit
  PROVE  Promised!StatusInit
<1>1. state = "UNKNOWN" /\ draining = FALSE
  BY DEF SInit, HInit, Init
<1>2. pollPc = "idle" /\ lastStatus.state = ""
  BY DEF SInit
<1>3. (pollPc = "stepped") = FALSE
  BY <1>2
<1> QED
  BY <1>1, <1>2, <1>3 DEF Promised!StatusInit

(* Step decides, publication shows, a drain request sets the flag, and     *)
(* nothing else is visible to a reader of the status.                      *)
LEMMA StatusStep ==
  ASSUME SInv, [SNext]_svars
  PROVE  [Promised!StatusNext]_Promised!statusVars
<1>1. ASSUME NEW s \in Samples, NEW j \in Judgements, NEW access \in Accesses(s),
             PollStep(s, access, j)
      PROVE  Promised!StatusNext
  <2>1. Step(ObservationOf(s, access, j), pollMono)
    BY <1>1 DEF PollStep
  <2>2. /\ state = "OFFLINE" => state' \in {"OFFLINE", "RECOVERING"}
        /\ state' = "RECOVERING" => state \in {"OFFLINE", "RECOVERING"}
        /\ state' = "DRAINING" => draining \/ state = "DRAINING"
        /\ state' = "UNKNOWN" => state = "UNKNOWN"
        /\ draining' = draining
    BY <2>1, StepRules DEF SInv
  <2>3. pollPc = "sampling" /\ pollPc' = "stepped" /\ lastStatus' = lastStatus
    BY <1>1 DEF PollStep, publishedVars
  <2>4. ~(pollPc = "stepped") /\ (pollPc' = "stepped") = TRUE
    BY <2>3
  <2>5. Promised!Decide(state')
    BY <2>2, <2>3, <2>4 DEF Promised!Decide
  <2>6. state' \in States
    BY <1>1, PollStepSInv DEF SInv, IInv, TypeOK
  <2> QED
    BY <2>5, <2>6 DEF Promised!StatusNext
<1>2. ASSUME PollPublish
      PROVE  Promised!StatusNext
  <2>1. UNCHANGED <<state, draining>>
    BY <1>2 DEF PollPublish, hvars, vars, machineVars
  <2>2. pollPc = "stepped" /\ pollPc' = "idle" /\ lastStatus'.state = state
    BY <1>2 DEF PollPublish, PublishedStatus
  <2>3. (pollPc' = "stepped") = FALSE
    BY <2>2
  <2> QED
    BY <2>1, <2>2, <2>3 DEF Promised!StatusNext, Promised!Show
<1>3. ASSUME NEW d \in BOOLEAN, Drain(d)
      PROVE  Promised!StatusNext
  <2>1. draining' = d /\ UNCHANGED state
    BY <1>3 DEF Drain, SetDraining
  <2>2. UNCHANGED <<pollPc, lastStatus>>
    BY <1>3 DEF Drain, pollVars, publishedVars
  <2>3. Promised!SetDrain(d)
    BY <2>1, <2>2 DEF Promised!SetDrain
  <2> QED
    BY <2>3 DEF Promised!StatusNext
<1>4. ASSUME PollStart \/ OthersStart \/ OthersPublish \/ Tick \/ UNCHANGED svars
      PROVE  UNCHANGED Promised!statusVars
  <2>1. UNCHANGED hvars
    BY <1>4 DEF PollStart, OthersStart, OthersPublish, Tick, svars
  <2>2. UNCHANGED <<state, draining>>
    BY <2>1 DEF hvars, vars, machineVars
  <2>3. UNCHANGED lastStatus
    BY <1>4 DEF PollStart, OthersStart, OthersPublish, Tick, svars, publishedVars
  <2>4. (pollPc # "stepped" /\ pollPc' # "stepped") \/ UNCHANGED pollPc
    BY <1>4 DEF PollStart, OthersStart, OthersPublish, Tick, svars, pollVars
  <2>5. (pollPc' = "stepped") = (pollPc = "stepped")
    BY <2>4
  <2> QED
    BY <2>2, <2>3, <2>5 DEF Promised!statusVars
<1> QED
  BY <1>1, <1>2, <1>3, <1>4 DEF SNext

(* The supervisor keeps what it promises to the readers of the published   *)
(* status (supervisor.go:219-370).                                         *)
THEOREM StatusRefinement == SSpec => ImplementsDeviceStatus
<1>1. SInit => Promised!StatusInit
  BY StatusInitially
<1>2. SInv /\ [SNext]_svars => [Promised!StatusNext]_Promised!statusVars
  BY StatusStep
<1> QED
  BY <1>1, <1>2, SupervisorInvariance, PTL DEF SSpec, ImplementsDeviceStatus, Promised!StatusSpec
=============================================================================
