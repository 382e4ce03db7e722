----------------------------- MODULE Supervisor -----------------------------
(***************************************************************************)
(* The poll loop of internal/engine/supervisor.go around the lifecycle     *)
(* machine of one device, and what the HTTP handlers read meanwhile.  One  *)
(* goroutine polls all devices in turn; of the others only the time their  *)
(* polls take and the stamps they publish matter here.  pollDevice is not  *)
(* atomic:                                                                 *)
(*   - it reads the clocks, then calls the adapter (Sample, AccessProbe),  *)
(*     which takes time;                                                   *)
(*   - it steps the machine, under the machine's mutex, and records the    *)
(*     OFFLINE edges;                                                      *)
(*   - it publishes the new status, under the supervisor's mutex.          *)
(* Drain requests and readiness queries fall anywhere in between.          *)
(*                                                                         *)
(* Abstracted: the stability score and the error counters (a judgement     *)
(* says whether they degrade the device), the histories of probes, points  *)
(* and events, and worker detection (DeviceHistory).  Wall and monotonic   *)
(* clock are one clock: Go's time.Now carries the monotonic reading, and   *)
(* ages are taken with Sub.                                                *)
(***************************************************************************)
EXTENDS LifecycleHistory, Adapters

CONSTANTS
    Commands,          \* the outcomes of the vendor tool
    Judgements,        \* what the device's history adds to a sample
    HasOthers,         \* the host has further devices
    AccessProbeEach,   \* accessEach: every poll runs the active access probe
    MaxTelemetryAge,   \* maxTelemetryAge
    StallLimit,        \* 3 x pollInterval, at least 6s
    MaxClock           \* bound: the horizon of the clock

Judgement == [LowStability : BOOLEAN, NewUncorr : BOOLEAN]

ASSUME SupervisorAssumption ==
    /\ Commands \subseteq Command
    /\ Judgements \subseteq Judgement
    /\ HasOthers \in BOOLEAN
    /\ AccessProbeEach \in BOOLEAN
    /\ MaxTelemetryAge \in Nat
    /\ StallLimit \in Nat
    /\ MaxClock \in Nat

VARIABLES
    vendor,            \* the adapter Detect chose
    clock,
    pollPc,            \* "idle", "sampling", "stepped", or "others"
    turn,              \* which poll comes next: "self" or "others"
    pollMono,          \* mono and wall, read when the poll starts
    pollHealth,        \* the poll's health, from Step to publication
    wasOffline, disconnects, rejoins,
    \* published under s.mu
    collected, lastProbeOK, hasSample, lastSampleWall, lastStatus,
    otherStamp,        \* the newest Timestamp of the other devices
    \* history: the failed polls in a row, up to OfflineFailures, and whether
    \* the answer to the poll in progress said that the device is gone
    failedPolls, saidGone

pollVars      == <<pollPc, turn, pollMono, pollHealth>>
edgeVars      == <<wasOffline, disconnects, rejoins>>
publishedVars == <<collected, lastProbeOK, hasSample, lastSampleWall, lastStatus,
                   otherStamp>>
saidVars      == <<failedPolls, saidGone>>
svars == <<hvars, vendor, clock, pollVars, edgeVars, publishedVars, saidVars>>

NoHealth == [GPUVisible |-> FALSE, GPUAccessible |-> FALSE, Timestamp |-> 0]

\* The poll loop goes on with the other devices, if there are any.
After(t) == IF HasOthers /\ t = "self" THEN "others" ELSE "self"

SInit ==
    /\ HInit
    /\ \E tools \in SUBSET {"nvidia-smi", "rocm-smi"} : vendor = Detect(tools)
    /\ clock = 1
    /\ pollPc = "idle"
    /\ turn \in IF HasOthers THEN {"self", "others"} ELSE {"self"}
    /\ pollMono = 0
    /\ pollHealth = NoHealth
    /\ wasOffline = FALSE
    /\ disconnects = 0
    /\ rejoins = 0
    /\ collected = FALSE
    /\ lastProbeOK = FALSE
    /\ hasSample = FALSE
    /\ lastSampleWall = 0
    /\ lastStatus = [state |-> "", health |-> NoHealth]
    /\ otherStamp = 0
    /\ failedPolls = 0
    /\ saidGone = FALSE

-----------------------------------------------------------------------------
(* What pollDevice makes of a sample. *)

\* Sample, then AccessProbe if configured: each runs the tool and reads the
\* control file of the fault injection for itself.
Samples == {Sampled(vendor, f, c) : f \in Faults, c \in Commands}

Accesses(s) ==
    IF AccessProbeEach THEN {InjectedAccess(f, vendor, c) : f \in Faults, c \in Commands}
                       ELSE {s.GPUVisible}

probeOK(h) == h.GPUVisible /\ h.GPUAccessible

hardEvidence(s) == s.Class = "hard"

softFailure(s, access) == s.Class = "soft" \/ (s.Class = "none" /\ ~access)

ObservationOf(s, access, j) ==
    [ProbeOK |-> s.GPUVisible /\ access,
     GPUVisible |-> s.GPUVisible,
     GPUAccessible |-> access,
     HardOfflineEvidence |-> hardEvidence(s),
     SoftFailure |-> softFailure(s, access),
     LowStability |-> j.LowStability, NewUncorr |-> j.NewUncorr,
     HighUtil |-> s.HighUtil, LowMem |-> s.LowMem]

-----------------------------------------------------------------------------
(* pollDevice. *)

\* Polls follow each other in one goroutine; those of one device are a poll
\* interval apart.
PollStart ==
    /\ pollPc = "idle"
    /\ turn = "self"
    /\ clock > mono
    /\ pollMono' = clock
    /\ pollPc' = "sampling"
    /\ UNCHANGED <<hvars, vendor, clock, turn, pollHealth, edgeVars, publishedVars, saidVars>>

\* Mutant: a rejoin is recorded when the device is READY again.
OfflineEdgesOnReady ==
    /\ wasOffline' = (state' = "OFFLINE" \/ (wasOffline /\ state' # "READY"))
    /\ disconnects' = IF state' = "OFFLINE" /\ ~wasOffline THEN disconnects + 1
                                                           ELSE disconnects
    /\ rejoins' = IF wasOffline /\ state' = "READY" THEN rejoins + 1 ELSE rejoins

\* Disconnect and rejoin, from the state before Step and the one after it.
OfflineEdges ==
    /\ wasOffline' = (state' = "OFFLINE" \/ (wasOffline /\ state' # "RECOVERING"))
    /\ disconnects' = IF state' = "OFFLINE" /\ ~wasOffline THEN disconnects + 1
                                                           ELSE disconnects
    /\ rejoins' = IF wasOffline /\ state' = "RECOVERING" THEN rejoins + 1 ELSE rejoins

RecordSaid(s, access) ==
    /\ saidGone' = s.gone
    /\ failedPolls' = IF s.GPUVisible /\ access THEN 0
                      ELSE IF failedPolls < OfflineFailures THEN failedPolls + 1
                      ELSE failedPolls

\* Sample stamps the health with the time it starts; it runs for a while.
PollStep(s, access, j) ==
    /\ pollPc = "sampling"
    /\ pollPc' = "stepped"
    /\ \E stamp \in pollMono .. clock :
          pollHealth' = [GPUVisible |-> s.GPUVisible, GPUAccessible |-> access,
                         Timestamp |-> stamp]
    /\ mono' = pollMono
    /\ Step(ObservationOf(s, access, j), pollMono)
    /\ Record(ObservationOf(s, access, j))
    /\ OfflineEdges
    /\ RecordSaid(s, access)
    /\ UNCHANGED <<vendor, clock, turn, pollMono, publishedVars>>

\* Mutant: a failed probe leaves the published status as it is.
PublishedStatusIfOK ==
    IF probeOK(pollHealth) THEN [state |-> state, health |-> pollHealth] ELSE lastStatus

PublishedStatus == [state |-> state, health |-> pollHealth]

PollPublish ==
    /\ pollPc = "stepped"
    /\ collected' = TRUE
    /\ lastProbeOK' = probeOK(pollHealth)
    /\ hasSample' = (hasSample \/ probeOK(pollHealth))
    /\ lastSampleWall' = IF probeOK(pollHealth) THEN pollMono ELSE lastSampleWall
    /\ lastStatus' = PublishedStatus
    /\ pollPc' = "idle"
    /\ turn' = After(turn)
    /\ pollMono' = 0
    /\ pollHealth' = NoHealth
    /\ saidGone' = FALSE
    /\ UNCHANGED <<hvars, vendor, clock, otherStamp, edgeVars, failedPolls>>

\* The polls of the other devices, each of which publishes in the same way.
OthersStart ==
    /\ pollPc = "idle"
    /\ turn = "others"
    /\ pollPc' = "others"
    /\ pollMono' = clock
    /\ UNCHANGED <<hvars, vendor, clock, turn, pollHealth, edgeVars, publishedVars, saidVars>>

OthersPublish ==
    /\ pollPc = "others"
    /\ otherStamp' \in pollMono .. clock
    /\ pollPc' = "idle"
    /\ turn' = After(turn)
    /\ pollMono' = 0
    /\ UNCHANGED <<hvars, vendor, clock, pollHealth, edgeVars, collected, lastProbeOK,
                   hasSample, lastSampleWall, lastStatus, saidVars>>

-----------------------------------------------------------------------------
(* Supervisor.SetDraining takes the machine's mutex only. *)
Drain(d) ==
    /\ draining # d
    /\ SetDraining(d)
    /\ UNCHANGED <<historyVars, vendor, clock, pollVars, edgeVars, publishedVars, saidVars>>

Tick ==
    /\ clock < MaxClock
    /\ clock' = clock + 1
    /\ UNCHANGED <<hvars, vendor, pollVars, edgeVars, publishedVars, saidVars>>

SNext ==
    \/ PollStart
    \/ \E s \in Samples, j \in Judgements : \E access \in Accesses(s) : PollStep(s, access, j)
    \/ PollPublish
    \/ OthersStart
    \/ OthersPublish
    \/ \E d \in BOOLEAN : Drain(d)
    \/ Tick

SSpec == SInit /\ [][SNext]_svars

-----------------------------------------------------------------------------
(* Readiness, as a query at the current clock sees it. *)

\* Mutant: a collector that has published once is never taken for stalled.
collectorStalledNever == ~collected

\* The newest stamp of all devices counts.
collectorStalled ==
    \/ lastStatus.health.Timestamp = 0 /\ otherStamp = 0
    \/ /\ clock - lastStatus.health.Timestamp > StallLimit
       /\ clock - otherStamp > StallLimit

\* Mutant: recent telemetry is enough; the latest probe is not looked at.
deviceReadyByTelemetry ==
    /\ collected
    /\ hasSample
    /\ clock - lastSampleWall <= MaxTelemetryAge
    /\ lastStatus.state # "OFFLINE"
    /\ ~collectorStalled

deviceReady ==
    /\ collected
    /\ lastStatus.health.GPUVisible
    /\ lastStatus.health.GPUAccessible
    /\ lastProbeOK
    /\ hasSample
    /\ clock - lastSampleWall <= MaxTelemetryAge
    /\ lastStatus.state # "OFFLINE"
    /\ ~collectorStalled
-----------------------------------------------------------------------------
(* Properties. *)

(* Disconnects and rejoins alternate and match the machine: a rejoin is    *)
(* recorded only when the new state is RECOVERING, which is enough because *)
(* OFFLINE is left no other way (supervisor.go:313-329).                   *)
EdgesMatchOffline ==
    /\ wasOffline <=> state = "OFFLINE"
    /\ disconnects = rejoins + (IF wasOffline THEN 1 ELSE 0)

(* What /v1/status, /readyz and the admission gate read is the machine's   *)
(* state one poll late at most, and follows the rules that readers of the  *)
(* status alone may count on (DeviceStatus).                               *)
Promised == INSTANCE DeviceStatus WITH
    DeviceStates <- States,
    actual <- state, decided <- (pollPc = "stepped"), shown <- lastStatus.state,
    drain <- draining

ImplementsDeviceStatus == Promised!StatusSpec

(* A device is declared OFFLINE only when its tool said in so many words   *)
(* that it is gone, or when OfflineFailures polls in a row went wrong: not *)
(* for a timeout, unreadable output, a failed access probe or a tool that  *)
(* was killed while it printed (nvidia.go:266-283, lifecycle.go:125-132).  *)
OfflineEarnedStep ==
    (state # "OFFLINE" /\ state' = "OFFLINE")
        => saidGone' \/ failedPolls' >= OfflineFailures

OfflineEarned == [][OfflineEarnedStep]_svars

(* A device reported ready is ready: its machine is in a healthy streak,   *)
(* no soft failure is outstanding, and it is neither OFFLINE nor just gone *)
(* OFFLINE, unless that very poll is about to be published; and no poll,   *)
(* of this device or of another one in the same loop, hangs in the vendor  *)
(* tool for longer than the stall limit (supervisor.go:672-695).           *)
ReadyMeansHealthy ==
    deviceReady =>
        /\ pollPc # "stepped" => softFailures = 0 /\ healthyStreak > 0 /\ ~wasOffline
        /\ pollPc # "idle" => clock - pollMono <= StallLimit
=============================================================================
