------------------------------ MODULE Adapters ------------------------------
(***************************************************************************)
(* What a poll learns of a device: the vendor tool as internal/exec runs   *)
(* it, the adapters of internal/adapters, which turn its answer into a     *)
(* health sample and classify its failures, and the fault injection that   *)
(* may stand in front of them.                                             *)
(*                                                                         *)
(* A command is reduced to how it ends and what its output amounts to: the *)
(* row of the device, nothing about the device, or text that does not      *)
(* parse.  A reading is a level, or "unsupported".  Sample without the     *)
(* tool is left out: Detect picks no adapter whose tool is missing.        *)
(***************************************************************************)

\* Detect: the tools found on the path decide on the adapter.
Detect(tools) ==
    IF "nvidia-smi" \in tools THEN "nvidia"
    ELSE IF "rocm-smi" \in tools THEN "amd"
    ELSE "generic"

Reading == [mem : {"low", "plenty", "unsupported"}, util : {"low", "high", "unsupported"}]

\* The outcomes of exec.Run.
Command ==
    [deadline : BOOLEAN,    \* the tool was killed at the timeout
     exitZero : BOOLEAN,    \* it was started and exited with 0
     marker   : BOOLEAN,    \* stderr says that the device is gone
     stdout   : {"row", "nothing", "malformed"},
     reading  : Reading]

\* The control file of the fault injection, as one call reads it.
Faults == {"none", "soft", "hard"}

-----------------------------------------------------------------------------
(* Run: the deadline is looked at before the exit code. *)

RunFails(c) == c.deadline \/ ~c.exitZero

\* Mutant: what stderr says is looked at before the timeout.
classifyFailureByMarker(c) == IF c.marker THEN "hard" ELSE "soft"

\* classifyNVFailure and classifyAMDFailure: only their markers differ.
classifyFailure(c) == IF ~c.deadline /\ c.marker THEN "hard" ELSE "soft"

-----------------------------------------------------------------------------
(* Sample. *)

\* markUnsupportedAll: no reading is taken.
NotSeen(class) ==
    [GPUVisible |-> FALSE, Class |-> class,
     reading |-> [mem |-> "unsupported", util |-> "unsupported"]]

SeenBy(c) == [GPUVisible |-> TRUE, Class |-> "none", reading |-> c.reading]

\* A line of too few fields, or none, is malformed output.
SampleNVIDIA(c) ==
    IF RunFails(c) THEN NotSeen(classifyFailure(c))
    ELSE IF c.stdout = "row" THEN SeenBy(c)
    ELSE NotSeen("soft")

\* JSON without the card is hard evidence.
SampleAMD(c) ==
    IF RunFails(c) THEN NotSeen(classifyFailure(c))
    ELSE CASE c.stdout = "malformed" -> NotSeen("soft")
           [] c.stdout = "nothing"   -> NotSeen("hard")
           [] c.stdout = "row"       -> SeenBy(c)

VendorSample(vendor, c) ==
    CASE vendor = "nvidia"  -> SampleNVIDIA(c)
      [] vendor = "amd"     -> SampleAMD(c)
      [] vendor = "generic" -> NotSeen("none")

\* FaultInject.Sample.
InjectedSample(fault, vendor, c) ==
    IF fault = "none" THEN VendorSample(vendor, c) ELSE NotSeen(fault)

-----------------------------------------------------------------------------
(* AccessProbe: a command of its own, and a reading of the control file of *)
(* its own.  NVIDIA asks for any output, AMD for the card.                 *)

VendorAccess(vendor, c) ==
    /\ ~RunFails(c)
    /\ CASE vendor = "nvidia"  -> c.stdout # "nothing"
         [] vendor = "amd"     -> c.stdout = "row"
         [] vendor = "generic" -> FALSE

InjectedAccess(fault, vendor, c) == fault = "none" /\ VendorAccess(vendor, c)

-----------------------------------------------------------------------------
(* The readings, as the thresholds of the lifecycle see them. *)

\* EffectiveFreeMemRatio stays 0 when the memory is not reported, and
\* FreeMemRatio <= BusyMemRatio asks no more.
LowFreeMem(reading) == reading.mem \in {"low", "unsupported"}

HighUtilization(reading) == reading.util = "high"

-----------------------------------------------------------------------------
(* One sample: what pollDevice goes on with, and, for the properties, what *)
(* the tool really said.                                                   *)

\* Somebody said that the device is gone: in the answer itself, not in what
\* was made of it.
SaysGone(fault, vendor, c) ==
    IF fault # "none" THEN fault = "hard"
    ELSE \/ vendor # "generic" /\ ~c.deadline /\ ~c.exitZero /\ c.marker
         \/ vendor = "amd" /\ ~RunFails(c) /\ c.stdout = "nothing"

Sampled(vendor, fault, c) ==
    LET s == InjectedSample(fault, vendor, c)
    IN  [GPUVisible  |-> s.GPUVisible,
         Class       |-> s.Class,
         LowMem      |-> LowFreeMem(s.reading),
         HighUtil    |-> HighUtilization(s.reading),
         gone        |-> SaysGone(fault, vendor, c)]
=============================================================================
