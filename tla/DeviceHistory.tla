--------------------------- MODULE DeviceHistory ---------------------------
(***************************************************************************)
(* What the sidecar remembers of one device: the bounded probe and event   *)
(* rings and the reliability window (internal/core/history.go), and the    *)
(* worker events that pollDevice derives from the number of compute        *)
(* processes (internal/engine/supervisor.go, detectWorkers and             *)
(* workerEventLog).  One poll is one step; the device's lifecycle is the   *)
(* subject of Supervisor.                                                  *)
(*                                                                         *)
(* Abstracted: latencies and their percentiles, the events of the other    *)
(* kinds, and the details of an event.                                     *)
(***************************************************************************)
EXTENDS Integers, Sequences, FiniteSetsExt

CONSTANTS
    MaxProcs,      \* compute processes on the device
    WindowSec,     \* of the reliability window and of the worker events
    RapidSec,      \* rapidRestartSec
    ProbeCap, EventCap,
    MaxMono        \* bound: the time of the last poll

ASSUME HistoryAssumption ==
    /\ MaxProcs \in Nat
    /\ WindowSec \in Nat
    /\ RapidSec \in Nat
    /\ ProbeCap \in Nat \ {0}
    /\ EventCap \in Nat \ {0}
    /\ MaxMono \in Nat

VARIABLES
    mono,
    probes, events,                \* rings
    RecentAvailability,            \* <<successful, all>> probes of the window
    ConsecutiveFailures,
    prevProcs,                     \* lastStatus.Health.ComputeProcs
    WorkerStarts, WorkerStops,
    disappearances, appearances,   \* workerEventLog
    RapidRestartEvents,            \* as given to the stability score
    \* history: every probe, worker event and disappearance so far, and what
    \* the worker counters would have been at a count of zero
    allProbes, allEvents, allGone, baseline

vars == <<mono, probes, events, RecentAvailability, ConsecutiveFailures, prevProcs,
          WorkerStarts, WorkerStops, disappearances, appearances, RapidRestartEvents,
          allProbes, allEvents, allGone, baseline>>

Unsupported == 0 - 1

\* Whether the probe succeeds, and the process count if it is supported.  They
\* are independent: the access probe may fail after a good Sample.
Samples == [ok : BOOLEAN, procs : {Unsupported} \cup 0..MaxProcs]

-----------------------------------------------------------------------------
(* ring: slots 0..cap-1, head is the next one to be written. *)

newRing == [buf |-> <<>>, head |-> 0, size |-> 0]

Slot(i, cap) == (i % cap) + 1

push(r, v, cap) ==
    [buf  |-> IF Len(r.buf) < cap THEN Append(r.buf, v) ELSE [r.buf EXCEPT ![r.head + 1] = v],
     head |-> (r.head + 1) % cap,
     size |-> IF r.size < cap THEN r.size + 1 ELSE r.size]

\* Mutant: the oldest item is looked for at slot 0.
itemsFromZero(r, cap) == [i \in 1..r.size |-> r.buf[Slot(i - 1, cap)]]

items(r, cap) ==
    LET start == (r.head - r.size + cap) % cap
    IN  [i \in 1..r.size |-> r.buf[Slot(start + i - 1, cap)]]

-----------------------------------------------------------------------------
(* The reliability window. *)

\* Mutant: a probe exactly as old as the window is left out.
InWindowStrict(t, now) == t > now - WindowSec

InWindow(t, now) == t >= now - WindowSec

recomputeWindow(ps, now) ==
    LET recent == {i \in DOMAIN ps : InWindow(ps[i].mono, now)}
    IN  <<Cardinality({i \in recent : ps[i].ok}), Cardinality(recent)>>

\* Mutant: a success does not end the run of failures.
FailuresAfterKept(ok) == IF ok THEN ConsecutiveFailures ELSE ConsecutiveFailures + 1

FailuresAfter(ok) == IF ok THEN 0 ELSE ConsecutiveFailures + 1

RecordProbe(ok, now) ==
    /\ probes' = push(probes, [mono |-> now, ok |-> ok], ProbeCap)
    /\ ConsecutiveFailures' = FailuresAfter(ok)
    /\ RecentAvailability' = recomputeWindow(items(probes', ProbeCap), now)

-----------------------------------------------------------------------------
(* Worker events. *)

\* pruneTimes first drops the entries before the first one of the window.
since(s, cutoff) ==
    LET first == Min({i \in 1..Len(s) : s[i] >= cutoff} \cup {Len(s) + 1})
    IN  SubSeq(s, first, Len(s))

\* Mutant: the log keeps its oldest entries instead of the most recent ones.
pruneTimesOldest(s, now) ==
    LET recent == since(s, now - WindowSec)
    IN  IF Len(recent) > EventCap THEN SubSeq(recent, 1, EventCap) ELSE recent

pruneTimes(s, now) ==
    LET recent == since(s, now - WindowSec)
    IN  IF Len(recent) > EventCap THEN SubSeq(recent, Len(recent) - EventCap + 1, Len(recent))
                                  ELSE recent

rapidRestartEvents(gone, back) ==
    Cardinality({i \in DOMAIN gone :
                    \E j \in DOMAIN back : back[j] > gone[i] /\ back[j] - gone[i] <= RapidSec})

AddEvent(kind) ==
    /\ events' = push(events, kind, EventCap)
    /\ allEvents' = Append(allEvents, kind)

NoEvent == UNCHANGED <<events, allEvents>>

\* The logs, pruned for the stability score before workers are detected.
Gone(now) == pruneTimes(disappearances, now)
Back(now) == pruneTimes(appearances, now)

NoWorkerChange(now) ==
    /\ disappearances' = Gone(now)
    /\ appearances' = Back(now)
    /\ UNCHANGED <<WorkerStarts, WorkerStops, allGone>>

CountUnknown(n, now) ==
    /\ n = Unsupported
    /\ NoWorkerChange(now)
    /\ NoEvent
    /\ UNCHANGED baseline

\* The first count, or the first after one that was not supported.
CountAppears(n, now) ==
    /\ n # Unsupported /\ prevProcs = Unsupported
    /\ NoWorkerChange(now)
    /\ IF n > 0 THEN AddEvent("WORKER_OBSERVED") ELSE NoEvent
    /\ baseline' = n - (WorkerStarts - WorkerStops)

CountSame(n, now) ==
    /\ n # Unsupported /\ n = prevProcs
    /\ NoWorkerChange(now)
    /\ NoEvent
    /\ UNCHANGED baseline

CountRises(n, now) ==
    /\ prevProcs # Unsupported /\ n > prevProcs
    /\ WorkerStarts' = WorkerStarts + (n - prevProcs)
    /\ appearances' = pruneTimes(Append(Back(now), now), now)
    /\ disappearances' = Gone(now)
    /\ AddEvent("WORKER_STARTED")
    /\ UNCHANGED <<WorkerStops, allGone, baseline>>

\* Mutant: several workers that vanish at once are counted as one.
CountFallsByOne(n, now) ==
    /\ n # Unsupported /\ n < prevProcs
    /\ WorkerStops' = WorkerStops + 1
    /\ disappearances' = pruneTimes(Append(Gone(now), now), now)
    /\ appearances' = Back(now)
    /\ allGone' = Append(allGone, now)
    /\ AddEvent("WORKER_DISAPPEARED")
    /\ UNCHANGED <<WorkerStarts, baseline>>

CountFalls(n, now) ==
    /\ n # Unsupported /\ n < prevProcs
    /\ WorkerStops' = WorkerStops + (prevProcs - n)
    /\ disappearances' = pruneTimes(Append(Gone(now), now), now)
    /\ appearances' = Back(now)
    /\ allGone' = Append(allGone, now)
    /\ AddEvent("WORKER_DISAPPEARED")
    /\ UNCHANGED <<WorkerStarts, baseline>>

detectWorkers(n, now) ==
    \/ CountUnknown(n, now) \/ CountAppears(n, now) \/ CountSame(n, now)
    \/ CountRises(n, now) \/ CountFalls(n, now)

-----------------------------------------------------------------------------
Init ==
    /\ mono = 0
    /\ probes = newRing
    /\ events = newRing
    /\ RecentAvailability = <<0, 0>>
    /\ ConsecutiveFailures = 0
    /\ prevProcs = Unsupported
    /\ WorkerStarts = 0
    /\ WorkerStops = 0
    /\ disappearances = <<>>
    /\ appearances = <<>>
    /\ RapidRestartEvents = 0
    /\ allProbes = <<>>
    /\ allEvents = <<>>
    /\ allGone = <<>>
    /\ baseline = 0

\* pollDevice; polls come once a second, or a second late.
Poll(sample, now) ==
    /\ now <= MaxMono
    /\ mono' = now
    /\ RecordProbe(sample.ok, now)
    /\ RapidRestartEvents' = rapidRestartEvents(Gone(now), Back(now))
    /\ detectWorkers(sample.procs, now)
    /\ prevProcs' = sample.procs
    /\ allProbes' = Append(allProbes, [mono |-> now, ok |-> sample.ok])

Next == \E sample \in Samples, step \in 1..2 : Poll(sample, mono + step)

Spec == Init /\ [][Next]_vars

-----------------------------------------------------------------------------
LastOf(s, n) == IF Len(s) <= n THEN s ELSE SubSeq(s, Len(s) - n + 1, Len(s))

(* However often a ring has wrapped around, its items are the latest       *)
(* pushes, oldest first.                                                   *)
RingKeepsLatest ==
    /\ items(probes, ProbeCap) = LastOf(allProbes, ProbeCap)
    /\ items(events, EventCap) = LastOf(allEvents, EventCap)

(* The reliability shown is that of the probes: the availability counts    *)
(* exactly those of the window that the ring still holds, one as old as    *)
(* the window included, and ConsecutiveFailures is the length of the run   *)
(* of failures that the latest probe ends, also once the ring has          *)
(* forgotten its beginning.                                                *)
ReliabilityExact ==
    /\ LET recent == {i \in DOMAIN allProbes :
                         i > Len(allProbes) - ProbeCap /\ mono - allProbes[i].mono <= WindowSec}
       IN  RecentAvailability = <<Cardinality({i \in recent : allProbes[i].ok}),
                                  Cardinality(recent)>>
    /\ ConsecutiveFailures <= Len(allProbes)
    /\ \A i \in DOMAIN allProbes :
          i > Len(allProbes) - ConsecutiveFailures => ~allProbes[i].ok
    /\ ConsecutiveFailures < Len(allProbes) =>
          allProbes[Len(allProbes) - ConsecutiveFailures].ok

(* Starts and stops balance: from the first count after one that was not   *)
(* supported, they differ by exactly how much the count has changed.       *)
WorkersBalance ==
    prevProcs # Unsupported => baseline + WorkerStarts - WorkerStops = prevProcs

(* The log holds exactly the latest disappearances of the window, and so   *)
(* rapid restarts are never judged by older ones.                          *)
DisappearancesExact ==
    LET recent == Cardinality({i \in DOMAIN allGone : mono - allGone[i] <= WindowSec})
    IN  disappearances = LastOf(allGone, IF recent < EventCap THEN recent ELSE EventCap)
=============================================================================
