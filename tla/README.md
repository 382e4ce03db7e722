# gpu-sidecar: TLA+ models and proofs

This directory models the control logic of gpu-sidecar in TLA+, checks it with
TLC on small instances, and proves its safety properties with TLAPS for every
value of the constants. `PROJECT.json` is the index: components, runs, mutants,
the map from definitions to source lines, findings, hazards and theorems.

## 1. The system

A **sidecar** runs beside the GPUs of a host and one vLLM server. A **router**
sits in front of several sidecars.

| Part | Source | Modules |
|---|---|---|
| Vendor adapters, fault injection, command execution | `internal/adapters/*.go`, `internal/exec/exec.go` | `Adapters` |
| Lifecycle machine of a device: UNKNOWN, READY, BUSY, DEGRADED, DRAINING, OFFLINE, RECOVERING | `internal/core/lifecycle.go` | `Lifecycle`, `LifecycleHistory`; `SupervisorProofs` |
| Supervisor: polls the device, steps the machine, publishes the status, answers readiness | `internal/engine/supervisor.go` | `Supervisor`, refining `DeviceStatus`; `SupervisorProofs` |
| Device history: rings, reliability window, worker events | `internal/core/history.go`, `engine/supervisor.go` | `DeviceHistory`, `DeviceHistoryProofs` |
| Admission queue: bounded FIFO and in-flight limit | `internal/dataplane/queue.go` | `AdmissionQueue`, refining `SlotLimiter`; `SidecarProofs` |
| Work accounting: tokens reserved and active | `internal/dataplane/work.go` | `WorkAccountant`; `SidecarProofs` |
| The data plane of a sidecar: gate, published status, queue and work together | `cmd/sidecar/main.go`, `dataplane/*.go` | `Sidecar`, `SidecarProofs` |
| Proxy: relays one request to vLLM, streamed or whole | `internal/dataplane/proxy.go` | `SidecarRelay` |
| Gateway of the router: chooses, forwards, retries | `internal/router/gateway.go` | `Gateway` (composed with `SidecarRelay`), `GatewayProofs` |
| Cache index and its two feeds | `internal/cache/*.go`, `cmd/sidecar/main.go` | `CacheIndex`; `ExplicitCache` and `CacheEvents`, composed in `CachePlane`; `CachePlaneProofs` |
| Runtime metrics, from vLLM by way of the adapter and the cache provider to the router | `internal/runtime/**`, `cmd/sidecar/main.go`, `router/registry.go` | `RuntimeMetrics`, `RuntimeMetricsProofs` |
| Registry and cache-aware policy of the router | `internal/router/registry.go`, `policy*.go` | `Routing`, `RoutingProofs` |
| Trajectory emitter and collector | `internal/trajectory/emitter.go`, `cmd/trajcollector` | `TrajectoryEmitter`, `TrajectoryEmitterProofs` |

How they interact: the adapters tell the supervisor what the vendor tool says; the
supervisor's published status decides readiness and, with the health of the
runtime and the drain flag, admission; an admitted request waits in the queue, is
dispatched, reserves work and is relayed; the registry polls each sidecar's
readiness, status, queue, runtime and cache; the gateway picks a backend from the
last snapshot and may retry once on another one; both sides emit events to the
collector.

Two abstract specifications stand between components. `DeviceStatus` is what
the readers of a published status may count on: `Supervisor` implements it, and
`Sidecar` is built on it. `SlotLimiter` is what the queue promises:
`AdmissionQueue` implements it, alone and inside `Sidecar`.

## 2. The modules

Each `MC` module instantiates one specification for TLC. Definitions keep the
names of the functions they model; an action is a critical section, or a stretch
of a function that other goroutines cannot observe in part. Operators commented
`Mutant:` are wrong variants of the definition after them; no specification
uses them.

**Adapters** has no state. A command is reduced to how it ended (deadline, exit
code, a marker on stderr) and what its output amounts to; `Sample`, `AccessProbe`
and the classification of failures are functions of that, for NVIDIA, AMD and the
generic adapter. Fault injection stands in front of them and reads its control
file once per call. A reading is low, high or unsupported, as the thresholds of
the lifecycle see it.

**Lifecycle.** `Step` is the disjunction of the branches of
`LifecycleMachine.Step`, each with the code's guard. An observation is the
record the supervisor passes, with telemetry reduced to the side of each
threshold it lies on. `SetDraining` is the other action. Reason codes are left
out. `LifecycleHistory` adds history variables (the length of the run of probes
that agree, that of the run of healthy probes, when the device was last OFFLINE and
when a probe last took it out of it), so that the properties are not stated in the
counters they are about.

**Supervisor** extends `LifecycleHistory` and `Adapters`. A poll reads the clock
(`PollStart`), runs the tool and steps the machine (`PollStep`), then publishes
(`PollPublish`). Drain requests, clock ticks and readiness queries fall in
between. A hanging vendor tool is a poll that stays in its first phase. One
goroutine polls all devices in turn; of the others only the time their polls take
and the stamps they publish matter, since devices share no machine state. Whether
the stability score or the error counters degrade a device is a free judgement.

**DeviceHistory** holds the probe and event rings with their indices, the
availability window, and worker starts, stops and disappearances. The whole past
is kept as history, and each summary is compared with its definition over it.

**AdmissionQueue** splits `Admit`, `WaitForDispatch`, `removeWaiting`, `Run`,
`drain`, `Done` and `Close` at the mutex, with a program counter per handler.
The signal channel of capacity 1 is a Boolean. A `select` with several ready
cases takes any of them.

**WorkAccountant** models each handler's reserve, activate and release, including
the bound on the uncached part and the clamp at zero.

**Sidecar** composes the queue, `DeviceStatus`, the health of the runtime and
`WorkAccountant` as `cmd/sidecar/main.go` does. The gate is three reads, each a
step, made with the queue's mutex held; every other critical section of the queue
waits for that mutex. Two of the reads ask the supervisor about the device named by
`-dp-device`; when it does not know that device (`deviceKnown`; the flag is empty by
default) they never find a cause to refuse. Work is booked after the dispatch and
released after `Done`, when the slot may already be somebody else's.

**SidecarRelay / Gateway.** One request, streamed or whole (`stream`, chosen at
the start), with one relay handler per attempt. Lines of an answer carry only their
source. Broken links, a crashing sidecar, a vLLM failure at any line, the server
noticing a lost connection, the client leaving and registry refreshes are actions.

**CacheIndex** is the index with its sequence check. `ExplicitCache` drives it
from concurrent `Observe` calls (draw a number, then store under the lock) and
from the one-second feed with its restart detection. `CacheEvents` drives it from
numbered event batches over a transport that loses, repeats and reorders. What
vLLM holds after a batch is defined without the index: the blocks stored, or held
before, and not touched since (`HeldAfter`). The transport is external: the
repository defines its interface only and wires none by default. A batch's events share its number, as in the reference bridge
`experiments/kv_event_bridge.py`. vLLM's process is external too. `CachePlane`
composes the two as `cmd/sidecar/main.go` does: the mode selects the provider,
and the feed loop resets the index in either mode. vLLM may restart in both: under
native events it then numbers its batches anew, and the first of them may be
ingested before the feed loop resets the index. Two assumptions are made of a
restart: it takes longer than the health check (every two seconds) and the feed
loop (every second) need to see that vLLM is down (vLLM loads a model first), and
what nobody had received is lost with the old process's socket.

**RuntimeMetrics** is a chain of loops, each of which reads what the one before
it last stored: vLLM's counters, the adapter's scrape and health check, the
feeder of the KV headroom, and the registry's two requests. Scrapes fail or come
cut short, vLLM and the sidecar restart. Of the metrics, the generation counter
and the KV utilization are kept. The clock is left out: a rate is its numerator.

**Routing** polls every backend with five requests that fail independently,
publishes snapshot and directory in two steps, and decides one request at a time:
it scores each candidate for the log, costs each again, and selects. Costs are
small integers that keep the order of the terms of `cost`. The sort is modelled by
its contract: any arrangement of the candidates in which no two neighbours are in the
wrong order under the code's comparison; the first of it is the choice. A history
variable (`moved`) notes for which candidates the looked-up match changed between the
two lookups.

**TrajectoryEmitter** models emitters, the loop, `ship` with its retry, the
fallback file and the collector, which may persist a post after its sender gave
up. A line that the collector cannot write (`FailingWrites`) is acknowledged and
counted as received all the same; `filed` counts the lines that are in its file. The
bound of the fallback file is on what this process has written, checked before a
batch.

## 3. Runs that pass

State counts are distinct states.

| Run | States | Shows |
|---|---|---|
| `supervisor` | 810,864 | OFFLINE is entered only for cause and left only by a recovery that is earned and not overdue; the latch matches the state; READY and BUSY do not flap; OFFLINE edges alternate; ready means healthy, and a hung poll of any device is not ready; the published status keeps the promises of `DeviceStatus` |
| `history` | 1,422,497 | rings, reliability and worker counts equal their definitions over the past |
| `queue` | 246,878 | exact in-flight count, no lost ticket, counters add up; the queue implements `SlotLimiter`; no wakeup is lost, without the help of the 50 ms tick; shutdown releases every waiter |
| `sidecar` | 3,971,924 | at most one request slips past a cause to refuse that has just come into force; the work counters are what the requests hold |
| `emitter` | 993,645 | nothing is lost inside; statistics add up; what counts as sent was received, and no event is filed more than twice; Stop flushes; Emit and Stop return |
| `gateway` | 1,269,176 | one source per answer, named by the header of a whole one; complete means all lines; one Done per dispatch; abandoned work stops |
| `cache` | 2,215,735 | the oldest is evicted and the bound kept, directory agrees with lookup, the last sequence number is the newest, restart forgets; a clean native stream gives exactly the blocks vLLM holds, also after a restart |
| `routing` | 2,986,690 | what is offered and counted was seen by the last refresh; a choice that the recorded scores do not lead to is one whose lookup changed in between |
| `runtime` | 721,249 | no rate counts a token that was not generated; the router's view converges to vLLM as it is |

Every property of these runs has a mutant in `PROJECT.json`: a plausible bug in
one definition that makes TLC report that property. The limits of the queue and
its order have no invariant of their own: they are in `SlotLimiter`, which the
queue implements. Type invariants are parts of the proofs.

### Bounds

- Supervisor: two failures, two confirmations, a hold and a streak of 2, so that
  each counter can be below, at and above its threshold; six time units hold an
  outage, a relapse and a recovery, and a poll that hangs past the stall limit of 2
  and the telemetry age of 3. The commands are every way a tool can end, for
  every vendor, with every injected fault.
- Queue: three requests, two places, one slot: one runs, one waits, one competes
  or is refused.
- Sidecar: two requests of different shape on one slot and one place, and three
  changes of health, status or drain: a cause comes, goes and comes again while both
  are on their way.
- Emitter: a channel of 1 and batches of 2, so that the channel fills while a
  batch is open; three events, two of them terminal; a fallback file that one
  batch fills; one event whose lines the collector may fail to write, beside others
  of its batch that are written.
- Gateway: two backends, two attempts (the default `max_retries` of 1), an
  answer of one line, so that a failure falls before and after it, and one good
  and one bad status.
- Caches: one key more than fits; two concurrent observers; three batches, the
  least that hold a store, a removal and a loss or repetition between them; one
  restart; ages up to and past the entry's and the index's limit.
- Routing: two backends, two refreshes, one change and one failed request: each
  half-failed poll before and after each change.
- Runtime: two tokens, one restart and one failed request: a counter that starts
  again below, at or above its last sample, with a scrape missing in between.
- History: a ring of three over seven time units, so that it wraps twice.

The proofs of section 5 hold without these bounds. Symmetry is used in `cache`
only: no definition distinguishes its keys and observers, and no liveness is
checked there. `CHECK_DEADLOCK FALSE` stands where a finite set of requests or
events is used up or a bounded clock ends.

### Fairness

- Queue: goroutines that can proceed do, and a relay ends. No fairness for the
  50 ms tick, so `EveryTicketDispatched` depends on the signals alone. It
  excuses a queue all of whose slots are leaked (section 4).
- Emitter: pending Emit timers fire; nothing else for `EmitNeverBlocks`.
  `StopReturns` assumes `LoopFairness` besides: the loop runs, `ship` ends, by its
  request timeout, and the select is strongly fair towards `stop`, since Go picks
  a ready case at random. Nothing is asked of the collector.
- Gateway: goroutines proceed and a server notices a closed connection. Nothing
  is asked of vLLM.
- Runtime: the loops run on tickers and each of their requests has a timeout, so
  that each takes its next step. Nothing is asked of vLLM, which may stay down.

## 4. Disagreements found

Three are runs in which TLC finds the violation; `findings` quotes the texts.

| Run | Disagreement |
|---|---|
| `queue_leak` | a ticket dispatched while its waiter is cancelled or timing out never returns its slot |
| `gateway_failed_stream` | a stream that vLLM fails, before its first event or after it, ends cleanly: the router neither retries it nor records a partial failure, but `REQUEST_COMPLETED` |
| `kv_headroom` | a healthy backend whose KV utilization is unknown is published with a supported headroom of 1 |

Others were met while modelling. The models behave as the code does; no run
states the documented behaviour.

- `core/lifecycle.go:61`: `hardOffline` does not keep how the current OFFLINE was
  entered; later failures overwrite it.
- `core/model.go:29`, "consumers MUST check it rather than trusting the zero
  value": a device that does not report its memory has a free ratio of 0 and is
  therefore BUSY (`core/lifecycle.go:159`).
- `artifacts/lifecycle_hysteresis.md:8`: an unclassified invisible device is a soft
  failure in the code, not a hard one.
- `adapters/generic.go:10` says "visible-but-unsupported"; the sample says that
  the device is not visible.
- `retry_and_failure_semantics.md:20`: a client that leaves before the sidecar answers
  is recorded as a failed attempt, not as cancelled.
- `final_e2e_report.md:46`: when a stream is retried, `X-Backend-ID` still names the
  first backend. For the header, `OneSource` therefore speaks of whole
  answers only.
- `cache/index.go:256`: concurrent observations, numbered outside the lock, count as
  a gap.
- `cache/index.go:105`: a replayed batch is not idempotent: it brings removed blocks
  back. `CleanStreamExact` therefore asks for `outOfOrder = 0`.
- `cache/model.go:9`: a gap lowers confidence by a quarter, not to zero. `Reset`
  keeps the gap counters, so that the penalty outlives a restart.
- `router/gateway.go:94`, "every routing decision can be reconstructed", and
  `router/policy_cache_aware.go:215`: the directory may be swapped between the logged
  candidate state and the decision, and the two then disagree.
  `RecordExplainsChoice` says exactly when: the lookup of the backend chosen or of
  the one the record puts first has changed. A retry (`router/gateway.go:139`)
  decides on a new snapshot, for which no candidate state is logged at all.
- `router/registry.go:50`: the service rate is said to need two consecutive
  supported scrapes. It takes two polls, which are twice as frequent as scrapes
  and may read the same one.
- `runtime/vllm/adapter.go:175`: the error of reading a body is ignored, so that a
  truncated counter is taken for a whole one. `RateWasGenerated` excepts the two
  rates next to it.
- `router/policy.go:47`: a draining backend is offered when only its status request
  fails.
- `router/registry.go:205`: a failed queue request likewise leaves a zero depth, with
  which a full backend looks idle.
- `cmd/sidecar/main.go:161`: the gate is said to refuse for an OFFLINE or draining
  device; for a device the supervisor does not know, it does neither.
- `cmd/trajcollector/main.go:2` says that it persists the events: errors of writing
  are ignored and the batch is acknowledged, so that what the emitter counts as sent
  need not be in the file.
- `trajectory/emitter.go:210`, "bounded fallback file": the bound is on what the
  present process wrote. The file is opened for appending and may be larger.
- `dataplane/work.go:17`: queued requests reserve nothing.
- `dataplane/proxy.go:163`: a ticket that `Close` cancels returns as if its client had
  gone, without an answer; a client that is still there sees an empty 200.
- `worker_event_semantics.md:10`: `WORKER_OBSERVED` is recorded again after a sample
  without a process count.

`InflightExact` and `NoLeakedSlot` differ on purpose: the first says that
`inflight` equals the number of tickets dispatched and not done, leaked ones
included; the second says that there are no leaked ones, and fails.

## 5. Proofs

Each theorem holds for all values of the constants that satisfy the named
assumptions (`...Assumption`) of the modules, which TLC evaluates in the runs.
All proofs follow one pattern: a lemma per action (or per operation used by
several actions) shows that it preserves the inductive invariant and satisfies the
action properties; a step lemma combines them; the theorem follows by temporal
logic.

**SupervisorProofs**, the lifecycle by itself (any observations): `LatchSafety`,
`RecoveryPromptness`, `PromotionSafety`, `HysteresisSafety`, `CounterSafety`,
`LifecycleTypeOK`. `IInv` adds `RecoveryBookkeeping`, what the others lack to be
inductive: a latched machine has no confirmation progress, so leaving recovery
cannot complete an old change (`NoFlapping`); progress belongs to the latest class;
the hold is counted from a probe after the last OFFLINE one (`PromotionEarned`); and
while the device recovers, the machine's streak and the start of its hold are those
of the history (`RecoveryNotOverdue`).

The same module, under the supervisor (any tool, judgements, limits and clock): the
four lifecycle properties again, now for the observations the adapters really
produce; `EdgesAlwaysMatch`, `ReadyIsHealthy`, `OfflineIsEarned`; and
`StatusRefinement`, that the supervisor implements `DeviceStatus`. `SInv` is `IInv`
with: a poll under way is later than the machine's last step and no earlier than any
stamp (`InTime`), what a poll carries and what is published is what the machine made
of the latest probe (`Agrees`), and the machine counts no failure that was not a
failed poll (`FailuresPolled`). `SampleFacts` states what the adapters return.

**DeviceHistoryProofs** (any capacities, window and number of polls):
`TheRingsKeepTheLatest`, `TheReliabilityIsExact`, `TheWorkersBalance`,
`TheDisappearancesAreExact`. A ring is right (`RingOK`) when its head and count are
those of the number of pushes and each of the latest pushes lies at the place that
its number gives (`Place`); what `items` returns then follows without looking at the
history again. The log of disappearances is described by the point up to which it
has been cut (`LogOK`): times never decrease, so pruning twice, or pruning after an
append, cuts at the same point as pruning once (`PruneAgain`, `PruneAppended`).

**SidecarProofs**, the queue by itself (any finite set of requests, any limits):
`InflightIsExact`, `NoTicketLost`, `TheCountersAddUp`, and `Refinement`, that the
queue implements `SlotLimiter`. The refinement maps the waiting tickets to the line
and the tickets popped and not done to the active ones. `IInv` adds that a ticket is
in the line once, that the dispatcher holds a ticket exactly between pop and
handoff, that only admitted tickets start, and that a closed queue stays empty. For
the counters each step changes the set of pending requests by one request at most.

The same module, the composed sidecar (any requests, any number of changes):
`GateClosesAtOnce`, `SidecarImplementsQueue` and `TheWorkIsExact`. The first rests on
`GateInv`: at most one handler is in the gate, and once somebody has slipped past a
cause nobody is past its check any more. For the second, every step of the sidecar
is a step of the queue or leaves it alone. For the third, it is a step of the
accountant or leaves that alone, and `WorkExact` is inductive once the types are
known: reserving adds a handler to the sum, releasing takes one out of it, and the
clamp at zero never cuts anything off. `SumFunctionOnSet` is a recursion over an
arbitrary choice of elements; the section on sums shows that it has a solution, that
any element may be taken first, and that only the weights of the elements count.

**GatewayProofs** (any backends, statuses, retries and lengths of answers):
`OneSourceAlways`, `CompletedStreamsAreWhole`, `DoneIsCalledOnce`. `GInv` says of
each attempt that a response ends only with its handler and after all of it has
arrived; and of the request what the client can have got at each point
(`Progress`), and that an attempt not begun has no handler (`Unused`).

**CachePlaneProofs** (any keys, limits, observers, batches and restarts):
`EvictionOfTheOldest`, `NewestSequence`, `RestartsAreForgotten`,
`DirectoryAndLookupAgree`, `TheCleanStreamIsExact`. `CInv` adds that no restart was
missed by a check that succeeded nor by a loop that saw one (`RestartOK`), and that
every entry, not only the published ones, is from after the last restart caught up
with (`EntriesRecent`). The last theorem has an invariant of its own, `StreamInv`.
Between two batches it is the property; in the middle of one it says that the index
lies between two bounds: what vLLM held before the batch, or after it when the batch
is there once more, taken as far as the batch is ingested. An event does to the
bounds what it does to the index, and at the end of the batch both bounds are what
vLLM holds, since a batch applied twice is a batch applied once (`HeldAgain`). Two
bounds are needed because a reset may fall into the middle of a batch.

**RoutingProofs** (any backends, coefficients, changes, rounds and failed requests):
`TheOfferedWasHealthy`, `TheDirectoryIsNotStale`, `TheRecordExplainsTheChoice`, and
`TheChoiceIsBest`: every candidate but the chosen one costs more, or the same with a
higher id. The sort promises only that neighbours are in order; the comparison is a
strict total order (`LessOrder`), and the head of the arrangement is unbeaten by a
least counterexample (`FirstIsUnbeaten`). `RegistryInv` says that what a poll holds
was true at some time of its refresh (`PolledWasSeen`, `SeenNow`), and of the snapshot and the directory the
same. `RequestInv` says that a request works on a snapshot with candidates, and that, for
each candidate whose lookup has not moved, the matches recorded and looked up so far
are what the directory says (`LookupsAgree`).

**RuntimeMetricsProofs** (any numbers of tokens, restarts and faults):
`RateIsGenerated`. `InOrder` says that the four counts on the way from vLLM to the
registry are in order, pair by pair: the later one has grown by no more than what
was generated between the two. Neighbours alone are not enough, since the one in
the middle may be missing.

**TrajectoryEmitterProofs** (any events and capacities): `NothingIsLostInside`,
`TheStatsAddUp`, `TheStopFlushes`, `TheDeliveryIsAtMostTwice`. `IInv` adds that an
event is accepted once, that what was acknowledged was shipped, the bound of the
batch, and that the loop heads for its end only after Stop and with nothing from
before it in the channel. For the deliveries `DInv` counts the posts
under way with the lines that are filed: together no more than posts were made for the
event's batch, which is two at most, and an event is in one batch only.

Where a proof needs induction over data (the run of failures, the place of a cut, the
size of a set that is summed), it is by a least counterexample (`LeastNat`), because
the induction rules of the library take an operator as parameter, which the provers
cannot instantiate.

Only model-checked: all liveness (`EveryTicketDispatched`, `ShutdownReleasesAll`,
`EmitNeverBlocks`, `StopReturns`, `AbandonedWorkStops`, `ViewConverges`), since TLAPS
does not reason about fairness and `ENABLED` here. Every safety property of the
passing runs is a theorem.

## 6. Not modelled

- The stability score: floating point. Its threshold test is a free judgement, so
  that what `Supervisor` shows holds for every score.
- The text formats: fields of vendor tools, Prometheus lines, histograms and
  their quantiles, JSON and HTTP rendering, hashing, feature extraction,
  configuration.
- Device discovery, process groups and pipes of the command execution.
- `Queue.Snapshot` with its rate and wait samples: it feeds reports only.
- The round-robin, least-x and affinity-only policies: one counter or one minimum
  over the snapshot that `Routing` models; the filter they share is modelled.
- Latency percentiles, ECC deltas and throughput variance of the device history:
  inputs of the score only.
- The status collector, experiments and scripts: outside the running system.

## 7. Plan

1. Proofs: the safety part of the liveness arguments (a wakeup that is pending is
   never lost, a released waiter stays released) as invariants.
2. Composition: readiness as the registry sees it, from `DeviceStatus` by way of
   `Routing`; `Gateway` on top of `Sidecar`, with several requests.
3. The stability score over scaled integers, with its smoothing.
