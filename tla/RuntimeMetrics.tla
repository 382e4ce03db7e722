--------------------------- MODULE RuntimeMetrics ---------------------------
(***************************************************************************)
(* How the router learns the service rate and the free KV cache of one     *)
(* backend: a chain of loops, each of which reads what the one before it   *)
(* last stored.                                                            *)
(*   - vLLM counts the tokens it generates, from zero after a restart;     *)
(*   - the sidecar's adapter (internal/runtime/vllm/adapter.go) scrapes    *)
(*     /metrics into a snapshot and checks /health, in two goroutines;     *)
(*   - the sidecar's feeder (cmd/sidecar/main.go) hands the KV headroom of *)
(*     the snapshot to the cache provider;                                 *)
(*   - the router's registry (internal/router/registry.go) GETs /v1/runtime*)
(*     and /v1/cache, differences the token counter and publishes.         *)
(* vLLM and the sidecar may restart and every request may fail.            *)
(*                                                                         *)
(* Abstracted: of the metrics, the generation counter and the KV-cache     *)
(* utilization are kept (in units of which Full is one).  The clock is     *)
(* left out: a rate is its numerator, as two polls of a backend are a      *)
(* whole refresh apart and the duration between them is positive.          *)
(***************************************************************************)
EXTENDS Integers

CONSTANTS
    Full,          \* a utilization of 1
    KVUtils,       \* the utilizations that vLLM reports
    HasCache,      \* the sidecar observes the cache
    MaxTokens,     \* bound: tokens ever generated
    MaxRestarts,   \* bound: times vLLM goes down
    MaxFaults      \* bound: failed requests and restarts of the sidecar

ASSUME RuntimeAssumption ==
    /\ Full \in Nat
    /\ KVUtils \subseteq 0..Full
    /\ HasCache \in BOOLEAN
    /\ MaxTokens \in Nat /\ MaxRestarts \in Nat /\ MaxFaults \in Nat

VARIABLES
    \* vLLM
    up, tokens, kvUtil, restarts,
    \* the adapter: the answer to the scrape under way, the snapshot, Healthy
    body, snap, healthy,
    \* the cache provider
    provider,
    \* the registry: where its poll is, the state under construction, the
    \* last sample of the counter, the published state
    pollAt, st, prev, view,
    faults,
    \* history: tokens generated by all processes so far
    made

vllmVars     == <<up, tokens, kvUtil, restarts, made>>
sidecarVars  == <<body, snap, healthy, provider>>
registryVars == <<pollAt, st, prev, view>>
vars == <<vllmVars, sidecarVars, registryVars, faults>>

-----------------------------------------------------------------------------
(* Fields, samples and states. *)

Sup(v) == [value |-> v, supported |-> TRUE]
Unsup == [value |-> 0, supported |-> FALSE]

\* RuntimeMetrics.  History: how many tokens had been generated when vLLM wrote
\* the body, unless this was cut short.
Metrics(gen, kv, at) == [GenThroughput |-> gen, KVCacheUtil |-> kv, made |-> at]
NoMetrics == Metrics(Unsup, Unsup, made)
Cut == 0 - 1

NoAnswer == [at |-> "none"]
Answer(m) == [at |-> "answered", metrics |-> m]

NoSample == [had |-> FALSE]

NoRate == [rate |-> 0, supported |-> FALSE, earned |-> TRUE]

Blank == [RuntimeHealthy |-> FALSE, KVCacheUtil |-> 0, service |-> NoRate, KVHeadroom |-> Unsup]

Init ==
    /\ up = FALSE
    /\ tokens = 0
    /\ kvUtil \in KVUtils
    /\ restarts = 0
    /\ made = 0
    /\ body = NoAnswer
    /\ snap = NoMetrics
    /\ healthy = FALSE
    /\ provider = Unsup
    /\ pollAt = "runtime"
    /\ st = Blank
    /\ prev = NoSample
    /\ view = Blank
    /\ faults = 0

Fault == faults < MaxFaults /\ faults' = faults + 1

-----------------------------------------------------------------------------
(* vLLM. *)

Boot ==
    /\ ~up
    /\ up' = TRUE
    /\ tokens' = 0
    /\ kvUtil' \in KVUtils
    /\ UNCHANGED <<restarts, made, sidecarVars, registryVars, faults>>

Generate ==
    /\ up
    /\ made < MaxTokens
    /\ made' = made + 1
    /\ tokens' = tokens + 1
    /\ kvUtil' \in KVUtils
    /\ UNCHANGED <<up, restarts, sidecarVars, registryVars, faults>>

GoDown ==
    /\ up
    /\ restarts < MaxRestarts
    /\ restarts' = restarts + 1
    /\ up' = FALSE
    /\ UNCHANGED <<tokens, kvUtil, made, sidecarVars, registryVars, faults>>

-----------------------------------------------------------------------------
(* The adapter. *)

\* A body cut short by the timeout or a lost connection: ReadAll's error is
\* ignored, lines are missing and the last number may have lost digits.
CutMetrics ==
    {Metrics(gen, kv, Cut) : gen \in {Unsup} \cup {Sup(n) : n \in 0..tokens},
                               kv \in {Unsup} \cup {Sup(u) : u \in 0..kvUtil}}

ScrapeAnswered ==
    /\ body = NoAnswer
    /\ \/ /\ up
          /\ body' = Answer(Metrics(Sup(tokens), Sup(kvUtil), made))
          /\ UNCHANGED faults
       \/ /\ up
          /\ Fault
          /\ \E m \in CutMetrics : body' = Answer(m)
       \/ /\ ~up
          /\ body' = Answer(NoMetrics)
          /\ UNCHANGED faults
       \/ /\ up
          /\ Fault
          /\ body' = Answer(NoMetrics)
    /\ UNCHANGED <<vllmVars, snap, healthy, provider, registryVars>>

\* Mutant: a scrape that fails leaves the last snapshot in place.
ScrapeStoresGood ==
    /\ body # NoAnswer
    /\ snap' = IF body.metrics.KVCacheUtil = Unsup THEN snap ELSE body.metrics
    /\ body' = NoAnswer
    /\ UNCHANGED <<vllmVars, healthy, provider, registryVars, faults>>

ScrapeStores ==
    /\ body # NoAnswer
    /\ snap' = body.metrics
    /\ body' = NoAnswer
    /\ UNCHANGED <<vllmVars, healthy, provider, registryVars, faults>>

checkHealth ==
    /\ \/ healthy' = up /\ UNCHANGED faults
       \/ up /\ Fault /\ healthy' = FALSE
    /\ UNCHANGED <<vllmVars, body, snap, provider, registryVars>>

-----------------------------------------------------------------------------
(* The feeder.  (Its other half, the restart seen by Health, is in         *)
(* CachePlane.)                                                            *)

\* Mutant: an unknown utilization leaves the last headroom in place.
HeadroomKept(kv) == IF kv.supported THEN Sup(Full - kv.value) ELSE provider

HeadroomOf(kv) == IF kv.supported THEN Sup(Full - kv.value) ELSE Unsup

Feed ==
    /\ HasCache
    /\ provider' = HeadroomOf(snap.KVCacheUtil)
    /\ UNCHANGED <<vllmVars, body, snap, healthy, registryVars, faults>>

\* The sidecar starts anew, with an empty snapshot.
SidecarRestarts ==
    /\ Fault
    /\ body' = NoAnswer
    /\ snap' = NoMetrics
    /\ healthy' = FALSE
    /\ provider' = Unsup
    /\ UNCHANGED <<vllmVars, registryVars>>

-----------------------------------------------------------------------------
(* The registry. *)

Sample(m) == [had |-> TRUE, genTokensTotal |-> m.GenThroughput.value,
              supported |-> m.GenThroughput.supported, made |-> m.made]

\* History: whether the tokens were generated between the two scrapes, or at
\* least one of these was cut short.
Rate(d, old, new) == [rate |-> d, supported |-> TRUE,
                      earned |-> Cut \in {old.made, new.made} \/ d <= new.made - old.made]

\* Mutants: the sample before an unsupported one is not looked at for its
\* support; a counter that fell counts by its distance.
serviceRateUnchecked(old, new) ==
    IF ~new.supported \/ ~old.had THEN NoRate
    ELSE IF new.genTokensTotal < old.genTokensTotal THEN Rate(0, old, new)
    ELSE Rate(new.genTokensTotal - old.genTokensTotal, old, new)

serviceRateAbsolute(old, new) ==
    IF ~new.supported \/ ~old.had \/ ~old.supported THEN NoRate
    ELSE IF new.genTokensTotal < old.genTokensTotal
         THEN Rate(old.genTokensTotal - new.genTokensTotal, old, new)
    ELSE Rate(new.genTokensTotal - old.genTokensTotal, old, new)

serviceRate(old, new) ==
    IF ~new.supported \/ ~old.had \/ ~old.supported THEN NoRate
    ELSE IF new.genTokensTotal < old.genTokensTotal THEN Rate(0, old, new)
    ELSE Rate(new.genTokensTotal - old.genTokensTotal, old, new)

\* pollBackend, GET /v1/runtime: Adapter.Snapshot, then the service rate.
GetRuntime ==
    /\ pollAt = "runtime"
    /\ \/ /\ st' = [Blank EXCEPT !.RuntimeHealthy = healthy,
                                 !.KVCacheUtil = snap.KVCacheUtil.value,
                                 !.service = serviceRate(prev, Sample(snap))]
          /\ prev' = Sample(snap)
          /\ UNCHANGED faults
       \/ /\ Fault
          /\ st' = Blank
          /\ UNCHANGED prev
    /\ pollAt' = "cache"
    /\ UNCHANGED <<vllmVars, sidecarVars, view>>

\* A headroom the cache plane does not report is derived from the runtime's.
Derived(s) ==
    IF ~s.KVHeadroom.supported /\ s.RuntimeHealthy
    THEN [s EXCEPT !.KVHeadroom = Sup(Full - s.KVCacheUtil)]
    ELSE s

\* pollBackend, GET /v1/cache; then refresh publishes.
GetCache ==
    /\ pollAt = "cache"
    /\ \/ view' = Derived([st EXCEPT !.KVHeadroom = provider]) /\ UNCHANGED faults
       \/ Fault /\ view' = Derived(st)
    /\ pollAt' = "runtime"
    /\ st' = Blank
    /\ UNCHANGED <<vllmVars, sidecarVars, prev>>

-----------------------------------------------------------------------------
Next ==
    \/ Boot \/ Generate \/ GoDown
    \/ ScrapeAnswered \/ ScrapeStores \/ checkHealth \/ Feed \/ SidecarRestarts
    \/ GetRuntime \/ GetCache

Spec == Init /\ [][Next]_vars

(* The loops run on tickers and every request of theirs has a timeout, so  *)
(* each takes its next step sooner or later.  Nothing is assumed of vLLM.  *)
LoopFairness ==
    /\ WF_vars(ScrapeAnswered) /\ WF_vars(ScrapeStores)
    /\ WF_vars(checkHealth)
    /\ WF_vars(Feed)
    /\ WF_vars(GetRuntime) /\ WF_vars(GetCache)

FairSpec == Spec /\ LoopFairness

-----------------------------------------------------------------------------
(* The service rate counts no token that was not generated in between: it  *)
(* is at most what vLLM generated from the earlier of the two scrapes to   *)
(* the later one, whatever restarted and whichever requests failed between *)
(* them, and although polls and scrapes keep no step.  (Both bodies must   *)
(* have come whole: a total cut short makes the next difference too large.)*)
RateWasGenerated == view.service.earned

(* The router's view converges: when vLLM has stopped changing and no more *)
(* requests fail, the view is that of vLLM as it is, through every cache   *)
(* on the way: its health, whether there is a service rate, and its        *)
(* headroom, which is not claimed for a vLLM that is down.                 *)
ViewConverges ==
    <>[](/\ view.RuntimeHealthy = up
         /\ view.service.supported = up
         /\ view.KVHeadroom = IF up THEN Sup(Full - kvUtil) ELSE Unsup)

(* "Unsupported runtime features are marked unsupported, never represented *)
(* as a real zero" (internal/cache/model.go:8), and kv_headroom is         *)
(* "1-kv_cache_util when known" (model.go:102): a headroom that is said to *)
(* be supported belongs to a utilization that vLLM has reported.           *)
HeadroomMeasured ==
    view.KVHeadroom.supported => view.KVHeadroom.value \in {Full - u : u \in KVUtils}
=============================================================================
