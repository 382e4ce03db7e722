------------------------ MODULE RuntimeMetricsProofs ------------------------
(***************************************************************************)
(* The service rate counts no token that was not generated in between, for *)
(* every number of tokens, restarts and failed requests.                   *)
(***************************************************************************)
EXTENDS RuntimeMetrics, TLAPS

Fields == [value : Nat, supported : BOOLEAN]
Bodies == [GenThroughput : Fields, KVCacheUtil : Fields, made : Nat \cup {Cut}]
Counts == [had : {TRUE}, genTokensTotal : Nat, supported : BOOLEAN, made : Nat \cup {Cut}]
Headrooms == [value : Int, supported : BOOLEAN]
States == [RuntimeHealthy : BOOLEAN, KVCacheUtil : Nat, KVHeadroom : Headrooms,
           service : [rate : Nat, supported : BOOLEAN, earned : BOOLEAN]]

(* The type invariant (the counters of the bounds and the poll's position  *)
(* are left out: nothing below depends on them).                           *)
TypeOK ==
    /\ up \in BOOLEAN
    /\ tokens \in Nat
    /\ made \in Nat
    /\ kvUtil \in Nat
    /\ healthy \in BOOLEAN
    /\ provider \in Headrooms
    /\ st \in States
    /\ view \in States
    /\ body = NoAnswer \/ \E m \in Bodies : body = Answer(m)
    /\ snap \in Bodies
    /\ prev = NoSample \/ prev \in Counts

(* What a scrape that is answered now would count. *)
Current == [had |-> TRUE, genTokensTotal |-> tokens, supported |-> TRUE, made |-> made]

(* Of two whole counts, the later one has grown by no more than what was   *)
(* generated between them; it may have started again from zero.            *)
Whole(x) == x.supported /\ x.made # Cut

Before(x, y) ==
    Whole(x) /\ Whole(y) =>
        /\ x.made <= y.made
        /\ y.genTokensTotal - x.genTokensTotal <= y.made - x.made

(* The counts on the way, oldest first: the registry's last sample, the    *)
(* adapter's snapshot, the answer under way, and vLLM itself.  Each pair   *)
(* is in order; one in the middle may be missing, so that this is more     *)
(* than the order of neighbours.                                           *)
InOrder ==
    /\ Before(Sample(snap), Current)
    /\ body # NoAnswer => /\ Before(Sample(snap), Sample(body.metrics))
                          /\ Before(Sample(body.metrics), Current)
    /\ prev.had => /\ Before(prev, Sample(snap))
                   /\ Before(prev, Current)
    /\ prev.had /\ body # NoAnswer => Before(prev, Sample(body.metrics))

(* The inductive invariant. *)
IInv ==
    /\ TypeOK
    /\ InOrder
    /\ st.service.earned
    /\ view.service.earned

-----------------------------------------------------------------------------
(* What the registry takes of a snapshot is a count. *)
LEMMA SampleType ==
    \A m \in Bodies : Sample(m) \in Counts
BY DEF Sample, Bodies, Fields, Counts

(* A count is in order with itself. *)
LEMMA BeforeReflexive ==
    \A x \in Counts : Before(x, x)
BY DEF Before, Whole, Counts, Cut

(* What is generated from now on keeps every earlier count in order with   *)
(* vLLM's own; so does a restart from zero.                                *)
LEMMA BeforeLater ==
    ASSUME tokens \in Nat, made \in Nat, tokens' \in Nat, made' \in Nat,
           made <= made', tokens' - tokens <= made' - made,
           NEW x \in Counts, Before(x, Current)
    PROVE  Before(x, Current')
<1> SUFFICES ASSUME Whole(x)
             PROVE  /\ x.made <= made'
                    /\ tokens' - x.genTokensTotal <= made' - x.made
  BY DEF Before, Current
<1>1. Whole(Current)
  BY DEF Whole, Current, Cut
<1>2. x.made <= made /\ tokens - x.genTokensTotal <= made - x.made
  BY <1>1 DEF Before, Current
<1>3. x.made \in Nat /\ x.genTokensTotal \in Nat
  BY DEF Whole, Counts
<1>4. \A a, n, t, m, u, k \in Nat :
          a <= m /\ t - n <= m - a /\ m <= k /\ u - t <= k - m
              => a <= k /\ u - n <= k - a
  OBVIOUS
<1> QED BY ONLY <1>2, <1>3, <1>4, tokens \in Nat, made \in Nat, tokens' \in Nat,
           made' \in Nat, made <= made', tokens' - tokens <= made' - made

LEMMA BlankType == Blank \in States
BY DEF Blank, NoRate, Unsup, States, Headrooms

LEMMA RateType ==
    ASSUME NEW old \in Counts \cup {NoSample}, NEW new \in Counts
    PROVE  serviceRate(old, new) \in [rate : Nat, supported : BOOLEAN, earned : BOOLEAN]
<1>1. CASE ~new.supported \/ ~old.had \/ ~old.supported
  BY <1>1 DEF serviceRate, NoRate
<1>2. CASE new.supported /\ old.had /\ old.supported
  <2>1. old \in Counts
    BY <1>2 DEF NoSample
  <2>2. serviceRate(old, new) = Rate(0, old, new)
           \/ /\ ~(new.genTokensTotal < old.genTokensTotal)
              /\ serviceRate(old, new) = Rate(new.genTokensTotal - old.genTokensTotal, old, new)
    BY <1>2 DEF serviceRate
  <2>3. new.genTokensTotal \in Nat /\ old.genTokensTotal \in Nat
    BY <2>1 DEF Counts
  <2>4. \A d \in Nat : Rate(d, old, new) \in [rate : Nat, supported : BOOLEAN, earned : BOOLEAN]
    BY DEF Rate
  <2> QED BY <2>2, <2>3, <2>4
<1> QED BY <1>1, <1>2

(* The service rate of two counts in order is earned. *)
LEMMA RateEarned ==
    ASSUME NEW old \in Counts \cup {NoSample}, NEW new \in Counts,
           old.had => Before(old, new)
    PROVE  serviceRate(old, new).earned
<1>1. CASE ~new.supported \/ ~old.had \/ ~old.supported
  BY <1>1 DEF serviceRate, NoRate
<1>2. CASE new.supported /\ old.had /\ old.supported
  <2>1. old \in Counts
    BY <1>2 DEF NoSample
  <2>2. Before(old, new)
    BY <1>2
  <2>3. CASE new.genTokensTotal < old.genTokensTotal
    BY <1>2, <2>1, <2>2, <2>3 DEF serviceRate, Rate, Before, Whole, Counts, Cut
  <2>4. CASE ~(new.genTokensTotal < old.genTokensTotal)
    BY <1>2, <2>1, <2>2, <2>4 DEF serviceRate, Rate, Before, Whole, Counts, Cut
  <2> QED BY <2>3, <2>4
<1> QED BY <1>1, <1>2

-----------------------------------------------------------------------------
LEMMA InitIInv == Init => IInv
<1> SUFFICES ASSUME Init PROVE IInv
  OBVIOUS
<1>1. kvUtil \in Nat
  BY RuntimeAssumption DEF Init
<1>2. snap \in Bodies
  BY DEF Init, NoMetrics, Metrics, Unsup, Bodies, Fields
<1>3. provider \in Headrooms /\ st \in States /\ view \in States
  BY DEF Init, Headrooms, States, Blank, NoRate, Unsup
<1>4. TypeOK
  BY <1>1, <1>2, <1>3 DEF Init, TypeOK
<1>5. ~Whole(Sample(snap))
  BY DEF Init, Whole, Sample, NoMetrics, Metrics, Unsup
<1>6. InOrder
  BY <1>5 DEF Init, InOrder, Before, NoSample
<1> QED BY <1>4, <1>6 DEF Init, IInv, Blank, NoRate

(* vLLM moves on; the counts on the way stay as they are. *)
LEMMA VllmIInv ==
    ASSUME IInv, UNCHANGED <<sidecarVars, registryVars>>,
           up' \in BOOLEAN, tokens' \in Nat, made' \in Nat, kvUtil' \in Nat,
           made <= made', tokens' - tokens <= made' - made
    PROVE  IInv'
<1> USE DEF sidecarVars, registryVars
<1>1. TypeOK'
  BY DEF IInv, TypeOK
<1>2. Sample(snap) \in Counts
  BY SampleType DEF IInv, TypeOK
<1>3. Before(Sample(snap), Current')
  BY <1>2, BeforeLater DEF IInv, TypeOK, InOrder
<1>4. body # NoAnswer => Before(Sample(body.metrics), Current')
  <2> SUFFICES ASSUME body # NoAnswer PROVE Before(Sample(body.metrics), Current')
    OBVIOUS
  <2>1. Sample(body.metrics) \in Counts
    BY SampleType DEF IInv, TypeOK, Answer
  <2> QED BY <2>1, BeforeLater DEF IInv, TypeOK, InOrder
<1>5. prev.had => Before(prev, Current')
  <2> SUFFICES ASSUME prev.had PROVE Before(prev, Current')
    OBVIOUS
  <2>1. prev \in Counts
    BY DEF IInv, TypeOK, NoSample
  <2> QED BY <2>1, BeforeLater DEF IInv, TypeOK, InOrder
<1>6. InOrder'
  BY <1>3, <1>4, <1>5 DEF IInv, InOrder, Before, Whole, Sample
<1> QED BY <1>1, <1>6 DEF IInv

(* Nothing that the service rate depends on changes. *)
LEMMA QuietIInv ==
    ASSUME IInv, UNCHANGED <<up, tokens, kvUtil, made, body, snap, prev>>,
           healthy' \in BOOLEAN, provider' \in Headrooms, st' \in States, view' \in States,
           st'.service.earned, view'.service.earned
    PROVE  IInv'
BY DEF IInv, TypeOK, InOrder, Before, Whole, Sample, Current

(* A new answer is in order after every count on the way, whether it is    *)
(* vLLM's own, cut short or empty.                                         *)
LEMMA ScrapeAnsweredIInv ==
    ASSUME IInv, ScrapeAnswered
    PROVE  IInv'
<1> USE DEF vllmVars, registryVars
<1>1. PICK m \in Bodies : /\ body' = Answer(m)
                          /\ Whole(Sample(m)) => Sample(m) = Current
  <2>1. CASE body' = Answer(Metrics(Sup(tokens), Sup(kvUtil), made))
    <3>1. Metrics(Sup(tokens), Sup(kvUtil), made) \in Bodies
      BY DEF IInv, TypeOK, Metrics, Sup, Bodies, Fields
    <3>2. Sample(Metrics(Sup(tokens), Sup(kvUtil), made)) = Current
      BY DEF Sample, Metrics, Sup, Current
    <3> QED BY <2>1, <3>1, <3>2
  <2>2. CASE \E m \in CutMetrics : body' = Answer(m)
    <3>1. PICK m \in CutMetrics : body' = Answer(m)
      BY <2>2
    <3>2. PICK gen \in {Unsup} \cup {Sup(n) : n \in 0..tokens},
               kv \in {Unsup} \cup {Sup(u) : u \in 0..kvUtil} : m = Metrics(gen, kv, Cut)
      BY <3>1 DEF CutMetrics
    <3>3. gen \in Fields /\ kv \in Fields
      <4>1. \A n \in Nat : Sup(n) \in Fields
        BY DEF Sup, Fields
      <4>2. Unsup \in Fields
        BY DEF Unsup, Fields
      <4>3. 0..tokens \subseteq Nat /\ 0..kvUtil \subseteq Nat
        BY DEF IInv, TypeOK
      <4> QED BY <4>1, <4>2, <4>3
    <3>4. m \in Bodies /\ m.made = Cut
      BY <3>2, <3>3 DEF Metrics, Bodies
    <3>5. ~Whole(Sample(m))
      BY <3>4 DEF Whole, Sample
    <3> QED BY <3>1, <3>4, <3>5
  <2>3. CASE body' = Answer(NoMetrics)
    <3>1. NoMetrics \in Bodies
      BY DEF IInv, TypeOK, NoMetrics, Metrics, Unsup, Bodies, Fields
    <3>2. ~Whole(Sample(NoMetrics))
      BY DEF Whole, Sample, NoMetrics, Metrics, Unsup
    <3> QED BY <2>3, <3>1, <3>2
  <2> QED BY <2>1, <2>2, <2>3 DEF ScrapeAnswered
<1>2. /\ UNCHANGED <<up, tokens, kvUtil, made, healthy, provider, snap, prev, st, view>>
      /\ body'.metrics = m
  BY <1>1 DEF ScrapeAnswered, Answer
<1>3. TypeOK'
  BY <1>1, <1>2 DEF IInv, TypeOK
<1>4. Before(Sample(m), Current)
  BY <1>1, SampleType, BeforeReflexive DEF Before
<1>5. /\ Before(Sample(snap), Sample(m))
      /\ prev.had => Before(prev, Sample(m))
  BY <1>1 DEF IInv, InOrder, Before, Whole, Current
<1>6. InOrder'
  BY <1>2, <1>4, <1>5 DEF IInv, InOrder, Before, Whole, Sample, Current
<1> QED BY <1>2, <1>3, <1>6 DEF IInv

(* The answer takes the place of the snapshot. *)
LEMMA ScrapeStoresIInv ==
    ASSUME IInv, ScrapeStores
    PROVE  IInv'
<1> USE DEF ScrapeStores, vllmVars, registryVars
<1>1. body.metrics \in Bodies
  BY DEF IInv, TypeOK, Answer
<1>2. TypeOK'
  BY <1>1 DEF IInv, TypeOK
<1>3. InOrder'
  BY DEF IInv, InOrder, Before, Whole, Sample, Current
<1> QED BY <1>2, <1>3 DEF IInv

(* An empty snapshot is in order with everything. *)
LEMMA SidecarRestartsIInv ==
    ASSUME IInv, SidecarRestarts
    PROVE  IInv'
<1> USE DEF SidecarRestarts, vllmVars, registryVars
<1>1. TypeOK'
  <2>1. snap' \in Bodies
    BY DEF IInv, TypeOK, NoMetrics, Metrics, Unsup, Bodies, Fields
  <2>2. provider' \in Headrooms
    BY DEF Unsup, Headrooms
  <2> QED BY <2>1, <2>2 DEF IInv, TypeOK
<1>2. ~Whole(Sample(snap'))
  BY DEF Whole, Sample, NoMetrics, Metrics, Unsup
<1>3. InOrder'
  BY <1>2 DEF IInv, InOrder, Before, Whole, Sample, Current
<1> QED BY <1>1, <1>3 DEF IInv

(* The registry's new sample is the snapshot, in order with itself. *)
LEMMA GetRuntimeIInv ==
    ASSUME IInv, GetRuntime
    PROVE  IInv'
<1> USE DEF vllmVars, sidecarVars
<1>1. CASE UNCHANGED prev /\ st' = Blank
  <2>1. st'.service.earned /\ view'.service.earned
    BY <1>1 DEF GetRuntime, IInv, Blank, NoRate
  <2> QED BY <1>1, <2>1, BlankType, QuietIInv DEF GetRuntime, IInv, TypeOK
<1>2. CASE /\ prev' = Sample(snap)
           /\ st' = [Blank EXCEPT !.RuntimeHealthy = healthy,
                                  !.KVCacheUtil = snap.KVCacheUtil.value,
                                  !.service = serviceRate(prev, Sample(snap))]
  <2>1. /\ Sample(snap) \in Counts
        /\ prev \in Counts \cup {NoSample}
        /\ prev.had => Before(prev, Sample(snap))
    BY SampleType DEF IInv, TypeOK, InOrder
  <2>2. st'.service.earned /\ st' \in States
    <3>1. serviceRate(prev, Sample(snap)) \in [rate : Nat, supported : BOOLEAN, earned : BOOLEAN]
      BY <2>1, RateType
    <3>2. healthy \in BOOLEAN /\ snap.KVCacheUtil.value \in Nat
      BY DEF IInv, TypeOK, Bodies, Fields
    <3>3. st' = [Blank EXCEPT !.RuntimeHealthy = healthy,
                              !.KVCacheUtil = snap.KVCacheUtil.value,
                              !.service = serviceRate(prev, Sample(snap))]
      BY <1>2
    <3>4. st' \in States
      BY <3>1, <3>2, <3>3, BlankType DEF States
    <3>5. st'.service = serviceRate(prev, Sample(snap))
      BY <3>3 DEF Blank
    <3> QED BY <2>1, <3>4, <3>5, RateEarned
  <2>3. TypeOK'
    BY <1>2, <2>1, <2>2 DEF GetRuntime, IInv, TypeOK
  <2>4. Before(Sample(snap), Sample(snap))
    BY <2>1, BeforeReflexive
  <2>5. InOrder'
    BY <1>2, <2>4 DEF GetRuntime, IInv, InOrder, Before, Whole, Sample, Current
  <2> QED BY <2>2, <2>3, <2>5 DEF GetRuntime, IInv
<1> QED BY <1>1, <1>2 DEF GetRuntime

(* Deriving a headroom leaves the service rate alone. *)
LEMMA GetCacheIInv ==
    ASSUME IInv, GetCache
    PROVE  IInv'
<1> USE DEF vllmVars, sidecarVars
<1>1. \A s \in States : Derived(s) \in States /\ Derived(s).service = s.service
  <2> SUFFICES ASSUME NEW s \in States
               PROVE  Derived(s) \in States /\ Derived(s).service = s.service
    OBVIOUS
  <2>1. Full - s.KVCacheUtil \in Int
    BY RuntimeAssumption DEF States
  <2>2. Sup(Full - s.KVCacheUtil) \in Headrooms
    BY <2>1 DEF Sup, Headrooms
  <2>3. \A h \in Headrooms : /\ [s EXCEPT !.KVHeadroom = h] \in States
                             /\ [s EXCEPT !.KVHeadroom = h].service = s.service
    BY DEF States
  <2> QED BY <2>2, <2>3 DEF Derived
<1>2. PICK s \in States : s.service = st.service /\ view' = Derived(s)
  <2>1. /\ st \in States
        /\ [st EXCEPT !.KVHeadroom = provider] \in States
        /\ [st EXCEPT !.KVHeadroom = provider].service = st.service
    BY DEF IInv, TypeOK, States
  <2> QED BY <2>1 DEF GetCache
<1>3. view' \in States /\ view'.service.earned
  BY <1>1, <1>2 DEF IInv
<1>4. st' \in States /\ st'.service.earned
  BY BlankType DEF GetCache, Blank, NoRate
<1> QED BY <1>3, <1>4, QuietIInv DEF GetCache, IInv, TypeOK

-----------------------------------------------------------------------------
(* Every step preserves the inductive invariant. *)
LEMMA StepIInv == IInv /\ [Next]_vars => IInv'
<1> SUFFICES ASSUME IInv, [Next]_vars PROVE IInv'
  OBVIOUS
<1>1. CASE Boot
  <2>1. kvUtil' \in Nat
    BY <1>1, RuntimeAssumption DEF Boot
  <2> QED BY <1>1, <2>1, VllmIInv DEF Boot, IInv, TypeOK
<1>2. CASE Generate
  <2>1. kvUtil' \in Nat
    BY <1>2, RuntimeAssumption DEF Generate
  <2> QED BY <1>2, <2>1, VllmIInv DEF Generate, IInv, TypeOK
<1>3. CASE GoDown
  <2>1. up' \in BOOLEAN /\ UNCHANGED <<tokens, made, kvUtil>>
    BY <1>3 DEF GoDown
  <2>2. tokens \in Nat /\ made \in Nat /\ kvUtil \in Nat
    BY DEF IInv, TypeOK
  <2>3. made <= made' /\ tokens' - tokens <= made' - made
    BY <2>1, <2>2
  <2> QED BY <1>3, <2>1, <2>2, <2>3, VllmIInv DEF GoDown
<1>4. CASE checkHealth
  <2>1. healthy' \in BOOLEAN
    BY <1>4 DEF checkHealth, IInv, TypeOK
  <2> QED BY <1>4, <2>1, QuietIInv DEF checkHealth, vllmVars, registryVars, IInv, TypeOK
<1>5. CASE Feed
  <2>1. provider' \in Headrooms
    BY <1>5, RuntimeAssumption
    DEF Feed, HeadroomOf, Sup, Unsup, Headrooms, IInv, TypeOK, Bodies, Fields
  <2> QED BY <1>5, <2>1, QuietIInv DEF Feed, vllmVars, registryVars, IInv, TypeOK
<1>6. CASE UNCHANGED vars
  BY <1>6, QuietIInv DEF vars, vllmVars, sidecarVars, registryVars, IInv, TypeOK
<1> QED
  BY <1>1, <1>2, <1>3, <1>4, <1>5, <1>6, ScrapeAnsweredIInv, ScrapeStoresIInv,
     SidecarRestartsIInv, GetRuntimeIInv, GetCacheIInv DEF Next

(* The invariant holds in every reachable state. *)
THEOREM Invariance == Spec => []IInv
<1>1. Init => IInv
  BY InitIInv
<1>2. IInv /\ [Next]_vars => IInv'
  BY StepIInv
<1> QED BY <1>1, <1>2, PTL DEF Spec

(* The service rate that the router publishes for a backend counts no      *)
(* token that was not generated between the two scrapes, whatever          *)
(* restarts, fails or is read twice (registry.go, serviceRate).            *)
THEOREM RateIsGenerated == Spec => []RateWasGenerated
<1>1. IInv => RateWasGenerated
  BY DEF IInv, RateWasGenerated
<1> QED BY <1>1, Invariance, PTL
=============================================================================
