---------------------------- MODULE RoutingProofs ----------------------------
(***************************************************************************)
(* What the router is told and what it decides, for every number of        *)
(* backends, every coefficient of the policy and every number of changes,  *)
(* rounds and failed GETs: the snapshot and the directory only list what   *)
(* was true during the refresh that published them; the head of the sorted *)
(* costs is the eligible backend of least cost; and when the recorded      *)
(* scores do not lead to it, the directory had changed meanwhile.          *)
(***************************************************************************)
EXTENDS Routing, FiniteSetTheorems, WellFoundedInduction, TLAPS

(* The types. *)
Places == {"readyz", "status", "queue", "runtime", "cache", "done"}

States ==
    [Reachable : BOOLEAN, LifecycleState : {"", "READY", "DRAINING"}, QueueDepth : Nat,
     QueueMax : Nat, RuntimeHealthy : BOOLEAN, CacheObservationSupported : BOOLEAN,
     CacheConfidence : {0, 1}]

Polls == [at : Places, st : States, dir : {0, 1}]

Sightings == [healthy : BOOLEAN, warm : BOOLEAN]

Requests ==
    [at : {"refused", "scoring", "deciding", "decided"}, snap : {<<>>} \cup [Backends -> States],
     todo : SUBSET Backends, recorded : [Backends -> {0, 1}], matched : [Backends -> {0, 1}],
     chosen : 0..N, moved : SUBSET Backends]

TypeOK ==
    /\ truth \in [Backends -> Actual]
    /\ phase \in {"idle", "polling", "publishing"}
    /\ poll \in [Backends -> Polls]
    /\ snap \in {<<>>} \cup [Backends -> States]
    /\ cacheDir \in [Backends -> {0, 1}]
    /\ request \in {NoRequest} \cup Requests
    /\ seen \in [Backends -> Sightings]
    /\ snapSeen \in [Backends -> Sightings]
    /\ dirSeen \in [Backends -> Sightings]

(* What is true now has been seen by the refresh that is under way. *)
SeenNow ==
    \A b \in Backends :
        /\ truth[b].healthy => seen[b].healthy
        /\ truth[b].cache = "warm" => seen[b].warm

(* A poll holds what was true at some time of its refresh. *)
PolledWasSeen ==
    /\ phase = "polling" =>
          \A b \in Backends :
              /\ poll[b].st.RuntimeHealthy => seen[b].healthy
              /\ poll[b].dir > 0 => seen[b].warm
    /\ phase = "publishing" => \A b \in Backends : poll[b].dir > 0 => snapSeen[b].warm

SnapWasSeen ==
    snap # <<>> => \A b \in Backends : snap[b].RuntimeHealthy => snapSeen[b].healthy

(* The inductive invariant of the registry. *)
RegistryInv == TypeOK /\ SeenNow /\ PolledWasSeen /\ SnapWasSeen /\ DirectoryNotStale

(* A request that is being decided works on a snapshot with candidates. *)
Candidates ==
    request.at \in {"scoring", "deciding", "decided"} =>
        /\ request.snap \in [Backends -> States]
        /\ eligible(request.snap) # {}
        /\ request.todo \subseteq eligible(request.snap)
        /\ request.at = "scoring" => request.todo # {}
        /\ request.at = "decided" => request.todo = {}

(* Unless a swap was noted for it, a backend's recorded tokens are what    *)
(* the directory says until the policy looks it up, and what the policy    *)
(* works with from then on.                                                *)
LookupsAgree ==
    request.at \in {"scoring", "deciding", "decided"} =>
        \A b \in eligible(request.snap) \ request.moved :
            /\ BetweenLookups(b) => request.recorded[b] = Lookup(b)
            /\ request.at # "scoring" /\ b \notin request.todo =>
                  request.matched[b] = request.recorded[b]

(* No candidate is less than b. *)
Unbeaten(s, m, b) == b \in eligible(s) /\ \A c \in eligible(s) : ~Less(s, m, c, b)

(* No backend beats the choice, for what the policy looked up. *)
Decided == request.at = "decided" => Unbeaten(request.snap, request.matched, request.chosen)

(* The inductive invariant of a request. *)
RequestInv == Candidates /\ LookupsAgree /\ Decided

(* The head of the sorted costs is a backend that the snapshot says is     *)
(* eligible; every other candidate costs more, or as much and has a higher *)
(* id.  So the choice does not depend on the order in which the candidates *)
(* were listed or on how sort.Slice arranges them                          *)
(* (policy_cache_aware.go:196).                                            *)
ChoiceIsBest ==
    request.at = "decided" =>
        /\ request.chosen \in eligible(request.snap)
        /\ \A c \in eligible(request.snap) \ {request.chosen} :
              LET best  == finishMs(request.snap[request.chosen], request.matched[request.chosen])
                  other == finishMs(request.snap[c], request.matched[c])
              IN  best < other \/ (best = other /\ request.chosen < c)

-----------------------------------------------------------------------------
(* A nonempty set of natural numbers has a least element: the proofs below *)
(* find with it the backend that is looked up next and the best one.       *)
LEMMA LeastNat ==
    ASSUME NEW T \in SUBSET Nat, T # {}
    PROVE  \E x \in T : \A y \in T : x <= y
<1> DEFINE R == {ss \in Nat \X Nat : ss[1] < ss[2]}
<1>1. PICK x \in T : \A y \in T : ~(<<y, x>> \in R)
  <2>1. IsWellFoundedOn(R, Nat)
    BY NatLessThanWellFounded DEF OpToRel
  <2> HIDE DEF R
  <2> QED BY <2>1, WFMin
<1>2. ASSUME NEW y \in T PROVE x <= y
  <2>1. ~(<<y, x>> \in R)
    BY <1>1
  <2>2. ~(y < x)
    BY <2>1
  <2> QED BY <2>2
<1> QED BY <1>2

LEMMA MinOfBackends ==
    ASSUME NEW T \in SUBSET Backends, T # {}
    PROVE  Min(T) \in T
<1>1. T \in SUBSET Nat
  BY RoutingAssumption DEF Backends
<1>2. \E x \in T : \A y \in T : x <= y
  BY <1>1, LeastNat
<1> QED BY <1>2 DEF Min

(* Only a snapshot of the backends has candidates. *)
LEMMA EligibleBackends ==
    ASSUME NEW s \in {<<>>} \cup [Backends -> States]
    PROVE  /\ eligible(s) \in SUBSET Backends
           /\ eligible(s) # {} => s \in [Backends -> States]
<1>1. CASE s = <<>>
  <2>1. DOMAIN s = {}
    BY <1>1
  <2> QED BY <2>1 DEF eligible
<1>2. CASE s \in [Backends -> States]
  BY <1>2 DEF eligible
<1> QED BY <1>1, <1>2

(* The estimate is a natural number. *)
LEMMA CostType ==
    ASSUME NEW st \in States, NEW m \in {0, 1}
    PROVE  finishMs(st, m) \in Nat
<1>1. st.QueueDepth \in Nat /\ st.CacheConfidence \in {0, 1}
  BY DEF States
<1>2. 1 - m \in {0, 1} /\ 1 - st.CacheConfidence \in {0, 1}
  BY <1>1
<1>3. \A x, y \in Nat : x * y \in Nat
  OBVIOUS
<1>4. /\ QueueMs * st.QueueDepth \in Nat
      /\ PrefillMs * (1 - m) \in Nat
      /\ StalenessMs * (1 - st.CacheConfidence) \in Nat
  BY <1>1, <1>2, <1>3, RoutingAssumption
<1> QED BY <1>4 DEF finishMs

(* The less function of the sorts is a strict total order. *)
LEMMA LessOrder ==
    ASSUME NEW s \in [Backends -> States], NEW m \in [Backends -> {0, 1}],
           NEW b \in Backends, NEW c \in Backends, NEW d \in Backends
    PROVE  /\ ~Less(s, m, b, b)
           /\ ~Less(s, m, b, c) /\ ~Less(s, m, c, d) => ~Less(s, m, b, d)
           /\ ~Less(s, m, b, c) /\ b # c =>
                 \/ finishMs(s[c], m[c]) < finishMs(s[b], m[b])
                 \/ finishMs(s[c], m[c]) = finishMs(s[b], m[b]) /\ c < b
<1> DEFINE B == finishMs(s[b], m[b])
           C == finishMs(s[c], m[c])
           D == finishMs(s[d], m[d])
<1>1. B \in Nat /\ C \in Nat /\ D \in Nat
  <2>1. /\ s[b] \in States /\ s[c] \in States /\ s[d] \in States
        /\ m[b] \in {0, 1} /\ m[c] \in {0, 1} /\ m[d] \in {0, 1}
    OBVIOUS
  <2> QED BY <2>1, CostType
<1>2. b \in Nat /\ c \in Nat /\ d \in Nat
  BY RoutingAssumption DEF Backends
<1> HIDE DEF B, C, D
<1>3. /\ ~(IF B # B THEN B < B ELSE b < b)
      /\ ~(IF B # C THEN B < C ELSE b < c) /\ ~(IF C # D THEN C < D ELSE c < d) =>
            ~(IF B # D THEN B < D ELSE b < d)
      /\ ~(IF B # C THEN B < C ELSE b < c) /\ b # c => C < B \/ (C = B /\ c < b)
  BY ONLY <1>1, <1>2
<1> QED BY <1>3, Zenon DEF Less, B, C, D

(* A sort that leaves no two neighbours in the wrong order puts a          *)
(* candidate first that none of the others is less than.                   *)
LEMMA FirstIsUnbeaten ==
    ASSUME NEW s \in [Backends -> States], NEW m \in [Backends -> {0, 1}], eligible(s) # {},
           NEW order \in Sorted(s, m)
    PROVE  Unbeaten(s, m, order[1])
<1> DEFINE E == eligible(s)
           k == Cardinality(E)
<1>1. E \subseteq Backends
  BY DEF eligible
<1>2. k \in Nat /\ k # 0
  <2>1. IsFiniteSet(Backends)
    BY FS_Interval, RoutingAssumption DEF Backends
  <2>2. IsFiniteSet(E)
    BY <1>1, <2>1, FS_Subset
  <2> HIDE DEF E
  <2>3. E # {}
    BY DEF E
  <2> QED BY <2>2, <2>3, FS_CardinalityType, FS_EmptySet
<1>3. /\ order \in [1..k -> E]
      /\ \A c \in E : \E i \in 1..k : order[i] = c
      /\ \A i \in 2..k : ~Less(s, m, order[i], order[i - 1])
  BY DEF Sorted, Bijection, Injection, Surjection
<1> HIDE DEF E, k
<1> DEFINE bad == {i \in 1..k : Less(s, m, order[i], order[1])}
<1>4. order[1] \in E
  BY <1>2, <1>3
<1>5. bad = {}
  <2> SUFFICES ASSUME bad # {} PROVE FALSE
    OBVIOUS
  <2>1. PICK i \in bad : \A j \in bad : i <= j
    <3>1. bad \in SUBSET Nat
      BY <1>2
    <3> HIDE DEF bad
    <3> QED BY <3>1, LeastNat
  <2>2. i \in 1..k /\ Less(s, m, order[i], order[1])
    BY <2>1
  <2>3. order[i] \in Backends /\ order[1] \in Backends
    BY <1>1, <1>3, <1>4, <2>2
  <2>4. i # 1
    BY <2>2, <2>3, LessOrder
  <2>5. i - 1 \in 1..k /\ i \in 2..k /\ ~(i <= i - 1)
    BY <1>2, <2>2, <2>4
  <2>6. order[i - 1] \in Backends
    BY <1>1, <1>3, <2>5
  <2>7. ~Less(s, m, order[i], order[i - 1])
    BY <1>3, <2>5
  <2>8. ~Less(s, m, order[i - 1], order[1])
    BY <2>1, <2>5
  <2> QED BY <2>2, <2>3, <2>6, <2>7, <2>8, LessOrder
<1>6. ASSUME NEW c \in E PROVE ~Less(s, m, c, order[1])
  BY <1>3, <1>5
<1> QED BY <1>4, <1>6 DEF Unbeaten, E

-----------------------------------------------------------------------------
(* The registry. *)

LEMMA InitRegistry == Init => RegistryInv
<1> SUFFICES ASSUME Init PROVE RegistryInv
  OBVIOUS
<1> USE DEF Init
<1>1. Blank \in States
  BY DEF Blank, States
<1>2. poll \in [Backends -> Polls]
  <2>1. [at |-> "done", st |-> Blank, dir |-> 0] \in Polls
    BY <1>1 DEF Polls, Places
  <2> QED BY <2>1
<1>3. truth \in [Backends -> Actual]
  BY RoutingAssumption DEF Actual
<1>4. \A b \in Backends : /\ seen[b] = [healthy |-> TRUE, warm |-> TRUE]
                          /\ snapSeen[b] = seen[b] /\ dirSeen[b] = seen[b]
  BY DEF Sees
<1>5. /\ seen \in [Backends -> Sightings]
      /\ snapSeen \in [Backends -> Sightings]
      /\ dirSeen \in [Backends -> Sightings]
  BY DEF Sees, Sightings
<1>6. TypeOK
  BY <1>2, <1>3, <1>5 DEF TypeOK
<1>7. SeenNow /\ PolledWasSeen /\ SnapWasSeen /\ DirectoryNotStale
  BY <1>4 DEF SeenNow, PolledWasSeen, SnapWasSeen, DirectoryNotStale
<1> QED BY <1>6, <1>7 DEF RegistryInv

(* A GET keeps the invariant if what it finds was seen. *)
LEMMA GetKeeps ==
    ASSUME RegistryInv, NEW b \in Backends, NEW at \in Places, NEW next \in Places,
           NEW found \in Polls,
           found.st.RuntimeHealthy => seen[b].healthy \/ poll[b].st.RuntimeHealthy,
           found.dir > 0 => seen[b].warm \/ poll[b].dir > 0,
           getJSON(b, at, next, found)
    PROVE  RegistryInv'
<1>1. /\ phase = "polling" /\ poll \in [Backends -> Polls]
      /\ UNCHANGED <<truth, phase, snap, cacheDir, request, seen, snapSeen, dirSeen>>
  BY DEF getJSON, historyVars, RegistryInv, TypeOK
<1>2. PICK p \in {found, poll[b]} : poll' = [poll EXCEPT ![b] = [p EXCEPT !.at = next]]
  BY <1>1 DEF getJSON
<1>3. p \in Polls /\ p.st \in States /\ p.dir \in {0, 1}
  BY <1>1, <1>2 DEF Polls
<1>4. /\ [p EXCEPT !.at = next] \in Polls
      /\ [p EXCEPT !.at = next].st = p.st
      /\ [p EXCEPT !.at = next].dir = p.dir
  BY <1>3 DEF Polls
<1>5. /\ poll' \in [Backends -> Polls]
      /\ \A c \in Backends : c # b => poll'[c] = poll[c]
      /\ poll'[b].st = p.st /\ poll'[b].dir = p.dir
  BY <1>1, <1>2, <1>4
<1>6. /\ poll[b].st.RuntimeHealthy => seen[b].healthy
      /\ poll[b].dir > 0 => seen[b].warm
  BY <1>1 DEF RegistryInv, PolledWasSeen
<1>7. /\ p.st.RuntimeHealthy => seen[b].healthy
      /\ p.dir > 0 => seen[b].warm
  BY <1>2, <1>6
<1>8. PolledWasSeen'
  BY <1>1, <1>5, <1>7 DEF RegistryInv, PolledWasSeen
<1>9. TypeOK'
  BY <1>1, <1>5 DEF RegistryInv, TypeOK
<1>10. SeenNow' /\ SnapWasSeen' /\ DirectoryNotStale'
  BY <1>1 DEF RegistryInv, SeenNow, SnapWasSeen, DirectoryNotStale
<1> QED BY <1>8, <1>9, <1>10 DEF RegistryInv

LEMMA GetsKeep ==
    ASSUME RegistryInv, NEW b \in Backends,
           GetReadyz(b) \/ GetStatus(b) \/ GetQueue(b) \/ GetRuntime(b) \/ GetCache(b)
    PROVE  RegistryInv'
<1>1. /\ poll[b] \in Polls /\ poll[b].st \in States /\ poll[b].dir \in {0, 1}
      /\ truth[b] \in Actual
  BY DEF RegistryInv, TypeOK, Polls
<1>2. /\ truth[b].lifecycle \in {"READY", "DRAINING"} /\ truth[b].depth \in Nat
      /\ truth[b].healthy \in BOOLEAN
      /\ truth[b].healthy => seen[b].healthy
      /\ truth[b].cache = "warm" => seen[b].warm
  BY <1>1 DEF Actual, RegistryInv, SeenNow
<1> USE DEF Places
<1>3. CASE GetReadyz(b)
  <2> DEFINE found == [poll[b] EXCEPT !.st.Reachable = TRUE]
  <2>1. /\ found \in Polls /\ found.dir = poll[b].dir
        /\ found.st.RuntimeHealthy = poll[b].st.RuntimeHealthy
    BY <1>1 DEF Polls, States
  <2>2. getJSON(b, "readyz", "status", found)
    BY <1>3 DEF GetReadyz
  <2> HIDE DEF found
  <2> QED BY <2>1, <2>2, GetKeeps
<1>4. CASE GetStatus(b)
  <2> DEFINE found == [poll[b] EXCEPT !.st.Reachable = TRUE,
                                      !.st.LifecycleState = truth[b].lifecycle]
  <2>1. /\ found \in Polls /\ found.dir = poll[b].dir
        /\ found.st.RuntimeHealthy = poll[b].st.RuntimeHealthy
    BY <1>1, <1>2 DEF Polls, States
  <2>2. getJSON(b, "status", "queue", found)
    BY <1>4 DEF GetStatus
  <2> HIDE DEF found
  <2> QED BY <2>1, <2>2, GetKeeps
<1>5. CASE GetQueue(b)
  <2> DEFINE found == [poll[b] EXCEPT !.st.QueueDepth = truth[b].depth, !.st.QueueMax = MaxQueue]
  <2>1. /\ found \in Polls /\ found.dir = poll[b].dir
        /\ found.st.RuntimeHealthy = poll[b].st.RuntimeHealthy
    BY <1>1, <1>2, RoutingAssumption DEF Polls, States
  <2>2. getJSON(b, "queue", "runtime", found)
    BY <1>5 DEF GetQueue
  <2> HIDE DEF found
  <2> QED BY <2>1, <2>2, GetKeeps
<1>6. CASE GetRuntime(b)
  <2> DEFINE found == [poll[b] EXCEPT !.st.RuntimeHealthy = truth[b].healthy]
  <2>1. /\ found \in Polls /\ found.dir = poll[b].dir
        /\ found.st.RuntimeHealthy = truth[b].healthy
    BY <1>1, <1>2 DEF Polls, States
  <2>2. getJSON(b, "runtime", "cache", found)
    BY <1>6 DEF GetRuntime
  <2> HIDE DEF found
  <2> QED BY <1>2, <2>1, <2>2, GetKeeps
<1>7. CASE GetCache(b)
  <2> DEFINE supported == truth[b].cache # "unsupported"
             confidence == IF truth[b].cache \in {"cold", "warm"} THEN 1 ELSE 0
             tokens == IF truth[b].cache = "warm" THEN 1 ELSE 0
             found == [poll[b] EXCEPT !.st.CacheObservationSupported = supported,
                                      !.st.CacheConfidence = confidence,
                                      !.dir = tokens]
  <2>1. supported \in BOOLEAN /\ confidence \in {0, 1} /\ tokens \in {0, 1}
    OBVIOUS
  <2>2. tokens > 0 => seen[b].warm
    BY <1>2
  <2>3. getJSON(b, "cache", "done", found)
    BY <1>7 DEF GetCache
  <2> HIDE DEF supported, confidence, tokens
  <2>4. /\ found \in Polls /\ found.dir = tokens
        /\ found.st.RuntimeHealthy = poll[b].st.RuntimeHealthy
    BY <1>1, <2>1 DEF Polls, States
  <2> HIDE DEF found
  <2> QED BY <2>2, <2>3, <2>4, GetKeeps
<1> QED BY <1>3, <1>4, <1>5, <1>6, <1>7

LEMMA BackendChangesKeeps ==
    ASSUME RegistryInv, NEW b \in Backends, BackendChanges(b)
    PROVE  RegistryInv'
<1>1. PICK t \in Actual :
        /\ truth' = [truth EXCEPT ![b] = t]
        /\ seen' = [seen EXCEPT ![b] = [healthy |-> seen[b].healthy \/ t.healthy,
                                        warm |-> seen[b].warm \/ t.cache = "warm"]]
  BY DEF BackendChanges
<1>2. UNCHANGED <<phase, poll, snap, cacheDir, request, snapSeen, dirSeen>>
  BY DEF BackendChanges, registryVars
<1>3. /\ truth \in [Backends -> Actual] /\ seen \in [Backends -> Sightings]
      /\ seen[b].healthy \in BOOLEAN /\ seen[b].warm \in BOOLEAN /\ t.healthy \in BOOLEAN
  BY DEF RegistryInv, TypeOK, Sightings, Actual
<1>4. /\ truth' \in [Backends -> Actual] /\ seen' \in [Backends -> Sightings]
  BY <1>1, <1>3 DEF Sightings
<1>5. \A c \in Backends : /\ c # b => truth'[c] = truth[c] /\ seen'[c] = seen[c]
                          /\ seen[c].healthy => seen'[c].healthy
                          /\ seen[c].warm => seen'[c].warm
  BY <1>1, <1>3
<1>6. /\ truth'[b] = t
      /\ t.healthy => seen'[b].healthy
      /\ t.cache = "warm" => seen'[b].warm
  BY <1>1, <1>3
<1>7. TypeOK'
  BY <1>2, <1>4 DEF RegistryInv, TypeOK
<1>8. SeenNow'
  BY <1>5, <1>6 DEF RegistryInv, SeenNow
<1>9. PolledWasSeen' /\ SnapWasSeen' /\ DirectoryNotStale'
  BY <1>2, <1>5 DEF RegistryInv, PolledWasSeen, SnapWasSeen, DirectoryNotStale
<1> QED BY <1>7, <1>8, <1>9 DEF RegistryInv

LEMMA RefreshBeginKeeps ==
    ASSUME RegistryInv, RefreshStart
    PROVE  RegistryInv'
<1>1. /\ phase' = "polling"
      /\ poll' = [c \in Backends |-> [at |-> "readyz", st |-> Blank, dir |-> 0]]
      /\ seen' = [c \in Backends |-> Sees(truth[c])]
      /\ UNCHANGED <<truth, snap, cacheDir, request, snapSeen, dirSeen>>
  BY DEF RefreshStart
<1>2. Blank \in States /\ ~Blank.RuntimeHealthy
  BY DEF Blank, States
<1>3. /\ poll' \in [Backends -> Polls]
      /\ \A c \in Backends : poll'[c].st = Blank /\ poll'[c].dir = 0
  <2>1. [at |-> "readyz", st |-> Blank, dir |-> 0] \in Polls
    BY <1>2 DEF Polls, Places
  <2> QED BY <1>1, <2>1
<1>4. /\ seen' \in [Backends -> Sightings]
      /\ \A c \in Backends : /\ seen'[c].healthy = truth[c].healthy
                             /\ seen'[c].warm = (truth[c].cache = "warm")
  <2>1. \A c \in Backends : truth[c].healthy \in BOOLEAN
    BY DEF RegistryInv, TypeOK, Actual
  <2> QED BY <1>1, <2>1 DEF Sees, Sightings
<1>5. TypeOK'
  BY <1>1, <1>3, <1>4 DEF RegistryInv, TypeOK
<1>6. SeenNow' /\ PolledWasSeen'
  <2>1. phase' = "polling" /\ truth' = truth
    BY <1>1
  <2>2. SeenNow'
    BY <1>4, <2>1 DEF SeenNow
  <2>3. PolledWasSeen'
    BY <1>2, <1>3, <2>1 DEF PolledWasSeen
  <2> QED BY <2>2, <2>3
<1>7. SnapWasSeen' /\ DirectoryNotStale'
  BY <1>1 DEF RegistryInv, SnapWasSeen, DirectoryNotStale
<1> QED BY <1>5, <1>6, <1>7 DEF RegistryInv

LEMMA PublishKeeps ==
    ASSUME RegistryInv, PublishSnapshot
    PROVE  RegistryInv'
<1>1. /\ phase = "polling" /\ phase' = "publishing"
      /\ snap' = [c \in Backends |-> poll[c].st]
      /\ snapSeen' = seen
      /\ UNCHANGED <<truth, poll, cacheDir, request, seen, dirSeen>>
  BY DEF PublishSnapshot
<1>2. \A c \in Backends : poll[c].st \in States
  BY DEF RegistryInv, TypeOK, Polls
<1>3. /\ snap' \in [Backends -> States]
      /\ \A c \in Backends : snap'[c] = poll[c].st
  BY <1>1, <1>2
<1>4. TypeOK'
  BY <1>1, <1>3 DEF RegistryInv, TypeOK
<1>5. SeenNow' /\ DirectoryNotStale'
  BY <1>1 DEF RegistryInv, SeenNow, DirectoryNotStale
<1>6. PolledWasSeen' /\ SnapWasSeen'
  BY <1>1, <1>3 DEF RegistryInv, PolledWasSeen, SnapWasSeen
<1> QED BY <1>4, <1>5, <1>6 DEF RegistryInv

LEMMA SwapKeeps ==
    ASSUME RegistryInv, SwapDirectory
    PROVE  RegistryInv'
<1>1. /\ phase = "publishing" /\ phase' = "idle"
      /\ cacheDir' = [c \in Backends |-> poll[c].dir]
      /\ dirSeen' = snapSeen
      /\ UNCHANGED <<truth, poll, snap, seen, snapSeen>>
  BY DEF SwapDirectory
<1>2. request' \in {NoRequest} \cup Requests
  <2>1. CASE request.at \in {"scoring", "deciding"}
    <3>1. request \in Requests
      BY <2>1 DEF RegistryInv, TypeOK, NoRequest
    <3>2. PICK T \in SUBSET eligible(request.snap) :
             request' = [request EXCEPT !.moved = request.moved \cup T]
      BY <2>1 DEF SwapDirectory, NoteSwap
    <3>3. request.snap \in {<<>>} \cup [Backends -> States] /\ request.moved \in SUBSET Backends
      BY <3>1 DEF Requests
    <3>4. eligible(request.snap) \in SUBSET Backends
      BY <3>3, EligibleBackends
    <3>5. request.moved \cup T \in SUBSET Backends
      BY <3>3, <3>4
    <3> QED BY <3>1, <3>2, <3>5 DEF Requests
  <2>2. CASE request.at \notin {"scoring", "deciding"}
    BY <2>2 DEF RegistryInv, TypeOK, SwapDirectory, NoteSwap
  <2> QED BY <2>1, <2>2
<1>3. \A c \in Backends : poll[c].dir \in {0, 1}
  BY DEF RegistryInv, TypeOK, Polls
<1>4. TypeOK'
  BY <1>1, <1>2, <1>3 DEF RegistryInv, TypeOK
<1>5. SeenNow' /\ SnapWasSeen'
  BY <1>1 DEF RegistryInv, SeenNow, SnapWasSeen
<1>6. PolledWasSeen' /\ DirectoryNotStale'
  BY <1>1 DEF RegistryInv, PolledWasSeen, DirectoryNotStale
<1> QED BY <1>4, <1>5, <1>6 DEF RegistryInv

(* The steps of a request leave the registry alone. *)
LEMMA RequestKeepsRegistry ==
    ASSUME RegistryInv, request' \in {NoRequest} \cup Requests, OnlyRequestChanges
    PROVE  RegistryInv'
<1>1. UNCHANGED <<truth, phase, poll, snap, cacheDir, seen, snapSeen, dirSeen>>
  BY DEF OnlyRequestChanges, registryVars, historyVars
<1>2. TypeOK'
  BY <1>1 DEF RegistryInv, TypeOK
<1>3. SeenNow' /\ PolledWasSeen' /\ SnapWasSeen' /\ DirectoryNotStale'
  BY <1>1 DEF RegistryInv, SeenNow, PolledWasSeen, SnapWasSeen, DirectoryNotStale
<1> QED BY <1>2, <1>3 DEF RegistryInv

-----------------------------------------------------------------------------
(* A request. *)

(* The registry's steps: the request does not move, and its directory is   *)
(* the same unless the swap is noted.                                      *)
LEMMA RegistryKeepsRequest ==
    ASSUME RequestInv, UNCHANGED <<request, cacheDir>>
    PROVE  RequestInv'
<1>1. Candidates' /\ Decided'
  BY DEF RequestInv, Candidates, Decided
<1>2. \A b : Lookup(b)' = Lookup(b) /\ BetweenLookups(b)' = BetweenLookups(b)
  BY DEF Lookup, BetweenLookups
<1>3. LookupsAgree'
  BY <1>2 DEF RequestInv, LookupsAgree
<1> QED BY <1>1, <1>3 DEF RequestInv

LEMMA SwapKeepsRequest ==
    ASSUME RegistryInv, RequestInv, SwapDirectory
    PROVE  RequestInv'
<1>1. CASE request.at \in {"scoring", "deciding"}
  <2> DEFINE changed == {b \in eligible(request.snap) :
                            /\ BetweenLookups(b)
                            /\ matchedTokensFor(request.snap[b], cacheDir'[b]) # Lookup(b)}
  <2>1. request \in Requests /\ request' = [request EXCEPT !.moved = request.moved \cup changed]
    BY <1>1 DEF RegistryInv, TypeOK, NoRequest, SwapDirectory, NoteSwap
  <2> HIDE DEF changed
  <2>2. /\ request'.at = request.at /\ request'.snap = request.snap
        /\ request'.todo = request.todo /\ request'.recorded = request.recorded
        /\ request'.matched = request.matched /\ request'.moved = request.moved \cup changed
    BY <2>1 DEF Requests
  <2>3. \A b : /\ Lookup(b)' = matchedTokensFor(request.snap[b], cacheDir'[b])
               /\ BetweenLookups(b)' = BetweenLookups(b)
    BY <2>2 DEF Lookup, BetweenLookups
  <2>4. ASSUME NEW b \in eligible(request.snap) \ request'.moved, BetweenLookups(b)
        PROVE  request.recorded[b] = Lookup(b)'
    <3>1. b \in eligible(request.snap) \ request.moved /\ b \notin changed
      BY <2>2, <2>4
    <3>2. matchedTokensFor(request.snap[b], cacheDir'[b]) = Lookup(b)
      BY <2>4, <3>1 DEF changed
    <3> QED BY <1>1, <2>3, <2>4, <3>1, <3>2 DEF RequestInv, LookupsAgree
  <2>5. LookupsAgree'
    <3> SUFFICES ASSUME NEW b \in eligible(request.snap) \ request'.moved
                 PROVE  /\ BetweenLookups(b) => request.recorded[b] = Lookup(b)'
                        /\ request.at # "scoring" /\ b \notin request.todo =>
                              request.matched[b] = request.recorded[b]
      BY <2>2, <2>3 DEF LookupsAgree
    <3>1. b \in eligible(request.snap) \ request.moved
      BY <2>2
    <3> QED BY <1>1, <2>4, <3>1 DEF RequestInv, LookupsAgree
  <2>6. Candidates' /\ Decided'
    BY <1>1, <2>2 DEF RequestInv, Candidates, Decided
  <2> QED BY <2>5, <2>6 DEF RequestInv
<1>2. CASE request.at \notin {"scoring", "deciding"}
  <2>1. request' = request
    BY <1>2 DEF SwapDirectory, NoteSwap
  <2>2. Candidates' /\ Decided'
    BY <1>2, <2>1 DEF RequestInv, Candidates, Decided
  <2>3. request.at = "decided" => \A b : ~BetweenLookups(b)'
    BY <2>1 DEF RequestInv, Candidates, BetweenLookups
  <2>4. LookupsAgree'
    BY <1>2, <2>1, <2>3 DEF RequestInv, LookupsAgree
  <2> QED BY <2>2, <2>4 DEF RequestInv
<1> QED BY <1>1, <1>2

LEMMA ArriveKeeps ==
    ASSUME RegistryInv, RequestInv, Arrive
    PROVE  RequestInv' /\ request' \in {NoRequest} \cup Requests
<1> DEFINE at == IF eligible(snap) = {} THEN "refused" ELSE "scoring"
<1>1. request' = [at |-> at, snap |-> snap, todo |-> eligible(snap), recorded |-> Nobody,
                  matched |-> Nobody, chosen |-> 0, moved |-> {}]
  BY DEF Arrive
<1>2. snap \in {<<>>} \cup [Backends -> States]
  BY DEF RegistryInv, TypeOK
<1>3. /\ eligible(snap) \in SUBSET Backends
      /\ eligible(snap) # {} => snap \in [Backends -> States]
  BY <1>2, EligibleBackends
<1>4. at \in {"refused", "scoring"} /\ (at = "scoring" => eligible(snap) # {})
  OBVIOUS
<1> HIDE DEF at
<1>5. Nobody \in [Backends -> {0, 1}] /\ \A b \in Backends : Nobody[b] = 0
  BY DEF Nobody
<1>6. request' \in Requests
  BY <1>1, <1>2, <1>3, <1>4, <1>5, RoutingAssumption DEF Requests
<1>7. /\ request'.at = at /\ request'.snap = snap /\ request'.todo = eligible(snap)
      /\ request'.recorded = Nobody /\ request'.matched = Nobody
  BY <1>1
<1>8. Candidates'
  BY <1>3, <1>4, <1>5, <1>7 DEF Candidates
<1>9. LookupsAgree' /\ Decided'
  BY <1>4, <1>7 DEF LookupsAgree, BetweenLookups, Decided
<1> QED BY <1>6, <1>8, <1>9 DEF RequestInv

(* What Lookup returns. *)
LEMMA LookupType ==
    ASSUME RegistryInv, NEW b \in Backends
    PROVE  Lookup(b) \in {0, 1}
BY DEF RegistryInv, TypeOK, Lookup, matchedTokensFor

LEMMA ScoreNextKeeps ==
    ASSUME RegistryInv, RequestInv, ScoreNext
    PROVE  RequestInv' /\ request' \in {NoRequest} \cup Requests
<1> DEFINE b == Min(request.todo)
           rest == request.todo \ {b}
           todo == IF rest = {} THEN eligible(request.snap) ELSE rest
           at == IF rest = {} THEN "deciding" ELSE "scoring"
<1>1. request.at = "scoring" /\ request \in Requests
  BY DEF ScoreNext, RegistryInv, TypeOK, NoRequest
<1>2. /\ request.snap \in [Backends -> States]
      /\ request.todo \in SUBSET Backends /\ request.todo # {}
      /\ eligible(request.snap) # {}
      /\ request.todo \subseteq eligible(request.snap)
      /\ request.recorded \in [Backends -> {0, 1}]
      /\ request.matched \in [Backends -> {0, 1}]
  BY <1>1 DEF RequestInv, Candidates, Requests
<1>3. b \in request.todo
  BY <1>2, MinOfBackends
<1>4. request' = [request EXCEPT !.recorded[b] = Lookup(b), !.todo = todo, !.at = at]
  BY DEF ScoreNext
<1>5. eligible(request.snap) \in SUBSET Backends
  BY <1>2, EligibleBackends
<1>6. /\ at \in {"scoring", "deciding"} /\ todo \in SUBSET Backends
      /\ todo \subseteq eligible(request.snap) /\ todo # {}
      /\ at = "scoring" => todo = request.todo \ {b}
      /\ at = "deciding" => request.todo = {b} /\ todo = eligible(request.snap)
  BY <1>2, <1>3, <1>5
<1> HIDE DEF b, rest, todo, at
<1>7. Lookup(b) \in {0, 1}
  BY <1>2, <1>3, LookupType
<1>8. request' \in Requests
  BY <1>1, <1>2, <1>3, <1>4, <1>6, <1>7 DEF Requests
<1>9. /\ request'.at = at /\ request'.snap = request.snap /\ request'.todo = todo
      /\ request'.recorded = [request.recorded EXCEPT ![b] = Lookup(b)]
      /\ request'.matched = request.matched /\ request'.moved = request.moved
  BY <1>1, <1>4, <1>6 DEF Requests
<1>10. /\ request'.recorded[b] = Lookup(b)
       /\ \A c \in Backends : c # b => request'.recorded[c] = request.recorded[c]
  BY <1>2, <1>3, <1>9
<1>11. Candidates'
  BY <1>2, <1>3, <1>6, <1>9, <1>10 DEF Candidates
<1>12. \A c : Lookup(c)' = Lookup(c)
  BY <1>9 DEF ScoreNext, OnlyRequestChanges, registryVars, Lookup
<1>13. LookupsAgree'
  <2> SUFFICES ASSUME NEW c \in eligible(request.snap) \ request.moved
               PROVE  /\ at = "deciding" \/ c \notin todo => request'.recorded[c] = Lookup(c)
                      /\ at = "deciding" => c \in todo
    BY <1>6, <1>9, <1>12 DEF LookupsAgree, BetweenLookups
  <2>1. c \in Backends
    BY <1>5
  <2>2. c \notin request.todo => request.recorded[c] = Lookup(c)
    BY <1>1 DEF RequestInv, LookupsAgree, BetweenLookups
  <2>3. at = "deciding" \/ c \notin todo => c = b \/ c \notin request.todo
    BY <1>6
  <2>4. at = "deciding" => c \in todo
    BY <1>6
  <2> QED BY <1>10, <2>1, <2>2, <2>3, <2>4
<1>14. Decided'
  BY <1>6, <1>9 DEF Decided
<1> QED BY <1>8, <1>11, <1>13, <1>14 DEF RequestInv

LEMMA CostNextKeeps ==
    ASSUME RegistryInv, RequestInv, CostNext
    PROVE  RequestInv' /\ request' \in {NoRequest} \cup Requests
<1> DEFINE b == Min(request.todo)
<1>1. request.at = "deciding" /\ request \in Requests /\ request.todo # {}
  BY DEF CostNext, RegistryInv, TypeOK, NoRequest
<1>2. /\ request.snap \in [Backends -> States]
      /\ request.todo \in SUBSET Backends
      /\ eligible(request.snap) # {}
      /\ request.todo \subseteq eligible(request.snap)
      /\ request.recorded \in [Backends -> {0, 1}]
      /\ request.matched \in [Backends -> {0, 1}]
  BY <1>1 DEF RequestInv, Candidates, Requests
<1>3. b \in request.todo
  BY <1>1, <1>2, MinOfBackends
<1>4. request' = [request EXCEPT !.matched[b] = Lookup(b), !.todo = request.todo \ {b}]
  BY DEF CostNext
<1> HIDE DEF b
<1>5. Lookup(b) \in {0, 1}
  BY <1>2, <1>3, LookupType
<1>6. request' \in Requests
  BY <1>1, <1>2, <1>3, <1>4, <1>5 DEF Requests
<1>7. /\ request'.at = "deciding" /\ request'.snap = request.snap
      /\ request'.todo = request.todo \ {b}
      /\ request'.matched = [request.matched EXCEPT ![b] = Lookup(b)]
      /\ request'.recorded = request.recorded /\ request'.moved = request.moved
  BY <1>1, <1>4 DEF Requests
<1>8. /\ request'.matched[b] = Lookup(b)
      /\ \A c \in Backends : c # b => request'.matched[c] = request.matched[c]
  BY <1>2, <1>3, <1>7
<1>9. Candidates'
  BY <1>2, <1>3, <1>7, <1>8 DEF Candidates
<1>10. \A c : Lookup(c)' = Lookup(c)
  BY <1>7 DEF CostNext, OnlyRequestChanges, registryVars, Lookup
<1>11. LookupsAgree'
  <2> SUFFICES ASSUME NEW c \in eligible(request.snap) \ request.moved
               PROVE  /\ c \in request.todo \ {b} => request.recorded[c] = Lookup(c)
                      /\ c \notin request.todo \ {b} => request'.matched[c] = request.recorded[c]
    BY <1>7, <1>10 DEF LookupsAgree, BetweenLookups
  <2>1. c \in Backends
    BY <1>2, EligibleBackends
  <2>2. /\ c \in request.todo => request.recorded[c] = Lookup(c)
        /\ c \notin request.todo => request.matched[c] = request.recorded[c]
    BY <1>1 DEF RequestInv, LookupsAgree, BetweenLookups
  <2> QED BY <1>3, <1>8, <2>1, <2>2
<1>12. Decided'
  BY <1>7 DEF Decided
<1> QED BY <1>6, <1>9, <1>11, <1>12 DEF RequestInv

LEMMA SelectKeeps ==
    ASSUME RegistryInv, RequestInv, Select
    PROVE  RequestInv' /\ request' \in {NoRequest} \cup Requests
<1>1. request.at = "deciding" /\ request.todo = {} /\ request \in Requests
  BY DEF Select, RegistryInv, TypeOK, NoRequest
<1>2. /\ request.snap \in [Backends -> States]
      /\ eligible(request.snap) # {}
      /\ request.recorded \in [Backends -> {0, 1}]
      /\ request.matched \in [Backends -> {0, 1}]
  BY <1>1 DEF RequestInv, Candidates, Requests
<1>3. PICK order \in Sorted(request.snap, request.matched) :
         request' = [request EXCEPT !.chosen = order[1], !.at = "decided"]
  BY DEF Select
<1> DEFINE best == order[1]
<1>4. Unbeaten(request.snap, request.matched, best)
  BY <1>2, FirstIsUnbeaten
<1> HIDE DEF best
<1>5. best \in 0..N
  <2>1. eligible(request.snap) \subseteq Backends
    BY <1>2, EligibleBackends
  <2> QED BY <1>4, <2>1, RoutingAssumption DEF Backends, Unbeaten
<1>6. request' = [request EXCEPT !.chosen = best, !.at = "decided"]
  BY <1>3 DEF best
<1>7. request' \in Requests
  BY <1>1, <1>5, <1>6 DEF Requests
<1>8. /\ request'.at = "decided" /\ request'.snap = request.snap
      /\ request'.todo = {} /\ request'.chosen = best
      /\ request'.recorded = request.recorded /\ request'.matched = request.matched
      /\ request'.moved = request.moved
  BY <1>1, <1>6 DEF Requests
<1>9. Candidates'
  BY <1>2, <1>8 DEF Candidates
<1>10. LookupsAgree'
  <2>1. \A c : ~BetweenLookups(c)'
    BY <1>8 DEF BetweenLookups
  <2> QED BY <1>1, <1>8, <2>1 DEF RequestInv, LookupsAgree
<1>11. Decided'
  BY <1>4, <1>8 DEF Decided
<1> QED BY <1>7, <1>9, <1>10, <1>11 DEF RequestInv

LEMMA ReturnKeeps ==
    ASSUME Return
    PROVE  RequestInv' /\ request' \in {NoRequest} \cup Requests
<1>1. request' = NoRequest /\ request'.at = "idle"
  BY DEF Return, NoRequest
<1> QED BY <1>1 DEF RequestInv, Candidates, LookupsAgree, Decided

-----------------------------------------------------------------------------
(* The inductive invariant, and what it implies. *)
IInv == RegistryInv /\ RequestInv

LEMMA InitIInv == Init => IInv
<1> SUFFICES ASSUME Init PROVE IInv
  OBVIOUS
<1>1. request.at = "idle"
  BY DEF Init, NoRequest
<1>2. RequestInv
  BY <1>1 DEF RequestInv, Candidates, LookupsAgree, Decided
<1> QED BY <1>2, InitRegistry DEF IInv

LEMMA StepIInv == IInv /\ [Next]_vars => IInv'
<1> SUFFICES ASSUME RegistryInv, RequestInv, [Next]_vars PROVE RegistryInv' /\ RequestInv'
  BY DEF IInv
<1>1. ASSUME NEW b \in Backends, BackendChanges(b) PROVE RegistryInv' /\ RequestInv'
  BY <1>1, BackendChangesKeeps, RegistryKeepsRequest DEF BackendChanges, registryVars
<1>2. ASSUME NEW b \in Backends,
             GetReadyz(b) \/ GetStatus(b) \/ GetQueue(b) \/ GetRuntime(b) \/ GetCache(b)
      PROVE  RegistryInv' /\ RequestInv'
  <2>1. UNCHANGED <<request, cacheDir>>
    BY <1>2 DEF GetReadyz, GetStatus, GetQueue, GetRuntime, GetCache, getJSON
  <2> QED BY <1>2, <2>1, GetsKeep, RegistryKeepsRequest
<1>3. CASE RefreshStart
  BY <1>3, RefreshBeginKeeps, RegistryKeepsRequest DEF RefreshStart
<1>4. CASE PublishSnapshot
  BY <1>4, PublishKeeps, RegistryKeepsRequest DEF PublishSnapshot
<1>5. CASE SwapDirectory
  BY <1>5, SwapKeeps, SwapKeepsRequest
<1>6. CASE Arrive
  BY <1>6, ArriveKeeps, RequestKeepsRegistry DEF Arrive
<1>7. CASE ScoreNext
  BY <1>7, ScoreNextKeeps, RequestKeepsRegistry DEF ScoreNext
<1>8. CASE CostNext
  BY <1>8, CostNextKeeps, RequestKeepsRegistry DEF CostNext
<1>9. CASE Select
  BY <1>9, SelectKeeps, RequestKeepsRegistry DEF Select
<1>10. CASE Return
  BY <1>10, ReturnKeeps, RequestKeepsRegistry DEF Return
<1>11. CASE UNCHANGED vars
  <2>1. UNCHANGED <<request, cacheDir>> /\ OnlyRequestChanges
    BY <1>11 DEF vars, registryVars, historyVars, OnlyRequestChanges
  <2>2. request' \in {NoRequest} \cup Requests
    BY <2>1 DEF RegistryInv, TypeOK
  <2> QED BY <2>1, <2>2, RegistryKeepsRequest, RequestKeepsRegistry
<1> QED BY <1>1, <1>2, <1>3, <1>4, <1>5, <1>6, <1>7, <1>8, <1>9, <1>10, <1>11 DEF Next

(* The invariant holds in every reachable state. *)
THEOREM Invariance == Spec => []IInv
<1>1. Init => IInv
  BY InitIInv
<1>2. IInv /\ [Next]_vars => IInv'
  BY StepIInv
<1> QED BY <1>1, <1>2, PTL DEF Spec

(* A backend the snapshot offers had a healthy runtime during the refresh  *)
(* that published it (registry.go, refresh and pollBackend).               *)
THEOREM TheOfferedWasHealthy == Spec => []OfferedWasHealthy
<1>1. IInv => OfferedWasHealthy
  <2> SUFFICES ASSUME IInv, NEW b \in eligible(snap) PROVE snapSeen[b].healthy
    BY DEF OfferedWasHealthy
  <2>1. b \in Backends /\ snap \in [Backends -> States]
    BY EligibleBackends DEF IInv, RegistryInv, TypeOK
  <2>2. snap # <<>>
    <3>1. DOMAIN snap = Backends /\ b \in DOMAIN snap
      BY <2>1
    <3>2. DOMAIN <<>> = {}
      OBVIOUS
    <3> QED BY <3>1, <3>2
  <2>3. snap[b].RuntimeHealthy
    BY DEF eligible, isEligible
  <2> QED BY <2>1, <2>2, <2>3 DEF IInv, RegistryInv, SnapWasSeen
<1> QED BY <1>1, Invariance, PTL

(* A prefix the directory lists was cached during the refresh that         *)
(* published the directory (registry.go, refresh).                         *)
THEOREM TheDirectoryIsNotStale == Spec => []DirectoryNotStale
<1>1. IInv => DirectoryNotStale
  BY DEF IInv, RegistryInv
<1> QED BY <1>1, Invariance, PTL

(* If the record puts another backend first than the one that was          *)
(* selected, the directory's answer for one of the two changed after it    *)
(* was recorded (gateway.go, emitCandidateState, and                       *)
(* policy_cache_aware.go, ScoreBreakdown and SelectBackend).               *)
THEOREM TheRecordExplainsTheChoice == Spec => []RecordExplainsChoice
<1>1. IInv => RecordExplainsChoice
  <2> SUFFICES ASSUME IInv, request.at = "decided",
                      NEW order \in Sorted(request.snap, request.recorded),
                      order[1] \notin request.moved, request.chosen \notin request.moved
               PROVE  order[1] = request.chosen
    BY DEF RecordExplainsChoice
  <2> DEFINE first == order[1]
             s == request.snap
  <2>1. /\ s \in [Backends -> States] /\ eligible(s) # {} /\ request.todo = {}
        /\ Unbeaten(s, request.matched, request.chosen)
    BY DEF IInv, RequestInv, Candidates, Decided
  <2>2. request.matched \in [Backends -> {0, 1}] /\ request.recorded \in [Backends -> {0, 1}]
    BY DEF IInv, RegistryInv, TypeOK, NoRequest, Requests
  <2>3. Unbeaten(s, request.recorded, first)
    BY <2>1, <2>2, FirstIsUnbeaten
  <2>4. first \in eligible(s) /\ request.chosen \in eligible(s) /\ eligible(s) \subseteq Backends
    BY <2>1, <2>3, EligibleBackends DEF Unbeaten
  <2>5. /\ request.matched[first] = request.recorded[first]
        /\ request.matched[request.chosen] = request.recorded[request.chosen]
    BY <2>1, <2>4 DEF IInv, RequestInv, LookupsAgree
  <2>6. ~Less(s, request.matched, first, request.chosen)
    BY <2>1, <2>4 DEF Unbeaten
  <2>7. ~Less(s, request.matched, request.chosen, first)
    <3>1. ~Less(s, request.recorded, request.chosen, first)
      BY <2>3, <2>4 DEF Unbeaten
    <3> QED BY <2>5, <3>1 DEF Less
  <2> HIDE DEF first, s
  <2>8. ASSUME NEW b \in Backends, NEW c \in Backends, b # c,
               ~Less(s, request.matched, b, c), ~Less(s, request.matched, c, b)
        PROVE  FALSE
    <3> DEFINE costB == finishMs(s[b], request.matched[b])
               costC == finishMs(s[c], request.matched[c])
    <3>1. costC < costB \/ (costC = costB /\ c < b)
      BY <2>1, <2>2, <2>8, LessOrder
    <3>2. costB < costC \/ (costB = costC /\ b < c)
      BY <2>1, <2>2, <2>8, LessOrder
    <3>3. costB \in Nat /\ costC \in Nat
      <4>1. /\ s[b] \in States /\ s[c] \in States
            /\ request.matched[b] \in {0, 1} /\ request.matched[c] \in {0, 1}
        BY <2>1, <2>2
      <4> QED BY <4>1, CostType
    <3>4. b \in Nat /\ c \in Nat
      BY RoutingAssumption DEF Backends
    <3> HIDE DEF costB, costC
    <3> QED BY ONLY <3>1, <3>2, <3>3, <3>4
  <2> QED BY <2>4, <2>6, <2>7, <2>8 DEF first
<1> QED BY <1>1, Invariance, PTL

(* Whatever order sort.Slice produces with its less function, the policy   *)
(* picks the one candidate of least cost and, among those, of lowest id    *)
(* (policy_cache_aware.go, SelectBackend).                                 *)
THEOREM TheChoiceIsBest == Spec => []ChoiceIsBest
<1>1. IInv => ChoiceIsBest
  <2> SUFFICES ASSUME IInv, request.at = "decided" PROVE ChoiceIsBest
    BY DEF ChoiceIsBest
  <2>1. /\ request.snap \in [Backends -> States]
        /\ Unbeaten(request.snap, request.matched, request.chosen)
    BY DEF IInv, RequestInv, Candidates, Decided
  <2>2. request.matched \in [Backends -> {0, 1}]
    BY DEF IInv, RegistryInv, TypeOK, NoRequest, Requests
  <2>3. /\ request.chosen \in eligible(request.snap)
        /\ eligible(request.snap) \subseteq Backends
        /\ \A c \in eligible(request.snap) :
              ~Less(request.snap, request.matched, c, request.chosen)
    BY <2>1, EligibleBackends DEF Unbeaten
  <2>4. ASSUME NEW c \in eligible(request.snap) \ {request.chosen}
        PROVE  \/ finishMs(request.snap[request.chosen], request.matched[request.chosen])
                     < finishMs(request.snap[c], request.matched[c])
               \/ /\ finishMs(request.snap[request.chosen], request.matched[request.chosen])
                         = finishMs(request.snap[c], request.matched[c])
                  /\ request.chosen < c
    BY <2>1, <2>2, <2>3, LessOrder
  <2> QED BY <2>3, <2>4 DEF ChoiceIsBest
<1> QED BY <1>1, Invariance, PTL
=============================================================================
