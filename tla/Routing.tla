------------------------------- MODULE Routing -------------------------------
(***************************************************************************)
(* How the router sees its backends and picks one.                         *)
(*                                                                         *)
(* Registry (internal/router/registry.go): a background loop polls five    *)
(* endpoints of every backend, in parallel, and publishes twice: first the *)
(* snapshot (an atomic pointer), then the directory of cached prefixes     *)
(* (under a lock).  Each GET may fail on its own.                          *)
(*                                                                         *)
(* A request (Gateway.ChatCompletions with CacheAwarePolicy): it takes one *)
(* snapshot, records the score of every eligible backend, and then lets    *)
(* the policy choose; both look the directory up backend by backend, while *)
(* the loop may be publishing.  Retries are the subject of Gateway.        *)
(*                                                                         *)
(* Abstracted: the request's prefix is one token long; a cache confidence  *)
(* is either 1, or 0 and so below the floor; the terms of the estimate     *)
(* that only depend on the backend's runtime are left at zero.             *)
(***************************************************************************)
EXTENDS Naturals, FiniteSets, FiniteSetsExt

CONSTANTS
    N,                 \* backends 1..N; ids order like names
    MaxQueue,          \* max_queued_requests of every backend
    QueueMs, PrefillMs, StalenessMs,
    MaxChanges,        \* bound: changes of the backends
    MaxRefreshes,      \* bound: rounds of the loop
    MaxFailures        \* bound: failed GETs

ASSUME RoutingAssumption ==
    /\ N \in Nat \ {0}
    /\ MaxQueue \in Nat \ {0}
    /\ QueueMs \in Nat /\ PrefillMs \in Nat /\ StalenessMs \in Nat
    /\ MaxChanges \in Nat /\ MaxRefreshes \in Nat /\ MaxFailures \in Nat

Backends == 1..N

VARIABLES
    truth,             \* the backends themselves
    changes, refreshes, failures,
    phase,             \* of refresh: idle, polling, publishing
    poll,              \* the polls of one refresh
    snap,              \* the published snapshot
    cacheDir,          \* the published directory: tokens of the prefix
    request,           \* at, snap, todo, recorded, matched, chosen; and as
                       \* history moved: the backends of which a swap of the
                       \* directory changed the answer between two lookups
    \* history: what was true at some time of the current refresh, and of
    \* the ones that published the snapshot and the directory
    seen, snapSeen, dirSeen

registryVars == <<refreshes, failures, phase, poll, snap, cacheDir>>
historyVars  == <<seen, snapSeen, dirSeen>>
vars == <<truth, changes, registryVars, request, historyVars>>

\* The zero BackendState: what remains of a poll when every GET fails.
Blank ==
    [Reachable |-> FALSE, LifecycleState |-> "", QueueDepth |-> 0, QueueMax |-> 0,
     RuntimeHealthy |-> FALSE, CacheObservationSupported |-> FALSE, CacheConfidence |-> 0]

Actual == [lifecycle : {"READY", "DRAINING"}, depth : 0..MaxQueue, healthy : BOOLEAN,
           cache : {"unsupported", "stale", "cold", "warm"}]

Sees(t) == [healthy |-> t.healthy, warm |-> t.cache = "warm"]

NoRequest == [at |-> "idle"]

Init ==
    /\ truth = [b \in Backends |-> [lifecycle |-> "READY", depth |-> 0, healthy |-> TRUE,
                                    cache |-> "warm"]]
    /\ changes = 0
    /\ refreshes = 0
    /\ failures = 0
    /\ phase = "idle"
    /\ poll = [b \in Backends |-> [at |-> "done", st |-> Blank, dir |-> 0]]
    /\ snap = <<>>
    /\ cacheDir = [b \in Backends |-> 0]
    /\ request = NoRequest
    /\ seen = [b \in Backends |-> Sees(truth[b])]
    /\ snapSeen = seen
    /\ dirSeen = seen

-----------------------------------------------------------------------------
(* The backends. *)

BackendChanges(b) ==
    /\ changes < MaxChanges
    /\ changes' = changes + 1
    /\ \E t \in Actual :
          /\ truth' = [truth EXCEPT ![b] = t]
          /\ seen' = [seen EXCEPT ![b] = [healthy |-> @.healthy \/ t.healthy,
                                          warm |-> @.warm \/ t.cache = "warm"]]
    /\ UNCHANGED <<registryVars, request, snapSeen, dirSeen>>

-----------------------------------------------------------------------------
(* Registry.refresh. *)

\* Mutant: a poll starts from what the last one found.
RefreshStartKeeps ==
    /\ phase = "idle"
    /\ refreshes < MaxRefreshes
    /\ refreshes' = refreshes + 1
    /\ phase' = "polling"
    /\ poll' = [b \in Backends |-> [at |-> "readyz", st |-> poll[b].st, dir |-> 0]]
    /\ seen' = [b \in Backends |-> Sees(truth[b])]
    /\ UNCHANGED <<truth, changes, failures, snap, cacheDir, request, snapSeen, dirSeen>>

RefreshStart ==
    /\ phase = "idle"
    /\ refreshes < MaxRefreshes
    /\ refreshes' = refreshes + 1
    /\ phase' = "polling"
    /\ poll' = [b \in Backends |-> [at |-> "readyz", st |-> Blank, dir |-> 0]]
    /\ seen' = [b \in Backends |-> Sees(truth[b])]
    /\ UNCHANGED <<truth, changes, failures, snap, cacheDir, request, snapSeen, dirSeen>>

\* The GET of one endpoint leaves the poll as it was when it fails.
getJSON(b, at, next, found) ==
    /\ phase = "polling"
    /\ poll[b].at = at
    /\ \/ /\ poll' = [poll EXCEPT ![b] = [found EXCEPT !.at = next]]
          /\ UNCHANGED failures
       \/ /\ failures < MaxFailures
          /\ failures' = failures + 1
          /\ poll' = [poll EXCEPT ![b].at = next]
    /\ UNCHANGED <<truth, changes, refreshes, phase, snap, cacheDir, request, historyVars>>

GetReadyz(b) == getJSON(b, "readyz", "status", [poll[b] EXCEPT !.st.Reachable = TRUE])

GetStatus(b) ==
    getJSON(b, "status", "queue",
            [poll[b] EXCEPT !.st.Reachable = TRUE, !.st.LifecycleState = truth[b].lifecycle])

GetQueue(b) ==
    getJSON(b, "queue", "runtime",
            [poll[b] EXCEPT !.st.QueueDepth = truth[b].depth, !.st.QueueMax = MaxQueue])

GetRuntime(b) ==
    getJSON(b, "runtime", "cache", [poll[b] EXCEPT !.st.RuntimeHealthy = truth[b].healthy])

GetCache(b) ==
    getJSON(b, "cache", "done",
            [poll[b] EXCEPT
                !.st.CacheObservationSupported = truth[b].cache # "unsupported",
                !.st.CacheConfidence = IF truth[b].cache \in {"cold", "warm"} THEN 1 ELSE 0,
                !.dir = IF truth[b].cache = "warm" THEN 1 ELSE 0])

PublishSnapshot ==
    /\ phase = "polling"
    /\ \A b \in Backends : poll[b].at = "done"
    /\ snap' = [b \in Backends |-> poll[b].st]
    /\ snapSeen' = seen
    /\ dirSeen' = dirSeen
    /\ phase' = "publishing"
    /\ UNCHANGED <<truth, changes, refreshes, failures, poll, cacheDir, request, seen>>

\* What a request looks up, and the history of it that a swap leaves.
isEligible(st) ==
    /\ st.Reachable /\ st.RuntimeHealthy
    /\ st.LifecycleState \notin {"OFFLINE", "DRAINING"}
    /\ ~(st.QueueMax > 0 /\ st.QueueDepth >= st.QueueMax)

eligible(s) == {b \in DOMAIN s : isEligible(s[b])}

\* The directory is consulted only for a cache that is supported and trusted.
matchedTokensFor(st, tokens) ==
    IF st.CacheObservationSupported /\ st.CacheConfidence > 0 THEN tokens ELSE 0

Lookup(b) == matchedTokensFor(request.snap[b], cacheDir[b])

\* The score of b has been recorded, and the policy is still to look b up.
BetweenLookups(b) == IF request.at = "scoring" THEN b \notin request.todo ELSE b \in request.todo

NoteSwap ==
    request' =
        IF request.at \in {"scoring", "deciding"}
        THEN [request EXCEPT !.moved = @ \cup
                 {b \in eligible(request.snap) :
                     /\ BetweenLookups(b)
                     /\ matchedTokensFor(request.snap[b], cacheDir'[b]) # Lookup(b)}]
        ELSE request

\* Mutant: the directory is updated instead of replaced.
SwapDirectoryMerges ==
    /\ phase = "publishing"
    /\ cacheDir' = [b \in Backends |-> IF poll[b].dir > 0 THEN poll[b].dir ELSE cacheDir[b]]
    /\ dirSeen' = snapSeen
    /\ phase' = "idle"
    /\ NoteSwap
    /\ UNCHANGED <<truth, changes, refreshes, failures, poll, snap, seen, snapSeen>>

SwapDirectory ==
    /\ phase = "publishing"
    /\ cacheDir' = [b \in Backends |-> poll[b].dir]
    /\ dirSeen' = snapSeen
    /\ phase' = "idle"
    /\ NoteSwap
    /\ UNCHANGED <<truth, changes, refreshes, failures, poll, snap, seen, snapSeen>>

-----------------------------------------------------------------------------
(* A request. *)

finishMs(st, matched) ==
    QueueMs * st.QueueDepth + PrefillMs * (1 - matched)
        + (IF st.CacheObservationSupported THEN StalenessMs * (1 - st.CacheConfidence) ELSE 0)

\* The less function of both sorts.
Less(s, matched, b, c) ==
    IF finishMs(s[b], matched[b]) # finishMs(s[c], matched[c])
    THEN finishMs(s[b], matched[b]) < finishMs(s[c], matched[c])
    ELSE b < c

\* What sort.Slice may return: the candidates in an order in which none is
\* less than the one before it.
Sorted(s, matched) ==
    {order \in Bijection(1..Cardinality(eligible(s)), eligible(s)) :
        \A i \in 2..Cardinality(eligible(s)) : ~Less(s, matched, order[i], order[i - 1])}

OnlyRequestChanges == UNCHANGED <<truth, changes, registryVars, historyVars>>

Nobody == [b \in Backends |-> 0]

Arrive ==
    /\ request = NoRequest
    /\ request' = [at |-> IF eligible(snap) = {} THEN "refused" ELSE "scoring", snap |-> snap,
                   todo |-> eligible(snap), recorded |-> Nobody, matched |-> Nobody, chosen |-> 0,
                   moved |-> {}]
    /\ OnlyRequestChanges

\* Mutant: the scores are recorded from the newest snapshot, not from the one
\* the request works with.
ScoreNextNewest ==
    /\ request.at = "scoring"
    /\ LET b    == Min(request.todo)
           rest == request.todo \ {b}
       IN  request' = [request EXCEPT
                          !.recorded[b] = matchedTokensFor(snap[b], cacheDir[b]),
                          !.todo = IF rest = {} THEN eligible(request.snap) ELSE rest,
                          !.at = IF rest = {} THEN "deciding" ELSE "scoring"]
    /\ OnlyRequestChanges

\* emitCandidateState: ScoreBreakdown, one backend after the other.
ScoreNext ==
    /\ request.at = "scoring"
    /\ LET b    == Min(request.todo)
           rest == request.todo \ {b}
       IN  request' = [request EXCEPT
                          !.recorded[b] = Lookup(b),
                          !.todo = IF rest = {} THEN eligible(request.snap) ELSE rest,
                          !.at = IF rest = {} THEN "deciding" ELSE "scoring"]
    /\ OnlyRequestChanges

\* CacheAwarePolicy.SelectBackend: the costs, one backend after the other.
CostNext ==
    /\ request.at = "deciding"
    /\ request.todo # {}
    /\ LET b == Min(request.todo)
       IN  request' = [request EXCEPT !.matched[b] = Lookup(b), !.todo = @ \ {b}]
    /\ OnlyRequestChanges

Select ==
    /\ request.at = "deciding"
    /\ request.todo = {}
    /\ \E order \in Sorted(request.snap, request.matched) :
          request' = [request EXCEPT !.chosen = order[1], !.at = "decided"]
    /\ OnlyRequestChanges

Return ==
    /\ request.at \in {"decided", "refused"}
    /\ request' = NoRequest
    /\ OnlyRequestChanges

-----------------------------------------------------------------------------
Next ==
    \/ \E b \in Backends :
          \/ BackendChanges(b)
          \/ GetReadyz(b) \/ GetStatus(b) \/ GetQueue(b) \/ GetRuntime(b) \/ GetCache(b)
    \/ RefreshStart \/ PublishSnapshot \/ SwapDirectory
    \/ Arrive \/ ScoreNext \/ CostNext \/ Select \/ Return

Spec == Init /\ [][Next]_vars

-----------------------------------------------------------------------------
(* However its GETs fail and its runtime changes during the poll, a        *)
(* backend that the snapshot offers for routing had a healthy runtime at   *)
(* some time of the refresh that published the snapshot.                   *)
OfferedWasHealthy == \A b \in eligible(snap) : snapSeen[b].healthy

(* The directory forgets: a prefix it lists was cached at some time of the *)
(* refresh that published it, also when a later GET of /v1/cache failed.   *)
DirectoryNotStale == \A b \in Backends : cacheDir[b] > 0 => dirSeen[b].warm

(* "every routing decision can be reconstructed" (gateway.go:94) and the   *)
(* recorded scores are sorted "selected backend first"                     *)
(* (policy_cache_aware.go:215), but the directory may be swapped while the *)
(* request is being decided.  Whatever is published meanwhile: if another  *)
(* backend than the selected one comes first in the record, the answer of  *)
(* the directory for one of these two changed after it was recorded.       *)
RecordExplainsChoice ==
    request.at = "decided" =>
        \A order \in Sorted(request.snap, request.recorded) :
            order[1] # request.chosen => {order[1], request.chosen} \cap request.moved # {}
=============================================================================
