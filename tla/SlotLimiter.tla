---------------------------- MODULE SlotLimiter ----------------------------
(***************************************************************************)
(* What the admission queue promises: a bounded FIFO line in front of a    *)
(* bounded number of in-flight slots.  A request joins the line once,      *)
(* leaves it from the head into a free slot or gives up, and gives its     *)
(* slot back at most once.  (internal/dataplane/queue.go:107, "the bounded *)
(* FIFO admission queue + in-flight limiter".)                             *)
(***************************************************************************)
EXTENDS Naturals, Sequences, FiniteSets

CONSTANTS Requests, MaxQueued, MaxInflight

VARIABLES
    line,     \* the requests in the line, first come first
    active,   \* the requests that hold a slot
    shut,     \* nobody may join any more
    seen      \* the requests that have joined

limiterVars == <<line, active, shut, seen>>

LimiterInit ==
    /\ line = <<>>
    /\ active = {}
    /\ shut = FALSE
    /\ seen = {}

Join(r) ==
    /\ ~shut
    /\ r \notin seen
    /\ Len(line) < MaxQueued
    /\ line' = Append(line, r)
    /\ seen' = seen \cup {r}
    /\ UNCHANGED <<active, shut>>

Start ==
    /\ line # <<>>
    /\ Cardinality(active) < MaxInflight
    /\ line' = Tail(line)
    /\ active' = active \cup {Head(line)}
    /\ UNCHANGED <<shut, seen>>

GiveUp(i) ==
    /\ line' = SubSeq(line, 1, i - 1) \o SubSeq(line, i + 1, Len(line))
    /\ UNCHANGED <<active, shut, seen>>

Finish(r) ==
    /\ r \in active
    /\ active' = active \ {r}
    /\ UNCHANGED <<line, shut, seen>>

\* Everybody still in the line is sent away.
Shut ==
    /\ ~shut
    /\ shut' = TRUE
    /\ line' = <<>>
    /\ UNCHANGED <<active, seen>>

LimiterNext ==
    \/ \E r \in Requests : Join(r) \/ Finish(r)
    \/ \E i \in 1..Len(line) : GiveUp(i)
    \/ Start
    \/ Shut

LimiterSpec == LimiterInit /\ [][LimiterNext]_limiterVars
=============================================================================
