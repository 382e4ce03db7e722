--------------------------- MODULE SidecarProofs ---------------------------
(***************************************************************************)
(* The admission queue is a bounded FIFO slot limiter, loses no slot and   *)
(* no ticket and counts every request once; and inside a sidecar it is the *)
(* same queue, behind a gate that closes at once although it reads its     *)
(* conditions one after the other, and the work it reports is exact.  For  *)
(* every finite set of requests of any shape, every limit and any number   *)
(* of changes.                                                             *)
(***************************************************************************)
EXTENDS Sidecar, FiniteSetTheorems, TLAPS

-----------------------------------------------------------------------------
(* Sequences. *)

LEMMA EmptySequence ==
    ASSUME NEW T
    PROVE  /\ <<>> \in Seq(T) /\ Len(<<>>) = 0
           /\ \A q \in Seq(T) : q # <<>> => Len(q) \in Nat \ {0}
OBVIOUS

LEMMA Appended ==
    ASSUME NEW T, NEW q \in Seq(T), NEW v \in T
    PROVE  /\ Append(q, v) \in Seq(T) /\ Append(q, v) # <<>>
           /\ Len(Append(q, v)) = Len(q) + 1
           /\ \A j \in 1..Len(q) : Append(q, v)[j] = q[j]
           /\ Append(q, v)[Len(q) + 1] = v
OBVIOUS

LEMMA Concatenated ==
    ASSUME NEW T, NEW p \in Seq(T), NEW q \in Seq(T)
    PROVE  /\ p \o q \in Seq(T) /\ Len(p \o q) = Len(p) + Len(q)
           /\ \A j \in 1..(Len(p) + Len(q)) :
                 (p \o q)[j] = IF j <= Len(p) THEN p[j] ELSE q[j - Len(p)]
OBVIOUS

LEMMA HeadAndTail ==
    ASSUME NEW T, NEW q \in Seq(T), q # <<>>
    PROVE  /\ Head(q) \in T /\ Tail(q) \in Seq(T) /\ Len(Tail(q)) = Len(q) - 1
           /\ \A j \in 1..Len(Tail(q)) : Tail(q)[j] = q[j + 1]
OBVIOUS

LEMMA SubSequence ==
    ASSUME NEW T, NEW q, NEW a \in Int, NEW b \in Int, \A j \in a..b : q[j] \in T
    PROVE  /\ SubSeq(q, a, b) \in Seq(T)
           /\ Len(SubSeq(q, a, b)) = IF a <= b THEN b - a + 1 ELSE 0
           /\ \A j \in 1..(b - a + 1) : SubSeq(q, a, b)[j] = q[a + j - 1]
OBVIOUS

-----------------------------------------------------------------------------
(* Sums over finite sets. *)

(* The element that the recursion of a sum takes next. *)
Pick(s) == CHOOSE x \in s : TRUE

(* f is the function that SumFunctionOnSet(w, S) defines by recursion. *)
Sums(f, w, S) ==
    f = [s \in SUBSET S |-> IF s = {} THEN 0 ELSE w[Pick(s)] + f[s \ {Pick(s)}]]

(* Induction on the size of a set is by a least counterexample. *)
LEMMA LeastNat ==
    ASSUME NEW T \in SUBSET Nat, T # {}
    PROVE  \E x \in T : \A y \in T : x <= y
<1> DEFINE R == {ss \in Nat \X Nat : ss[1] < ss[2]}
<1>1. PICK x \in T : \A y \in T : ~(<<y, x>> \in R)
  <2>1. IsWellFoundedOn(R, Nat)
    BY NatLessThanWellFounded DEF OpToRel
  <2> HIDE DEF R
  <2> QED
    BY <2>1, WFMin
<1>2. ASSUME NEW y \in T
      PROVE  x <= y
  <2>1. ~(y < x)
    BY <1>1
  <2> QED
    BY <2>1
<1> QED
  BY <1>2

(* The element taken is one of the set. *)
LEMMA Picked ==
    ASSUME NEW s, s # {}
    PROVE  Pick(s) \in s
BY DEF Pick

(* Without an element, a finite set is smaller by one. *)
LEMMA Smaller ==
    ASSUME NEW s, IsFiniteSet(s), NEW x \in s
    PROVE  /\ IsFiniteSet(s \ {x})
           /\ Cardinality(s) \in Nat
           /\ Cardinality(s \ {x}) = Cardinality(s) - 1
           /\ Cardinality(s \ {x}) < Cardinality(s)
           /\ ~(Cardinality(s) <= Cardinality(s \ {x}))
<1>1. PICK n \in Nat : n = Cardinality(s)
  BY FS_CardinalityType
<1>2. PICK m : m = Cardinality(s \ {x})
  OBVIOUS
<1>3. IsFiniteSet(s \ {x}) /\ m = n - 1
  BY <1>1, <1>2, FS_RemoveElement
<1>4. m < n /\ ~(n <= m)
  BY <1>3
<1> QED
  BY <1>1, <1>2, <1>3, <1>4

(* The recursion has a solution: by induction on the size of the sets for  *)
(* which its equation holds.                                               *)
LEMMA SumsExist ==
    ASSUME NEW S, IsFiniteSet(S), NEW w, \A x \in S : w[x] \in Nat
    PROVE  \E f \in [SUBSET S -> Nat] : Sums(f, w, S)
<1> DEFINE Upto(f, k) ==
             \A s \in SUBSET S : Cardinality(s) <= k =>
               f[s] = IF s = {} THEN 0 ELSE w[Pick(s)] + f[s \ {Pick(s)}]
           Bad == {k \in Nat : ~\E f \in [SUBSET S -> Nat] : Upto(f, k)}
<1>1. ASSUME NEW s \in SUBSET S
      PROVE  /\ IsFiniteSet(s) /\ Cardinality(s) \in Nat
             /\ s # {} => /\ Pick(s) \in S
                          /\ s \ {Pick(s)} \in SUBSET S
                          /\ Cardinality(s \ {Pick(s)}) = Cardinality(s) - 1
  <2>1. IsFiniteSet(s)
    BY FS_Subset
  <2> QED
    BY <2>1, FS_CardinalityType, Picked, Smaller
<1>2. 0 \notin Bad
  <2> DEFINE f == [s \in SUBSET S |-> 0]
  <2>1. f \in [SUBSET S -> Nat]
    OBVIOUS
  <2>2. ASSUME NEW s \in SUBSET S, Cardinality(s) <= 0
        PROVE  s = {}
    <3>1. Cardinality(s) \in Nat
      BY <1>1
    <3>2. Cardinality(s) = 0
      BY <2>2, <3>1
    <3> QED
      BY <1>1, <3>2, FS_EmptySet
  <2>3. Upto(f, 0)
    BY <2>2
  <2> QED
    BY <2>1, <2>3
<1>3. ASSUME NEW k \in Nat, k \notin Bad
      PROVE  k + 1 \notin Bad
  <2>1. PICK g \in [SUBSET S -> Nat] : Upto(g, k)
    BY <1>3
  <2> DEFINE f == [s \in SUBSET S |-> IF s = {} THEN 0 ELSE w[Pick(s)] + g[s \ {Pick(s)}]]
  <2>2. f \in [SUBSET S -> Nat]
    <3>1. ASSUME NEW s \in SUBSET S, s # {}
          PROVE  w[Pick(s)] + g[s \ {Pick(s)}] \in Nat
      <4>1. w[Pick(s)] \in Nat /\ g[s \ {Pick(s)}] \in Nat
        BY <1>1, <3>1
      <4> QED
        BY <4>1
    <3> QED
      BY <3>1
  <2>3. ASSUME NEW s \in SUBSET S, Cardinality(s) <= k
        PROVE  f[s] = g[s]
    BY <2>1, <2>3
  <2>4. ASSUME NEW s \in SUBSET S, Cardinality(s) <= k + 1
        PROVE  f[s] = IF s = {} THEN 0 ELSE w[Pick(s)] + f[s \ {Pick(s)}]
    <3>1. CASE s = {}
      BY <3>1
    <3>2. CASE s # {}
      <4>1. s \ {Pick(s)} \in SUBSET S /\ Cardinality(s \ {Pick(s)}) <= k
        BY <1>1, <2>4, <3>2
      <4>2. f[s \ {Pick(s)}] = g[s \ {Pick(s)}]
        BY <2>3, <4>1
      <4> QED
        BY <3>2, <4>2
    <3> QED
      BY <3>1, <3>2
  <2> HIDE DEF f
  <2>5. Upto(f, k + 1)
    BY <2>4
  <2> QED
    BY <2>2, <2>5
<1>4. Bad = {}
  <2> SUFFICES ASSUME Bad # {}
               PROVE  FALSE
    OBVIOUS
  <2>1. Bad \in SUBSET Nat
    OBVIOUS
  <2> HIDE DEF Bad
  <2>2. PICK k \in Bad : \A j \in Bad : k <= j
    BY <2>1, LeastNat
  <2>3. k \in Nat /\ k # 0
    BY <1>2, <2>1
  <2>4. k - 1 \in Nat /\ k - 1 \notin Bad /\ (k - 1) + 1 = k
    BY <2>2, <2>3
  <2> QED
    BY <1>3, <2>4
<1>5. Cardinality(S) \in Nat
  BY FS_CardinalityType
<1>6. PICK f \in [SUBSET S -> Nat] : Upto(f, Cardinality(S))
  BY <1>4, <1>5
<1>7. ASSUME NEW s \in SUBSET S
      PROVE  f[s] = IF s = {} THEN 0 ELSE w[Pick(s)] + f[s \ {Pick(s)}]
  <2>1. Cardinality(s) <= Cardinality(S)
    BY FS_Subset
  <2> QED
    BY <1>6, <2>1
<1>8. Sums(f, w, S)
  BY <1>7 DEF Sums
<1> QED
  BY <1>8

(* The sum over s is the weight of x and the sum over the others. *)
Takes(f, w, s, x) == f[s] = w[x] + f[s \ {x}]

(* Any element may be taken first. *)
LEMMA TakeAny ==
    ASSUME NEW S, IsFiniteSet(S), NEW w, \A y \in S : w[y] \in Nat,
           NEW f, f \in [SUBSET S -> Nat], Sums(f, w, S),
           NEW s, s \in SUBSET S, NEW x, x \in s
    PROVE  Takes(f, w, s, x)
<1> DEFINE Right(t) == \A y \in t : f[t] = w[y] + f[t \ {y}]
           Bad == {Cardinality(t) : t \in {u \in SUBSET S : ~Right(u)}}
<1>1. ASSUME NEW t \in SUBSET S
      PROVE  IsFiniteSet(t) /\ Cardinality(t) \in Nat
  BY FS_Subset, FS_CardinalityType
<1>2. ASSUME NEW t \in SUBSET S, NEW y \in t,
             \A u \in SUBSET S : Cardinality(u) < Cardinality(t) => Right(u)
      PROVE  f[t] = w[y] + f[t \ {y}]
  <2> DEFINE c == Pick(t)
             b == (t \ {y}) \ {c}
  <2>1. c \in t
    BY Picked
  <2>2. f[t] = w[c] + f[t \ {c}]
    BY DEF Sums
  <2>3. CASE c = y
    BY <2>2, <2>3
  <2>4. CASE c # y
    <3> HIDE DEF c
    <3>1. /\ t \ {c} \in SUBSET S /\ t \ {y} \in SUBSET S /\ b \in SUBSET S
          /\ y \in t \ {c} /\ c \in t \ {y}
          /\ (t \ {c}) \ {y} = b
      BY <2>1, <2>4
    <3>2. Cardinality(t \ {c}) < Cardinality(t) /\ Cardinality(t \ {y}) < Cardinality(t)
      BY <1>1, <2>1, Smaller
    <3>3. Right(t \ {c}) /\ Right(t \ {y})
      BY <1>2, <3>1, <3>2
    <3>4. f[t \ {c}] = w[y] + f[b] /\ f[t \ {y}] = w[c] + f[b]
      BY <3>1, <3>3
    <3>5. w[y] \in Nat /\ w[c] \in Nat /\ f[b] \in Nat
      BY <2>1, <3>1
    <3> HIDE DEF b
    <3> QED
      BY <2>2, <3>4, <3>5
  <2> QED
    BY <2>3, <2>4
<1>3. Bad = {}
  <2> SUFFICES ASSUME Bad # {}
               PROVE  FALSE
    OBVIOUS
  <2>1. Bad \in SUBSET Nat
    BY <1>1
  <2>2. PICK k \in Bad : \A j \in Bad : k <= j
    <3> HIDE DEF Bad
    <3> QED
      BY <2>1, LeastNat
  <2>3. PICK t \in SUBSET S : ~Right(t) /\ k = Cardinality(t)
    BY <2>2
  <2>4. ASSUME NEW u \in SUBSET S, Cardinality(u) < Cardinality(t)
        PROVE  Right(u)
    <3>1. ~(Cardinality(t) <= Cardinality(u))
      BY <1>1, <2>4
    <3>2. Cardinality(u) \notin Bad
      BY <2>2, <2>3, <3>1
    <3> QED
      BY <3>2
  <2>5. PICK y \in t : f[t] # w[y] + f[t \ {y}]
    BY <2>3
  <2>6. f[t] = w[y] + f[t \ {y}]
    BY <1>2, <2>4
  <2> QED
    BY <2>5, <2>6
<1>4. Right(s)
  BY <1>3
<1> QED
  BY <1>4 DEF Takes

(* The sum depends on the weights of the elements only. *)
LEMMA SumsAgree ==
    ASSUME NEW S, IsFiniteSet(S), NEW w, NEW f, Sums(f, w, S),
           NEW T, NEW v, NEW g, Sums(g, v, T),
           NEW s, s \in SUBSET S, s \in SUBSET T, \A x \in s : w[x] = v[x]
    PROVE  f[s] = g[s]
<1> DEFINE Bad == {Cardinality(t) : t \in {u \in SUBSET s : f[u] # g[u]}}
<1>1. ASSUME NEW t \in SUBSET s
      PROVE  IsFiniteSet(t) /\ Cardinality(t) \in Nat
  <2>1. t \in SUBSET S
    OBVIOUS
  <2> QED
    BY <2>1, FS_Subset, FS_CardinalityType
<1>2. Bad = {}
  <2> SUFFICES ASSUME Bad # {}
               PROVE  FALSE
    OBVIOUS
  <2>1. Bad \in SUBSET Nat
    BY <1>1
  <2>2. PICK k \in Bad : \A j \in Bad : k <= j
    <3> HIDE DEF Bad
    <3> QED
      BY <2>1, LeastNat
  <2>3. PICK t \in SUBSET s : f[t] # g[t] /\ k = Cardinality(t)
    BY <2>2
  <2>4. t \in SUBSET S /\ t \in SUBSET T
    OBVIOUS
  <2>5. CASE t = {}
    BY <2>3, <2>4, <2>5 DEF Sums
  <2>6. CASE t # {}
    <3> DEFINE c == Pick(t)
               b == t \ {c}
    <3>1. c \in t /\ b \in SUBSET s
      BY <2>6, Picked
    <3>2. f[t] = w[c] + f[b] /\ g[t] = v[c] + g[b]
      BY <2>4, <2>6 DEF Sums
    <3>3. w[c] = v[c]
      BY <3>1
    <3>4. ~(Cardinality(t) <= Cardinality(b))
      BY <1>1, <3>1, Smaller
    <3>5. Cardinality(b) \notin Bad
      BY <2>2, <2>3, <3>4
    <3>6. f[b] = g[b]
      BY <3>1, <3>5
    <3> HIDE DEF b, c
    <3> QED
      BY <2>3, <3>2, <3>3, <3>6
  <2> QED
    BY <2>5, <2>6
<1> QED
  BY <1>2

(* The sum is the value of the solution, a natural number. *)
LEMMA SumIs ==
    ASSUME NEW S, IsFiniteSet(S), NEW w, \A x \in S : w[x] \in Nat
    PROVE  \E f \in [SUBSET S -> Nat] : Sums(f, w, S) /\ SumFunctionOnSet(w, S) = f[S]
<1>1. PICK f \in [SUBSET S -> Nat] : Sums(f, w, S)
  BY SumsExist
<1> DEFINE g == CHOOSE h : Sums(h, w, S)
<1>2. Sums(g, w, S)
  BY <1>1
<1>3. SumFunctionOnSet(w, S) = g[S]
  BY DEF SumFunctionOnSet, FoldFunctionOnSet, MapThenFoldSet, Sums, Pick
<1> HIDE DEF g
<1>4. f[S] = g[S]
  BY <1>1, <1>2, SumsAgree
<1> QED
  BY <1>1, <1>3, <1>4

(* The sum over no element. *)
LEMMA SumOfNone ==
    ASSUME NEW w
    PROVE  SumFunctionOnSet(w, {}) = 0
<1>1. PICK f \in [SUBSET {} -> Nat] : Sums(f, w, {}) /\ SumFunctionOnSet(w, {}) = f[{}]
  BY SumIs, FS_EmptySet
<1>2. f[{}] = 0
  BY <1>1 DEF Sums
<1> QED
  BY <1>1, <1>2

(* Equal weights have equal sums. *)
LEMMA SumOfSame ==
    ASSUME NEW S, IsFiniteSet(S), NEW w, NEW v, \A x \in S : w[x] \in Nat /\ v[x] = w[x]
    PROVE  SumFunctionOnSet(v, S) = SumFunctionOnSet(w, S)
<1>1. PICK f \in [SUBSET S -> Nat] : Sums(f, w, S) /\ SumFunctionOnSet(w, S) = f[S]
  BY SumIs
<1>2. PICK g \in [SUBSET S -> Nat] : Sums(g, v, S) /\ SumFunctionOnSet(v, S) = g[S]
  <2>1. \A x \in S : v[x] \in Nat
    OBVIOUS
  <2> QED
    BY <2>1, SumIs
<1>3. g[S] = f[S]
  BY <1>1, <1>2, SumsAgree
<1> QED
  BY <1>1, <1>2, <1>3

(* One element less, and one element more. *)
LEMMA SumWithout ==
    ASSUME NEW T, IsFiniteSet(T), NEW x \in T, NEW w, \A y \in T : w[y] \in Nat
    PROVE  /\ SumFunctionOnSet(w, T \ {x}) \in Nat
           /\ SumFunctionOnSet(w, T) = w[x] + SumFunctionOnSet(w, T \ {x})
<1>1. PICK g \in [SUBSET T -> Nat] : Sums(g, w, T) /\ SumFunctionOnSet(w, T) = g[T]
  BY SumIs
<1>2. PICK S : S = T \ {x}
  OBVIOUS
<1>3. S \in SUBSET T /\ S \in SUBSET S /\ T \in SUBSET T /\ IsFiniteSet(S)
  BY <1>2, FS_Subset
<1>4. PICK f \in [SUBSET S -> Nat] : Sums(f, w, S) /\ SumFunctionOnSet(w, S) = f[S]
  <2>1. \A y \in S : w[y] \in Nat
    BY <1>3
  <2> QED
    BY <1>3, <2>1, SumIs
<1>5. g[T] = w[x] + g[T \ {x}]
  <2>1. g \in [SUBSET T -> Nat] /\ Sums(g, w, T) /\ T \in SUBSET T /\ x \in T
    BY <1>1, <1>3
  <2>2. Takes(g, w, T, x)
    BY <2>1, TakeAny
  <2> QED
    BY <2>2 DEF Takes
<1>6. f[S] = g[S]
  BY <1>1, <1>3, <1>4, SumsAgree
<1>7. f[S] \in Nat
  BY <1>3
<1> QED
  BY <1>1, <1>2, <1>4, <1>5, <1>6, <1>7

LEMMA SumWithOneMore ==
    ASSUME NEW S, IsFiniteSet(S), NEW x, x \notin S,
           NEW w, \A y \in S \cup {x} : w[y] \in Nat
    PROVE  /\ SumFunctionOnSet(w, S) \in Nat
           /\ SumFunctionOnSet(w, S \cup {x}) = w[x] + SumFunctionOnSet(w, S)
<1>1. PICK T : T = S \cup {x}
  OBVIOUS
<1>2. IsFiniteSet(T) /\ x \in T /\ T \ {x} = S /\ \A y \in T : w[y] \in Nat
  BY <1>1, FS_AddElement
<1> QED
  BY <1>1, <1>2, SumWithout

-----------------------------------------------------------------------------
(* The admission queue. *)

(* Where the handler of a ticket in the queue can be. *)
InLine == {"admitted", "waiting", "cancelRemove", "timeoutRemove"}

(* A ticket is in the queue once, and neither started nor left. *)
LineDistinct ==
    /\ \A i, j \in 1..Len(waiting) : waiting[i] = waiting[j] => i = j
    /\ \A i \in 1..Len(waiting) : waiting[i] \notin Started /\ pc[waiting[i]] \in InLine

(* The dispatcher holds a ticket exactly between the pop and the handoff. *)
HandoffHolds ==
    /\ popped # NoRequest <=> dispatcher = "handoff"
    /\ popped \notin dispatch

(* Only admitted tickets start, and only started ones are relayed. *)
StartedAdmitted ==
    /\ \A r \in Started : pc[r] \notin {"idle", "rejected"}
    /\ \A r \in Requests : pc[r] \in {"relaying", "finishing", "done"} => r \in dispatch

(* Close empties the queue for good; before it nothing is to be cancelled. *)
ClosedEmpty ==
    /\ closed <=> shutdown = "cancelling"
    /\ closed => waiting = <<>>
    /\ ~closed => toCancel = <<>>

(* The inductive invariant. *)
IInv ==
    /\ TypeOK
    /\ InflightExact
    /\ NoLostTicket
    /\ LineDistinct
    /\ HandoffHolds
    /\ StartedAdmitted
    /\ ClosedEmpty

-----------------------------------------------------------------------------
(* Cutting one item out of a sequence: removeWaiting (queue.go). *)
RemoveAt(s, i) == SubSeq(s, 1, i - 1) \o SubSeq(s, i + 1, Len(s))

LEMMA RemoveAtProperties ==
  ASSUME NEW S, NEW s \in Seq(S), NEW i \in 1..Len(s)
  PROVE  /\ RemoveAt(s, i) \in Seq(S)
         /\ Len(RemoveAt(s, i)) = Len(s) - 1
         /\ \A j \in 1..(i - 1) : RemoveAt(s, i)[j] = s[j]
         /\ \A j \in i..(Len(s) - 1) : RemoveAt(s, i)[j] = s[j + 1]
<1> DEFINE a == SubSeq(s, 1, i - 1)
           b == SubSeq(s, i + 1, Len(s))
<1>1. /\ a \in Seq(S) /\ Len(a) = i - 1
      /\ \A j \in 1..(i - 1) : a[j] = s[j]
  BY SubSequence
<1>2. /\ b \in Seq(S) /\ Len(b) = Len(s) - i
      /\ \A j \in 1..(Len(s) - i) : b[j] = s[i + j]
  BY SubSequence
<1> HIDE DEF a, b
<1>3. /\ a \o b \in Seq(S) /\ Len(a \o b) = Len(s) - 1
      /\ \A j \in 1..(Len(s) - 1) :
           (a \o b)[j] = IF j <= i - 1 THEN a[j] ELSE b[j - (i - 1)]
  <2>1. /\ a \o b \in Seq(S) /\ Len(a \o b) = Len(a) + Len(b)
        /\ \A j \in 1..Len(a) + Len(b) :
             (a \o b)[j] = IF j <= Len(a) THEN a[j] ELSE b[j - Len(a)]
    BY <1>1, <1>2, Concatenated, Zenon
  <2> QED
    BY <1>1, <1>2, <2>1
<1>4. \A j \in 1..(i - 1) : (a \o b)[j] = s[j]
  BY <1>1, <1>3
<1>5. ASSUME NEW j \in i..(Len(s) - 1)
      PROVE  (a \o b)[j] = s[j + 1]
  <2>1. j - (i - 1) \in 1..(Len(s) - i) /\ i + (j - (i - 1)) = j + 1
    OBVIOUS
  <2>2. (a \o b)[j] = b[j - (i - 1)]
    BY <1>3
  <2>3. b[j - (i - 1)] = s[i + (j - (i - 1))]
    BY <1>2, <2>1
  <2> QED
    BY <2>1, <2>2, <2>3
<1>6. RemoveAt(s, i) = a \o b
  BY DEF RemoveAt, a, b
<1> QED
  BY <1>3, <1>4, <1>5, <1>6

(* Cutting one item out of a sequence without repetitions leaves the       *)
(* others, each once.                                                      *)
Distinct(s) == \A j, k \in 1..Len(s) : s[j] = s[k] => j = k

Others(s, i, t) ==
    /\ \A j \in 1..Len(t) : t[j] # s[i] /\ \E k \in 1..Len(s) : t[j] = s[k]
    /\ \A k \in 1..Len(s) : k # i => \E j \in 1..Len(t) : t[j] = s[k]

LEMMA RemoveAtDistinct ==
  ASSUME NEW S, NEW s \in Seq(S), NEW i \in 1..Len(s), Distinct(s)
  PROVE  /\ RemoveAt(s, i) \in Seq(S)
         /\ Distinct(RemoveAt(s, i))
         /\ Others(s, i, RemoveAt(s, i))
<1> DEFINE t == RemoveAt(s, i)
<1> USE DEF Distinct
<1>1. /\ t \in Seq(S) /\ Len(t) = Len(s) - 1
      /\ \A j \in 1..(i - 1) : t[j] = s[j]
      /\ \A j \in i..(Len(s) - 1) : t[j] = s[j + 1]
  BY RemoveAtProperties, Zenon
<1> HIDE DEF t
<1> Len(s) \in Nat
  OBVIOUS
<1> DEFINE Old(j) == IF j < i THEN j ELSE j + 1
<1>2. \A j \in 1..Len(t) : Old(j) \in 1..Len(s) /\ Old(j) # i /\ t[j] = s[Old(j)]
  BY <1>1
<1>3. \A j, k \in 1..Len(t) : Old(j) = Old(k) => j = k
  BY <1>1
<1>4. \A k \in 1..Len(s) : k # i => \E j \in 1..Len(t) : Old(j) = k
  <2> SUFFICES ASSUME NEW k \in 1..Len(s), k # i
               PROVE  \E j \in 1..Len(t) : Old(j) = k
    OBVIOUS
  <2>1. CASE k < i
    <3>1. k \in 1..Len(t) /\ Old(k) = k
      BY <1>1, <2>1
    <3> QED
      BY <3>1
  <2>2. CASE k > i
    <3>1. k - 1 \in 1..Len(t) /\ Old(k - 1) = k
      BY <1>1, <2>2
    <3> QED
      BY <3>1
  <2> QED
    BY <2>1, <2>2
<1> HIDE DEF Old
<1>5. \A j, k \in 1..Len(t) : t[j] = t[k] => j = k
  BY <1>2, <1>3
<1>6. \A j \in 1..Len(t) : t[j] # s[i] /\ \E k \in 1..Len(s) : t[j] = s[k]
  BY <1>2
<1>7. \A k \in 1..Len(s) : k # i => \E j \in 1..Len(t) : t[j] = s[k]
  BY <1>2, <1>4
<1> QED
  BY <1>1, <1>5, <1>6, <1>7 DEF t, Others

(* The holders of slots are a finite set of requests. *)
LEMMA HoldersFinite ==
  ASSUME TypeOK
  PROVE  Holders \subseteq Requests /\ IsFiniteSet(Holders)
<1>1. Holders \subseteq Requests
  BY DEF TypeOK, Holders, Started
<1> QED
  BY <1>1, QueueAssumption, FS_Subset

(* The initial state satisfies the invariant, and is one of the limiter's. *)
LEMMA InitIInv == Init => IInv /\ Limiter!LimiterInit
<1> SUFFICES ASSUME Init PROVE IInv /\ Limiter!LimiterInit
  OBVIOUS
<1> USE QueueAssumption DEF Init
<1>1. TypeOK
  BY EmptySequence DEF TypeOK, ReqStates, Labels
<1>2. Holders = {}
  BY DEF Holders, Started
<1>3. InflightExact
  BY <1>2, FS_EmptySet DEF InflightExact
<1>4. NoLostTicket /\ LineDistinct
  BY DEF NoLostTicket, Queued, LineDistinct
<1>5. HandoffHolds /\ StartedAdmitted /\ ClosedEmpty
  BY DEF HandoffHolds, StartedAdmitted, Started, ClosedEmpty
<1>6. Limiter!LimiterInit
  BY <1>2 DEF Limiter!LimiterInit
<1> QED
  BY <1>1, <1>3, <1>4, <1>5, <1>6 DEF IInv

-----------------------------------------------------------------------------
(* A step of one handler that takes no ticket in or out of the queue, and  *)
(* neither takes nor gives back a slot: the limiter does not move.         *)
Stays(r, label) ==
    /\ pc' = [pc EXCEPT ![r] = label]
    /\ label \in Labels
    /\ pc[r] \in {"finishing", "done"} <=> label \in {"finishing", "done"}
    /\ pc[r] \in {"idle", "rejected"} <=> label \in {"idle", "rejected"}
    /\ label \in {"relaying", "finishing", "done"} => r \in dispatch
    /\ pc[r] \in InLine => label \in InLine \/ r \in dispatch
    /\ label \in {"admitted", "waiting"} => pc[r] \in {"admitted", "waiting"}
    /\ UNCHANGED <<waiting, inflight, closed, dispatch, ctxDone, dispatcherVars, shutdownVars>>

LEMMA StaysIInv ==
  ASSUME IInv, TypeOK', NEW r \in Requests, NEW label, Stays(r, label)
  PROVE  IInv' /\ UNCHANGED Limiter!limiterVars
<1> USE DEF IInv, Stays, TypeOK, dispatcherVars, shutdownVars
<1>1. \A q \in Requests : pc'[q] = IF q = r THEN label ELSE pc[q]
  OBVIOUS
<1>2. Started' = Started /\ Queued' = Queued /\ Closing' = Closing
  BY DEF Started, Queued, Closing
<1>3. Finished' = Finished
  BY <1>1 DEF Finished
<1>4. Holders' = Holders
  BY <1>2, <1>3 DEF Holders
<1>5. InflightExact'
  BY <1>4 DEF InflightExact
<1>6. LineDistinct'
  BY <1>1, <1>2 DEF LineDistinct, Started
<1>7. NoLostTicket'
  <2>1. \A q \in Queued : pc'[q] \in InLine
    BY <1>2, <1>6 DEF LineDistinct, Queued
  <2> QED
    BY <1>1, <1>2, <2>1 DEF NoLostTicket, InLine
<1>8. HandoffHolds'
  BY DEF HandoffHolds
<1>9. StartedAdmitted'
  BY <1>1, <1>2 DEF StartedAdmitted, Started
<1>10. ClosedEmpty'
  BY DEF ClosedEmpty
<1>11. UNCHANGED Limiter!limiterVars
  BY <1>1, <1>4 DEF Limiter!limiterVars
<1> QED
  BY <1>5, <1>6, <1>7, <1>8, <1>9, <1>10, <1>11

(* The steps of a handler that leave the limiter alone: refused requests,  *)
(* Announce, the three cases of WaitForDispatch's select, the counters of  *)
(* cancelled and timed-out requests, and the end of Done.                  *)
StayingStep(r) ==
    \/ AdmitClosed(r) \/ AdmitGateRefuses(r) \/ AdmitFull(r) \/ Announce(r)
    \/ SelectDispatched(r) \/ SelectCancelled(r) \/ SelectTimeout(r)
    \/ CountCancelled(r) \/ CountTimedOut(r) \/ AfterDone(r)

LEMMA StayingIInv ==
  ASSUME IInv, NEW r \in Requests, StayingStep(r)
  PROVE  IInv' /\ UNCHANGED Limiter!limiterVars
<1> USE QueueAssumption DEF IInv, TypeOK, Goto, Transition, Labels, ReqStates, queueVars,
        counterVars, ticketVars, dispatcherVars, shutdownVars
<1>1. TypeOK' /\ \E label : Stays(r, label)
  <2>1. CASE AdmitClosed(r)
    <3>1. TypeOK' BY <2>1 DEF AdmitClosed
    <3>2. Stays(r, "rejected") BY <2>1 DEF AdmitClosed, Stays, InLine
    <3> QED BY <3>1, <3>2
  <2>2. CASE AdmitGateRefuses(r) \/ AdmitFull(r)
    <3> Refuse(r) /\ pc[r] = "idle" BY <2>2 DEF AdmitGateRefuses, AdmitFull
    <3>1. TypeOK' BY DEF Refuse
    <3>2. Stays(r, "rejected") BY DEF Refuse, Stays, InLine
    <3> QED BY <3>1, <3>2
  <2>3. CASE Announce(r)
    <3>1. TypeOK' BY <2>3 DEF Announce
    <3>2. Stays(r, "waiting") BY <2>3 DEF Announce, Stays, InLine
    <3> QED BY <3>1, <3>2
  <2>4. CASE SelectDispatched(r)
    <3>1. TypeOK' BY <2>4 DEF SelectDispatched
    <3>2. Stays(r, "relaying") BY <2>4 DEF SelectDispatched, Stays, InLine
    <3> QED BY <3>1, <3>2
  <2>5. CASE SelectCancelled(r)
    <3>1. TypeOK' BY <2>5 DEF SelectCancelled
    <3>2. Stays(r, "cancelRemove") BY <2>5 DEF SelectCancelled, Stays, InLine
    <3> QED BY <3>1, <3>2
  <2>6. CASE SelectTimeout(r)
    <3>1. TypeOK' BY <2>6 DEF SelectTimeout
    <3>2. Stays(r, "timeoutRemove") BY <2>6 DEF SelectTimeout, Stays, InLine
    <3> QED BY <3>1, <3>2
  <2>7. CASE CountCancelled(r)
    <3>1. TypeOK' BY <2>7 DEF CountCancelled
    <3>2. Stays(r, "left") BY <2>7 DEF CountCancelled, Stays, InLine
    <3> QED BY <3>1, <3>2
  <2>8. CASE CountTimedOut(r)
    <3>1. TypeOK' BY <2>8 DEF CountTimedOut
    <3>2. Stays(r, "left") BY <2>8 DEF CountTimedOut, Stays, InLine
    <3> QED BY <3>1, <3>2
  <2>9. CASE AfterDone(r)
    <3>1. TypeOK' BY <2>9 DEF AfterDone
    <3>2. r \in dispatch BY <2>9 DEF AfterDone, StartedAdmitted
    <3>3. Stays(r, "done") BY <2>9, <3>2 DEF AfterDone, Stays, InLine
    <3> QED BY <3>1, <3>3
  <2> QED
    BY <2>1, <2>2, <2>3, <2>4, <2>5, <2>6, <2>7, <2>8, <2>9 DEF StayingStep
<1> QED
  BY <1>1, StaysIInv

(* AdmitQueued: the request joins the line. *)
LEMMA AdmitQueuedIInv ==
  ASSUME IInv, NEW r \in Requests, AdmitQueued(r)
  PROVE  IInv' /\ Limiter!Join(r)
<1> USE QueueAssumption DEF IInv, AdmitQueued, TypeOK, Goto, Transition, dispatcherVars,
        shutdownVars
<1>1. /\ waiting' \in Seq(Requests) /\ Len(waiting') = Len(waiting) + 1
      /\ \A i \in 1..Len(waiting) : waiting'[i] = waiting[i]
      /\ waiting'[Len(waiting) + 1] = r
  <2>1. waiting \in Seq(Requests) /\ r \in Requests /\ waiting' = Append(waiting, r)
    OBVIOUS
  <2> QED
    BY ONLY <2>1, Appended
<1>2. TypeOK'
  <2>1. pc' \in [Requests -> Labels]
    BY DEF Labels
  <2>2. reqState' \in [Requests -> ReqStates]
    BY DEF ReqStates
  <2>3. arrivals' \in Nat
    OBVIOUS
  <2> QED
    BY <1>1, <2>1, <2>2, <2>3
<1>3. \A q \in Requests : pc'[q] = IF q = r THEN "admitted" ELSE pc[q]
  OBVIOUS
<1>4. r \notin Started /\ r \notin Queued
  BY DEF StartedAdmitted, LineDistinct, InLine, Queued
<1>5. Started' = Started /\ Queued' = Queued \cup {r} /\ Closing' = Closing
  BY <1>1 DEF Started, Queued, Closing
<1>6. Finished' = Finished
  BY <1>3 DEF Finished
<1>7. Holders' = Holders
  BY <1>5, <1>6 DEF Holders
<1>8. InflightExact'
  BY <1>7 DEF InflightExact
<1>9. LineDistinct'
  <2>1. \A i \in 1..Len(waiting) : waiting[i] # r
    BY <1>4 DEF Queued
  <2>2. \A i, j \in 1..Len(waiting') : waiting'[i] = waiting'[j] => i = j
    <3>1. \A i, j \in 1..Len(waiting) : waiting[i] = waiting[j] => i = j
      BY DEF LineDistinct
    <3>2. Len(waiting) \in Nat
      OBVIOUS
    <3> QED
      BY ONLY <1>1, <2>1, <3>1, <3>2
  <2>3. \A i \in 1..Len(waiting') : waiting'[i] \notin Started' /\ pc'[waiting'[i]] \in InLine
    BY <1>1, <1>3, <1>4, <1>5 DEF LineDistinct, InLine
  <2> QED
    BY <2>2, <2>3 DEF LineDistinct
<1>10. NoLostTicket'
  BY <1>3, <1>5 DEF NoLostTicket
<1>11. HandoffHolds' /\ ClosedEmpty'
  BY DEF HandoffHolds, ClosedEmpty
<1>12. StartedAdmitted'
  BY <1>3, <1>5 DEF StartedAdmitted, Started
<1>13. Limiter!Join(r)
  BY <1>3, <1>7 DEF Limiter!Join
<1> QED
  BY <1>2, <1>8, <1>9, <1>10, <1>11, <1>12, <1>13

(* removeWaiting: the ticket gives up its place, if it still has one. *)
LEMMA removeWaitingIInv ==
  ASSUME IInv, NEW r \in Requests, removeWaiting(r)
  PROVE  /\ IInv'
         /\ \/ \E i \in 1..Len(waiting) : Limiter!GiveUp(i)
            \/ UNCHANGED Limiter!limiterVars
<1> USE QueueAssumption DEF IInv, TypeOK
<1>1. PICK label \in {"cancelCount", "timeoutCount"} :
        /\ pc' = [pc EXCEPT ![r] = label]
        /\ pc[r] \in {"cancelRemove", "timeoutRemove"}
  BY DEF removeWaiting, Goto
<1> waiting' = Without(r) /\ UNCHANGED <<inflight, closed, signal, counterVars, ticketVars,
                                         dispatcherVars, shutdownVars>>
  BY DEF removeWaiting
<1> USE DEF counterVars, ticketVars, dispatcherVars, shutdownVars
<1>2. \A q \in Requests : pc'[q] = IF q = r THEN label ELSE pc[q]
  BY <1>1
<1>3. Started' = Started /\ Closing' = Closing
  BY DEF Started, Closing
<1>4. Finished' = Finished
  BY <1>1, <1>2 DEF Finished
<1>5. Holders' = Holders
  BY <1>3, <1>4 DEF Holders
<1>6. InflightExact' /\ HandoffHolds'
  BY <1>5 DEF InflightExact, HandoffHolds
<1>7. StartedAdmitted'
  BY <1>1, <1>2, <1>3 DEF StartedAdmitted, Started
<1>8. {q \in Requests : pc[q] \notin {"idle", "rejected"}}'
        = {q \in Requests : pc[q] \notin {"idle", "rejected"}}
  BY <1>1, <1>2
<1>9. CASE \E i \in 1..Len(waiting) : waiting[i] = r
  <2>1. PICK i \in 1..Len(waiting) : waiting[i] = r /\ waiting' = RemoveAt(waiting, i)
    BY <1>9 DEF Without, RemoveAt
  <2>2. waiting' \in Seq(Requests) /\ Distinct(waiting') /\ Others(waiting, i, waiting')
    <3>1. Distinct(waiting)
      BY DEF LineDistinct, Distinct
    <3>2. waiting \in Seq(Requests)
      OBVIOUS
    <3> QED
      BY ONLY <2>1, <3>1, <3>2, RemoveAtDistinct
  <2>3. TypeOK'
    BY <1>1, <2>2 DEF Labels
  <2>4. waiting[i] = r
    BY <2>1
  <2>6. LineDistinct'
    <3>1. ASSUME NEW j \in 1..Len(waiting')
          PROVE  waiting'[j] \notin Started' /\ pc'[waiting'[j]] \in InLine
      <4>1. PICK k \in 1..Len(waiting) : waiting'[j] = waiting[k] /\ waiting'[j] # r
        BY <2>2, <2>4 DEF Others
      <4>2. waiting[k] \notin Started /\ pc[waiting[k]] \in InLine
        BY ONLY LineDistinct, k \in 1..Len(waiting) DEF LineDistinct
      <4>3. waiting[k] \in Requests
        BY ONLY waiting \in Seq(Requests), k \in 1..Len(waiting)
      <4> QED
        BY ONLY <1>2, <1>3, <4>1, <4>2, <4>3
    <3>2. \A j, k \in 1..Len(waiting') : waiting'[j] = waiting'[k] => j = k
      BY <2>2 DEF Distinct
    <3> QED
      BY <3>1, <3>2 DEF LineDistinct
  <2>7. \A q \in Queued : q # r => q \in Queued'
    <3> SUFFICES ASSUME NEW k \in 1..Len(waiting), waiting[k] # r
                 PROVE  waiting[k] \in Queued'
      BY DEF Queued
    <3>1. k # i
      BY <2>4
    <3>2. PICK j \in 1..Len(waiting') : waiting'[j] = waiting[k]
      BY <2>2, <3>1 DEF Others
    <3> QED
      BY <3>2 DEF Queued
  <2>8. NoLostTicket'
    <3>1. \A q \in Queued' : pc'[q] \in InLine
      BY <2>6 DEF LineDistinct, Queued
    <3> QED
      BY <1>1, <1>2, <1>3, <2>7, <3>1 DEF NoLostTicket, InLine
  <2>9. ClosedEmpty'
    BY <2>1 DEF ClosedEmpty
  <2>10. Limiter!GiveUp(i)
    BY <1>1, <1>2, <1>5, <2>1 DEF Limiter!GiveUp, RemoveAt
  <2> QED
    BY <1>6, <1>7, <2>3, <2>6, <2>8, <2>9, <2>10
<1>10. CASE ~\E i \in 1..Len(waiting) : waiting[i] = r
  <2>1. waiting' = waiting /\ \A j \in 1..Len(waiting) : waiting[j] # r
    BY <1>10 DEF Without
  <2>2. TypeOK'
    BY <1>1, <2>1 DEF Labels
  <2>3. LineDistinct'
    <3>1. ASSUME NEW j \in 1..Len(waiting)
          PROVE  waiting[j] \notin Started' /\ pc'[waiting[j]] \in InLine
      <4>1. waiting[j] \in Requests
        BY ONLY waiting \in Seq(Requests), j \in 1..Len(waiting)
      <4>3. waiting[j] \notin Started /\ pc[waiting[j]] \in InLine
        BY ONLY LineDistinct, j \in 1..Len(waiting) DEF LineDistinct
      <4>2. waiting[j] # r
        BY <2>1
      <4> QED
        BY ONLY <1>2, <1>3, <4>1, <4>2, <4>3
    <3>2. \A i, j \in 1..Len(waiting) : waiting[i] = waiting[j] => i = j
      BY DEF LineDistinct
    <3> QED
      BY ONLY <2>1, <3>1, <3>2 DEF LineDistinct
  <2>4. NoLostTicket'
    <3>1. Queued' = Queued /\ \A q \in Queued' : pc'[q] \in InLine
      BY <2>1, <2>3 DEF LineDistinct, Queued
    <3> QED
      BY <1>1, <1>2, <1>3, <3>1 DEF NoLostTicket, InLine
  <2>5. ClosedEmpty'
    BY <2>1 DEF ClosedEmpty
  <2>6. UNCHANGED Limiter!limiterVars
    BY <1>5, <1>8, <2>1 DEF Limiter!limiterVars
  <2> QED
    BY <1>6, <1>7, <2>2, <2>3, <2>4, <2>5, <2>6
<1> QED
  BY <1>9, <1>10

(* Done: the slot is given back, by one of its holders. *)
LEMMA DoneIInv ==
  ASSUME IInv, NEW r \in Requests, Done(r)
  PROVE  IInv' /\ Limiter!Finish(r)
<1> USE QueueAssumption DEF IInv, Done, TypeOK, Goto, ticketVars, dispatcherVars, shutdownVars
<1>1. \A q \in Requests : pc'[q] = IF q = r THEN "finishing" ELSE pc[q]
  OBVIOUS
<1>2. Started' = Started /\ Queued' = Queued /\ Closing' = Closing
  BY DEF Started, Queued, Closing
<1>3. Finished' = Finished \cup {r} /\ r \notin Finished
  BY <1>1 DEF Finished
<1>4. r \in Holders
  BY <1>3 DEF StartedAdmitted, Holders, Started
<1>5. Holders' = Holders \ {r}
  BY <1>2, <1>3 DEF Holders
<1>6. /\ IsFiniteSet(Holders) /\ Cardinality(Holders) \in Nat
      /\ Cardinality(Holders \ {r}) = Cardinality(Holders) - 1
      /\ Cardinality(Holders \ {r}) \in Nat
  BY <1>4, HoldersFinite, FS_RemoveElement, FS_CardinalityType
<1>7. InflightExact'
  BY <1>5, <1>6 DEF InflightExact
<1>8. TypeOK'
  <2>1. pc' \in [Requests -> Labels]
    BY DEF Labels
  <2>2. inflight' \in Nat /\ completed' \in Nat /\ cancelled' \in Nat
    OBVIOUS
  <2> QED
    BY <2>1, <2>2
<1>9. LineDistinct'
  <2>1. \A i \in 1..Len(waiting) : waiting[i] \in Requests
    OBVIOUS
  <2>2. waiting' = waiting /\ LineDistinct /\ pc[r] \notin InLine
    BY DEF InLine
  <2> QED
    BY ONLY <1>1, <1>2, <2>1, <2>2 DEF LineDistinct
<1>10. NoLostTicket'
  <2>1. r \notin Queued
    BY DEF LineDistinct, InLine, Queued
  <2> QED
    BY <1>1, <1>2, <2>1 DEF NoLostTicket
<1>11. HandoffHolds' /\ ClosedEmpty'
  BY DEF HandoffHolds, ClosedEmpty
<1>12. StartedAdmitted'
  BY <1>1, <1>2 DEF StartedAdmitted, Started
<1>13. Limiter!Finish(r)
  BY <1>1, <1>4, <1>5 DEF Limiter!Finish
<1> QED
  BY <1>7, <1>8, <1>9, <1>10, <1>11, <1>12, <1>13

(* drain pops the head of the line, and it takes a free slot. *)
LEMMA DrainPopsIInv ==
  ASSUME IInv, DrainPops
  PROVE  IInv' /\ Limiter!Start
<1> USE QueueAssumption DEF IInv, DrainPops, CanDispatch, TypeOK, ticketVars, shutdownVars
<1> DEFINE h == Head(waiting)
<1>1. /\ h \in Requests /\ h = waiting[1] /\ Len(waiting) \in Nat \ {0}
      /\ waiting' \in Seq(Requests) /\ Len(waiting') = Len(waiting) - 1
      /\ \A i \in 1..Len(waiting') : waiting'[i] = waiting[i + 1]
  BY HeadAndTail, EmptySequence
<1>2. h \notin Started /\ pc[h] \in InLine
  BY <1>1 DEF LineDistinct
<1>3. Started' = Started \cup {h}
  BY <1>1 DEF Started, HandoffHolds
<1>4. Finished' = Finished /\ h \notin Finished
  BY <1>2 DEF Finished, InLine
<1>5. Holders' = Holders \cup {h} /\ h \notin Holders
  BY <1>2, <1>3, <1>4 DEF Holders
<1>6. /\ Cardinality(Holders) \in Nat
      /\ Cardinality(Holders \cup {h}) = Cardinality(Holders) + 1
  BY <1>5, HoldersFinite, FS_AddElement, FS_CardinalityType
<1>7. InflightExact'
  BY <1>5, <1>6 DEF InflightExact
<1>8. TypeOK'
  BY <1>1
<1>9. LineDistinct'
  <2>1. \A i, j \in 1..Len(waiting') : waiting'[i] = waiting'[j] => i = j
    BY <1>1 DEF LineDistinct
  <2>2. ASSUME NEW i \in 1..Len(waiting')
        PROVE  waiting'[i] \notin Started' /\ pc'[waiting'[i]] \in InLine
    <3>1. i + 1 \in 1..Len(waiting) /\ waiting'[i] = waiting[i + 1] /\ i + 1 # 1
      BY <1>1
    <3>2. waiting[i + 1] # h
      BY <1>1, <3>1 DEF LineDistinct
    <3> QED
      BY <1>3, <3>1, <3>2 DEF LineDistinct
  <2> QED
    BY <2>1, <2>2 DEF LineDistinct
<1>10. NoLostTicket'
  <2>1. \A q \in Queued : q = h \/ q \in Queued'
    <3> SUFFICES ASSUME NEW k \in 1..Len(waiting), k # 1
                 PROVE  waiting[k] \in Queued'
      BY <1>1 DEF Queued
    <3>1. k - 1 \in 1..Len(waiting') /\ waiting'[k - 1] = waiting[(k - 1) + 1] /\ (k - 1) + 1 = k
      BY ONLY <1>1, k \in 1..Len(waiting), k # 1
    <3> QED
      BY <3>1 DEF Queued
  <2>2. Closing' = Closing
    BY DEF Closing
  <2>3. \A q \in Queued' : pc'[q] \in InLine
    BY <1>9 DEF LineDistinct, Queued
  <2> QED
    BY <1>3, <2>1, <2>2, <2>3 DEF NoLostTicket, InLine
<1>11. HandoffHolds'
  BY <1>1, <1>2 DEF HandoffHolds, Started
<1>12. StartedAdmitted'
  BY <1>2, <1>3 DEF StartedAdmitted, InLine
<1>13. ClosedEmpty'
  BY DEF ClosedEmpty
<1>14. Limiter!Start
  BY <1>5 DEF Limiter!Start, Limiter!Cardinality, Cardinality, InflightExact
<1> QED
  BY <1>7, <1>8, <1>9, <1>10, <1>11, <1>12, <1>13, <1>14

(* The other steps of the dispatcher, the clients and the signal: the      *)
(* limiter does not move.                                                  *)
QuietStep ==
    \/ RunSignalled \/ RunTick \/ RunStop \/ DrainEnds \/ DrainHandsOff
    \/ \E r \in Requests : Disconnect(r)
    \/ Signal \/ CloseCancels

LEMMA QuietIInv ==
  ASSUME IInv, QuietStep
  PROVE  IInv' /\ UNCHANGED Limiter!limiterVars
<1> USE QueueAssumption DEF IInv, queueVars, counterVars, ticketVars, dispatcherVars, shutdownVars
<1>1. UNCHANGED <<waiting, inflight, closed, pc>>
  BY DEF QuietStep, RunSignalled, RunTick, RunStop, DrainEnds, DrainHandsOff, Disconnect,
         Signal, CloseCancels
<1>2. TypeOK' /\ HandoffHolds'
  <2> USE DEF TypeOK, HandoffHolds
  <2>1. CASE RunSignalled \/ RunTick \/ RunStop \/ DrainEnds
    BY <2>1 DEF RunSignalled, RunTick, RunStop, DrainEnds
  <2>2. CASE DrainHandsOff
    BY <2>2 DEF DrainHandsOff
  <2>3. CASE \E r \in Requests : Disconnect(r)
    BY <2>3 DEF Disconnect
  <2>4. CASE Signal
    BY <2>4 DEF Signal
  <2>5. CASE CloseCancels
    <3>1. Head(toCancel) \in Requests /\ toCancel' \in Seq(Requests)
      BY <2>5, HeadAndTail DEF CloseCancels
    <3> QED
      BY <2>5, <3>1 DEF CloseCancels
  <2> QED
    BY <2>1, <2>2, <2>3, <2>4, <2>5 DEF QuietStep
<1>3. Started' = Started /\ dispatch \subseteq dispatch'
  <2>1. CASE DrainHandsOff
    BY <2>1 DEF DrainHandsOff, Started, HandoffHolds, TypeOK
  <2>2. CASE UNCHANGED <<dispatch, popped>>
    BY <2>2 DEF Started
  <2> QED
    BY <2>1, <2>2 DEF QuietStep, RunSignalled, RunTick, RunStop, DrainEnds, Disconnect, Signal,
                     CloseCancels
<1>4. Holders' = Holders /\ Queued' = Queued
  BY <1>1, <1>3 DEF Holders, Finished, Queued
<1>5. InflightExact' /\ LineDistinct'
  BY <1>1, <1>3, <1>4 DEF InflightExact, LineDistinct
<1>6. ctxDone \cup Closing \subseteq ctxDone' \cup Closing'
  <2>1. CASE CloseCancels
    <3>1. /\ toCancel \in Seq(Requests) /\ toCancel # <<>> /\ toCancel' = Tail(toCancel)
          /\ ctxDone' = ctxDone \cup {Head(toCancel)}
      BY <2>1 DEF CloseCancels, TypeOK
    <3>2. /\ Head(toCancel) = toCancel[1] /\ Len(toCancel) \in Nat
          /\ Len(toCancel') = Len(toCancel) - 1
          /\ \A i \in 1..Len(toCancel') : toCancel'[i] = toCancel[i + 1]
      BY <3>1, HeadAndTail
    <3>3. ASSUME NEW k \in 1..Len(toCancel), k # 1
          PROVE  toCancel[k] \in Closing'
      <4>1. k - 1 \in 1..Len(toCancel') /\ toCancel'[k - 1] = toCancel[k]
        BY <3>2, <3>3
      <4> QED
        BY <4>1 DEF Closing
    <3> QED
      BY <3>1, <3>2, <3>3 DEF Closing
  <2>2. CASE UNCHANGED toCancel /\ ctxDone \subseteq ctxDone'
    BY <2>2 DEF Closing
  <2> QED
    BY <2>1, <2>2 DEF QuietStep, RunSignalled, RunTick, RunStop, DrainEnds, DrainHandsOff,
                     Disconnect, Signal
<1>7. NoLostTicket'
  BY <1>1, <1>3, <1>4, <1>6 DEF NoLostTicket
<1>8. StartedAdmitted'
  BY <1>1, <1>3 DEF StartedAdmitted
<1>9. ClosedEmpty'
  <2>1. /\ shutdown' = "cancelling" <=> shutdown = "cancelling"
        /\ toCancel' = toCancel \/ shutdown = "cancelling"
    BY DEF QuietStep, RunSignalled, RunTick, RunStop, DrainEnds, DrainHandsOff, Disconnect,
           Signal, CloseCancels
  <2> QED
    BY <1>1, <2>1 DEF ClosedEmpty
<1>10. UNCHANGED Limiter!limiterVars
  BY <1>1, <1>4 DEF Limiter!limiterVars
<1> QED
  BY <1>2, <1>5, <1>7, <1>8, <1>9, <1>10

(* Close: everybody in the line is sent away. *)
LEMMA CloseIInv ==
  ASSUME IInv, Close
  PROVE  IInv' /\ Limiter!Shut
<1> USE QueueAssumption DEF IInv, Close, counterVars, ticketVars, dispatcherVars
<1>1. TypeOK'
  BY EmptySequence DEF TypeOK
<1>2. Started' = Started /\ Queued' = {} /\ Closing' = Queued
  <2>1. UNCHANGED <<dispatch, popped>> /\ waiting' = <<>> /\ toCancel' = waiting
    OBVIOUS
  <2>2. Started' = Started
    BY ONLY <2>1 DEF Started
  <2>3. Queued' = {}
    BY ONLY <2>1 DEF Queued
  <2>4. Closing' = Queued
    BY ONLY <2>1 DEF Closing, Queued
  <2> QED
    BY <2>2, <2>3, <2>4
<1>3. Closing = {} /\ ~closed
  BY DEF ClosedEmpty, Closing
<1>4. Holders' = Holders
  BY <1>2 DEF Holders, Finished
<1>5. InflightExact' /\ HandoffHolds'
  BY <1>4 DEF InflightExact, HandoffHolds
<1>6. NoLostTicket'
  BY <1>2, <1>3 DEF NoLostTicket
<1>7. LineDistinct'
  BY DEF LineDistinct
<1>8. StartedAdmitted'
  BY <1>2 DEF StartedAdmitted
<1>9. ClosedEmpty'
  BY DEF ClosedEmpty
<1>10. Limiter!Shut
  BY <1>3, <1>4 DEF Limiter!Shut
<1> QED
  BY <1>1, <1>5, <1>6, <1>7, <1>8, <1>9, <1>10

-----------------------------------------------------------------------------
(* Every step of the queue preserves the invariant, and is a step of the   *)
(* limiter or none.                                                        *)
LEMMA StepIInv ==
  ASSUME IInv, [Next]_vars
  PROVE  IInv' /\ [Limiter!LimiterNext]_(Limiter!limiterVars)
<1>1. CASE \E r \in Requests : StayingStep(r)
  BY <1>1, StayingIInv
<1>2. CASE \E r \in Requests : AdmitQueued(r)
  BY <1>2, AdmitQueuedIInv DEF Limiter!LimiterNext
<1>3. CASE \E r \in Requests : removeWaiting(r)
  BY <1>3, removeWaitingIInv DEF Limiter!LimiterNext
<1>4. CASE \E r \in Requests : Done(r)
  BY <1>4, DoneIInv DEF Limiter!LimiterNext
<1>5. CASE DrainPops
  BY <1>5, DrainPopsIInv DEF Limiter!LimiterNext
<1>6. CASE QuietStep
  BY <1>6, QuietIInv
<1>7. CASE Close
  BY <1>7, CloseIInv DEF Limiter!LimiterNext
<1>8. CASE UNCHANGED vars
  <2> USE <1>8 DEF vars, queueVars, counterVars, ticketVars, dispatcherVars, shutdownVars
  <2>1. IInv'
    <3>1. Started' = Started /\ Finished' = Finished /\ Queued' = Queued /\ Closing' = Closing
      BY DEF Started, Finished, Queued, Closing
    <3>2. TypeOK'
      BY DEF IInv, TypeOK
    <3>3. InflightExact' /\ NoLostTicket'
      BY <3>1 DEF IInv, InflightExact, NoLostTicket, Holders
    <3>4. LineDistinct' /\ StartedAdmitted'
      BY <3>1 DEF IInv, LineDistinct, StartedAdmitted
    <3>5. HandoffHolds' /\ ClosedEmpty'
      BY <3>1 DEF IInv, HandoffHolds, ClosedEmpty
    <3> QED
      BY <3>2, <3>3, <3>4, <3>5 DEF IInv
  <2>2. UNCHANGED Limiter!limiterVars
    BY DEF Limiter!limiterVars, Holders, Started, Finished
  <2> QED
    BY <2>1, <2>2
<1> QED
  BY <1>1, <1>2, <1>3, <1>4, <1>5, <1>6, <1>7, <1>8
     DEF Next, Admit, Proceed, Dispatcher, StayingStep, QuietStep

(* The invariant holds in every reachable state of the queue. *)
THEOREM Invariance == Spec => []IInv
<1>1. Init => IInv
  BY InitIInv
<1>2. IInv /\ [Next]_vars => IInv'
  BY StepIInv
<1> QED
  BY <1>1, <1>2, PTL DEF Spec

(* Every variable of the queue keeps its type. *)
THEOREM TypeCorrect == Spec => []TypeOK
<1>1. IInv => TypeOK
  BY DEF IInv
<1> QED
  BY <1>1, Invariance, PTL

(* inflight is exactly the number of tickets that drain has popped and     *)
(* Done has not seen (queue.go: drain, Done), whatever clients, timeouts   *)
(* and Close do in between.                                                *)
THEOREM InflightIsExact == Spec => []InflightExact
<1>1. IInv => InflightExact
  BY DEF IInv
<1> QED
  BY <1>1, Invariance, PTL

(* No waiting handler is forgotten, by drain, removeWaiting or Close, and  *)
(* no ticket stays in the queue without its handler.                       *)
THEOREM NoTicketLost == Spec => []NoLostTicket
<1>1. IInv => NoLostTicket
  BY DEF IInv
<1> QED
  BY <1>1, Invariance, PTL

(* The queue implements the bounded FIFO slot limiter: line <- waiting,    *)
(* active <- the holders of slots.                                         *)
THEOREM Refinement == Spec => ImplementsSlotLimiter
<1>1. Init => Limiter!LimiterInit
  BY InitIInv
<1>2. IInv /\ [Next]_vars => [Limiter!LimiterNext]_(Limiter!limiterVars)
  BY StepIInv
<1> QED
  BY <1>1, <1>2, Invariance, PTL DEF Spec, ImplementsSlotLimiter, Limiter!LimiterSpec
-----------------------------------------------------------------------------
(* The counters.  A request is pending from Admit until one of completed,  *)
(* cancelled and timed out counts it.                                      *)
PendingLabels == {"admitted", "waiting", "cancelRemove", "cancelCount",
                  "timeoutRemove", "timeoutCount", "relaying"}
Pending == {r \in Requests : pc[r] \in PendingLabels}

LEMMA CountersByPending ==
  CountersAddUp <=> /\ arrivals = completed + cancelled + timedOut + Cardinality(Pending)
                    /\ dispatched = Cardinality(Started)
BY DEF CountersAddUp, Pending, PendingLabels

(* The sets that are counted are finite, with one request more or less. *)
LEMMA CountedFinite ==
  ASSUME IInv
  PROVE  /\ Cardinality(Pending) \in Nat
         /\ Cardinality(Started) \in Nat
         /\ \A r \in Pending : Cardinality(Pending \ {r}) = Cardinality(Pending) - 1
         /\ \A r : r \notin Pending => Cardinality(Pending \cup {r}) = Cardinality(Pending) + 1
         /\ \A r : r \notin Started => Cardinality(Started \cup {r}) = Cardinality(Started) + 1
<1>1. Pending \subseteq Requests /\ Started \subseteq Requests
  BY DEF Pending, Started, IInv, TypeOK
<1>2. IsFiniteSet(Pending) /\ IsFiniteSet(Started)
  BY <1>1, QueueAssumption, FS_Subset
<1> QED
  BY <1>2, FS_CardinalityType, FS_AddElement, FS_RemoveElement

LEMMA InitCounters == Init => CountersAddUp
<1> SUFFICES ASSUME Init PROVE CountersAddUp
  OBVIOUS
<1>1. Pending = {} /\ Started = {}
  BY DEF Init, Pending, PendingLabels, Started
<1>2. Cardinality(Pending) = 0 /\ Cardinality(Started) = 0
  BY <1>1, FS_EmptySet
<1> QED
  BY <1>2, CountersByPending DEF Init

(* Each step counts a request as it becomes pending, ceases to be, or is   *)
(* popped.                                                                 *)
LEMMA StepCounters ==
  ASSUME IInv, CountersAddUp, [Next]_vars
  PROVE  CountersAddUp'
<1> USE DEF Goto, Transition
<1>1. /\ arrivals \in Nat /\ completed \in Nat /\ cancelled \in Nat /\ timedOut \in Nat
      /\ dispatched \in Nat /\ pc \in [Requests -> Labels]
  BY DEF IInv, TypeOK
<1>2. /\ arrivals = completed + cancelled + timedOut + Cardinality(Pending)
      /\ dispatched = Cardinality(Started)
      /\ Cardinality(Pending) \in Nat
      /\ Cardinality(Started) \in Nat
  BY CountersByPending, CountedFinite
<1>3. SUFFICES /\ arrivals' = completed' + cancelled' + timedOut' + Cardinality(Pending')
               /\ dispatched' = Cardinality(Started')
  BY DEF CountersAddUp, Pending, PendingLabels
<1>4. ASSUME NEW r \in Requests, AdmitQueued(r)
      PROVE  /\ arrivals' = completed' + cancelled' + timedOut' + Cardinality(Pending')
             /\ dispatched' = Cardinality(Started')
  <2>1. Pending' = Pending \cup {r} /\ r \notin Pending
    BY <1>1, <1>4 DEF AdmitQueued, Pending, PendingLabels
  <2>2. Started' = Started /\ arrivals' = arrivals + 1
        /\ UNCHANGED <<completed, cancelled, timedOut, dispatched>>
    BY <1>4 DEF AdmitQueued, Started, dispatcherVars
  <2>3. Cardinality(Pending') = Cardinality(Pending) + 1
    BY <2>1, CountedFinite
  <2> QED
    BY <1>1, <1>2, <2>2, <2>3
<1>5. ASSUME NEW r \in Requests, CountCancelled(r) \/ CountTimedOut(r) \/ Done(r)
      PROVE  /\ arrivals' = completed' + cancelled' + timedOut' + Cardinality(Pending')
             /\ dispatched' = Cardinality(Started')
  <2>1. Pending' = Pending \ {r} /\ r \in Pending
    BY <1>1, <1>5 DEF CountCancelled, CountTimedOut, Done, Pending, PendingLabels
  <2>2. Started' = Started /\ UNCHANGED <<arrivals, dispatched>>
    BY <1>5 DEF CountCancelled, CountTimedOut, Done, Started, dispatcherVars, ticketVars
  <2>3. completed' + cancelled' + timedOut' = completed + cancelled + timedOut + 1
    BY <1>1, <1>5 DEF CountCancelled, CountTimedOut, Done
  <2>4. Cardinality(Pending') = Cardinality(Pending) - 1
    BY <2>1, CountedFinite
  <2>5. completed' + cancelled' + timedOut' \in Nat
    BY <1>1, <2>3
  <2> QED
    BY <1>1, <1>2, <2>2, <2>3, <2>4, <2>5
<1>6. CASE DrainPops
  <2>1. Started' = Started \cup {Head(waiting)} /\ Head(waiting) \notin Started
    <3>1. Head(waiting) \in Requests /\ Head(waiting) = waiting[1] /\ 1 \in 1..Len(waiting)
      BY <1>6, HeadAndTail, EmptySequence DEF DrainPops, CanDispatch, IInv, TypeOK
    <3>2. Head(waiting) \notin Started
      BY <3>1 DEF IInv, LineDistinct
    <3>3. popped = NoRequest /\ popped' = Head(waiting) /\ dispatch' = dispatch
      BY <1>6 DEF DrainPops, IInv, HandoffHolds, ticketVars
    <3> QED
      BY <3>1, <3>2, <3>3, QueueAssumption DEF Started
  <2>2. Pending' = Pending /\ dispatched' = dispatched + 1
        /\ UNCHANGED <<arrivals, completed, cancelled, timedOut>>
    BY <1>6 DEF DrainPops, Pending
  <2>3. Cardinality(Started') = Cardinality(Started) + 1
    BY <2>1, CountedFinite
  <2> QED
    BY <1>1, <1>2, <2>2, <2>3
<1>7. ASSUME NEW r \in Requests,
             StayingStep(r) \/ removeWaiting(r), ~CountCancelled(r), ~CountTimedOut(r)
      PROVE  /\ arrivals' = completed' + cancelled' + timedOut' + Cardinality(Pending')
             /\ dispatched' = Cardinality(Started')
  <2>1. PICK label \in Labels : /\ pc' = [pc EXCEPT ![r] = label]
                                /\ pc[r] \in PendingLabels <=> label \in PendingLabels
    BY <1>7 DEF StayingStep, AdmitClosed, AdmitGateRefuses, AdmitFull, Refuse, Announce,
         SelectDispatched, SelectCancelled, SelectTimeout, removeWaiting, AfterDone,
         PendingLabels, Labels
  <2>2. Pending' = Pending
    BY <1>1, <2>1 DEF Pending
  <2>3. UNCHANGED <<arrivals, completed, cancelled, timedOut, dispatched, dispatch, popped>>
    BY <1>7 DEF StayingStep, AdmitClosed, AdmitGateRefuses, AdmitFull, Refuse, Announce,
         SelectDispatched, SelectCancelled, SelectTimeout, removeWaiting, AfterDone,
         counterVars, ticketVars, dispatcherVars
  <2> QED
    BY <1>2, <2>2, <2>3 DEF Started
<1>8. CASE QuietStep \/ Close \/ UNCHANGED vars
  <2>1. UNCHANGED <<arrivals, completed, cancelled, timedOut, dispatched, pc>>
    BY <1>8 DEF QuietStep, RunSignalled, RunTick, RunStop, DrainEnds, DrainHandsOff, Disconnect,
         Signal, CloseCancels, Close, counterVars, vars
  <2>2. Started' = Started
    <3>1. CASE DrainHandsOff
      BY <3>1 DEF DrainHandsOff, Started, IInv, HandoffHolds, TypeOK
    <3>2. CASE UNCHANGED <<dispatch, popped>>
      BY <3>2 DEF Started
    <3> QED
      BY <1>8, <3>1, <3>2 DEF QuietStep, RunSignalled, RunTick, RunStop, DrainEnds, Disconnect,
         Signal, CloseCancels, Close, ticketVars, dispatcherVars, vars
  <2> QED
    BY <1>2, <2>1, <2>2 DEF Pending
<1> QED
  BY <1>4, <1>5, <1>6, <1>7, <1>8
     DEF Next, Admit, Proceed, Dispatcher, StayingStep, QuietStep

(* Every arrival is counted once, as completed, cancelled or timed out, or *)
(* is pending; and dispatched counts the tickets popped (queue.go: Admit,  *)
(* drain, Done, WaitForDispatch).                                          *)
THEOREM TheCountersAddUp == Spec => []CountersAddUp
<1>1. Init => CountersAddUp
  BY InitCounters
<1>2. IInv /\ CountersAddUp /\ [Next]_vars => CountersAddUp'
  BY StepCounters
<1> QED
  BY <1>1, <1>2, Invariance, PTL DEF Spec

-----------------------------------------------------------------------------
(* The work accountant. *)

(* Where the handlers are, and what they hold. *)
WorkTypes ==
    /\ at \in [Handlers -> {"idle", "reserved", "active"}]
    /\ booked \in [Handlers -> [prefill : Nat, decode : Nat]]

(* The inductive invariant: WorkExact needs nothing but the types. *)
WorkInv == WorkTypes /\ WorkExact

(* The sum over S of v is that of w, and what x adds to it. *)
Grows(v, w, S, x) == SumFunctionOnSet(v, S \cup {x}) = SumFunctionOnSet(w, S) + v[x]

(* A handler that takes a booking adds it, one that gives it back          *)
(* subtracts it, whatever the bookings of the others are.                  *)
LEMMA Added ==
    ASSUME NEW S, IsFiniteSet(S), NEW x, x \notin S, NEW w, NEW v,
           \A y \in S : w[y] \in Nat /\ v[y] = w[y], v[x] \in Nat
    PROVE  Grows(v, w, S, x)
<1>1. SumFunctionOnSet(v, S) = SumFunctionOnSet(w, S)
  BY SumOfSame
<1>2. \A y \in S \cup {x} : v[y] \in Nat
  OBVIOUS
<1>3. /\ SumFunctionOnSet(v, S) \in Nat
      /\ SumFunctionOnSet(v, S \cup {x}) = v[x] + SumFunctionOnSet(v, S)
  BY <1>2, SumWithOneMore
<1>4. v[x] \in Nat
  OBVIOUS
<1> QED
  BY ONLY <1>1, <1>3, <1>4 DEF Grows

(* The sum over S of v is that of w, without what x adds to it. *)
Shrinks(v, w, S, x) ==
    SumFunctionOnSet(v, S \ {x}) = AtLeastZero(SumFunctionOnSet(w, S) - w[x])

LEMMA Removed ==
    ASSUME NEW S, IsFiniteSet(S), NEW x, x \in S, NEW w, NEW v,
           \A y \in S : w[y] \in Nat, \A y \in S \ {x} : v[y] = w[y]
    PROVE  Shrinks(v, w, S, x)
<1>1. PICK R : R = S \ {x}
  OBVIOUS
<1>2. IsFiniteSet(R) /\ \A y \in R : w[y] \in Nat /\ v[y] = w[y]
  BY <1>1, FS_Subset
<1>3. SumFunctionOnSet(v, R) = SumFunctionOnSet(w, R)
  BY <1>2, SumOfSame
<1>4. /\ SumFunctionOnSet(w, R) \in Nat
      /\ SumFunctionOnSet(w, S) = w[x] + SumFunctionOnSet(w, R)
  BY <1>1, SumWithout
<1>5. SumFunctionOnSet(w, R) = AtLeastZero(SumFunctionOnSet(w, S) - w[x])
  BY <1>4 DEF AtLeastZero
<1> QED
  BY <1>1, <1>3, <1>5 DEF Shrinks

(* There are finitely many handlers to sum over. *)
LEMMA HoldersOfWork ==
    ASSUME IsFiniteSet(Handlers)
    PROVE  IsFiniteSet(Holding) /\ IsFiniteSet(Running)
BY FS_Subset DEF Holding, Running

(* What a request books is a natural number: a prefix longer than the     *)
(* prompt leaves nothing to prefill, not less (work.go).                   *)
LEMMA Amounts ==
    ASSUME NEW h \in Handlers
    PROVE  UncachedPrefill(Shape[h]) \in Nat /\ expectedOutputTokens(Shape[h]) \in Nat
<1>1. PICK s \in [input : Nat, prefix : Nat, keyed : BOOLEAN, output : Nat] : s = Shape[h]
  BY WorkAssumption
<1>2. s.input \in Nat /\ s.prefix \in Nat /\ s.output \in Nat
  OBVIOUS
<1>3. UncachedPrefill(s) \in Nat
  BY <1>2 DEF UncachedPrefill
<1>4. expectedOutputTokens(s) \in Nat
  BY <1>2 DEF expectedOutputTokens
<1> QED
  BY <1>1, <1>3, <1>4

(* Initially nothing is booked. *)
LEMMA InitWork == WorkInit => WorkInv
<1> SUFFICES ASSUME WorkInit
             PROVE  WorkInv
  OBVIOUS
<1>1. WorkTypes
  BY DEF WorkInit, WorkTypes, Nothing
<1>2. Holding = {} /\ Running = {}
  BY DEF WorkInit, Holding, Running
<1>3. SumFunctionOnSet(Prefill, {}) = 0 /\ SumFunctionOnSet(Decode, {}) = 0
  BY SumOfNone
<1> QED
  BY <1>1, <1>2, <1>3 DEF WorkInit, WorkInv, WorkExact

(* Each of the three calls keeps the counters exact. *)
LEMMA ReserveWork ==
    ASSUME IsFiniteSet(Handlers), WorkInv, NEW h \in Handlers, ReserveTokens(h)
    PROVE  WorkInv'
<1>1. WorkTypes'
  BY Amounts DEF ReserveTokens, WorkInv, WorkTypes
<1>2. /\ h \notin Holding /\ Holding' = Holding \cup {h}
      /\ Running' = Running /\ h \notin Running
  BY DEF ReserveTokens, WorkInv, WorkTypes, Holding, Running
<1>3. \A y \in Handlers \ {h} : /\ Prefill[y] \in Nat /\ Prefill'[y] = Prefill[y]
                                /\ Decode[y] \in Nat /\ Decode'[y] = Decode[y]
  BY DEF ReserveTokens, WorkInv, WorkTypes, Prefill, Decode
<1>4. /\ Prefill'[h] \in Nat
      /\ reservedUncachedPrefill' = reservedUncachedPrefill + Prefill'[h]
      /\ Decode'[h] \in Nat
      /\ reservedDecode' = reservedDecode + Decode'[h]
  BY Amounts DEF ReserveTokens, WorkInv, WorkTypes, Prefill, Decode
<1>5. /\ IsFiniteSet(Holding) /\ IsFiniteSet(Running)
      /\ \A y \in Holding : y \in Handlers \ {h}
      /\ \A y \in Running : y \in Handlers \ {h}
  BY <1>2, HoldersOfWork DEF Holding, Running
<1>6. Grows(Prefill', Prefill, Holding, h) /\ Grows(Decode', Decode, Holding, h)
  <2>1. \A y \in Holding : /\ Prefill[y] \in Nat /\ Prefill'[y] = Prefill[y]
                           /\ Decode[y] \in Nat /\ Decode'[y] = Decode[y]
    BY <1>3, <1>5
  <2> QED
    BY <1>2, <1>4, <1>5, <2>1, Added
<1>7. /\ SumFunctionOnSet(Prefill', Running) = SumFunctionOnSet(Prefill, Running)
      /\ SumFunctionOnSet(Decode', Running) = SumFunctionOnSet(Decode, Running)
  BY <1>3, <1>5, SumOfSame
<1>8. WorkExact'
  BY <1>2, <1>4, <1>6, <1>7 DEF Grows, ReserveTokens, WorkInv, WorkExact
<1> QED
  BY <1>1, <1>8 DEF WorkInv

LEMMA ActivateWork ==
    ASSUME IsFiniteSet(Handlers), WorkInv, NEW h \in Handlers, Activate(h)
    PROVE  WorkInv'
<1>1. WorkTypes'
  BY DEF Activate, WorkInv, WorkTypes
<1>2. /\ Holding' = Holding
      /\ Running' = Running \cup {h} /\ h \notin Running
  BY DEF Activate, WorkInv, WorkTypes, Holding, Running
<1>3. Prefill' = Prefill /\ Decode' = Decode
  BY DEF Activate, Prefill, Decode
<1>4. \A y \in Handlers : Prefill[y] \in Nat /\ Decode[y] \in Nat
  BY DEF WorkInv, WorkTypes, Prefill, Decode
<1>5. /\ activeUncachedPrefill' = activeUncachedPrefill + Prefill[h]
      /\ activeDecode' = activeDecode + Decode[h]
  BY DEF Activate, Prefill, Decode
<1>6. IsFiniteSet(Running) /\ \A y \in Running : y \in Handlers
  BY HoldersOfWork DEF Running
<1>7. Grows(Prefill, Prefill, Running, h) /\ Grows(Decode, Decode, Running, h)
  BY <1>2, <1>4, <1>6, Added
<1>8. WorkExact'
  BY <1>2, <1>3, <1>5, <1>7 DEF Grows, Activate, WorkInv, WorkExact
<1> QED
  BY <1>1, <1>8 DEF WorkInv

LEMMA ReleaseWorkExact ==
    ASSUME IsFiniteSet(Handlers), WorkInv, NEW h \in Handlers, Release(h)
    PROVE  WorkInv'
<1>1. WorkTypes'
  BY DEF Release, WorkInv, WorkTypes, Nothing
<1>2. /\ h \in Holding /\ Holding' = Holding \ {h}
      /\ h \in Running /\ Running' = Running \ {h}
  BY DEF Release, WorkInv, WorkTypes, Holding, Running
<1>3. \A y \in Handlers : Prefill[y] \in Nat /\ Decode[y] \in Nat
  BY DEF WorkInv, WorkTypes, Prefill, Decode
<1>4. \A y \in Handlers \ {h} : Prefill'[y] = Prefill[y] /\ Decode'[y] = Decode[y]
  BY DEF Release, WorkInv, WorkTypes, Prefill, Decode
<1>5. /\ reservedUncachedPrefill' = AtLeastZero(reservedUncachedPrefill - Prefill[h])
      /\ reservedDecode' = AtLeastZero(reservedDecode - Decode[h])
      /\ activeUncachedPrefill' = AtLeastZero(activeUncachedPrefill - Prefill[h])
      /\ activeDecode' = AtLeastZero(activeDecode - Decode[h])
  BY DEF Release, Prefill, Decode
<1>6. /\ IsFiniteSet(Holding) /\ IsFiniteSet(Running)
      /\ \A y \in Holding : y \in Handlers
      /\ \A y \in Running : y \in Handlers
  BY HoldersOfWork DEF Holding, Running
<1>7. ASSUME NEW S, IsFiniteSet(S), h \in S, \A y \in S : y \in Handlers
      PROVE  Shrinks(Prefill', Prefill, S, h) /\ Shrinks(Decode', Decode, S, h)
  <2>1. \A y \in S \ {h} : Prefill'[y] = Prefill[y] /\ Decode'[y] = Decode[y]
    BY <1>4, <1>7
  <2> QED
    BY <1>3, <1>7, <2>1, Removed
<1>8. /\ Shrinks(Prefill', Prefill, Holding, h) /\ Shrinks(Decode', Decode, Holding, h)
      /\ Shrinks(Prefill', Prefill, Running, h) /\ Shrinks(Decode', Decode, Running, h)
  BY <1>2, <1>6, <1>7
<1>9. WorkExact'
  BY <1>2, <1>5, <1>8 DEF Shrinks, WorkInv, WorkExact
<1> QED
  BY <1>1, <1>9 DEF WorkInv

(* And so does every step that is not a call of the accountant. *)
LEMMA StaysWork ==
    ASSUME WorkInv, UNCHANGED workVars
    PROVE  WorkInv'
BY DEF WorkInv, WorkTypes, WorkExact, workVars, counters, Holding, Running, Prefill, Decode

(* The accountant by itself: its counters are the sums of the bookings at  *)
(* every interleaving of its calls (internal/dataplane/work.go).           *)
LEMMA WorkInvariance == WorkSpec => []WorkInv
<1>1. IsFiniteSet(Handlers)
  BY QueueAssumption, SidecarAssumption
<1>2. WorkInit => WorkInv
  BY InitWork
<1>3. WorkInv /\ [WorkNext]_workVars => WorkInv'
  BY <1>1, ReserveWork, ActivateWork, ReleaseWorkExact, StaysWork DEF WorkNext
<1> QED
  BY <1>2, <1>3, PTL DEF WorkSpec

-----------------------------------------------------------------------------
(* The sidecar. *)

GateSteps == {"none", "health", "device", "drain", "open"}

\* Where a gate is that has looked at a cause and not found it.
Past(c) == CASE c = "unhealthy" -> {"device", "drain", "open"}
             [] c = "offline"   -> {"drain", "open"}
             [] c = "draining"  -> {"open"}

\* q.mu is held by one handler at most.
OneInGate == \A r, s \in Requests : gateAt[r] # "none" /\ gateAt[s] # "none" => r = s

\* A request has slipped through only if the cause is in force, and then nobody
\* is past its check any more.
SlippedLast ==
    \A c \in Causes :
        \/ slipped[c] = 0
        \/ slipped[c] = 1 /\ c \in Refusing /\ \A r \in Requests : gateAt[r] \notin Past(c)

(* The inductive invariant. *)
GateInv ==
    /\ arrivals \in Nat
    /\ gateAt \in [Requests -> GateSteps]
    /\ OneInGate
    /\ SlippedLast

-----------------------------------------------------------------------------
(* What the causes in force are. *)
LEMMA RefusingMeans ==
  /\ "unhealthy" \in Refusing <=> ~runtimeHealthy
  /\ "offline" \in Refusing <=> Offline
  /\ "draining" \in Refusing <=> Draining
BY DEF Refusing, Causes

LEMMA PastMeans ==
  /\ Past("unhealthy") = {"device", "drain", "open"}
  /\ Past("offline") = {"drain", "open"}
  /\ Past("draining") = {"open"}
BY DEF Past

(* Outside the gate nothing is admitted and no gate moves. *)
LEMMA OutsideGate ==
  ASSUME \/ \E r \in Requests : HandlerStep(r) \/ DoneStep(r) \/ Book(r) \/ ReleaseWork(r)
         \/ DispatcherStep \/ CloseStep \/ Chance \/ Change \/ Publish
         \/ UNCHANGED allVars
  PROVE  arrivals' = arrivals /\ gateAt' = gateAt
<1> USE DEF vars, counterVars
<1>1. CASE \E r \in Requests : HandlerStep(r)
  BY <1>1
  DEF HandlerStep, Announce, SelectDispatched, SelectCancelled, AfterDone, AdmitClosed,
      removeWaiting, CountCancelled, CountTimedOut
<1>2. CASE \E r \in Requests : DoneStep(r)
  BY <1>2 DEF DoneStep, Done
<1>3. CASE \E r \in Requests : Book(r) \/ ReleaseWork(r)
  BY <1>3 DEF Book, ReleaseWork
<1>4. CASE DispatcherStep
  BY <1>4 DEF DispatcherStep, RunSignalled, DrainHandsOff, DrainEnds, DrainPops
<1>5. CASE CloseStep
  BY <1>5 DEF CloseStep, Close, CloseCancels
<1>6. CASE Chance
  BY <1>6 DEF Chance, RunTick, RunStop, Signal, SelectTimeout, Disconnect
<1>7. CASE Change \/ Publish
  BY <1>7 DEF Change, Publish
<1>8. CASE UNCHANGED allVars
  BY <1>8 DEF allVars, sidecarVars
<1> QED
  BY <1>1, <1>2, <1>3, <1>4, <1>5, <1>6, <1>7, <1>8

(* As long as nobody is admitted and nobody moves past a check whose cause *)
(* is in force, no request slips through.                                  *)
LEMMA NobodySlips ==
  ASSUME SlippedLast, arrivals \in Nat, arrivals' = arrivals, RecordSlips \/ UNCHANGED allVars,
         \A c \in Causes : c \in Refusing /\ (\A r \in Requests : gateAt[r] \notin Past(c))
                             => \A r \in Requests : gateAt'[r] \notin Past(c)
  PROVE  SlippedLast'
<1>1. CASE RecordSlips
  <2> SUFFICES ASSUME NEW c \in Causes, slipped'[c] # 0
               PROVE  /\ slipped'[c] = 1 /\ c \in Refusing'
                      /\ \A r \in Requests : gateAt'[r] \notin Past(c)
    BY DEF SlippedLast
  <2>1. ~Admits
    BY DEF Admits
  <2>2. c \in Refusing /\ c \in Refusing' /\ slipped'[c] = slipped[c] + 0
    BY <1>1, <2>1 DEF RecordSlips
  <2>3. slipped[c] # 0
    BY <2>2
  <2>4. slipped[c] = 1
    BY <2>3 DEF SlippedLast
  <2>5. slipped'[c] = 1
    BY ONLY <2>2, <2>4
  <2>6. \A r \in Requests : gateAt'[r] \notin Past(c)
    BY <2>2, <2>3 DEF SlippedLast
  <2> QED
    BY <2>2, <2>5, <2>6
<1>2. CASE UNCHANGED allVars
  <2>1. slipped' = slipped /\ gateAt' = gateAt /\ Refusing' = Refusing
    BY <1>2 DEF allVars, sidecarVars, statusVars, Refusing, Offline, Draining
  <2> QED
    BY <2>1 DEF SlippedLast
<1> QED
  BY <1>1, <1>2

(* The gate itself (cmd/sidecar/main.go:160-178, called by Admit). *)
LEMMA GateStepInv ==
  ASSUME GateInv, NEW r \in Requests, Gate(r), RecordSlips, UNCHANGED deviceKnown
  PROVE  GateInv'
<1>1. UNCHANGED <<statusVars, runtimeHealthy>>
  BY DEF Gate, QueueOnly
<1>2. Refusing' = Refusing
  BY <1>1 DEF Refusing, Offline, Draining, statusVars
<1>3. PICK step \in GateSteps : gateAt' = [gateAt EXCEPT ![r] = step]
  BY DEF Gate, GateEnter, GateHealth, GateDevice, GateDrain, GateOpen, GateTo, GateSteps
<1>4. gateAt' \in [Requests -> GateSteps]
  BY <1>3 DEF GateInv
<1>5. OneInGate'
  <2>1. \A s \in Requests : s # r => gateAt[s] = "none"
    <3>1. CASE GateEnter(r)
      BY <3>1 DEF GateEnter, LockFree
    <3>2. CASE ~GateEnter(r)
      <4>1. gateAt[r] # "none"
        BY <3>2 DEF Gate, GateHealth, GateDevice, GateDrain, GateOpen
      <4> QED
        BY <4>1 DEF GateInv, OneInGate
    <3> QED
      BY <3>1, <3>2
  <2> QED
    BY <1>3, <2>1 DEF GateInv, OneInGate
<1>6. CASE GateOpen(r) /\ AdmitQueued(r)
  <2>1. gateAt[r] = "open" /\ gateAt' = [gateAt EXCEPT ![r] = "none"] /\ arrivals' = arrivals + 1
    BY <1>6 DEF GateOpen, GateTo, AdmitQueued
  <2>2. arrivals' \in Nat /\ Admits
    BY <2>1 DEF GateInv, Admits
  <2>3. \A s \in Requests : gateAt'[s] = "none"
    BY <2>1 DEF GateInv, OneInGate
  <2>4. \A c \in Causes : "open" \in Past(c) /\ "none" \notin Past(c)
    BY PastMeans DEF Causes
  <2>5. \A c \in Causes : slipped[c] = 0
    BY <2>1, <2>4 DEF GateInv, SlippedLast
  <2>6. ASSUME NEW c \in Causes
        PROVE  /\ c \in Refusing => slipped'[c] = slipped[c] + 1
               /\ c \notin Refusing => slipped'[c] = 0
    BY <1>2, <2>2 DEF RecordSlips
  <2>7. ASSUME NEW c \in Causes
        PROVE  slipped'[c] = 0 \/ (slipped'[c] = 1 /\ c \in Refusing)
    <3>1. slipped[c] = 0
      BY <2>5
    <3>2. slipped[c] + 1 = 1
      BY ONLY <3>1
    <3> QED BY <2>6, <3>2
  <2>8. SlippedLast'
    BY <1>2, <2>3, <2>4, <2>7 DEF SlippedLast
  <2> QED
    BY <1>4, <1>5, <2>2, <2>8 DEF GateInv
<1>7. CASE ~(GateOpen(r) /\ AdmitQueued(r))
  <2>1. arrivals' = arrivals
    BY <1>7
    DEF Gate, GateEnter, GateHealth, GateDevice, GateDrain, GateOpen, AdmitGateRefuses,
        AdmitFull, Refuse, vars, counterVars
  <2>2. ASSUME NEW c \in Causes, c \in Refusing, \A s \in Requests : gateAt[s] \notin Past(c)
        PROVE  \A s \in Requests : gateAt'[s] \notin Past(c)
    <3>1. gateAt[r] \notin Past(c)
      BY <2>2
    <3>2. step \notin Past(c)
      <4> USE <1>3, <2>2, <3>1, RefusingMeans, PastMeans DEF GateInv, GateSteps, GateTo, Causes
      <4>1. CASE GateEnter(r)
        BY <4>1 DEF GateEnter
      <4>2. CASE GateHealth(r)
        BY <4>2 DEF GateHealth
      <4>3. CASE GateDevice(r)
        BY <4>3 DEF GateDevice
      <4>4. CASE GateDrain(r)
        BY <4>4 DEF GateDrain
      <4>5. CASE GateOpen(r)
        BY <4>5 DEF GateOpen
      <4> QED
        BY <4>1, <4>2, <4>3, <4>4, <4>5 DEF Gate
    <3> QED
      BY <1>3, <2>2, <3>2 DEF GateInv
  <2>3. SlippedLast'
    BY <2>1, <2>2, NobodySlips DEF GateInv
  <2> QED
    BY <1>4, <1>5, <2>1, <2>3 DEF GateInv
<1> QED
  BY <1>6, <1>7

LEMMA SidecarStepInv ==
  ASSUME GateInv, [SidecarNext]_allVars
  PROVE  GateInv'
<1>1. CASE (\E r \in Requests : Gate(r)) /\ RecordSlips /\ UNCHANGED deviceKnown
  BY <1>1, GateStepInv
<1>2. CASE /\ \/ \E r \in Requests : HandlerStep(r) \/ DoneStep(r) \/ Book(r) \/ ReleaseWork(r)
              \/ DispatcherStep \/ CloseStep \/ Chance \/ Change \/ Publish
              \/ UNCHANGED allVars
           /\ RecordSlips \/ UNCHANGED allVars
  <2>1. arrivals' = arrivals /\ gateAt' = gateAt
    BY <1>2, OutsideGate
  <2>2. SlippedLast'
    BY <1>2, <2>1, NobodySlips DEF GateInv
  <2> QED
    BY <2>1, <2>2 DEF GateInv, OneInGate
<1> QED
  BY <1>1, <1>2 DEF SidecarNext

-----------------------------------------------------------------------------
(* However health, status and drain flag change under a gate, at most one  *)
(* request slips through after a cause to refuse has come into force       *)
(* (cmd/sidecar/main.go:160-178, queue.go:147-158).                        *)
THEOREM GateClosesAtOnce == SidecarSpec => []AtMostOneSlips
<1>1. SidecarInit => GateInv
  BY DEF SidecarInit, Init, GateInv, GateSteps, OneInGate, SlippedLast
<1>2. GateInv /\ [SidecarNext]_allVars => GateInv'
  BY SidecarStepInv
<1>3. GateInv => AtMostOneSlips
  BY DEF GateInv, SlippedLast, AtMostOneSlips
<1> QED
  BY <1>1, <1>2, <1>3, PTL DEF SidecarSpec

(* Put together with its gate and the work accountant, the queue is still  *)
(* a bounded FIFO slot limiter: everything proved of AdmissionQueue holds  *)
(* of the queue inside the sidecar.                                        *)
THEOREM SidecarImplementsQueue == SidecarSpec => ImplementsSlotLimiter
<1>1. SidecarInit => Init
  BY DEF SidecarInit
<1>2. [SidecarNext]_allVars => [Next]_vars
  <2> SUFFICES ASSUME SidecarNext
               PROVE  [Next]_vars
    BY DEF allVars
  <2> USE DEF Next, Admit, Proceed, Dispatcher
  <2>1. CASE \E r \in Requests : Gate(r)
    BY <2>1 DEF Gate, GateEnter, GateHealth, GateDevice, GateDrain, GateOpen
  <2>2. CASE \E r \in Requests : HandlerStep(r)
    BY <2>2 DEF HandlerStep
  <2>3. CASE \E r \in Requests : DoneStep(r) \/ Book(r) \/ ReleaseWork(r)
    BY <2>3 DEF DoneStep, Book, ReleaseWork
  <2>4. CASE DispatcherStep \/ CloseStep \/ Chance
    BY <2>4 DEF DispatcherStep, CloseStep, Chance
  <2>5. CASE Change \/ Publish
    BY <2>5 DEF Change, Publish
  <2> QED
    BY <2>1, <2>2, <2>3, <2>4, <2>5 DEF SidecarNext
<1>3. SidecarSpec => Spec
  BY <1>1, <1>2, PTL DEF SidecarSpec, Spec
<1> QED
  BY <1>3, Refinement

(* Whatever the queue, the gate and the clients do in between, the work    *)
(* that the sidecar reports is what its handlers hold, to the token: no    *)
(* release is cut off at zero (internal/dataplane/work.go, proxy.go).      *)
THEOREM TheWorkIsExact == SidecarSpec => []WorkExact
<1>1. SidecarInit => WorkInit
  BY DEF SidecarInit
<1>2. [SidecarNext]_allVars => [WorkNext]_workVars
  <2> SUFFICES ASSUME SidecarNext
               PROVE  [WorkNext]_workVars
    BY DEF allVars
  <2>1. CASE \E r \in Requests : Book(r) \/ ReleaseWork(r)
    BY <2>1, SidecarAssumption DEF Book, ReleaseWork, WorkNext
  <2>2. CASE \/ \E r \in Requests : Gate(r) \/ HandlerStep(r) \/ DoneStep(r)
             \/ DispatcherStep \/ CloseStep \/ Chance \/ Change \/ Publish
    BY <2>2 DEF Gate, HandlerStep, DoneStep, DispatcherStep, CloseStep, Chance,
                Change, Publish, QueueOnly
  <2> QED
    BY <2>1, <2>2 DEF SidecarNext
<1>3. SidecarSpec => WorkSpec
  BY <1>1, <1>2, PTL DEF SidecarSpec, WorkSpec
<1>4. WorkInv => WorkExact
  BY DEF WorkInv
<1> QED
  BY <1>3, <1>4, WorkInvariance, PTL
=============================================================================
