------------------------- MODULE DeviceHistoryProofs -------------------------
(***************************************************************************)
(* What the sidecar remembers of a device is what happened, for every      *)
(* capacity of the rings, every length of the window and every number of   *)
(* polls: the rings hold the latest items, the availability counts the     *)
(* probes of the window, starts and stops of workers balance, and the log  *)
(* of disappearances is exact.                                             *)
(***************************************************************************)
EXTENDS DeviceHistory, FiniteSetTheorems, TLAPS

-----------------------------------------------------------------------------
(* Sequences. *)

LEMMA EmptySequence ==
    ASSUME NEW T
    PROVE  /\ <<>> \in Seq(T) /\ Len(<<>>) = 0
           /\ \A q \in Seq(T) : q # <<>> => Len(q) \in Nat \ {0}
OBVIOUS

LEMMA Appended ==
    ASSUME NEW T, NEW q \in Seq(T), NEW v \in T
    PROVE  /\ Append(q, v) \in Seq(T) /\ Append(q, v) # <<>>
           /\ Len(Append(q, v)) = Len(q) + 1
           /\ \A j \in 1..Len(q) : Append(q, v)[j] = q[j]
           /\ Append(q, v)[Len(q) + 1] = v
OBVIOUS

LEMMA SubSequence ==
    ASSUME NEW T, NEW q, NEW a \in Int, NEW b \in Int, \A j \in a..b : q[j] \in T
    PROVE  /\ SubSeq(q, a, b) \in Seq(T)
           /\ Len(SubSeq(q, a, b)) = IF a <= b THEN b - a + 1 ELSE 0
           /\ \A j \in 1..(b - a + 1) : SubSeq(q, a, b)[j] = q[a + j - 1]
OBVIOUS

LEMMA WholeSequence ==
    ASSUME NEW T, NEW q \in Seq(T)
    PROVE  SubSeq(q, 1, Len(q)) = q
OBVIOUS

LEMMA SameItems ==
    ASSUME NEW T, NEW p \in Seq(T), NEW q \in Seq(T), Len(p) = Len(q),
           \A j \in 1..Len(p) : p[j] = q[j]
    PROVE  p = q
OBVIOUS

LEMMA Overwritten ==
    ASSUME NEW T, NEW q \in Seq(T), NEW a \in 1..Len(q), NEW v \in T
    PROVE  /\ [q EXCEPT ![a] = v] \in Seq(T) /\ Len([q EXCEPT ![a] = v]) = Len(q)
           /\ \A j \in 1..Len(q) : [q EXCEPT ![a] = v][j] = IF j = a THEN v ELSE q[j]
OBVIOUS

-----------------------------------------------------------------------------
(* Numbers. *)

LEMMA LeastNat ==
    ASSUME NEW T \in SUBSET Nat, T # {}
    PROVE  \E x \in T : \A y \in T : x <= y
<1> DEFINE R == {ss \in Nat \X Nat : ss[1] < ss[2]}
<1>1. PICK x \in T : \A y \in T : ~(<<y, x>> \in R)
  <2>1. IsWellFoundedOn(R, Nat)
    BY NatLessThanWellFounded DEF OpToRel
  <2> HIDE DEF R
  <2> QED BY <2>1, WFMin
<1>2. ASSUME NEW y \in T PROVE x <= y
  <2>1. ~(y < x)
    BY <1>1
  <2> QED BY <2>1
<1> QED BY <1>2

LEMMA MinIs ==
    ASSUME NEW T \in SUBSET Int, NEW a \in T, \A y \in T : a <= y
    PROVE  Min(T) = a
<1>1. \A x \in T : (\A y \in T : x <= y) => x = a
  OBVIOUS
<1> QED BY <1>1 DEF Min

LEMMA ModSmall ==
    ASSUME NEW c \in Nat \ {0}, NEW x \in Nat, x < 2 * c
    PROVE  x % c = IF x < c THEN x ELSE x - c
OBVIOUS

-----------------------------------------------------------------------------
(* Suffixes of sequences: what the rings and the logs keep. *)
Suffix(s, m) == SubSeq(s, m + 1, Len(s))

LEMMA SuffixItems ==
    ASSUME NEW S, NEW s \in Seq(S), NEW m \in 0..Len(s)
    PROVE  /\ Suffix(s, m) \in Seq(S)
           /\ Len(Suffix(s, m)) = Len(s) - m
           /\ \A i \in 1..(Len(s) - m) : Suffix(s, m)[i] = s[m + i]
<1>1. Len(s) \in Nat /\ m + 1 \in Int /\ m \in Nat /\ m <= Len(s)
  OBVIOUS
<1>2. \A i \in (m + 1)..Len(s) : s[i] \in S
  OBVIOUS
<1>3. /\ SubSeq(s, m + 1, Len(s)) \in Seq(S)
      /\ Len(SubSeq(s, m + 1, Len(s))) = IF m + 1 <= Len(s) THEN Len(s) - (m + 1) + 1 ELSE 0
      /\ \A i \in 1..(Len(s) - (m + 1) + 1) :
            SubSeq(s, m + 1, Len(s))[i] = s[(m + 1) + i - 1]
  BY <1>1, <1>2, SubSequence
<1>4. Len(Suffix(s, m)) = Len(s) - m
  BY <1>1, <1>3 DEF Suffix
<1>5. ASSUME NEW i \in 1..(Len(s) - m) PROVE Suffix(s, m)[i] = s[m + i]
  <2>1. i \in 1..(Len(s) - (m + 1) + 1) /\ (m + 1) + i - 1 = m + i
    BY <1>1
  <2> QED BY <1>3, <2>1 DEF Suffix
<1> QED BY <1>3, <1>4, <1>5 DEF Suffix

LEMMA SuffixOfSuffix ==
    ASSUME NEW S, NEW s \in Seq(S), NEW m \in 0..Len(s), NEW k \in 0..(Len(s) - m)
    PROVE  Suffix(Suffix(s, m), k) = Suffix(s, m + k)
<1> DEFINE t == Suffix(s, m)
           u == Suffix(t, k)
           v == Suffix(s, m + k)
<1>1. Len(s) \in Nat /\ m \in Nat /\ k \in Nat /\ m + k \in 0..Len(s)
  OBVIOUS
<1>2. t \in Seq(S) /\ Len(t) = Len(s) - m /\ \A i \in 1..(Len(s) - m) : t[i] = s[m + i]
  BY SuffixItems
<1> HIDE DEF t
<1>3. k \in 0..Len(t)
  BY <1>2
<1>4. u \in Seq(S) /\ Len(u) = Len(t) - k /\ \A i \in 1..(Len(t) - k) : u[i] = t[k + i]
  <2>1. t \in Seq(S)
    BY <1>2
  <2> QED BY <1>3, <2>1, SuffixItems
<1>5. /\ v \in Seq(S) /\ Len(v) = Len(s) - (m + k)
      /\ \A i \in 1..(Len(s) - (m + k)) : v[i] = s[(m + k) + i]
  BY <1>1, SuffixItems
<1> HIDE DEF u, v
<1>6. Len(u) = Len(v)
  BY <1>1, <1>2, <1>4, <1>5
<1>7. ASSUME NEW i \in 1..Len(u) PROVE u[i] = v[i]
  <2>1. /\ i \in 1..(Len(t) - k) /\ k + i \in 1..(Len(s) - m)
        /\ i \in 1..(Len(s) - (m + k)) /\ m + (k + i) = (m + k) + i
    BY <1>1, <1>2, <1>4
  <2> QED BY <1>2, <1>4, <1>5, <2>1
<1>8. u = v
  BY <1>4, <1>5, <1>6, <1>7, SameItems
<1> QED BY <1>8 DEF t, u, v

LEMMA AppendToSuffix ==
    ASSUME NEW S, NEW s \in Seq(S), NEW m \in 0..Len(s), NEW e \in S
    PROVE  Append(Suffix(s, m), e) = Suffix(Append(s, e), m)
<1> DEFINE t == Suffix(s, m)
           u == Append(t, e)
           a == Append(s, e)
           v == Suffix(a, m)
<1>1. Len(s) \in Nat /\ m \in Nat /\ m <= Len(s)
  OBVIOUS
<1>2. t \in Seq(S) /\ Len(t) = Len(s) - m /\ \A i \in 1..(Len(s) - m) : t[i] = s[m + i]
  BY SuffixItems
<1>3. /\ a \in Seq(S) /\ Len(a) = Len(s) + 1
      /\ \A i \in 1..Len(s) : a[i] = s[i]
      /\ a[Len(s) + 1] = e
  BY Appended
<1> HIDE DEF t, a
<1>4. /\ u \in Seq(S) /\ Len(u) = Len(t) + 1
      /\ \A i \in 1..Len(t) : u[i] = t[i]
      /\ u[Len(t) + 1] = e
  BY <1>2, Appended
<1>5. v \in Seq(S) /\ Len(v) = Len(a) - m /\ \A i \in 1..(Len(a) - m) : v[i] = a[m + i]
  <2>1. m \in 0..Len(a)
    BY <1>1, <1>3
  <2> QED BY <1>3, <2>1, SuffixItems
<1> HIDE DEF u, v
<1>6. Len(u) = Len(v)
  BY <1>1, <1>2, <1>3, <1>4, <1>5
<1>7. ASSUME NEW i \in 1..Len(u) PROVE u[i] = v[i]
  <2>1. i \in 1..(Len(a) - m)
    BY <1>1, <1>2, <1>3, <1>4
  <2>2. CASE i <= Len(t)
    <3>1. i \in 1..Len(t) /\ i \in 1..(Len(s) - m) /\ m + i \in 1..Len(s)
      BY <1>1, <1>2, <2>2
    <3> QED BY <1>2, <1>3, <1>4, <1>5, <2>1, <3>1
  <2>3. CASE ~(i <= Len(t))
    <3>1. i = Len(t) + 1 /\ m + i = Len(s) + 1
      BY <1>1, <1>2, <1>4, <2>3
    <3> QED BY <1>3, <1>4, <1>5, <2>1, <3>1
  <2> QED BY <2>2, <2>3
<1>8. u = v
  BY <1>4, <1>5, <1>6, <1>7, SameItems
<1> QED BY <1>8 DEF t, u, v, a

LEMMA LastOfIsSuffix ==
    ASSUME NEW S, NEW s \in Seq(S), NEW n \in Nat
    PROVE  LastOf(s, n) = Suffix(s, IF Len(s) <= n THEN 0 ELSE Len(s) - n)
<1>1. CASE Len(s) <= n
  <2>1. SubSeq(s, 1, Len(s)) = s
    BY WholeSequence
  <2>2. Suffix(s, 0) = s
    BY <2>1 DEF Suffix
  <2> QED BY <1>1, <2>2 DEF LastOf
<1>2. CASE ~(Len(s) <= n)
  BY <1>2 DEF LastOf, Suffix
<1> QED BY <1>1, <1>2

-----------------------------------------------------------------------------
(* pruneTimes, on a log whose entries are in the order of time.            *)

Sorted(s) == \A i, j \in 1..Len(s) : i <= j => s[i] <= s[j]

\* The first k entries are older than x, the others are not.
Cut(s, x, k) ==
    /\ k \in 0..Len(s)
    /\ \A i \in 1..k : s[i] < x
    /\ \A i \in (k + 1)..Len(s) : s[i] >= x

\* How many of n entries are dropped when k of them are too old.
Dropped(n, k) == IF n - k > EventCap THEN n - EventCap ELSE k

LEMMA DroppedAgain ==
    ASSUME NEW n \in Nat, NEW k \in 0..n, NEW l \in k..n, NEW m, m = Dropped(n, k),
           NEW c, c = IF l <= m THEN 0 ELSE l - m
    PROVE  Dropped(n - m, c) = c /\ m + c = Dropped(n, l)
<1>1. EventCap \in Nat \ {0}
  BY HistoryAssumption
<1>2. CASE n - k > EventCap
  <2>1. m = n - EventCap
    BY <1>2 DEF Dropped
  <2>2. CASE l <= m
    BY <1>1, <2>1, <2>2 DEF Dropped
  <2>3. CASE ~(l <= m)
    BY <1>1, <2>1, <2>3 DEF Dropped
  <2> QED BY <2>2, <2>3
<1>3. CASE ~(n - k > EventCap)
  <2>1. m = k
    BY <1>3 DEF Dropped
  <2> QED BY <1>1, <1>3, <2>1 DEF Dropped
<1> QED BY <1>2, <1>3

LEMMA DroppedNext ==
    ASSUME NEW n \in Nat, NEW l \in 0..n, NEW m, m = Dropped(n, l)
    PROVE  /\ Dropped(n + 1 - m, 0) \in 0..(n + 1 - m)
           /\ m + Dropped(n + 1 - m, 0) = Dropped(n + 1, l)
<1>1. EventCap \in Nat \ {0}
  BY HistoryAssumption
<1>2. CASE n - l > EventCap
  <2>1. m = n - EventCap
    BY <1>2 DEF Dropped
  <2> QED BY <1>1, <1>2, <2>1 DEF Dropped
<1>3. CASE ~(n - l > EventCap)
  <2>1. m = l
    BY <1>3 DEF Dropped
  <2> QED BY <1>1, <1>3, <2>1 DEF Dropped
<1> QED BY <1>2, <1>3

LEMMA CutExists ==
    ASSUME NEW s \in Seq(Int), Sorted(s), NEW x \in Int
    PROVE  \E k \in 0..Len(s) : Cut(s, x, k)
<1> DEFINE T == {i \in 1..Len(s) : s[i] >= x} \cup {Len(s) + 1}
<1>1. Len(s) \in Nat
  OBVIOUS
<1>2. T \in SUBSET Nat /\ T # {}
  BY <1>1
<1>3. PICK f \in T : \A y \in T : f <= y
  <2> HIDE DEF T
  <2> QED BY <1>2, LeastNat
<1>4. f \in 1..(Len(s) + 1)
  BY <1>1
<1>5. \A i \in 1..(f - 1) : s[i] < x
  <2> SUFFICES ASSUME NEW i \in 1..(f - 1) PROVE s[i] < x
    OBVIOUS
  <2>1. i \in 1..Len(s) /\ ~(f <= i)
    BY <1>1, <1>4
  <2>2. i \notin T
    BY <1>3, <2>1
  <2>3. s[i] \in Int
    BY <2>1
  <2> QED BY <2>1, <2>2, <2>3
<1>6. \A i \in f..Len(s) : s[i] >= x
  <2> SUFFICES ASSUME NEW i \in f..Len(s) PROVE s[i] >= x
    OBVIOUS
  <2>1. i \in 1..Len(s) /\ f \in 1..Len(s) /\ f <= i
    BY <1>1, <1>4
  <2>2. s[f] >= x /\ s[f] <= s[i]
    BY <1>1, <2>1 DEF Sorted
  <2>3. s[f] \in Int /\ s[i] \in Int
    BY <2>1
  <2> QED BY <2>2, <2>3
<1>7. f - 1 \in 0..Len(s) /\ (f - 1) + 1 = f
  BY <1>1, <1>4
<1>8. Cut(s, x, f - 1)
  BY <1>5, <1>6, <1>7 DEF Cut
<1> QED BY <1>7, <1>8

LEMMA SinceCut ==
    ASSUME NEW s \in Seq(Int), NEW x \in Int, NEW k, Cut(s, x, k)
    PROVE  since(s, x) = Suffix(s, k)
<1> DEFINE T == {i \in 1..Len(s) : s[i] >= x} \cup {Len(s) + 1}
<1>1. Len(s) \in Nat /\ k \in 0..Len(s)
  BY DEF Cut
<1>2. T \in SUBSET Int
  BY <1>1
<1>3. k + 1 \in T
  <2>1. CASE k = Len(s)
    BY <2>1
  <2>2. CASE k # Len(s)
    <3>1. k + 1 \in 1..Len(s) /\ k + 1 \in (k + 1)..Len(s)
      BY <1>1, <2>2
    <3> QED BY <3>1 DEF Cut
  <2> QED BY <2>1, <2>2
<1>4. ASSUME NEW y \in T PROVE k + 1 <= y
  <2>1. CASE y = Len(s) + 1
    BY <1>1, <2>1
  <2>2. CASE y \in 1..Len(s) /\ s[y] >= x
    <3>1. ~(s[y] < x)
      BY <2>2
    <3>2. y \notin 1..k
      BY <3>1 DEF Cut
    <3> QED BY <1>1, <2>2, <3>2
  <2> QED BY <2>1, <2>2
<1>5. Min(T) = k + 1
  <2> HIDE DEF T
  <2> QED BY <1>2, <1>3, <1>4, MinIs
<1> QED BY <1>5 DEF since, Suffix

LEMMA PruneCut ==
    ASSUME NEW s \in Seq(Int), NEW now \in Int, NEW k, Cut(s, now - WindowSec, k)
    PROVE  pruneTimes(s, now) = Suffix(s, Dropped(Len(s), k))
<1> DEFINE recent == Suffix(s, k)
<1>1. Len(s) \in Nat /\ k \in 0..Len(s) /\ now - WindowSec \in Int /\ EventCap \in Nat
  BY HistoryAssumption DEF Cut
<1>2. since(s, now - WindowSec) = recent
  BY <1>1, SinceCut
<1>3. Len(recent) = Len(s) - k
  BY <1>1, SuffixItems
<1>4. pruneTimes(s, now) = IF Len(recent) > EventCap
                           THEN Suffix(recent, Len(recent) - EventCap) ELSE recent
  BY <1>2 DEF pruneTimes, Suffix
<1> HIDE DEF recent
<1>5. CASE Len(s) - k > EventCap
  <2>1. /\ Len(recent) - EventCap \in 0..(Len(s) - k)
        /\ k + (Len(recent) - EventCap) = Len(s) - EventCap
    BY <1>1, <1>3, <1>5
  <2>2. Suffix(recent, Len(recent) - EventCap) = Suffix(s, k + (Len(recent) - EventCap))
    BY <1>1, <2>1, SuffixOfSuffix DEF recent
  <2> QED BY <1>3, <1>4, <1>5, <2>1, <2>2 DEF Dropped
<1>6. CASE ~(Len(s) - k > EventCap)
  BY <1>3, <1>4, <1>6 DEF Dropped, recent
<1> QED BY <1>5, <1>6

(* Pruning again, later: the same as pruning everything then. *)
LEMMA PruneAgain ==
    ASSUME NEW g \in Seq(Int), NEW x \in Int, NEW now \in Int, x <= now - WindowSec,
           NEW k, Cut(g, x, k), NEW l, Cut(g, now - WindowSec, l)
    PROVE  pruneTimes(Suffix(g, Dropped(Len(g), k)), now) = Suffix(g, Dropped(Len(g), l))
<1> DEFINE n == Len(g)
           m == Dropped(n, k)
           d == Suffix(g, m)
           c == IF l <= m THEN 0 ELSE l - m
           cut == now - WindowSec
<1>1. /\ n \in Nat /\ k \in 0..n /\ l \in 0..n /\ EventCap \in Nat \ {0} /\ cut \in Int
      /\ x <= cut
  BY HistoryAssumption DEF Cut
<1>2. k <= l
  <2> SUFFICES ASSUME ~(k <= l) PROVE FALSE
    OBVIOUS
  <2>1. l + 1 \in 1..k /\ l + 1 \in (l + 1)..n /\ l + 1 \in 1..n
    BY <1>1
  <2>2. g[l + 1] < x /\ g[l + 1] >= cut /\ g[l + 1] \in Int
    BY <2>1 DEF Cut
  <2> QED BY <1>1, <2>2
<1>3. m \in 0..n /\ n - m <= EventCap
  BY <1>1 DEF Dropped
<1>4. d \in Seq(Int) /\ Len(d) = n - m /\ \A i \in 1..(n - m) : d[i] = g[m + i]
  BY <1>3, SuffixItems
<1>5. c \in 0..(n - m)
  BY <1>1, <1>3
<1>6. Dropped(n - m, c) = c /\ m + c = Dropped(n, l)
  <2>1. l \in k..n
    BY <1>1, <1>2
  <2> QED BY <1>1, <2>1, DroppedAgain
<1> HIDE DEF n, m, d, cut
<1>7. ASSUME NEW i \in 1..c PROVE d[i] < cut
  <2>1. m + i \in 1..l /\ i \in 1..(n - m)
    BY <1>1, <1>3, <1>5, <1>7
  <2>2. g[m + i] < cut
    BY <2>1 DEF Cut, cut
  <2> QED BY <1>4, <2>1, <2>2
<1>8. ASSUME NEW i \in (c + 1)..(n - m) PROVE d[i] >= cut
  <2>1. m + i \in (l + 1)..n /\ i \in 1..(n - m)
    BY <1>1, <1>3, <1>5, <1>8
  <2>2. g[m + i] >= cut
    BY <2>1 DEF Cut, cut, n
  <2> QED BY <1>4, <2>1, <2>2
<1>9. Cut(d, cut, c)
  BY <1>4, <1>5, <1>7, <1>8 DEF Cut
<1> HIDE DEF c
<1>10. pruneTimes(d, now) = Suffix(d, Dropped(Len(d), c))
  BY <1>4, <1>9, PruneCut DEF cut
<1>11. Suffix(d, c) = Suffix(g, m + c)
  BY <1>3, <1>5, SuffixOfSuffix DEF d, n
<1> QED BY <1>4, <1>6, <1>10, <1>11 DEF d, m, n

(* Recording an entry and pruning. *)
LEMMA PruneAppended ==
    ASSUME NEW g \in Seq(Int), NEW now \in Int, NEW l, Cut(g, now - WindowSec, l)
    PROVE  /\ Cut(Append(g, now), now - WindowSec, l)
           /\ pruneTimes(Append(Suffix(g, Dropped(Len(g), l)), now), now)
                = Suffix(Append(g, now), Dropped(Len(g) + 1, l))
<1> DEFINE n == Len(g)
           m == Dropped(n, l)
           a == Append(g, now)
           d == Suffix(a, m)
           cut == now - WindowSec
<1>1. n \in Nat /\ l \in 0..n /\ EventCap \in Nat \ {0} /\ cut \in Int /\ cut <= now
  BY HistoryAssumption DEF Cut
<1>2. /\ a \in Seq(Int) /\ Len(a) = n + 1
      /\ \A i \in 1..n : a[i] = g[i]
      /\ a[n + 1] = now
  BY Appended
<1>3. m \in 0..n /\ l <= m
  BY <1>1 DEF Dropped
<1>4. Append(Suffix(g, m), now) = d
  BY <1>3, AppendToSuffix
<1>5. Dropped(n + 1 - m, 0) \in 0..(n + 1 - m) /\ m + Dropped(n + 1 - m, 0) = Dropped(n + 1, l)
  BY <1>1, DroppedNext
<1> HIDE DEF a
<1>6. d \in Seq(Int) /\ Len(d) = n + 1 - m /\ \A i \in 1..(n + 1 - m) : d[i] = a[m + i]
  <2>1. m \in 0..Len(a)
    BY <1>1, <1>2, <1>3
  <2>2. a \in Seq(Int)
    BY <1>2
  <2> HIDE DEF n, m
  <2>3. /\ d \in Seq(Int) /\ Len(d) = Len(a) - m
        /\ \A i \in 1..(Len(a) - m) : d[i] = a[m + i]
    BY <2>1, <2>2, SuffixItems
  <2> HIDE DEF d
  <2>4. Len(a) = n + 1
    BY <1>2
  <2> QED BY <1>1, <1>3, <2>3, <2>4
<1> HIDE DEF n, m, d, cut
<1>7. ASSUME NEW i \in (l + 1)..(n + 1) PROVE a[i] >= cut
  <2>1. CASE i = n + 1
    BY <1>1, <1>2, <2>1
  <2>2. CASE i # n + 1
    <3>1. i \in (l + 1)..n /\ i \in 1..n
      BY <1>1, <2>2
    <3> QED BY <1>2, <3>1 DEF Cut, cut, n
  <2> QED BY <2>1, <2>2
<1>8. Cut(a, cut, l)
  <2>1. ASSUME NEW i \in 1..l PROVE a[i] < cut
    <3>1. i \in 1..n
      BY <1>1
    <3> QED BY <1>2, <3>1 DEF Cut, cut
  <2> QED BY <1>1, <1>2, <1>7, <2>1 DEF Cut
<1>9. Cut(d, cut, 0)
  <2>1. ASSUME NEW i \in 1..(n + 1 - m) PROVE d[i] >= cut
    <3>1. m + i \in (l + 1)..(n + 1)
      BY <1>1, <1>3
    <3> QED BY <1>6, <1>7, <3>1
  <2> QED BY <1>1, <1>3, <1>6, <2>1 DEF Cut
<1>10. pruneTimes(d, now) = Suffix(d, Dropped(Len(d), 0))
  BY <1>6, <1>9, PruneCut DEF cut
<1>11. Suffix(d, Dropped(n + 1 - m, 0)) = Suffix(a, m + Dropped(n + 1 - m, 0))
  <2>1. m \in 0..Len(a) /\ Dropped(n + 1 - m, 0) \in 0..(Len(a) - m)
    BY <1>1, <1>2, <1>3, <1>5
  <2> QED BY <1>2, <2>1, SuffixOfSuffix DEF d
<1>12. pruneTimes(d, now) = Suffix(a, Dropped(n + 1, l))
  BY <1>5, <1>6, <1>10, <1>11
<1> QED BY <1>4, <1>8, <1>12 DEF a, cut, m, n

-----------------------------------------------------------------------------
(* The ring. *)

\* The slot, from 0, of the item that was pushed k pushes before the last.
Place(head, k, cap) == IF head - 1 - k >= 0 THEN head - 1 - k ELSE head - 1 - k + cap

LEMMA NextHead ==
    ASSUME NEW cap \in Nat \ {0}, NEW h \in 0..(cap - 1)
    PROVE  (h + 1) % cap = IF h + 1 < cap THEN h + 1 ELSE 0
<1>1. PICK x \in Nat : x = h + 1
  OBVIOUS
<1>2. x < 2 * cap
  BY <1>1
<1>3. x % cap = IF x < cap THEN x ELSE x - cap
  BY <1>2, ModSmall
<1> QED BY <1>1, <1>3

\* An item keeps its slot when another is pushed.
LEMMA PlaceKept ==
    ASSUME NEW cap \in Nat \ {0}, NEW s \in 0..cap, NEW h \in 0..(cap - 1),
           s < cap => h = s, NEW k \in 1..s, k < cap
    PROVE  /\ Place(IF h + 1 < cap THEN h + 1 ELSE 0, k, cap) = Place(h, k - 1, cap)
           /\ Place(h, k - 1, cap) + 1 \in 1..s
           /\ Place(h, k - 1, cap) + 1 # h + 1
<1>1. CASE h + 1 < cap
  BY <1>1 DEF Place
<1>2. CASE ~(h + 1 < cap)
  BY <1>2 DEF Place
<1> QED BY <1>1, <1>2

\* The slot in which items looks for the i-th item from the oldest.
LEMMA PlaceOfItem ==
    ASSUME NEW cap \in Nat \ {0}, NEW s \in 0..cap, NEW h \in 0..(cap - 1),
           s < cap => h = s, NEW i \in 1..s
    PROVE  (((h - s + cap) % cap) + i - 1) % cap = Place(h, s - i, cap)
<1> DEFINE start == (h - s + cap) % cap
<1>1. PICK x \in Nat : x = h - s + cap
  OBVIOUS
<1>2. x < 2 * cap
  BY <1>1
<1>3. x % cap = IF x < cap THEN x ELSE x - cap
  BY <1>2, ModSmall
<1>4. start = IF h < s THEN h - s + cap ELSE h - s
  BY <1>1, <1>3
<1> HIDE DEF start
<1>5. PICK y \in Nat : y = start + i - 1
  BY <1>4
<1>6. y < 2 * cap
  BY <1>4, <1>5
<1>7. y % cap = IF y < cap THEN y ELSE y - cap
  BY <1>6, ModSmall
<1>8. y % cap = Place(h, s - i, cap)
  <2>1. CASE h < s
    <3>1. y = h - s + cap + i - 1
      BY <1>4, <1>5, <2>1
    <3> QED BY <1>7, <2>1, <3>1 DEF Place
  <2>2. CASE ~(h < s)
    <3>1. y = h - s + i - 1
      BY <1>4, <1>5, <2>2
    <3> QED BY <1>7, <2>2, <3>1 DEF Place
  <2> QED BY <2>1, <2>2
<1> QED BY <1>5, <1>8 DEF start

RingOK(V, r, all, cap) ==
    /\ r.size = IF Len(all) < cap THEN Len(all) ELSE cap
    /\ r.head \in 0..(cap - 1)
    /\ r.size < cap => r.head = r.size
    /\ r.buf \in Seq(V) /\ Len(r.buf) = r.size
    /\ \A k \in 0..(r.size - 1) : r.buf[Place(r.head, k, cap) + 1] = all[Len(all) - k]

LEMMA NewRingOK ==
    ASSUME NEW V, NEW cap \in Nat \ {0}
    PROVE  RingOK(V, newRing, <<>>, cap)
<1>1. newRing.size = 0 /\ newRing.head = 0 /\ newRing.buf = <<>>
  BY DEF newRing
<1>2. <<>> \in Seq(V) /\ Len(<<>>) = 0
  BY EmptySequence
<1> QED BY <1>1, <1>2 DEF RingOK

LEMMA PushOK ==
    ASSUME NEW V, NEW cap \in Nat \ {0}, NEW all \in Seq(V), NEW v \in V, NEW r,
           RingOK(V, r, all, cap)
    PROVE  RingOK(V, push(r, v, cap), Append(all, v), cap)
<1> DEFINE p == push(r, v, cap)
           a == Append(all, v)
           n == Len(all)
<1>1. /\ n \in Nat /\ r.size \in Nat /\ r.head \in Nat /\ r.head < cap
      /\ r.size = (IF n < cap THEN n ELSE cap)
      /\ r.size < cap => r.head = r.size
      /\ r.buf \in Seq(V) /\ Len(r.buf) = r.size
  BY DEF RingOK
<1>2. /\ a \in Seq(V) /\ Len(a) = n + 1
      /\ \A i \in 1..n : a[i] = all[i]
      /\ a[n + 1] = v
  BY Appended
<1> HIDE DEF a
<1>3. /\ p.buf = IF r.size < cap THEN Append(r.buf, v) ELSE [r.buf EXCEPT ![r.head + 1] = v]
      /\ p.head = (r.head + 1) % cap
      /\ p.size = IF r.size < cap THEN r.size + 1 ELSE r.size
  BY <1>1 DEF push
<1> HIDE DEF p
<1>4. p.head = IF r.head + 1 < cap THEN r.head + 1 ELSE 0
  <2>1. r.head \in 0..(cap - 1)
    BY <1>1
  <2> QED BY <1>3, <2>1, NextHead
<1>5. /\ p.size = IF Len(a) < cap THEN Len(a) ELSE cap
      /\ p.head \in 0..(cap - 1)
      /\ p.size < cap => p.head = p.size
  BY <1>1, <1>2, <1>3, <1>4
<1>6. /\ p.buf \in Seq(V) /\ Len(p.buf) = p.size
      /\ p.buf[r.head + 1] = v
      /\ \A i \in 1..r.size : i # r.head + 1 => p.buf[i] = r.buf[i]
  <2>1. CASE r.size < cap
    <3>1. /\ Append(r.buf, v) \in Seq(V) /\ Len(Append(r.buf, v)) = r.size + 1
          /\ \A i \in 1..r.size : Append(r.buf, v)[i] = r.buf[i]
          /\ Append(r.buf, v)[r.size + 1] = v
      BY <1>1, Appended
    <3> QED BY <1>1, <1>3, <2>1, <3>1
  <2>2. CASE ~(r.size < cap)
    <3>1. r.size = cap /\ r.head + 1 \in 1..Len(r.buf)
      BY <1>1, <2>2
    <3>2. /\ [r.buf EXCEPT ![r.head + 1] = v] \in Seq(V)
          /\ Len([r.buf EXCEPT ![r.head + 1] = v]) = Len(r.buf)
          /\ \A j \in 1..Len(r.buf) : [r.buf EXCEPT ![r.head + 1] = v][j]
                                        = IF j = r.head + 1 THEN v ELSE r.buf[j]
      BY <1>1, <3>1, Overwritten
    <3> QED BY <1>1, <1>3, <2>2, <3>1, <3>2
  <2> QED BY <2>1, <2>2
<1>7. ASSUME NEW k \in 0..(p.size - 1)
      PROVE  p.buf[Place(p.head, k, cap) + 1] = a[Len(a) - k]
  <2>1. p.size \in Nat /\ k \in Nat /\ k <= p.size - 1 /\ p.size <= cap /\ k <= n
    BY <1>1, <1>2, <1>5
  <2>2. CASE k = 0
    <3>1. Place(p.head, 0, cap) = r.head
      BY <1>1, <1>4 DEF Place
    <3> QED BY <1>1, <1>2, <1>6, <2>2, <3>1
  <2>3. CASE k # 0
    <3>1. k - 1 \in 0..(r.size - 1)
      BY <1>1, <1>3, <2>1, <2>3
    <3>2. /\ Place(p.head, k, cap) = Place(r.head, k - 1, cap)
          /\ Place(r.head, k - 1, cap) + 1 \in 1..r.size
          /\ Place(r.head, k - 1, cap) + 1 # r.head + 1
      <4>1. r.size \in 0..cap /\ r.head \in 0..(cap - 1) /\ k \in 1..r.size /\ k < cap
        BY <1>1, <1>3, <2>1, <2>3, <3>1
      <4>2. r.size < cap => r.head = r.size
        BY <1>1
      <4>3. /\ Place(IF r.head + 1 < cap THEN r.head + 1 ELSE 0, k, cap)
                 = Place(r.head, k - 1, cap)
            /\ Place(r.head, k - 1, cap) + 1 \in 1..r.size
            /\ Place(r.head, k - 1, cap) + 1 # r.head + 1
        <5>1. PICK h \in 0..(cap - 1) : h = r.head
          BY <4>1
        <5>2. PICK z \in 0..cap : z = r.size
          BY <4>1
        <5>3. k \in 1..z /\ k < cap /\ (z < cap => h = z)
          BY <4>1, <4>2, <5>1, <5>2
        <5>4. /\ Place(IF h + 1 < cap THEN h + 1 ELSE 0, k, cap) = Place(h, k - 1, cap)
              /\ Place(h, k - 1, cap) + 1 \in 1..z
              /\ Place(h, k - 1, cap) + 1 # h + 1
          BY <5>3, PlaceKept
        <5> QED BY <5>1, <5>2, <5>4
      <4> QED BY <1>4, <4>3
    <3>3. r.buf[Place(r.head, k - 1, cap) + 1] = all[n - (k - 1)]
      BY <3>1 DEF RingOK
    <3>4. p.buf[Place(r.head, k - 1, cap) + 1] = r.buf[Place(r.head, k - 1, cap) + 1]
      BY <1>6, <3>2
    <3>5. n - (k - 1) \in 1..n /\ n - (k - 1) = Len(a) - k
      BY <1>1, <1>2, <2>1, <2>3, <3>1
    <3>6. a[Len(a) - k] = all[n - (k - 1)]
      BY <1>2, <3>5
    <3> QED BY <3>2, <3>3, <3>4, <3>6
  <2> QED BY <2>2, <2>3
<1>8. RingOK(V, p, a, cap)
  BY <1>5, <1>6, <1>7 DEF RingOK
<1> QED BY <1>8 DEF p, a

LEMMA RingItems ==
    ASSUME NEW V, NEW cap \in Nat \ {0}, NEW all \in Seq(V), NEW r, RingOK(V, r, all, cap)
    PROVE  items(r, cap) = LastOf(all, cap)
<1> DEFINE n == Len(all)
           m == IF n <= cap THEN 0 ELSE n - cap
           start == (r.head - r.size + cap) % cap
           its == items(r, cap)
           suf == Suffix(all, m)
<1>1. /\ n \in Nat /\ r.size \in Nat /\ r.head \in Nat /\ r.head < cap
      /\ r.size = (IF n < cap THEN n ELSE cap)
      /\ r.size < cap => r.head = r.size
      /\ r.buf \in Seq(V) /\ Len(r.buf) = r.size
  BY DEF RingOK
<1>2. m \in 0..n /\ n - m = r.size
  <2> HIDE DEF n
  <2> QED BY <1>1
<1>3. suf \in Seq(V) /\ Len(suf) = r.size /\ \A i \in 1..r.size : suf[i] = all[m + i]
  <2> HIDE DEF m
  <2>1. m \in 0..n
    BY <1>2
  <2>2. suf \in Seq(V) /\ Len(suf) = n - m /\ \A i \in 1..(n - m) : suf[i] = all[m + i]
    BY <2>1, SuffixItems
  <2>3. n - m = r.size
    BY <1>2
  <2> HIDE DEF suf, n
  <2> QED BY <2>2, <2>3
<1>4. its = [i \in 1..r.size |-> r.buf[((start + i - 1) % cap) + 1]]
  BY DEF items, Slot
<1>5. r.size \in 0..cap /\ r.head \in 0..(cap - 1)
  BY <1>1
<1>6. ASSUME NEW i \in 1..r.size PROVE its[i] = all[m + i]
  <2>1. its[i] = r.buf[((start + i - 1) % cap) + 1]
    BY <1>4
  <2>2. (start + i - 1) % cap = Place(r.head, r.size - i, cap)
    BY <1>1, <1>5, PlaceOfItem
  <2> HIDE DEF start, its, m
  <2>3. r.size - i \in 0..(r.size - 1) /\ n - (r.size - i) = m + i
    <3>1. r.size \in Nat /\ n \in Nat /\ m \in Int /\ n - m = r.size
      BY <1>1, <1>2
    <3> HIDE DEF n
    <3> QED BY <3>1
  <2>4. r.buf[Place(r.head, r.size - i, cap) + 1] = all[n - (r.size - i)]
    BY <2>3 DEF RingOK
  <2> QED BY <2>1, <2>2, <2>3, <2>4
<1>7. its \in Seq(V) /\ Len(its) = r.size
  <2>1. ASSUME NEW i \in 1..r.size PROVE its[i] \in V
    <3>1. m + i \in 1..n
      BY <1>1, <1>2
    <3> QED BY <1>6, <3>1
  <2>2. its \in [1..r.size -> V]
    BY <1>4, <2>1
  <2> QED BY <1>1, <2>2
<1> HIDE DEF its, suf
<1>8. its = suf
  BY <1>3, <1>6, <1>7, SameItems
<1>9. LastOf(all, cap) = suf
  BY LastOfIsSuffix DEF suf
<1> QED BY <1>8, <1>9 DEF its

-----------------------------------------------------------------------------
(* The log of disappearances d, given all of them, g, as of time t. *)

LogOK(g, d, t) ==
    /\ g \in Seq(Int)
    /\ Sorted(g)
    /\ \A i \in 1..Len(g) : g[i] <= t
    /\ \E k \in 0..Len(g) : /\ Cut(g, t - WindowSec, k)
                            /\ d = Suffix(g, Dropped(Len(g), k))

LEMMA LogPruned ==
    ASSUME NEW g, NEW d, NEW t \in Int, LogOK(g, d, t), NEW now \in Int, t <= now
    PROVE  LogOK(g, pruneTimes(d, now), now)
<1>1. /\ g \in Seq(Int) /\ Len(g) \in Nat /\ Sorted(g)
      /\ WindowSec \in Nat /\ t - WindowSec \in Int /\ now - WindowSec \in Int
      /\ t - WindowSec <= now - WindowSec
  BY HistoryAssumption DEF LogOK
<1>2. \A i \in 1..Len(g) : g[i] <= now
  <2> SUFFICES ASSUME NEW i \in 1..Len(g) PROVE g[i] <= now
    OBVIOUS
  <2>1. g[i] \in Int /\ g[i] <= t
    BY <1>1 DEF LogOK
  <2> QED BY <2>1
<1>3. PICK k \in 0..Len(g) : Cut(g, t - WindowSec, k) /\ d = Suffix(g, Dropped(Len(g), k))
  BY DEF LogOK
<1>4. PICK l \in 0..Len(g) : Cut(g, now - WindowSec, l)
  BY <1>1, CutExists
<1>5. pruneTimes(d, now) = Suffix(g, Dropped(Len(g), l))
  <2>1. pruneTimes(Suffix(g, Dropped(Len(g), k)), now) = Suffix(g, Dropped(Len(g), l))
    BY <1>1, <1>3, <1>4, PruneAgain
  <2> QED BY <1>3, <2>1
<1> QED BY <1>1, <1>2, <1>4, <1>5 DEF LogOK

LEMMA LogRecorded ==
    ASSUME NEW g, NEW d, NEW now \in Int, LogOK(g, d, now)
    PROVE  LogOK(Append(g, now), pruneTimes(Append(d, now), now), now)
<1> DEFINE a == Append(g, now)
<1>1. g \in Seq(Int) /\ Len(g) \in Nat /\ Sorted(g) /\ \A i \in 1..Len(g) : g[i] <= now
  BY DEF LogOK
<1>2. /\ a \in Seq(Int) /\ Len(a) = Len(g) + 1
      /\ \A i \in 1..Len(g) : a[i] = g[i]
      /\ a[Len(g) + 1] = now
  BY <1>1, Appended
<1>3. PICK l \in 0..Len(g) : Cut(g, now - WindowSec, l) /\ d = Suffix(g, Dropped(Len(g), l))
  BY DEF LogOK
<1>4. /\ Cut(a, now - WindowSec, l)
      /\ pruneTimes(Append(Suffix(g, Dropped(Len(g), l)), now), now)
           = Suffix(a, Dropped(Len(g) + 1, l))
  BY <1>1, <1>3, PruneAppended
<1> HIDE DEF a
<1>5. pruneTimes(Append(d, now), now) = Suffix(a, Dropped(Len(a), l))
  BY <1>2, <1>3, <1>4
<1>6. \A i \in 1..Len(a) : a[i] <= now
  <2> SUFFICES ASSUME NEW i \in 1..Len(a) PROVE a[i] <= now
    OBVIOUS
  <2>1. i \in 1..Len(g) \/ i = Len(g) + 1
    BY <1>1, <1>2
  <2>2. CASE i \in 1..Len(g)
    BY <1>1, <1>2, <2>2
  <2>3. CASE i = Len(g) + 1
    <3>1. a[i] = now
      BY <1>2, <2>3
    <3> QED BY <3>1
  <2> QED BY <2>1, <2>2, <2>3
<1>7. Sorted(a)
  <2> SUFFICES ASSUME NEW i \in 1..Len(a), NEW j \in 1..Len(a), i <= j
               PROVE  a[i] <= a[j]
    BY DEF Sorted
  <2>1. CASE j = Len(g) + 1
    BY <1>2, <1>6, <2>1
  <2>2. CASE j # Len(g) + 1
    <3>1. i \in 1..Len(g) /\ j \in 1..Len(g)
      BY <1>1, <1>2, <2>2
    <3> QED BY <1>1, <1>2, <3>1 DEF Sorted
  <2> QED BY <2>1, <2>2
<1>8. l \in 0..Len(a)
  BY <1>1, <1>2
<1>9. LogOK(a, pruneTimes(Append(d, now), now), now)
  BY <1>2, <1>4, <1>5, <1>6, <1>7, <1>8 DEF LogOK
<1> QED BY <1>9 DEF a

LEMMA KeptIsDropped ==
    ASSUME NEW n \in Nat, NEW k \in 0..n, NEW q,
           q = IF n - k < EventCap THEN n - k ELSE EventCap
    PROVE  (IF n <= q THEN 0 ELSE n - q) = Dropped(n, k)
<1>1. EventCap \in Nat \ {0}
  BY HistoryAssumption
<1>2. CASE n - k < EventCap
  BY <1>1, <1>2 DEF Dropped
<1>3. CASE ~(n - k < EventCap)
  BY <1>1, <1>3 DEF Dropped
<1> QED BY <1>2, <1>3

LEMMA LogExact ==
    ASSUME NEW g, NEW d, NEW t \in Int, LogOK(g, d, t)
    PROVE  LET recent == Cardinality({i \in DOMAIN g : t - g[i] <= WindowSec})
           IN  d = LastOf(g, IF recent < EventCap THEN recent ELSE EventCap)
<1> DEFINE A == {i \in DOMAIN g : t - g[i] <= WindowSec}
           n == Len(g)
           q == IF Cardinality(A) < EventCap THEN Cardinality(A) ELSE EventCap
<1>1. /\ g \in Seq(Int) /\ n \in Nat /\ DOMAIN g = 1..n
      /\ WindowSec \in Nat /\ EventCap \in Nat \ {0}
  BY HistoryAssumption DEF LogOK
<1>2. PICK k \in 0..n : Cut(g, t - WindowSec, k) /\ d = Suffix(g, Dropped(n, k))
  BY DEF LogOK
<1>3. A = (k + 1)..n
  <2>1. ASSUME NEW i \in 1..n PROVE t - g[i] <= WindowSec <=> i \in (k + 1)..n
    <3>1. g[i] \in Int
      BY <1>1
    <3>2. CASE i \in (k + 1)..n
      <4>1. g[i] >= t - WindowSec
        BY <1>2, <3>2 DEF Cut
      <4> QED BY <1>1, <3>1, <3>2, <4>1
    <3>3. CASE i \notin (k + 1)..n
      <4>1. i \in 1..k
        BY <1>1, <3>3
      <4>2. g[i] < t - WindowSec
        BY <1>2, <4>1 DEF Cut
      <4> QED BY <1>1, <3>1, <3>3, <4>2
    <3> QED BY <3>2, <3>3
  <2>2. (k + 1)..n \subseteq 1..n
    BY <1>1
  <2> QED BY <1>1, <2>1, <2>2
<1>4. Cardinality(A) = n - k
  <2>1. k + 1 \in Int /\ n \in Int
    BY <1>1
  <2>2. Cardinality((k + 1)..n) = IF k + 1 > n THEN 0 ELSE n - (k + 1) + 1
    BY <2>1, FS_Interval
  <2>3. Cardinality((k + 1)..n) = n - k
    <3> HIDE DEF n
    <3> QED BY <1>1, <2>2
  <2> QED BY <1>3, <2>3
<1> HIDE DEF A
<1>5. q \in Nat
  BY <1>1, <1>4
<1>6. (IF n <= q THEN 0 ELSE n - q) = Dropped(n, k)
  <2>1. q = IF n - k < EventCap THEN n - k ELSE EventCap
    BY <1>4
  <2> HIDE DEF q, n
  <2> QED BY <1>1, <2>1, KeptIsDropped
<1> HIDE DEF q
<1>7. LastOf(g, q) = Suffix(g, IF n <= q THEN 0 ELSE n - q)
  BY <1>1, <1>5, LastOfIsSuffix
<1>8. d = LastOf(g, q)
  BY <1>2, <1>6, <1>7
<1> QED BY <1>8 DEF q, A

-----------------------------------------------------------------------------
(* The reliability window. *)

ProbeRecords == [mono : Nat, ok : BOOLEAN]

LEMMA ShiftedCardinality ==
    ASSUME NEW m \in Nat, NEW A, IsFiniteSet(A), A \subseteq Nat, NEW B,
           \A i \in A : m + i \in B, \A j \in B : \E i \in A : j = m + i
    PROVE  Cardinality(B) = Cardinality(A)
<1> DEFINE f == [i \in A |-> m + i]
<1>1. f \in [A -> B]
  OBVIOUS
<1>2. f \in Injection(A, B)
  <2>1. ASSUME NEW i \in A, NEW j \in A, f[i] = f[j] PROVE i = j
    <3>1. i \in Nat /\ j \in Nat /\ m + i = m + j
      BY <2>1
    <3> QED BY <3>1
  <2> QED BY <1>1, <2>1 DEF Injection, IsInjective
<1>3. f \in Surjection(A, B)
  <2>1. ASSUME NEW j \in B PROVE \E i \in A : f[i] = j
    OBVIOUS
  <2> QED BY <1>1, <2>1 DEF Surjection
<1>4. ExistsBijection(A, B)
  BY <1>2, <1>3 DEF ExistsBijection, Bijection
<1> QED BY <1>4, FS_Bijection

LEMMA WindowCounts ==
    ASSUME NEW all \in Seq(ProbeRecords), NEW now \in Nat
    PROVE  LET recent == {i \in DOMAIN all :
                             i > Len(all) - ProbeCap /\ now - all[i].mono <= WindowSec}
           IN  recomputeWindow(LastOf(all, ProbeCap), now)
                 = <<Cardinality({i \in recent : all[i].ok}), Cardinality(recent)>>
<1> DEFINE n == Len(all)
           m == IF n <= ProbeCap THEN 0 ELSE n - ProbeCap
           ps == LastOf(all, ProbeCap)
           A == {i \in DOMAIN ps : InWindow(ps[i].mono, now)}
           AOk == {i \in A : ps[i].ok}
           B == {i \in DOMAIN all : i > n - ProbeCap /\ now - all[i].mono <= WindowSec}
           BOk == {i \in B : all[i].ok}
<1>1. n \in Nat /\ ProbeCap \in Nat \ {0} /\ WindowSec \in Nat /\ DOMAIN all = 1..n
  BY HistoryAssumption
<1>2. m \in 0..n /\ m \in Nat /\ \A i \in 1..n : i > n - ProbeCap <=> i > m
  <2> HIDE DEF n
  <2> QED BY <1>1
<1>3. ps = Suffix(all, m)
  BY <1>1, LastOfIsSuffix
<1> HIDE DEF ps, m
<1>4. ps \in Seq(ProbeRecords) /\ Len(ps) = n - m /\ \A i \in 1..(n - m) : ps[i] = all[m + i]
  BY <1>2, <1>3, SuffixItems
<1>5. DOMAIN ps = 1..(n - m)
  BY <1>4
<1>6. ASSUME NEW j \in 1..n PROVE all[j].mono \in Nat
  <2>1. all[j] \in ProbeRecords
    OBVIOUS
  <2> QED BY <2>1 DEF ProbeRecords
<1> HIDE DEF n
<1>7. ASSUME NEW i \in 1..(n - m)
      PROVE  /\ m + i \in 1..n
             /\ i \in A <=> m + i \in B
             /\ ps[i].ok = all[m + i].ok
  <2>1. m + i \in 1..n /\ m + i > m
    BY <1>1, <1>2
  <2>2. ps[i] = all[m + i]
    BY <1>4
  <2>3. m + i > n - ProbeCap
    BY <1>2, <2>1
  <2>4. InWindow(ps[i].mono, now) <=> now - all[m + i].mono <= WindowSec
    <3>1. all[m + i].mono \in Nat
      BY <1>6, <2>1
    <3> QED BY <1>1, <2>2, <3>1 DEF InWindow
  <2> QED BY <1>1, <1>5, <2>1, <2>2, <2>3, <2>4
<1>8. ASSUME NEW j \in B PROVE \E i \in 1..(n - m) : j = m + i
  <2>1. j \in 1..n /\ j > m
    BY <1>1, <1>2
  <2>2. j - m \in 1..(n - m) /\ j = m + (j - m)
    BY <1>1, <1>2, <2>1
  <2> QED BY <2>2
<1>9. A \subseteq 1..(n - m) /\ AOk \subseteq A /\ BOk \subseteq B
  BY <1>5
<1>10. /\ \A i \in A : m + i \in B
       /\ \A j \in B : \E i \in A : j = m + i
       /\ \A i \in AOk : m + i \in BOk
       /\ \A j \in BOk : \E i \in AOk : j = m + i
  <2>1. ASSUME NEW i \in A PROVE m + i \in B /\ (i \in AOk <=> m + i \in BOk)
    BY <1>7, <1>9
  <2>2. ASSUME NEW j \in B PROVE \E i \in A : j = m + i
    BY <1>7, <1>8
  <2> HIDE DEF A, B, AOk, BOk
  <2> QED BY <1>9, <2>1, <2>2
<1>11. IsFiniteSet(A) /\ A \subseteq Nat
  <2>1. IsFiniteSet(1..(n - m)) /\ 1..(n - m) \subseteq Nat
    <3>1. 1 \in Int /\ n - m \in Int
      BY <1>1, <1>2
    <3> QED BY <3>1, FS_Interval
  <2> HIDE DEF A
  <2> QED BY <1>9, <2>1, FS_Subset
<1> HIDE DEF A, B, AOk, BOk
<1>12. IsFiniteSet(AOk) /\ AOk \subseteq Nat
  BY <1>9, <1>11, FS_Subset
<1>13. Cardinality(B) = Cardinality(A) /\ Cardinality(BOk) = Cardinality(AOk)
  BY <1>2, <1>10, <1>11, <1>12, ShiftedCardinality
<1>14. recomputeWindow(ps, now) = <<Cardinality(AOk), Cardinality(A)>>
  BY DEF recomputeWindow, A, AOk
<1> QED BY <1>13, <1>14 DEF ps, B, BOk, n

\* The last c probes failed, and the one before them did not.
FailedRun(all, c) ==
    /\ c <= Len(all)
    /\ \A i \in DOMAIN all : i > Len(all) - c => ~all[i].ok
    /\ c < Len(all) => all[Len(all) - c].ok

LEMMA RunGoesOn ==
    ASSUME NEW all \in Seq(ProbeRecords), NEW c \in Nat, FailedRun(all, c),
           NEW p \in ProbeRecords
    PROVE  FailedRun(Append(all, p), IF p.ok THEN 0 ELSE c + 1)
<1> DEFINE a == Append(all, p)
           n == Len(all)
<1>1. n \in Nat /\ DOMAIN all = 1..n /\ p.ok \in BOOLEAN
  BY DEF ProbeRecords
<1>2. /\ a \in Seq(ProbeRecords) /\ Len(a) = n + 1 /\ DOMAIN a = 1..(n + 1)
      /\ \A i \in 1..n : a[i] = all[i]
      /\ a[n + 1] = p
  BY Appended
<1>3. c <= n /\ (\A i \in 1..n : i > n - c => ~all[i].ok) /\ (c < n => all[n - c].ok)
  BY <1>1 DEF FailedRun
<1> HIDE DEF a, n
<1>4. CASE p.ok
  <2>1. FailedRun(a, 0)
    BY <1>1, <1>2, <1>4 DEF FailedRun
  <2> QED BY <1>4, <2>1 DEF a
<1>5. CASE ~p.ok
  <2>1. c + 1 <= Len(a)
    BY <1>1, <1>2, <1>3
  <2>2. ASSUME NEW i \in DOMAIN a, i > Len(a) - (c + 1) PROVE ~a[i].ok
    <3>1. i \in 1..(n + 1) /\ i > n - c
      BY <1>1, <1>2, <2>2
    <3>2. CASE i = n + 1
      BY <1>2, <1>5, <3>2
    <3>3. CASE i # n + 1
      <4>1. i \in 1..n
        BY <1>1, <3>1, <3>3
      <4> QED BY <1>2, <1>3, <3>1, <4>1
    <3> QED BY <3>2, <3>3
  <2>3. ASSUME c + 1 < Len(a) PROVE a[Len(a) - (c + 1)].ok
    <3>1. c < n /\ n - c \in 1..n /\ Len(a) - (c + 1) = n - c
      BY <1>1, <1>2, <2>3
    <3> QED BY <1>2, <1>3, <3>1
  <2>4. FailedRun(a, c + 1)
    BY <2>1, <2>2, <2>3 DEF FailedRun
  <2> QED BY <1>5, <2>4 DEF a
<1> QED BY <1>1, <1>4, <1>5

-----------------------------------------------------------------------------
(* The inductive invariant. *)

Kinds == {"WORKER_OBSERVED", "WORKER_STARTED", "WORKER_DISAPPEARED"}

TypeOK ==
    /\ mono \in Nat
    /\ ConsecutiveFailures \in Nat
    /\ prevProcs \in {Unsupported} \cup 0..MaxProcs
    /\ WorkerStarts \in Nat
    /\ WorkerStops \in Nat
    /\ baseline \in Int
    /\ allProbes \in Seq(ProbeRecords)
    /\ allEvents \in Seq(Kinds)

IInv ==
    /\ TypeOK
    /\ RingOK(ProbeRecords, probes, allProbes, ProbeCap)
    /\ RingOK(Kinds, events, allEvents, EventCap)
    /\ LogOK(allGone, disappearances, mono)
    /\ ReliabilityExact
    /\ WorkersBalance

LEMMA InitIInv == Init => IInv
<1> SUFFICES ASSUME Init PROVE IInv
  OBVIOUS
<1>1. TypeOK
  BY DEF Init, TypeOK
<1>2. /\ RingOK(ProbeRecords, probes, allProbes, ProbeCap)
      /\ RingOK(Kinds, events, allEvents, EventCap)
  BY NewRingOK, HistoryAssumption DEF Init
<1>3. LogOK(allGone, disappearances, mono)
  <2>1. /\ <<>> \in Seq(Int) /\ Len(<<>>) = 0 /\ Sorted(<<>>)
        /\ \A i \in 1..Len(<<>>) : <<>>[i] <= 0
    BY DEF Sorted
  <2>2. Cut(<<>>, 0 - WindowSec, 0) /\ 0 \in 0..0
    BY DEF Cut
  <2>3. Suffix(<<>>, Dropped(0, 0)) = <<>>
    <3>1. Dropped(0, 0) = 0
      BY HistoryAssumption DEF Dropped
    <3>2. SubSeq(<<>>, 1, Len(<<>>)) = <<>>
      BY <2>1, WholeSequence
    <3> QED BY <3>1, <3>2 DEF Suffix
  <2>4. LogOK(<<>>, <<>>, 0)
    BY <2>1, <2>2, <2>3 DEF LogOK
  <2> QED BY <2>4 DEF Init
<1>4. ReliabilityExact
  <2>1. allProbes = <<>> /\ DOMAIN allProbes = {} /\ Len(allProbes) = 0
    BY DEF Init
  <2>2. ConsecutiveFailures = 0 /\ RecentAvailability = <<0, 0>>
    BY DEF Init
  <2> DEFINE recent == {i \in DOMAIN allProbes :
                          i > Len(allProbes) - ProbeCap /\ mono - allProbes[i].mono <= WindowSec}
  <2>3. recent = {} /\ {i \in recent : allProbes[i].ok} = {}
    BY <2>1
  <2>4. Cardinality(recent) = 0 /\ Cardinality({i \in recent : allProbes[i].ok}) = 0
    BY <2>3, FS_EmptySet
  <2> HIDE DEF recent
  <2>5. RecentAvailability = <<Cardinality({i \in recent : allProbes[i].ok}),
                               Cardinality(recent)>>
    BY <2>2, <2>4
  <2> QED BY <2>1, <2>2, <2>5 DEF ReliabilityExact, recent
<1>5. WorkersBalance
  BY DEF Init, WorkersBalance
<1> QED BY <1>1, <1>2, <1>3, <1>4, <1>5 DEF IInv

LEMMA SampleTypes ==
    ASSUME NEW sample \in Samples
    PROVE  sample.ok \in BOOLEAN /\ sample.procs \in {Unsupported} \cup 0..MaxProcs
BY DEF Samples

\* A poll records its probe.
LEMMA PollProbes ==
    ASSUME IInv, NEW sample \in Samples, NEW now \in Nat, Poll(sample, now)
    PROVE  /\ allProbes' \in Seq(ProbeRecords)
           /\ ConsecutiveFailures' \in Nat
           /\ RingOK(ProbeRecords, probes, allProbes, ProbeCap)'
           /\ ReliabilityExact'
<1> DEFINE p == [mono |-> now, ok |-> sample.ok]
<1>1. sample.ok \in BOOLEAN
  BY SampleTypes
<1>2. p \in ProbeRecords /\ p.ok = sample.ok
  BY <1>1 DEF ProbeRecords
<1>3. /\ probes' = push(probes, p, ProbeCap)
      /\ allProbes' = Append(allProbes, p)
      /\ mono' = now
      /\ ConsecutiveFailures' = IF sample.ok THEN 0 ELSE ConsecutiveFailures + 1
      /\ RecentAvailability' = recomputeWindow(items(probes', ProbeCap), now)
  BY DEF Poll, RecordProbe, FailuresAfter
<1>4. /\ allProbes \in Seq(ProbeRecords) /\ ConsecutiveFailures \in Nat
      /\ RingOK(ProbeRecords, probes, allProbes, ProbeCap)
      /\ FailedRun(allProbes, ConsecutiveFailures)
      /\ ProbeCap \in Nat \ {0}
  BY HistoryAssumption DEF IInv, TypeOK, ReliabilityExact, FailedRun
<1> HIDE DEF p
<1>5. allProbes' \in Seq(ProbeRecords) /\ ConsecutiveFailures' \in Nat
  <2>1. Append(allProbes, p) \in Seq(ProbeRecords)
    BY <1>2, <1>4, Appended
  <2>2. ConsecutiveFailures' \in Nat
    BY <1>1, <1>3, <1>4
  <2> QED BY <1>3, <2>1, <2>2
<1>6. RingOK(ProbeRecords, probes', allProbes', ProbeCap)
  <2>1. RingOK(ProbeRecords, push(probes, p, ProbeCap), Append(allProbes, p), ProbeCap)
    BY <1>2, <1>4, PushOK
  <2> QED BY <1>3, <2>1
<1>7. items(probes', ProbeCap) = LastOf(allProbes', ProbeCap)
  BY <1>4, <1>5, <1>6, RingItems
<1>8. FailedRun(allProbes', ConsecutiveFailures')
  <2>1. FailedRun(Append(allProbes, p), IF p.ok THEN 0 ELSE ConsecutiveFailures + 1)
    BY <1>2, <1>4, RunGoesOn
  <2> QED BY <1>2, <1>3, <2>1
<1>9. LET recent == {i \in DOMAIN allProbes' :
                        /\ i > Len(allProbes') - ProbeCap
                        /\ now - allProbes'[i].mono <= WindowSec}
      IN  recomputeWindow(LastOf(allProbes', ProbeCap), now)
            = <<Cardinality({i \in recent : allProbes'[i].ok}), Cardinality(recent)>>
  BY <1>5, WindowCounts
<1>10. RecentAvailability' = recomputeWindow(LastOf(allProbes', ProbeCap), now)
  BY <1>3, <1>7
<1>11. mono' = now
  BY <1>3
<1>12. ReliabilityExact'
  BY <1>8, <1>9, <1>10, <1>11 DEF ReliabilityExact, FailedRun
<1> QED BY <1>5, <1>6, <1>12

\* A poll compares the count with the previous one.
LEMMA PollWorkers ==
    ASSUME IInv, NEW sample \in Samples, NEW now \in Nat, Poll(sample, now)
    PROVE  /\ prevProcs' \in {Unsupported} \cup 0..MaxProcs
           /\ WorkerStarts' \in Nat /\ WorkerStops' \in Nat /\ baseline' \in Int
           /\ WorkersBalance'
<1> DEFINE n == sample.procs
<1>1. n \in {Unsupported} \cup 0..MaxProcs /\ Unsupported = -1 /\ MaxProcs \in Nat
  BY HistoryAssumption, SampleTypes DEF Unsupported
<1>2. /\ prevProcs \in {Unsupported} \cup 0..MaxProcs
      /\ WorkerStarts \in Nat /\ WorkerStops \in Nat /\ baseline \in Int
      /\ prevProcs # Unsupported => baseline + WorkerStarts - WorkerStops = prevProcs
  BY DEF IInv, TypeOK, WorkersBalance
<1>3. prevProcs' = n /\ detectWorkers(n, now)
  BY DEF Poll
<1> SUFFICES /\ WorkerStarts' \in Nat /\ WorkerStops' \in Nat /\ baseline' \in Int
             /\ n # Unsupported => baseline' + WorkerStarts' - WorkerStops' = n
  BY <1>1, <1>3 DEF WorkersBalance
<1> HIDE DEF n
<1>4. CASE CountUnknown(n, now)
  BY <1>2, <1>4 DEF CountUnknown, NoWorkerChange
<1>5. CASE CountAppears(n, now)
  <2>1. /\ WorkerStarts' = WorkerStarts /\ WorkerStops' = WorkerStops
        /\ baseline' = n - (WorkerStarts - WorkerStops)
    BY <1>5 DEF CountAppears, NoWorkerChange
  <2> QED BY <1>1, <1>2, <2>1
<1>6. CASE CountSame(n, now)
  <2>1. /\ WorkerStarts' = WorkerStarts /\ WorkerStops' = WorkerStops
        /\ baseline' = baseline /\ n = prevProcs
    BY <1>6 DEF CountSame, NoWorkerChange
  <2> QED BY <1>2, <2>1
<1>7. CASE CountRises(n, now)
  <2>1. /\ WorkerStarts' = WorkerStarts + (n - prevProcs) /\ WorkerStops' = WorkerStops
        /\ baseline' = baseline /\ prevProcs # Unsupported /\ n > prevProcs
    BY <1>7 DEF CountRises
  <2> QED BY <1>1, <1>2, <2>1
<1>8. CASE CountFalls(n, now)
  <2>1. /\ WorkerStops' = WorkerStops + (prevProcs - n) /\ WorkerStarts' = WorkerStarts
        /\ baseline' = baseline /\ n # Unsupported /\ n < prevProcs
    BY <1>8 DEF CountFalls
  <2> QED BY <1>1, <1>2, <2>1
<1> QED BY <1>3, <1>4, <1>5, <1>6, <1>7, <1>8 DEF detectWorkers

\* A poll adds at most one event.
LEMMA PollEvents ==
    ASSUME IInv, NEW sample \in Samples, NEW now \in Nat, Poll(sample, now)
    PROVE  allEvents' \in Seq(Kinds) /\ RingOK(Kinds, events, allEvents, EventCap)'
<1> DEFINE n == sample.procs
<1>1. /\ allEvents \in Seq(Kinds) /\ RingOK(Kinds, events, allEvents, EventCap)
      /\ EventCap \in Nat \ {0}
  BY HistoryAssumption DEF IInv, TypeOK
<1>2. NoEvent \/ \E kind \in Kinds : AddEvent(kind)
  <2>1. detectWorkers(n, now)
    BY DEF Poll
  <2>2. CASE CountUnknown(n, now)
    BY <2>2 DEF CountUnknown
  <2>3. CASE CountAppears(n, now)
    BY <2>3 DEF CountAppears, Kinds
  <2>4. CASE CountSame(n, now)
    BY <2>4 DEF CountSame
  <2>5. CASE CountRises(n, now)
    BY <2>5 DEF CountRises, Kinds
  <2>6. CASE CountFalls(n, now)
    BY <2>6 DEF CountFalls, Kinds
  <2> QED BY <2>1, <2>2, <2>3, <2>4, <2>5, <2>6 DEF detectWorkers
<1>3. CASE NoEvent
  BY <1>1, <1>3 DEF NoEvent
<1>4. ASSUME NEW kind \in Kinds, AddEvent(kind)
      PROVE  allEvents' \in Seq(Kinds) /\ RingOK(Kinds, events', allEvents', EventCap)
  <2>1. RingOK(Kinds, push(events, kind, EventCap), Append(allEvents, kind), EventCap)
    BY <1>1, PushOK
  <2>2. Append(allEvents, kind) \in Seq(Kinds)
    BY <1>1, Appended
  <2>3. events' = push(events, kind, EventCap) /\ allEvents' = Append(allEvents, kind)
    BY <1>4 DEF AddEvent
  <2> QED BY <2>1, <2>2, <2>3
<1> QED BY <1>2, <1>3, <1>4

\* A poll prunes the log, and records the workers that are gone.
LEMMA PollLog ==
    ASSUME IInv, NEW sample \in Samples, NEW now \in Nat, mono <= now, Poll(sample, now)
    PROVE  LogOK(allGone, disappearances, mono)'
<1> DEFINE n == sample.procs
<1>1. mono' = now /\ detectWorkers(n, now)
  BY DEF Poll
<1>2. LogOK(allGone, Gone(now), now)
  <2>1. mono \in Int /\ now \in Int /\ LogOK(allGone, disappearances, mono)
    BY DEF IInv, TypeOK
  <2> QED BY <2>1, LogPruned DEF Gone
<1>3. \/ disappearances' = Gone(now) /\ allGone' = allGone
      \/ /\ disappearances' = pruneTimes(Append(Gone(now), now), now)
         /\ allGone' = Append(allGone, now)
  <2>1. CASE CountUnknown(n, now)
    BY <2>1 DEF CountUnknown, NoWorkerChange
  <2>2. CASE CountAppears(n, now)
    BY <2>2 DEF CountAppears, NoWorkerChange
  <2>3. CASE CountSame(n, now)
    BY <2>3 DEF CountSame, NoWorkerChange
  <2>4. CASE CountRises(n, now)
    BY <2>4 DEF CountRises
  <2>5. CASE CountFalls(n, now)
    BY <2>5 DEF CountFalls
  <2> QED BY <1>1, <2>1, <2>2, <2>3, <2>4, <2>5 DEF detectWorkers
<1>4. CASE disappearances' = Gone(now) /\ allGone' = allGone
  BY <1>1, <1>2, <1>4
<1>5. CASE /\ disappearances' = pruneTimes(Append(Gone(now), now), now)
           /\ allGone' = Append(allGone, now)
  <2>1. LogOK(Append(allGone, now), pruneTimes(Append(Gone(now), now), now), now)
    <3>1. now \in Int
      OBVIOUS
    <3> QED BY <1>2, <3>1, LogRecorded
  <2> QED BY <1>1, <1>5, <2>1
<1> QED BY <1>3, <1>4, <1>5

LEMMA StepIInv == IInv /\ [Next]_vars => IInv'
<1> SUFFICES ASSUME IInv, [Next]_vars PROVE IInv'
  OBVIOUS
<1>1. ASSUME NEW sample \in Samples, NEW step \in 1..2, Poll(sample, mono + step)
      PROVE  IInv'
  <2>1. PICK now \in Nat : now = mono + step /\ mono <= now
    BY DEF IInv, TypeOK
  <2>2. Poll(sample, now)
    BY <1>1, <2>1
  <2>3. mono' \in Nat
    BY <2>2 DEF Poll
  <2>4. mono <= now
    BY <2>1
  <2>5. /\ allProbes' \in Seq(ProbeRecords) /\ ConsecutiveFailures' \in Nat
        /\ RingOK(ProbeRecords, probes, allProbes, ProbeCap)'
        /\ ReliabilityExact'
    BY <2>2, PollProbes
  <2>6. /\ prevProcs' \in {Unsupported} \cup 0..MaxProcs
        /\ WorkerStarts' \in Nat /\ WorkerStops' \in Nat /\ baseline' \in Int
        /\ WorkersBalance'
    BY <2>2, PollWorkers
  <2>7. allEvents' \in Seq(Kinds) /\ RingOK(Kinds, events, allEvents, EventCap)'
    BY <2>2, PollEvents
  <2>8. LogOK(allGone, disappearances, mono)'
    BY <2>2, <2>4, PollLog
  <2> QED BY <2>3, <2>5, <2>6, <2>7, <2>8 DEF IInv, TypeOK
<1>2. CASE UNCHANGED vars
  <2>1. TypeOK' /\ WorkersBalance'
    BY <1>2 DEF vars, IInv, TypeOK, WorkersBalance
  <2>2. /\ RingOK(ProbeRecords, probes, allProbes, ProbeCap)'
        /\ RingOK(Kinds, events, allEvents, EventCap)'
        /\ LogOK(allGone, disappearances, mono)'
    BY <1>2 DEF vars, IInv
  <2>3. ReliabilityExact'
    BY <1>2 DEF vars, IInv, ReliabilityExact
  <2> QED BY <2>1, <2>2, <2>3 DEF IInv
<1> QED BY <1>1, <1>2 DEF Next

LEMMA Invariance == Spec => []IInv
BY InitIInv, StepIInv, PTL DEF Spec

(* Whatever the capacities, and however often the rings have wrapped       *)
(* around: their items are the latest pushes, oldest first                 *)
(* (core/history.go, ring).                                                *)
THEOREM TheRingsKeepTheLatest == Spec => []RingKeepsLatest
<1>1. IInv => RingKeepsLatest
  <2> SUFFICES ASSUME IInv PROVE RingKeepsLatest
    OBVIOUS
  <2>1. /\ allProbes \in Seq(ProbeRecords) /\ allEvents \in Seq(Kinds)
        /\ RingOK(ProbeRecords, probes, allProbes, ProbeCap)
        /\ RingOK(Kinds, events, allEvents, EventCap)
        /\ ProbeCap \in Nat \ {0} /\ EventCap \in Nat \ {0}
    BY HistoryAssumption DEF IInv, TypeOK
  <2> QED BY <2>1, RingItems DEF RingKeepsLatest
<1> QED BY <1>1, Invariance, PTL

(* Whatever the length of the window and the capacity of the ring: the     *)
(* availability counts exactly the probes of the window that the ring      *)
(* still holds, and ConsecutiveFailures is the run of failures that the    *)
(* latest probe ends (core/history.go, RecordProbe and recomputeWindow).   *)
THEOREM TheReliabilityIsExact == Spec => []ReliabilityExact
<1>1. IInv => ReliabilityExact
  BY DEF IInv
<1> QED BY <1>1, Invariance, PTL

(* Starts and stops of workers balance the count of processes, for any     *)
(* sequence of counts, known or not (engine/supervisor.go, detectWorkers). *)
THEOREM TheWorkersBalance == Spec => []WorkersBalance
<1>1. IInv => WorkersBalance
  BY DEF IInv
<1> QED BY <1>1, Invariance, PTL

(* Pruned on every poll and again when it grows, the log still holds       *)
(* exactly the latest disappearances of the window, as many as it has room *)
(* for (engine/supervisor.go, pruneTimes).                                 *)
THEOREM TheDisappearancesAreExact == Spec => []DisappearancesExact
<1>1. IInv => DisappearancesExact
  <2> SUFFICES ASSUME IInv PROVE DisappearancesExact
    OBVIOUS
  <2>1. mono \in Int /\ LogOK(allGone, disappearances, mono)
    BY DEF IInv, TypeOK
  <2> QED BY <2>1, LogExact DEF DisappearancesExact
<1> QED BY <1>1, Invariance, PTL
=============================================================================
