---------------------- MODULE TrajectoryEmitterProofs ----------------------
(***************************************************************************)
(* The emitter loses, repeats and reorders no event it has accepted, its   *)
(* counters add up, and Stop flushes, for every set of events and every    *)
(* capacity, batch size and size of the fallback file.                     *)
(***************************************************************************)
EXTENDS TrajectoryEmitter, FiniteSetTheorems, TLAPS

-----------------------------------------------------------------------------
(* Sequences. *)

LEMMA EmptySequence ==
    ASSUME NEW T
    PROVE  /\ <<>> \in Seq(T) /\ Len(<<>>) = 0
           /\ \A q \in Seq(T) : q # <<>> => Len(q) \in Nat \ {0}
OBVIOUS

LEMMA Appended ==
    ASSUME NEW T, NEW q \in Seq(T), NEW v \in T
    PROVE  /\ Append(q, v) \in Seq(T) /\ Append(q, v) # <<>>
           /\ Len(Append(q, v)) = Len(q) + 1
           /\ \A j \in 1..Len(q) : Append(q, v)[j] = q[j]
           /\ Append(q, v)[Len(q) + 1] = v
OBVIOUS

LEMMA Concatenated ==
    ASSUME NEW T, NEW p \in Seq(T), NEW q \in Seq(T)
    PROVE  /\ p \o q \in Seq(T) /\ Len(p \o q) = Len(p) + Len(q)
           /\ \A j \in 1..(Len(p) + Len(q)) :
                 (p \o q)[j] = IF j <= Len(p) THEN p[j] ELSE q[j - Len(p)]
OBVIOUS

LEMMA AppendedLast ==
    ASSUME NEW T, NEW q \in Seq(T), NEW v \in T
    PROVE  Append(q, v) = q \o <<v>>
OBVIOUS

LEMMA ConcatenatedEmpty ==
    ASSUME NEW T, NEW q \in Seq(T)
    PROVE  q \o <<>> = q /\ <<>> \o q = q
OBVIOUS

LEMMA Reassociated ==
    ASSUME NEW T, NEW p \in Seq(T), NEW q \in Seq(T), NEW r \in Seq(T)
    PROVE  (p \o q) \o r = p \o (q \o r)
OBVIOUS

(* The type invariant (of what the theorems below depend on). *)
TypeOK ==
    /\ ch \in Seq(Events) /\ batch \in Seq(Events)
    /\ accepted \in Seq(Events) /\ shipped \in Seq(Events)
    /\ stop \in BOOLEAN
    /\ dropped \in Nat /\ sent \in Nat /\ failed \in Nat /\ fallback \in Nat /\ fbBytes \in Nat
    /\ emitPc \in [Events -> {"todo", "retrying", "accepted", "dropped"}]
    /\ loopPc \in {"select", "drain", "ship", "exited"}
    /\ resume \in {"select", "drain", "exited"}
    /\ acked \in SUBSET Events /\ beforeStop \in SUBSET Events

(* An event is accepted once, by its own call of Emit. *)
AcceptedOnce ==
    /\ \A i, j \in 1..Len(accepted) : accepted[i] = accepted[j] => i = j
    /\ \A i \in 1..Len(accepted) : emitPc[accepted[i]] = "accepted"
    /\ \A e \in beforeStop : emitPc[e] = "accepted"

(* What was acknowledged has been shipped. *)
AckedShipped == \A e \in acked : \E i \in 1..Len(shipped) : e = shipped[i]

(* A batch is shipped as soon as it is full. *)
BatchBounded ==
    /\ Len(batch) <= BatchSize
    /\ loopPc # "ship" => Len(batch) < BatchSize

(* Where the loop goes on: past the select only after Stop, and to its end *)
(* only when the channel held nothing from before Stop.                    *)
Heading == IF loopPc = "ship" THEN resume ELSE loopPc

StopSeen ==
    /\ Heading # "select" => stop
    /\ Heading = "exited" => \A i \in 1..Len(ch) : ch[i] \notin beforeStop
    /\ loopPc = "exited" => batch = <<>>

(* The inductive invariant. *)
IInv ==
    /\ TypeOK
    /\ NothingLostInside
    /\ StatsAddUp
    /\ AcceptedOnce
    /\ AckedShipped
    /\ BatchBounded
    /\ StopSeen

-----------------------------------------------------------------------------
(* Three sequences in a row: what joins the last one, moves from the last  *)
(* to the second, or moves from the second to the first.                   *)
LEMMA Associative ==
    ASSUME NEW S, NEW s \in Seq(S), NEW t \in Seq(S), NEW u \in Seq(S), NEW v, v = t \o u
    PROVE  s \o t \o u = s \o v
BY Reassociated

LEMMA RowAppend ==
    ASSUME NEW S, NEW s \in Seq(S), NEW b \in Seq(S), NEW c \in Seq(S), NEW e \in S
    PROVE  s \o b \o Append(c, e) = Append(s \o b \o c, e)
<1>1. <<e>> \in Seq(S) /\ s \o b \in Seq(S)
  BY Concatenated
<1>2. s \o b \o c \in Seq(S)
  BY <1>1, Concatenated
<1>3. Append(c, e) = c \o <<e>> /\ Append(s \o b \o c, e) = s \o b \o c \o <<e>>
  BY <1>2, AppendedLast
<1>4. \A x \in Seq(S) : x \o c \o <<e>> = x \o Append(c, e)
  BY <1>1, <1>3, Associative
<1> QED BY <1>1, <1>3, <1>4

LEMMA FirstAndRest ==
    ASSUME NEW S, NEW c \in Seq(S), c # <<>>
    PROVE  c = <<Head(c)>> \o Tail(c) /\ Head(c) \in S /\ Tail(c) \in Seq(S)
OBVIOUS

FirstMoved(b, c, d, t) == d = Append(b, Head(c)) /\ t = Tail(c)

LEMMA RowMove ==
    ASSUME NEW S, NEW s \in Seq(S), NEW b \in Seq(S), NEW c \in Seq(S), c # <<>>,
           NEW d, NEW t, FirstMoved(b, c, d, t)
    PROVE  s \o d \o t = s \o b \o c
<1>1. PICK h \in S : d = Append(b, h) /\ t \in Seq(S) /\ c = <<h>> \o t
  BY FirstAndRest DEF FirstMoved
<1>2. <<h>> \in Seq(S) /\ s \o b \in Seq(S)
  BY Concatenated
<1>3. d = b \o <<h>>
  BY <1>1, AppendedLast
<1>4. s \o b \o <<h>> = s \o d
  BY <1>2, <1>3, Associative
<1>5. \A x \in Seq(S) : x \o <<h>> \o t = x \o c
  BY <1>1, <1>2, Associative
<1> QED BY ONLY <1>2, <1>4, <1>5

LEMMA RowShip ==
    ASSUME NEW S, NEW s \in Seq(S), NEW b \in Seq(S), NEW c, NEW a, a = s \o b
    PROVE  a \o <<>> \o c = s \o b \o c
<1>1. s \o b \in Seq(S)
  BY Concatenated
<1>2. a \o <<>> = a
  BY <1>1, ConcatenatedEmpty
<1> QED BY <1>2

(* Where the items of the first and of the second sequence are. *)
LEMMA RowItems ==
    ASSUME NEW S, NEW s \in Seq(S), NEW b \in Seq(S), NEW c \in Seq(S),
           NEW a, a = s \o b \o c
    PROVE  /\ Len(a) = Len(s) + Len(b) + Len(c)
           /\ \A i \in 1..Len(s) : a[i] = s[i]
           /\ \A j \in 1..Len(b) : a[Len(s) + j] = b[j]
<1>1. /\ s \o b \in Seq(S) /\ Len(s \o b) = Len(s) + Len(b)
      /\ \A i \in 1..Len(s) : (s \o b)[i] = s[i]
      /\ \A j \in 1..Len(b) : (s \o b)[Len(s) + j] = b[j]
  BY Concatenated
<1> DEFINE d == s \o b
<1> HIDE DEF d
<1>2. /\ Len(d \o c) = Len(d) + Len(c)
      /\ \A i \in 1..Len(d) : (d \o c)[i] = d[i]
  BY <1>1, Concatenated DEF d
<1>3. Len(s) \in Nat /\ Len(b) \in Nat /\ Len(c) \in Nat
  OBVIOUS
<1> QED BY <1>1, <1>2, <1>3 DEF d

(* A sequence without repetitions has as many items as it is long. *)
LEMMA ItemsCounted ==
    ASSUME NEW S, NEW s \in Seq(S),
           \A i, j \in 1..Len(s) : s[i] = s[j] => i = j
    PROVE  /\ IsFiniteSet({s[i] : i \in 1..Len(s)})
           /\ Cardinality({s[i] : i \in 1..Len(s)}) = Len(s)
<1> DEFINE T == {s[i] : i \in 1..Len(s)}
<1>1. Len(s) \in Nat /\ s = [i \in 1..Len(s) |-> s[i]]
  OBVIOUS
<1>2. s \in Bijection(1..Len(s), T)
  <2>1. s \in [1..Len(s) -> T]
    BY <1>1
  <2>2. s \in Injection(1..Len(s), T)
    BY <2>1 DEF Injection, IsInjective
  <2>3. s \in Surjection(1..Len(s), T)
    BY <2>1 DEF Surjection
  <2> QED BY <2>2, <2>3 DEF Bijection
<1>3. ExistsBijection(1..Len(s), T)
  BY <1>2 DEF ExistsBijection
<1> HIDE DEF T
<1>4. IsFiniteSet(T) /\ Cardinality(T) = Len(s)
  BY <1>1, <1>3, FS_NatBijection, FS_CountingElements
<1> QED BY <1>4 DEF T

-----------------------------------------------------------------------------
LEMMA InitIInv == Init => IInv
<1> SUFFICES ASSUME Init PROVE IInv
  OBVIOUS
<1> USE DEF Init
<1>1. TypeOK
  <2>1. <<>> \in Seq(Events)
    BY EmptySequence
  <2>2. emitPc \in [Events -> {"todo", "retrying", "accepted", "dropped"}]
    OBVIOUS
  <2> QED BY <2>1, <2>2 DEF TypeOK
<1>2. NothingLostInside
  BY ConcatenatedEmpty DEF NothingLostInside
<1>3. StatsAddUp
  <2>1. /\ {e \in Events : emitPc[e] = "dropped"} = {}
        /\ {e \in Events : emitPc[e] = "accepted"} = {}
    OBVIOUS
  <2>2. Len(accepted) = 0 /\ Len(shipped) = 0
    OBVIOUS
  <2>3. Cardinality({}) = 0 /\ 0 <= MaxFallback + BatchSize
    BY FS_EmptySet, EmitterAssumption
  <2>4. /\ Cardinality({e \in Events : emitPc[e] = "dropped"}) = 0
        /\ Cardinality({e \in Events : emitPc[e] = "accepted"}) = 0
        /\ Cardinality(acked) = 0
    BY <2>1, <2>3, Zenon
  <2>5. dropped = 0 /\ sent = 0 /\ failed = 0 /\ fallback = 0 /\ fbBytes = 0
    OBVIOUS
  <2> HIDE DEF Init
  <2> QED BY <2>2, <2>3, <2>4, <2>5 DEF StatsAddUp
<1>4. AcceptedOnce /\ AckedShipped /\ StopSeen
  BY DEF AcceptedOnce, AckedShipped, StopSeen, Heading
<1>5. BatchBounded
  BY EmitterAssumption DEF BatchBounded
<1> QED BY <1>1, <1>2, <1>3, <1>4, <1>5 DEF IInv

(* A new state of one call of Emit changes one count by one. *)
LEMMA EmitCounts ==
    ASSUME TypeOK, NEW e \in Events, NEW to \in {"accepted", "dropped"},
           emitPc[e] \in {"todo", "retrying"},
           emitPc' = [emitPc EXCEPT ![e] = to]
    PROVE  LET Count(l)  == Cardinality({x \in Events : emitPc[x] = l})
               Count2(l) == Cardinality({x \in Events : emitPc'[x] = l})
           IN  /\ Count2(to) = Count(to) + 1
               /\ \A l \in {"accepted", "dropped"} \ {to} : Count2(l) = Count(l)
<1> DEFINE At(l)  == {x \in Events : emitPc[x] = l}
           At2(l) == {x \in Events : emitPc'[x] = l}
<1>1. At2(to) = At(to) \cup {e} /\ e \notin At(to)
  BY DEF TypeOK
<1>2. \A l \in {"accepted", "dropped"} \ {to} : At2(l) = At(l)
  BY DEF TypeOK
<1>3. IsFiniteSet(At(to))
  BY EmitterAssumption, FS_Subset
<1> HIDE DEF At, At2
<1>4. Cardinality(At2(to)) = Cardinality(At(to)) + 1
  BY <1>1, <1>3, FS_AddElement
<1>5. \A l \in {"accepted", "dropped"} \ {to} : Cardinality(At2(l)) = Cardinality(At(l))
  BY <1>2
<1> QED BY <1>4, <1>5 DEF At, At2

LEMMA EnqueueIInv ==
    ASSUME IInv, NEW e \in Events, emitPc[e] \in {"todo", "retrying"}, Enqueue(e)
    PROVE  IInv'
<1> USE DEF Enqueue, counterVars, loopVars, shipHistory
<1> TypeOK
  BY DEF IInv
<1>1. TypeOK'
  BY DEF TypeOK
<1>2. NothingLostInside'
  <2>1. shipped \o batch \o Append(ch, e) = Append(shipped \o batch \o ch, e)
    BY RowAppend DEF TypeOK
  <2> QED BY <2>1 DEF IInv, NothingLostInside
<1>3. /\ Len(accepted') = Len(accepted) + 1
      /\ \A i \in 1..Len(accepted) : accepted'[i] = accepted[i]
      /\ accepted'[Len(accepted) + 1] = e
  BY Appended DEF TypeOK
<1>4. StatsAddUp'
  <2>1. /\ Cardinality({x \in Events : emitPc'[x] = "accepted"})
             = Cardinality({x \in Events : emitPc[x] = "accepted"}) + 1
        /\ Cardinality({x \in Events : emitPc'[x] = "dropped"})
             = Cardinality({x \in Events : emitPc[x] = "dropped"})
    BY EmitCounts
  <2> QED BY <1>3, <2>1 DEF IInv, StatsAddUp
<1>5. AcceptedOnce'
  <2>1. \A i \in 1..Len(accepted) : accepted[i] # e /\ accepted[i] \in Events
    BY DEF IInv, TypeOK, AcceptedOnce
  <2>2. Len(accepted) \in Nat
    BY DEF TypeOK
  <2>3. \A i, j \in 1..Len(accepted') : accepted'[i] = accepted'[j] => i = j
    BY <1>3, <2>1, <2>2 DEF IInv, AcceptedOnce
  <2>4. \A i \in 1..Len(accepted') : emitPc'[accepted'[i]] = "accepted"
    BY <1>3, <2>1, <2>2 DEF IInv, TypeOK, AcceptedOnce
  <2>5. \A x \in beforeStop' : emitPc'[x] = "accepted"
    BY DEF IInv, TypeOK, AcceptedOnce
  <2> QED BY <2>3, <2>4, <2>5 DEF AcceptedOnce
<1>6. AckedShipped' /\ BatchBounded'
  BY DEF IInv, AckedShipped, BatchBounded
<1>7. StopSeen'
  <2>1. Heading' = Heading /\ UNCHANGED <<stop, loopPc, batch>>
    BY DEF Heading
  <2>2. ASSUME Heading = "exited"
        PROVE  \A i \in 1..Len(ch') : ch'[i] \notin beforeStop'
    <3>1. beforeStop' = beforeStop /\ e \notin beforeStop
      BY <2>2 DEF IInv, StopSeen, AcceptedOnce
    <3>2. /\ Len(ch') = Len(ch) + 1 /\ Len(ch) \in Nat
          /\ \A i \in 1..Len(ch) : ch'[i] = ch[i]
          /\ ch'[Len(ch) + 1] = e
      BY Appended DEF TypeOK
    <3> QED BY <2>2, <3>1, <3>2 DEF IInv, StopSeen
  <2> QED BY <2>1, <2>2 DEF IInv, StopSeen
<1> QED BY <1>1, <1>2, <1>4, <1>5, <1>6, <1>7 DEF IInv

LEMMA DropIInv ==
    ASSUME IInv, NEW e \in Events, emitPc[e] \in {"todo", "retrying"}, Drop(e)
    PROVE  IInv'
<1> USE DEF Drop, loopVars, history, shipHistory
<1> TypeOK
  BY DEF IInv
<1>1. TypeOK' /\ NothingLostInside'
  BY DEF IInv, TypeOK, NothingLostInside
<1>2. StatsAddUp'
  <2>1. /\ Cardinality({x \in Events : emitPc'[x] = "dropped"})
             = Cardinality({x \in Events : emitPc[x] = "dropped"}) + 1
        /\ Cardinality({x \in Events : emitPc'[x] = "accepted"})
             = Cardinality({x \in Events : emitPc[x] = "accepted"})
    BY EmitCounts
  <2> QED BY <2>1 DEF IInv, StatsAddUp
<1>3. AcceptedOnce'
  BY DEF IInv, TypeOK, AcceptedOnce
<1>4. AckedShipped' /\ BatchBounded' /\ StopSeen'
  BY DEF IInv, AckedShipped, BatchBounded, StopSeen, Heading
<1> QED BY <1>1, <1>2, <1>3, <1>4 DEF IInv

LEMMA EmitRetriesIInv ==
    ASSUME IInv, NEW e \in Events, EmitRetries(e)
    PROVE  IInv'
<1> USE DEF EmitRetries, counterVars, loopVars, history, shipHistory
<1> TypeOK
  BY DEF IInv
<1>1. TypeOK' /\ NothingLostInside'
  BY DEF IInv, TypeOK, NothingLostInside
<1>2. StatsAddUp'
  <2>1. /\ {x \in Events : emitPc'[x] = "dropped"} = {x \in Events : emitPc[x] = "dropped"}
        /\ {x \in Events : emitPc'[x] = "accepted"} = {x \in Events : emitPc[x] = "accepted"}
    BY DEF TypeOK
  <2>2. /\ Cardinality({x \in Events : emitPc'[x] = "dropped"})
             = Cardinality({x \in Events : emitPc[x] = "dropped"})
        /\ Cardinality({x \in Events : emitPc'[x] = "accepted"})
             = Cardinality({x \in Events : emitPc[x] = "accepted"})
    BY <2>1, Zenon
  <2> QED BY <2>2 DEF IInv, StatsAddUp
<1>3. AcceptedOnce'
  BY DEF IInv, TypeOK, AcceptedOnce
<1>4. AckedShipped' /\ BatchBounded' /\ StopSeen'
  BY DEF IInv, AckedShipped, BatchBounded, StopSeen, Heading
<1> QED BY <1>1, <1>2, <1>3, <1>4 DEF IInv

-----------------------------------------------------------------------------
(* Only the loop's place changes, or the other histories do. *)
LEMMA QuietIInv ==
    ASSUME IInv, UNCHANGED <<ch, batch, accepted, shipped, counterVars, emitPc, acked, beforeStop>>,
           stop' \in BOOLEAN, loopPc' \in {"select", "drain", "ship", "exited"},
           resume' \in {"select", "drain", "exited"},
           BatchBounded', StopSeen'
    PROVE  IInv'
<1> USE DEF counterVars
<1>1. TypeOK' /\ NothingLostInside' /\ StatsAddUp'
  BY DEF IInv, TypeOK, NothingLostInside, StatsAddUp
<1>2. AcceptedOnce' /\ AckedShipped'
  BY DEF IInv, AcceptedOnce, AckedShipped
<1> QED BY <1>1, <1>2 DEF IInv

LEMMA ReceiveIInv ==
    ASSUME IInv, NEW here \in {"select", "drain"}, loopPc = here, Receive(here)
    PROVE  IInv'
<1> USE DEF Receive, counterVars, history, shipHistory
<1> TypeOK
  BY DEF IInv
<1>1. /\ ch \in Seq(Events) /\ ch # <<>>
      /\ Head(ch) \in Events /\ Tail(ch) \in Seq(Events)
  BY FirstAndRest DEF TypeOK
<1>2. TypeOK'
  BY <1>1 DEF TypeOK
<1>3. NothingLostInside'
  <2>1. shipped \in Seq(Events) /\ batch \in Seq(Events) /\ ch \in Seq(Events) /\ ch # <<>>
    BY DEF TypeOK
  <2>2. FirstMoved(batch, ch, batch', ch')
    BY DEF FirstMoved
  <2>3. shipped \o batch' \o ch' = shipped \o batch \o ch
    BY ONLY <2>1, <2>2, RowMove
  <2>4. accepted = shipped \o batch \o ch /\ UNCHANGED <<accepted, shipped>>
    BY DEF IInv, NothingLostInside
  <2> QED BY ONLY <2>3, <2>4 DEF NothingLostInside
<1>4. StatsAddUp' /\ AcceptedOnce' /\ AckedShipped'
  <2>1. UNCHANGED <<counterVars, emitPc, accepted, shipped, acked, beforeStop>>
    OBVIOUS
  <2> QED BY ONLY IInv, <2>1 DEF IInv, StatsAddUp, AcceptedOnce, AckedShipped, counterVars
<1>5. BatchBounded'
  <2>1. Len(batch') = Len(batch) + 1 /\ Len(batch) \in Nat
    BY <1>1, Appended DEF TypeOK
  <2>2. Len(batch) < BatchSize
    BY DEF IInv, BatchBounded
  <2> QED BY <2>1, <2>2, EmitterAssumption DEF BatchBounded
<1>6. StopSeen'
  <2>1. Heading' = Heading /\ Heading = here /\ loopPc' # "exited"
    BY DEF Heading
  <2> QED BY <2>1 DEF IInv, StopSeen
<1> QED BY <1>2, <1>3, <1>4, <1>5, <1>6 DEF IInv

LEMMA FlushIInv ==
    ASSUME IInv, NEW next \in {"select", "exited"}, loopPc \in {"select", "drain"},
           next = "exited" => loopPc = "drain" /\ ch = <<>>,
           Flush(next)
    PROVE  IInv'
<1> USE DEF Flush, history, shipHistory
<1>1. UNCHANGED <<stop, ch, batch, beforeStop>>
  OBVIOUS
<1>2. BatchBounded'
  BY <1>1 DEF IInv, BatchBounded
<1>3. Heading' = next /\ (loopPc' = "exited" => batch = <<>>)
  BY DEF Heading
<1>4. next = "exited" => stop
  BY DEF IInv, StopSeen, Heading
<1>5. next = "exited" => \A i \in 1..Len(ch) : ch[i] \notin beforeStop
  OBVIOUS
<1>6. StopSeen'
  BY <1>1, <1>3, <1>4, <1>5 DEF StopSeen
<1> QED BY <1>1, <1>2, <1>6, QuietIInv DEF IInv, TypeOK

LEMMA LoopStopsIInv ==
    ASSUME IInv, LoopStops
    PROVE  IInv'
<1> USE DEF LoopStops, history, shipHistory
<1>1. BatchBounded' /\ StopSeen'
  BY DEF IInv, BatchBounded, StopSeen, Heading
<1> QED BY <1>1, QuietIInv DEF IInv, TypeOK

-----------------------------------------------------------------------------
(* ship gives the batch away.  Its events are counted once, as sent or as  *)
(* failed, since none of them was shipped before.                          *)
LEMMA BatchCounted ==
    ASSUME IInv
    PROVE  /\ IsFiniteSet(acked)
           /\ Cardinality(acked \cup BatchEvents) = Cardinality(acked) + Len(batch)
           /\ BatchEvents \in SUBSET Events
<1>1. TypeOK /\ accepted = shipped \o batch \o ch
  BY DEF IInv, NothingLostInside
<1>2. /\ shipped \in Seq(Events) /\ batch \in Seq(Events) /\ ch \in Seq(Events)
      /\ acked \in SUBSET Events
  BY <1>1 DEF TypeOK
<1>3. /\ Len(accepted) = Len(shipped) + Len(batch) + Len(ch)
      /\ \A i \in 1..Len(shipped) : accepted[i] = shipped[i]
      /\ \A j \in 1..Len(batch) : accepted[Len(shipped) + j] = batch[j]
  BY <1>1, <1>2, RowItems
<1>4. Len(shipped) \in Nat /\ Len(batch) \in Nat /\ Len(ch) \in Nat
  BY <1>2
<1>5. \A i, j \in 1..Len(accepted) : accepted[i] = accepted[j] => i = j
  BY DEF IInv, AcceptedOnce
<1>6. \A i, j \in 1..Len(batch) : batch[i] = batch[j] => i = j
  <2> SUFFICES ASSUME NEW i \in 1..Len(batch), NEW j \in 1..Len(batch), batch[i] = batch[j]
               PROVE  i = j
    OBVIOUS
  <2>1. Len(shipped) + i \in 1..Len(accepted) /\ Len(shipped) + j \in 1..Len(accepted)
    BY <1>3, <1>4
  <2>2. Len(shipped) + i = Len(shipped) + j
    BY <1>3, <1>5, <2>1
  <2> QED BY <1>4, <2>2
<1>7. IsFiniteSet(BatchEvents) /\ Cardinality(BatchEvents) = Len(batch)
  BY <1>2, <1>6, ItemsCounted DEF BatchEvents
<1>8. acked \cap BatchEvents = {}
  <2> SUFFICES ASSUME NEW e \in acked, NEW j \in 1..Len(batch), e = batch[j]
               PROVE  FALSE
    BY DEF BatchEvents
  <2>1. PICK i \in 1..Len(shipped) : e = shipped[i]
    BY DEF IInv, AckedShipped
  <2>2. i \in 1..Len(accepted) /\ Len(shipped) + j \in 1..Len(accepted)
    BY <1>3, <1>4
  <2>3. i = Len(shipped) + j
    BY <1>3, <1>5, <2>1, <2>2
  <2> QED BY <1>4, <2>3
<1>9. IsFiniteSet(acked)
  BY <1>2, EmitterAssumption, FS_Subset
<1>10. Cardinality(acked \cup BatchEvents) = Cardinality(acked) + Len(batch)
  <2>1. /\ Cardinality(acked) \in Nat
        /\ Cardinality({}) = 0
    BY <1>9, FS_CardinalityType, FS_EmptySet
  <2>2. Cardinality(acked \cup BatchEvents)
          = Cardinality(acked) + Cardinality(BatchEvents) - Cardinality(acked \cap BatchEvents)
    BY <1>7, <1>9, FS_Union
  <2>3. Cardinality(acked \cap BatchEvents) = 0
    BY <1>8, <2>1
  <2> QED BY <1>4, <1>7, <2>1, <2>2, <2>3
<1>11. BatchEvents \in SUBSET Events
  BY <1>2 DEF BatchEvents
<1> QED BY <1>9, <1>10, <1>11

(* What the two ends of ship have in common. *)
LEMMA ShipDoneIInv ==
    ASSUME IInv, loopPc = "ship", ShipDone
    PROVE  /\ NothingLostInside' /\ AcceptedOnce' /\ BatchBounded' /\ StopSeen'
           /\ shipped' \in Seq(Events)
           /\ Len(shipped') = Len(shipped) + Len(batch)
           /\ \A i \in 1..Len(shipped) : shipped'[i] = shipped[i]
           /\ \A j \in 1..Len(batch) : shipped'[Len(shipped) + j] = batch[j]
<1> USE DEF ShipDone
<1>1. shipped \in Seq(Events) /\ batch \in Seq(Events) /\ ch \in Seq(Events)
  BY DEF IInv, TypeOK
<1>2. NothingLostInside'
  <2>1. (shipped \o batch) \o <<>> \o ch = shipped \o batch \o ch
    BY <1>1, RowShip
  <2> QED BY <2>1 DEF IInv, NothingLostInside
<1>3. AcceptedOnce'
  BY DEF IInv, AcceptedOnce
<1>4. BatchBounded'
  BY EmitterAssumption DEF BatchBounded
<1>5. StopSeen'
  BY DEF IInv, TypeOK, StopSeen, Heading
<1>6. /\ shipped' \in Seq(Events)
      /\ Len(shipped') = Len(shipped) + Len(batch)
      /\ \A i \in 1..Len(shipped) : shipped'[i] = shipped[i]
      /\ \A j \in 1..Len(batch) : shipped'[Len(shipped) + j] = batch[j]
  BY <1>1, Concatenated
<1> QED BY <1>2, <1>3, <1>4, <1>5, <1>6

LEMMA ShipSentIInv ==
    ASSUME IInv, ShipSent
    PROVE  IInv'
<1> USE DEF ShipSent
<1>1. /\ NothingLostInside' /\ AcceptedOnce' /\ BatchBounded' /\ StopSeen'
      /\ shipped' \in Seq(Events)
      /\ Len(shipped') = Len(shipped) + Len(batch)
      /\ \A i \in 1..Len(shipped) : shipped'[i] = shipped[i]
      /\ \A j \in 1..Len(batch) : shipped'[Len(shipped) + j] = batch[j]
  BY ShipDoneIInv
<1>2. Len(shipped) \in Nat /\ Len(batch) \in Nat
  BY DEF IInv, TypeOK
<1>3. TypeOK'
  BY <1>1, <1>2, BatchCounted DEF ShipDone, IInv, TypeOK
<1>4. StatsAddUp'
  <2>1. sent' = Cardinality(acked')
    BY BatchCounted DEF IInv, StatsAddUp
  <2>2. sent + failed = Len(shipped) /\ sent \in Nat /\ failed \in Nat
    BY DEF IInv, TypeOK, StatsAddUp
  <2>3. sent' = sent + Len(batch) /\ failed' = failed
    OBVIOUS
  <2>4. Len(shipped') = Len(shipped) + Len(batch)
    BY <1>1
  <2>5. sent' + failed' = Len(shipped')
    BY ONLY <1>2, <2>2, <2>3, <2>4
  <2> QED BY <2>1, <2>5 DEF ShipDone, IInv, StatsAddUp
<1>5. AckedShipped'
  <2> SUFFICES ASSUME NEW e \in acked' PROVE \E i \in 1..Len(shipped') : e = shipped'[i]
    BY DEF AckedShipped
  <2>1. CASE e \in acked
    BY <1>1, <1>2, <2>1 DEF IInv, AckedShipped
  <2>2. CASE e \in BatchEvents
    <3>1. PICK j \in 1..Len(batch) : e = batch[j]
      BY <2>2 DEF BatchEvents
    <3>2. Len(shipped) + j \in 1..Len(shipped')
      BY <1>1, <1>2
    <3> QED BY <1>1, <3>1, <3>2
  <2> QED BY <2>1, <2>2
<1> QED BY <1>1, <1>3, <1>4, <1>5 DEF IInv

LEMMA ShipFailsIInv ==
    ASSUME IInv, ShipFails
    PROVE  IInv'
<1> USE DEF ShipFails
<1>1. /\ NothingLostInside' /\ AcceptedOnce' /\ BatchBounded' /\ StopSeen'
      /\ shipped' \in Seq(Events)
      /\ Len(shipped') = Len(shipped) + Len(batch)
      /\ \A i \in 1..Len(shipped) : shipped'[i] = shipped[i]
  BY ShipDoneIInv
<1>2. /\ Len(shipped) \in Nat /\ Len(batch) \in Nat /\ Len(batch) <= BatchSize
      /\ fallback \in Nat /\ fbBytes \in Nat /\ failed \in Nat /\ sent \in Nat
  BY DEF IInv, TypeOK, BatchBounded
<1>3. /\ fallback' \in Nat /\ fbBytes' \in Nat
      /\ \/ UNCHANGED <<fallback, fbBytes>>
         \/ /\ fbBytes <= MaxFallback
            /\ fallback' = fallback + Len(batch)
            /\ \E written \in 0..Len(batch) : fbBytes' = fbBytes + written
  <2>1. CASE HasFallback /\ fbBytes <= MaxFallback
    BY <1>2, <2>1 DEF writeFallback, WriteLines
  <2>2. CASE ~(HasFallback /\ fbBytes <= MaxFallback)
    BY <1>2, <2>2 DEF writeFallback
  <2> QED BY <2>1, <2>2
<1>4. TypeOK'
  BY <1>1, <1>2, <1>3 DEF ShipDone, IInv, TypeOK
<1>5. StatsAddUp'
  <2>1. sent' + failed' = Len(shipped')
    <3>1. sent + failed = Len(shipped)
      BY DEF IInv, StatsAddUp
    <3> QED BY <1>1, <1>2, <3>1
  <2>2. /\ failed' = failed + Len(batch)
        /\ fallback <= failed /\ fbBytes <= fallback /\ fbBytes <= MaxFallback + BatchSize
    BY DEF IInv, StatsAddUp
  <2>3. MaxFallback \in Nat /\ BatchSize \in Nat
    BY EmitterAssumption
  <2>4. fallback' <= failed' /\ fbBytes' <= fallback' /\ fbBytes' <= MaxFallback + BatchSize
    <3>1. CASE UNCHANGED <<fallback, fbBytes>>
      BY ONLY <1>2, <2>2, <2>3, <3>1
    <3>2. ASSUME fbBytes <= MaxFallback, fallback' = fallback + Len(batch),
                 NEW written \in 0..Len(batch), fbBytes' = fbBytes + written
          PROVE  fallback' <= failed' /\ fbBytes' <= fallback'
                 /\ fbBytes' <= MaxFallback + BatchSize
      BY ONLY <1>2, <2>2, <2>3, <3>2
    <3> QED BY ONLY <1>3, <3>1, <3>2
  <2> QED BY <2>1, <2>4 DEF ShipDone, IInv, StatsAddUp
<1>6. AckedShipped'
  BY <1>1, <1>2 DEF IInv, AckedShipped
<1> QED BY <1>1, <1>4, <1>5, <1>6 DEF IInv

-----------------------------------------------------------------------------
(* Every step preserves the inductive invariant. *)
LEMMA StepIInv == IInv /\ [Next]_vars => IInv'
<1> SUFFICES ASSUME IInv, [Next]_vars PROVE IInv'
  OBVIOUS
<1>1. ASSUME NEW e \in Events, Emit(e) PROVE IInv'
  BY <1>1, EnqueueIInv, DropIInv, EmitRetriesIInv
  DEF Emit, EmitAccepted, EmitDropped, RetryAccepted, RetryTimesOut
<1>2. CASE LoopReceives \/ DrainReceives
  BY <1>2, ReceiveIInv DEF LoopReceives, DrainReceives
<1>3. CASE LoopTicks \/ DrainEnds
  BY <1>3, FlushIInv DEF LoopTicks, DrainEnds
<1>4. CASE LoopStops
  BY <1>4, LoopStopsIInv
<1>5. CASE Ship
  <2>1. CASE ShipRetries
    <3>1. BatchBounded' /\ StopSeen'
      BY <2>1 DEF ShipRetries, IInv, BatchBounded, StopSeen, Heading
    <3> QED BY <2>1, <3>1, QuietIInv DEF ShipRetries, IInv, TypeOK
  <2> QED BY <1>5, <2>1, ShipSentIInv, ShipFailsIInv DEF Ship
<1>6. CASE LatePost
  <2>1. BatchBounded' /\ StopSeen'
    BY <1>6 DEF LatePost, loopVars, IInv, BatchBounded, StopSeen, Heading
  <2> QED BY <1>6, <2>1, QuietIInv DEF LatePost, loopVars, IInv, TypeOK
<1>7. CASE Stop
  <2>1. BatchBounded' /\ StopSeen'
    BY <1>7 DEF Stop, loopVars, history, IInv, BatchBounded, StopSeen, Heading
  <2> QED BY <1>7, <2>1, QuietIInv DEF Stop, loopVars, history, shipHistory, IInv, TypeOK
<1>8. CASE UNCHANGED vars
  <2>1. BatchBounded' /\ StopSeen'
    BY <1>8 DEF vars, loopVars, history, IInv, BatchBounded, StopSeen, Heading
  <2> QED BY <1>8, <2>1, QuietIInv DEF vars, loopVars, history, shipHistory, IInv, TypeOK
<1> QED BY <1>1, <1>2, <1>3, <1>4, <1>5, <1>6, <1>7, <1>8 DEF Next, Loop

(* The invariant holds in every reachable state. *)
THEOREM Invariance == Spec => []IInv
<1>1. Init => IInv
  BY InitIInv
<1>2. IInv /\ [Next]_vars => IInv'
  BY StepIInv
<1> QED BY <1>1, <1>2, PTL DEF Spec

(* The accepted events are those shipped, those in the batch and those in  *)
(* the channel, in order (emitter.go, Emit, loop and ship).                *)
THEOREM NothingIsLostInside == Spec => []NothingLostInside
<1>1. IInv => NothingLostInside
  BY DEF IInv
<1> QED BY <1>1, Invariance, PTL

(* Stats accounts for every event, and a process writes at most a batch    *)
(* more than the limit to the fallback file (emitter.go, Stats, ship and   *)
(* writeFallback).                                                         *)
THEOREM TheStatsAddUp == Spec => []StatsAddUp
<1>1. IInv => StatsAddUp
  BY DEF IInv
<1> QED BY <1>1, Invariance, PTL

(* When the loop has returned, no event from before Stop is left in the    *)
(* channel or in the batch (emitter.go, loop and Stop).                    *)
THEOREM TheStopFlushes == Spec => []StopFlushes
<1>1. IInv => StopFlushes
  BY DEF IInv, StopSeen, Heading, StopFlushes
<1> QED BY <1>1, Invariance, PTL

-----------------------------------------------------------------------------
(* What reaches the collector.  A batch is posted at most twice, and the   *)
(* posts still under way are counted with those in the collector's file.   *)
ShippedEvents == {shipped[i] : i \in 1..Len(shipped)}

UnderWay(e, n) == \E post \in transit : post.attempt = n /\ e \in post.events

Posted(e) == filed[e] + (IF UnderWay(e, 0) THEN 1 ELSE 0) + (IF UnderWay(e, 1) THEN 1 ELSE 0)

Allowed(e) == IF e \in ShippedEvents THEN 2 ELSE IF e \in BatchEvents THEN attempt ELSE 0

PostsDiffer ==
    \A p, q \in transit : p.attempt = q.attempt /\ p # q => p.events \cap q.events = {}

EarlierPosts ==
    \A p \in transit : \A e \in p.events : e \in BatchEvents => p.attempt < attempt

PostTypes ==
    /\ filed \in [Events -> Nat]
    /\ transit \in SUBSET [events : SUBSET Events, attempt : {0, 1}]
    /\ attempt \in {0, 1}
    /\ loopPc # "ship" => attempt = 0

(* What was acknowledged has been received, and what was received has been *)
(* shipped or is about to be.                                              *)
Received == acked \subseteq received /\ received \subseteq ShippedEvents \cup BatchEvents

(* The inductive invariant of delivery. *)
DInv ==
    /\ PostTypes
    /\ PostsDiffer
    /\ EarlierPosts
    /\ \A e \in Events : Posted(e) <= Allowed(e)
    /\ Received

(* The events of the batch have not been shipped before, in this state and *)
(* in the next.                                                            *)
LEMMA BatchFresh ==
    ASSUME IInv
    PROVE  BatchEvents \cap ShippedEvents = {}
<1>1. /\ shipped \in Seq(Events) /\ batch \in Seq(Events) /\ ch \in Seq(Events)
      /\ accepted = shipped \o batch \o ch
  BY DEF IInv, TypeOK, NothingLostInside
<1>2. /\ Len(accepted) = Len(shipped) + Len(batch) + Len(ch)
      /\ \A i \in 1..Len(shipped) : accepted[i] = shipped[i]
      /\ \A j \in 1..Len(batch) : accepted[Len(shipped) + j] = batch[j]
  BY ONLY <1>1, RowItems
<1>3. Len(shipped) \in Nat /\ Len(batch) \in Nat /\ Len(ch) \in Nat
  BY ONLY <1>1
<1>4. ASSUME NEW i \in 1..Len(shipped), NEW j \in 1..Len(batch)
      PROVE  shipped[i] # batch[j]
  <2>1. i \in 1..Len(accepted) /\ Len(shipped) + j \in 1..Len(accepted)
        /\ i # Len(shipped) + j
    BY ONLY <1>2, <1>3, i \in 1..Len(shipped), j \in 1..Len(batch)
  <2>2. accepted[i] # accepted[Len(shipped) + j]
    BY <2>1 DEF IInv, AcceptedOnce
  <2> QED BY <1>2, <2>2
<1> QED BY <1>4 DEF BatchEvents, ShippedEvents

LEMMA BatchFreshNext ==
    ASSUME IInv'
    PROVE  BatchEvents' \cap ShippedEvents' = {}
<1>1. /\ shipped' \in Seq(Events) /\ batch' \in Seq(Events) /\ ch' \in Seq(Events)
      /\ accepted' = shipped' \o batch' \o ch'
  BY DEF IInv, TypeOK, NothingLostInside
<1>2. /\ Len(accepted') = Len(shipped') + Len(batch') + Len(ch')
      /\ \A i \in 1..Len(shipped') : accepted'[i] = shipped'[i]
      /\ \A j \in 1..Len(batch') : accepted'[Len(shipped') + j] = batch'[j]
  BY ONLY <1>1, RowItems
<1>3. Len(shipped') \in Nat /\ Len(batch') \in Nat /\ Len(ch') \in Nat
  BY ONLY <1>1
<1>4. ASSUME NEW i \in 1..Len(shipped'), NEW j \in 1..Len(batch')
      PROVE  shipped'[i] # batch'[j]
  <2>1. i \in 1..Len(accepted') /\ Len(shipped') + j \in 1..Len(accepted')
        /\ i # Len(shipped') + j
    BY ONLY <1>2, <1>3, i \in 1..Len(shipped'), j \in 1..Len(batch')
  <2>2. accepted'[i] # accepted'[Len(shipped') + j]
    BY <2>1 DEF IInv, AcceptedOnce
  <2> QED BY <1>2, <2>2
<1> QED BY <1>4 DEF BatchEvents, ShippedEvents

LEMMA InitDInv == Init => DInv
<1> SUFFICES ASSUME Init PROVE DInv
  OBVIOUS
<1> USE DEF Init
<1>1. PostTypes /\ PostsDiffer /\ EarlierPosts
  BY DEF PostTypes, PostsDiffer, EarlierPosts
<1>2. ASSUME NEW e \in Events PROVE Posted(e) <= Allowed(e)
  BY DEF Posted, UnderWay, Allowed
<1>3. Received
  BY DEF Received
<1> QED BY <1>1, <1>2, <1>3 DEF DInv

(* Steps that neither post nor ship. *)
LEMMA NoPostDInv ==
    ASSUME DInv, UNCHANGED <<received, filed, transit, attempt, shipped, batch, acked>>,
           loopPc' # "ship" => loopPc # "ship"
    PROVE  DInv'
<1>1. PostTypes' /\ PostsDiffer'
  BY DEF DInv, PostTypes, PostsDiffer
<1>2. BatchEvents' = BatchEvents /\ ShippedEvents' = ShippedEvents
  BY DEF BatchEvents, ShippedEvents
<1>3. EarlierPosts'
  BY <1>2 DEF DInv, EarlierPosts
<1>4. ASSUME NEW e \in Events PROVE Posted(e)' <= Allowed(e)'
  <2>1. Posted(e)' = Posted(e) /\ Allowed(e)' = Allowed(e)
    BY <1>2 DEF Posted, UnderWay, Allowed
  <2> QED BY <2>1 DEF DInv
<1>5. Received'
  BY <1>2 DEF DInv, Received
<1> QED BY <1>1, <1>3, <1>4, <1>5 DEF DInv

(* An event joins the batch: it was never posted. *)
LEMMA ReceiveDInv ==
    ASSUME IInv, IInv', DInv, NEW here, loopPc # "ship", Receive(here)
    PROVE  DInv'
<1>1. /\ UNCHANGED <<received, filed, transit, attempt, shipped, acked>>
      /\ batch' = Append(batch, Head(ch))
      /\ batch \in Seq(Events) /\ Head(ch) \in Events
  BY FirstAndRest DEF Receive, history, shipHistory, IInv, TypeOK
<1>2. attempt = 0
  BY DEF DInv, PostTypes
<1>3. BatchEvents' = BatchEvents \cup {Head(ch)}
  <2>1. /\ Len(batch') = Len(batch) + 1 /\ Len(batch) \in Nat
        /\ \A i \in 1..Len(batch) : batch'[i] = batch[i]
        /\ batch'[Len(batch) + 1] = Head(ch)
    BY <1>1, Appended
  <2> QED BY <2>1 DEF BatchEvents
<1>4. ShippedEvents' = ShippedEvents
  BY <1>1 DEF ShippedEvents
<1>5. ASSUME NEW e \in Events PROVE Posted(e)' <= Allowed(e)'
  <2>1. Posted(e)' = Posted(e)
    BY <1>1 DEF Posted, UnderWay
  <2>2. Allowed(e)' = Allowed(e)
    BY <1>1, <1>2, <1>3, <1>4 DEF Allowed
  <2> QED BY <2>1, <2>2 DEF DInv
<1>6. PostTypes' /\ PostsDiffer'
  BY <1>1, <1>2 DEF DInv, PostTypes, PostsDiffer
<1>7. EarlierPosts'
  <2> SUFFICES ASSUME NEW p \in transit, NEW e \in p.events, e \in BatchEvents'
               PROVE  FALSE
    BY <1>1 DEF EarlierPosts
  <2>1. p \in [events : SUBSET Events, attempt : {0, 1}]
    BY DEF DInv, PostTypes
  <2>2. e \in Events /\ p.attempt \in {0, 1}
    BY <2>1
  <2>3. e \notin ShippedEvents
    BY <1>4, BatchFreshNext
  <2>4. Allowed(e) = 0
    BY <1>2, <2>3 DEF Allowed
  <2>5. UnderWay(e, 0) \/ UnderWay(e, 1)
    BY <2>2 DEF UnderWay
  <2>6. Posted(e) >= 1
    BY <2>2, <2>5 DEF Posted, DInv, PostTypes
  <2>7. Posted(e) \in Nat
    BY <2>2 DEF Posted, DInv, PostTypes
  <2> QED BY <2>2, <2>4, <2>6, <2>7 DEF DInv
<1>8. Received'
  BY <1>1, <1>3, <1>4 DEF DInv, Received
<1> QED BY <1>5, <1>6, <1>7, <1>8 DEF DInv

(* A post that arrives adds at most one line for each of its events.       *)
LEMMA PersistedLines ==
    ASSUME filed \in [Events -> Nat], NEW events, Persist(events)
    PROVE  /\ filed' \in [Events -> Nat]
           /\ \A e \in Events : filed'[e] <= filed[e] + (IF e \in events THEN 1 ELSE 0)
BY DEF Persist

(* One more post of the batch: each of its events is posted once more, and *)
(* no other event is.                                                      *)
LEMMA AnotherPost ==
    ASSUME IInv, DInv, Unacknowledged \/ (Persist(BatchEvents) /\ UNCHANGED transit)
    PROVE  /\ filed' \in [Events -> Nat]
           /\ transit' \in SUBSET [events : SUBSET Events, attempt : {0, 1}]
           /\ received \subseteq received' /\ received' \subseteq received \cup BatchEvents
           /\ PostsDiffer'
           /\ \A p \in transit' : \A e \in p.events : e \in BatchEvents => p.attempt <= attempt
           /\ \A e \in Events :
                 Posted(e)' <= Posted(e) + (IF e \in BatchEvents THEN 1 ELSE 0)
<1>1. /\ filed \in [Events -> Nat] /\ attempt \in {0, 1}
      /\ transit \in SUBSET [events : SUBSET Events, attempt : {0, 1}]
  BY DEF DInv, PostTypes
<1>2. BatchEvents \in SUBSET Events
  BY BatchCounted
<1>3. CASE Persist(BatchEvents) /\ UNCHANGED transit
  <2>1. /\ filed' \in [Events -> Nat]
        /\ \A e \in Events :
             filed'[e] <= filed[e] + (IF e \in BatchEvents THEN 1 ELSE 0)
        /\ received' = received \cup BatchEvents
    BY <1>1, <1>3, PersistedLines DEF Persist
  <2>2. ASSUME NEW e \in Events
        PROVE  Posted(e)' <= Posted(e) + (IF e \in BatchEvents THEN 1 ELSE 0)
    <3>1. UnderWay(e, 0)' = UnderWay(e, 0) /\ UnderWay(e, 1)' = UnderWay(e, 1)
      BY <1>3 DEF UnderWay
    <3> QED BY <1>1, <2>1, <3>1 DEF Posted
  <2>3. PostsDiffer' /\ EarlierPosts
    BY <1>3 DEF DInv, PostsDiffer
  <2>4. \A p \in transit' : \A e \in p.events : e \in BatchEvents => p.attempt <= attempt
    BY <1>1, <1>3, <2>3 DEF EarlierPosts
  <2> QED BY <1>1, <1>3, <2>1, <2>2, <2>3, <2>4
<1>4. CASE /\ transit' = transit \cup {[events |-> BatchEvents, attempt |-> attempt]}
           /\ UNCHANGED <<received, filed>>
  <2> DEFINE post == [events |-> BatchEvents, attempt |-> attempt]
  <2>1. /\ post \in [events : SUBSET Events, attempt : {0, 1}]
        /\ post.events = BatchEvents /\ post.attempt = attempt
        /\ transit' = transit \cup {post}
    BY <1>1, <1>2, <1>4
  <2> HIDE DEF post
  <2>2. \A p \in transit : \A e \in p.events : e \in BatchEvents => p.attempt < attempt
    BY DEF DInv, EarlierPosts
  <2>3. \A p \in transit : p.attempt = attempt => p.events \cap BatchEvents = {}
    BY <1>1, <2>2
  <2>4. PostsDiffer'
    BY <2>1, <2>3 DEF DInv, PostsDiffer
  <2>5. \A p \in transit' : \A e \in p.events : e \in BatchEvents => p.attempt <= attempt
    BY <1>1, <2>1, <2>2
  <2>6. ASSUME NEW e \in Events
        PROVE  Posted(e)' <= Posted(e) + (IF e \in BatchEvents THEN 1 ELSE 0)
    <3>1. \A n \in {0, 1} :
            UnderWay(e, n)' <=> UnderWay(e, n) \/ (n = attempt /\ e \in BatchEvents)
      BY <2>1 DEF UnderWay
    <3>2. filed'[e] = filed[e] /\ filed[e] \in Nat
      BY <1>1, <1>4
    <3>3. /\ 0 = attempt \/ 1 = attempt
          /\ ~(0 = attempt /\ 1 = attempt)
      BY <1>1
    <3> QED BY <3>1, <3>2, <3>3 DEF Posted
  <2> QED BY <1>1, <1>4, <2>1, <2>4, <2>5, <2>6
<1>5. CASE UNCHANGED <<received, filed, transit>>
  <2>1. PostsDiffer' /\ EarlierPosts
    BY <1>5 DEF DInv, PostsDiffer
  <2>2. \A p \in transit' : \A e \in p.events : e \in BatchEvents => p.attempt <= attempt
    BY <1>1, <1>5, <2>1 DEF EarlierPosts
  <2>3. ASSUME NEW e \in Events
        PROVE  Posted(e)' <= Posted(e) + (IF e \in BatchEvents THEN 1 ELSE 0)
    BY <1>1, <1>5 DEF Posted, UnderWay
  <2> QED BY <1>1, <1>5, <2>1, <2>2, <2>3
<1> QED BY <1>3, <1>4, <1>5 DEF Unacknowledged

LEMMA ShipRetriesDInv ==
    ASSUME IInv, DInv, ShipRetries
    PROVE  DInv'
<1>1. /\ filed' \in [Events -> Nat]
      /\ transit' \in SUBSET [events : SUBSET Events, attempt : {0, 1}]
      /\ received \subseteq received' /\ received' \subseteq received \cup BatchEvents
      /\ PostsDiffer'
      /\ \A p \in transit' : \A e \in p.events : e \in BatchEvents => p.attempt <= attempt
      /\ \A e \in Events : Posted(e)' <= Posted(e) + (IF e \in BatchEvents THEN 1 ELSE 0)
  BY AnotherPost DEF ShipRetries
<1>2. attempt = 0 /\ attempt' = 1 /\ loopPc' = "ship" /\ UNCHANGED <<shipped, batch, acked>>
  BY DEF ShipRetries, LastAttempt, DInv, PostTypes
<1>3. BatchEvents' = BatchEvents /\ ShippedEvents' = ShippedEvents
  BY <1>2 DEF BatchEvents, ShippedEvents
<1>4. PostTypes'
  BY <1>1, <1>2 DEF PostTypes
<1>5. EarlierPosts'
  <2>1. \A p \in transit' : p.attempt \in {0, 1}
    BY <1>1
  <2> QED BY <1>1, <1>2, <1>3, <2>1 DEF EarlierPosts
<1>6. ASSUME NEW e \in Events PROVE Posted(e)' <= Allowed(e)'
  <2>1. Posted(e) \in Nat /\ Posted(e)' \in Nat
    BY <1>1 DEF Posted, DInv, PostTypes
  <2>2. Posted(e) <= Allowed(e)
    BY DEF DInv
  <2>3. e \in BatchEvents => e \notin ShippedEvents
    BY BatchFresh
  <2>4. Posted(e)' <= Posted(e) + (IF e \in BatchEvents THEN 1 ELSE 0)
    BY <1>1
  <2> QED BY <1>2, <1>3, <2>1, <2>2, <2>3, <2>4 DEF Allowed
<1>7. Received'
  BY <1>1, <1>2, <1>3 DEF DInv, Received
<1> QED BY <1>1, <1>4, <1>5, <1>6, <1>7 DEF DInv

(* The batch has been posted for the last time. *)
LEMMA ShipEndsDInv ==
    ASSUME IInv, DInv, ShipSent \/ ShipFails
    PROVE  DInv'
<1>1. /\ filed' \in [Events -> Nat]
      /\ transit' \in SUBSET [events : SUBSET Events, attempt : {0, 1}]
      /\ received \subseteq received' /\ received' \subseteq received \cup BatchEvents
      /\ PostsDiffer'
      /\ \A e \in Events : Posted(e)' <= Posted(e) + (IF e \in BatchEvents THEN 1 ELSE 0)
  BY AnotherPost DEF ShipSent, ShipFails
<1>2. ShipDone /\ loopPc = "ship"
  BY DEF ShipSent, ShipFails
<1>3. attempt' = 0 /\ batch' = <<>> /\ BatchEvents' = {}
  BY <1>2 DEF ShipDone, BatchEvents
<1>4. ShippedEvents' = ShippedEvents \cup BatchEvents
  <2>1. /\ Len(shipped') = Len(shipped) + Len(batch)
        /\ \A i \in 1..Len(shipped) : shipped'[i] = shipped[i]
        /\ \A j \in 1..Len(batch) : shipped'[Len(shipped) + j] = batch[j]
    BY <1>2, ShipDoneIInv
  <2>2. Len(shipped) \in Nat /\ Len(batch) \in Nat
    BY DEF IInv, TypeOK
  <2>3. ASSUME NEW i \in 1..Len(shipped') PROVE shipped'[i] \in ShippedEvents \cup BatchEvents
    <3>1. CASE i \in 1..Len(shipped)
      BY <2>1, <3>1 DEF ShippedEvents
    <3>2. CASE i \notin 1..Len(shipped)
      <4>1. i - Len(shipped) \in 1..Len(batch) /\ Len(shipped) + (i - Len(shipped)) = i
        BY <2>1, <2>2, <3>2
      <4>2. shipped'[i] = batch[i - Len(shipped)]
        BY <2>1, <4>1
      <4> QED BY <4>1, <4>2 DEF BatchEvents
    <3> QED BY <3>1, <3>2
  <2>4. ASSUME NEW i \in 1..Len(shipped) PROVE shipped[i] \in ShippedEvents'
    <3>1. i \in 1..Len(shipped') /\ shipped'[i] = shipped[i]
      BY <2>1, <2>2
    <3> QED BY <3>1 DEF ShippedEvents
  <2>5. ASSUME NEW j \in 1..Len(batch) PROVE batch[j] \in ShippedEvents'
    <3>1. Len(shipped) + j \in 1..Len(shipped') /\ shipped'[Len(shipped) + j] = batch[j]
      BY <2>1, <2>2
    <3> QED BY <3>1 DEF ShippedEvents
  <2>6. ShippedEvents' \subseteq ShippedEvents \cup BatchEvents
    BY <2>3 DEF ShippedEvents
  <2>7. ShippedEvents \subseteq ShippedEvents' /\ BatchEvents \subseteq ShippedEvents'
    BY <2>4, <2>5 DEF ShippedEvents, BatchEvents
  <2> QED BY <2>6, <2>7
<1>5. PostTypes' /\ EarlierPosts'
  BY <1>1, <1>3 DEF PostTypes, EarlierPosts
<1>6. ASSUME NEW e \in Events PROVE Posted(e)' <= Allowed(e)'
  <2>1. Posted(e) \in Nat /\ Posted(e)' \in Nat /\ attempt \in {0, 1}
    BY <1>1 DEF Posted, DInv, PostTypes
  <2>2. Posted(e) <= Allowed(e)
    BY DEF DInv
  <2>3. e \in BatchEvents => e \notin ShippedEvents
    BY BatchFresh
  <2>4. Posted(e)' <= Posted(e) + (IF e \in BatchEvents THEN 1 ELSE 0)
    BY <1>1
  <2> QED BY <1>3, <1>4, <2>1, <2>2, <2>3, <2>4 DEF Allowed
<1>7. Received'
  <2>1. acked' \subseteq received'
    BY <1>1 DEF ShipSent, ShipFails, Persist, DInv, Received
  <2>2. received' \subseteq ShippedEvents' \cup BatchEvents'
    BY <1>1, <1>3, <1>4 DEF DInv, Received
  <2> QED BY <2>1, <2>2 DEF Received
<1> QED BY <1>1, <1>5, <1>6, <1>7 DEF DInv

(* A post that was under way arrives. *)
LEMMA LatePostDInv ==
    ASSUME IInv, DInv, LatePost
    PROVE  DInv'
<1>1. PICK post \in transit : Persist(post.events) /\ transit' = transit \ {post}
  BY DEF LatePost
<1>2. UNCHANGED <<loopPc, attempt, batch, shipped, acked>>
  BY DEF LatePost, loopVars
<1>3. /\ filed \in [Events -> Nat] /\ attempt \in {0, 1}
      /\ transit \in SUBSET [events : SUBSET Events, attempt : {0, 1}]
  BY DEF DInv, PostTypes
<1>4. /\ filed' \in [Events -> Nat]
      /\ \A e \in Events : filed'[e] <= filed[e] + (IF e \in post.events THEN 1 ELSE 0)
      /\ received' = received \cup post.events
  BY <1>1, <1>3, PersistedLines DEF Persist
<1>5. BatchEvents' = BatchEvents /\ ShippedEvents' = ShippedEvents
  BY <1>2 DEF BatchEvents, ShippedEvents
<1>6. PostTypes' /\ PostsDiffer' /\ EarlierPosts'
  BY <1>1, <1>2, <1>4, <1>5 DEF DInv, PostTypes, PostsDiffer, EarlierPosts
<1>7. ASSUME NEW e \in Events PROVE Posted(e)' <= Allowed(e)'
  <2>1. Allowed(e)' = Allowed(e)
    BY <1>2, <1>5 DEF Allowed
  <2>2. \A n \in {0, 1} : UnderWay(e, n)' => UnderWay(e, n)
    BY <1>1 DEF UnderWay
  <2>3. ASSUME e \in post.events
        PROVE  UnderWay(e, post.attempt) /\ ~UnderWay(e, post.attempt)'
    BY <1>1, <2>3 DEF UnderWay, DInv, PostsDiffer
  <2>4. post.attempt = 0 \/ post.attempt = 1
    BY <1>3
  <2>5. Posted(e)' <= Posted(e)
    <3>1. /\ filed[e] \in Nat /\ filed'[e] \in Nat
          /\ filed'[e] <= filed[e] + (IF e \in post.events THEN 1 ELSE 0)
      BY <1>3, <1>4
    <3>2. e \in post.events => \/ UnderWay(e, 0) /\ ~UnderWay(e, 0)'
                               \/ UnderWay(e, 1) /\ ~UnderWay(e, 1)'
      BY <2>3, <2>4
    <3> QED BY <2>2, <3>1, <3>2 DEF Posted
  <2>6. Posted(e) \in Nat /\ Posted(e)' \in Nat /\ Allowed(e) \in Nat
    BY <1>3, <1>4 DEF Posted, Allowed
  <2> QED BY <2>1, <2>5, <2>6 DEF DInv
<1>8. Received'
  <2>1. post.events \subseteq ShippedEvents \cup BatchEvents
    <3> SUFFICES ASSUME NEW e \in post.events PROVE e \in ShippedEvents \cup BatchEvents
      OBVIOUS
    <3>1. e \in Events /\ (post.attempt = 0 \/ post.attempt = 1)
      BY <1>3
    <3>2. UnderWay(e, 0) \/ UnderWay(e, 1)
      BY <3>1 DEF UnderWay
    <3>3. filed[e] \in Nat /\ Posted(e) \in Nat /\ Posted(e) >= 1
      BY <1>3, <3>1, <3>2 DEF Posted
    <3>4. Posted(e) <= Allowed(e)
      BY <3>1 DEF DInv
    <3> QED BY <3>3, <3>4 DEF Allowed
  <2> QED BY <1>2, <1>4, <1>5, <2>1 DEF DInv, Received
<1> QED BY <1>6, <1>7, <1>8 DEF DInv

LEMMA StepDInv == IInv /\ IInv' /\ DInv /\ [Next]_vars => DInv'
<1> SUFFICES ASSUME IInv, IInv', DInv, [Next]_vars PROVE DInv'
  OBVIOUS
<1>1. ASSUME NEW e \in Events, Emit(e) PROVE DInv'
  BY <1>1, NoPostDInv DEF Emit, EmitAccepted, EmitDropped, EmitRetries, RetryAccepted,
     RetryTimesOut, Enqueue, Drop, loopVars, history, shipHistory
<1>2. CASE LoopReceives \/ DrainReceives
  BY <1>2, ReceiveDInv DEF LoopReceives, DrainReceives
<1>3. CASE LoopTicks \/ DrainEnds \/ LoopStops
  BY <1>3, NoPostDInv DEF LoopTicks, DrainEnds, LoopStops, Flush, history, shipHistory
<1>4. CASE Ship
  BY <1>4, ShipRetriesDInv, ShipEndsDInv DEF Ship
<1>5. CASE LatePost
  BY <1>5, LatePostDInv
<1>6. CASE Stop \/ UNCHANGED vars
  BY <1>6, NoPostDInv DEF Stop, vars, loopVars, history, shipHistory
<1> QED BY <1>1, <1>2, <1>3, <1>4, <1>5, <1>6 DEF Next, Loop

(* An event counted as sent was received by the collector, no event is in  *)
(* its file more than twice, and one that was not accepted never reaches   *)
(* it (emitter.go, ship: two attempts, late arrivals included).            *)
THEOREM TheDeliveryIsAtMostTwice == Spec => []DeliveredAtMostTwice
<1>1. Init => DInv
  BY InitDInv
<1>2. IInv /\ IInv' /\ DInv /\ [Next]_vars => DInv'
  BY StepDInv
<1>3. IInv /\ DInv => DeliveredAtMostTwice
  <2> SUFFICES ASSUME IInv, DInv, NEW e \in Events
               PROVE  /\ acked \subseteq received
                      /\ filed[e] <= 2
                      /\ emitPc[e] # "accepted" => e \notin received /\ filed[e] = 0
    BY DEF DeliveredAtMostTwice, DInv, Received
  <2>1. filed[e] \in Nat /\ attempt \in {0, 1}
    BY DEF DInv, PostTypes
  <2>2. filed[e] <= Allowed(e)
    BY <2>1 DEF DInv, Posted, Allowed
  <2>3. e \in ShippedEvents \cup BatchEvents => emitPc[e] = "accepted"
    <3>1. /\ shipped \in Seq(Events) /\ batch \in Seq(Events) /\ ch \in Seq(Events)
          /\ accepted = shipped \o batch \o ch
      BY DEF IInv, TypeOK, NothingLostInside
    <3>2. Len(shipped) \in Nat /\ Len(batch) \in Nat /\ Len(ch) \in Nat
      BY <3>1
    <3>3. /\ Len(accepted) = Len(shipped) + Len(batch) + Len(ch)
          /\ \A i \in 1..Len(shipped) : accepted[i] = shipped[i]
          /\ \A j \in 1..Len(batch) : accepted[Len(shipped) + j] = batch[j]
      BY ONLY <3>1, RowItems
    <3>4. \A i \in 1..Len(accepted) : emitPc[accepted[i]] = "accepted"
      BY DEF IInv, AcceptedOnce
    <3>5. ASSUME NEW i \in 1..Len(shipped) PROVE emitPc[shipped[i]] = "accepted"
      <4>1. i \in 1..Len(accepted)
        BY <3>2, <3>3
      <4> QED BY <3>3, <3>4, <4>1
    <3>6. ASSUME NEW j \in 1..Len(batch) PROVE emitPc[batch[j]] = "accepted"
      <4>1. Len(shipped) + j \in 1..Len(accepted)
        BY <3>2, <3>3
      <4> QED BY <3>3, <3>4, <4>1
    <3> QED BY <3>5, <3>6 DEF ShippedEvents, BatchEvents
  <2>4. filed[e] <= 2 /\ (e \notin ShippedEvents \cup BatchEvents => filed[e] = 0)
    BY <2>1, <2>2 DEF Allowed
  <2> QED BY <2>3, <2>4 DEF DInv, Received
<1> QED BY <1>1, <1>2, <1>3, Invariance, PTL DEF Spec
=============================================================================
