-------------------------- MODULE CachePlaneProofs --------------------------
(***************************************************************************)
(* The cache index under either provider, for every size of the index and  *)
(* of the directory, any number of observers, batches, losses and restarts *)
(* of vLLM: directory and lookup agree, the oldest entry is the one that   *)
(* is evicted, a restart is forgotten, and an index that has counted       *)
(* nothing amiss holds what vLLM holds.                                    *)
(***************************************************************************)
EXTENDS CachePlane, Integers, FiniteSetTheorems, TLAPS

-----------------------------------------------------------------------------
(* Sequences. *)

LEMMA EmptySequence ==
    ASSUME NEW T
    PROVE  /\ <<>> \in Seq(T) /\ Len(<<>>) = 0
           /\ \A q \in Seq(T) : q # <<>> => Len(q) \in Nat \ {0}
OBVIOUS

LEMMA LengthOf ==
    ASSUME NEW T, NEW q \in Seq(T)
    PROVE  Len(q) \in Nat /\ q \in [1..Len(q) -> T] /\ DOMAIN q = 1..Len(q)
OBVIOUS

LEMMA Appended ==
    ASSUME NEW T, NEW q \in Seq(T), NEW v \in T
    PROVE  /\ Append(q, v) \in Seq(T) /\ Append(q, v) # <<>>
           /\ Len(Append(q, v)) = Len(q) + 1
           /\ \A j \in 1..Len(q) : Append(q, v)[j] = q[j]
           /\ Append(q, v)[Len(q) + 1] = v
OBVIOUS

-----------------------------------------------------------------------------
(* The invariant of the index and its providers. *)

Entry == [MatchedTokens : Nat \ {0}, Present : BOOLEAN, LastSeq : Int, UpdatedAt : Nat]

\* The index.  What has never been updated is empty.
IndexOK ==
    /\ IsFiniteSet(DOMAIN entries)
    /\ Cardinality(DOMAIN entries) <= MaxEntries
    /\ entries \in [DOMAIN entries -> Entry]
    /\ lastUpdate \in Nat /\ now \in Nat /\ lastUpdate <= now /\ now > 0
    /\ lastUpdate = 0 => DOMAIN entries = {}
    /\ sequenceGaps \in Nat /\ eventsDropped \in Nat

Drawn == [seq : Nat \ {0}, key : Keys, tokens : Nat \ {0}]

ExplicitOK ==
    /\ seq \in Nat
    /\ observe \in [Observers -> {Nothing} \cup Drawn]
    /\ storedAfter \in [Keys -> Nat]

FeedOK ==
    /\ published \in Seq(Batches)
    /\ earlier \in Nat /\ next \in Nat /\ batch \in Nat

\* What the health check and the feed loop know of the restarts of vLLM: when
\* the last check succeeded, or the loop saw one that did, none was missed.
RestartOK ==
    /\ runtimeUp \in BOOLEAN /\ healthy \in BOOLEAN /\ lastUp \in BOOLEAN
    /\ restarts \in Nat /\ checked \in Nat /\ caughtUp \in Nat
    /\ caughtUp <= restarts /\ checked <= restarts
    /\ healthy => checked = restarts
    /\ lastUp => caughtUp = restarts

\* Not only what is published: every entry was stored after the last restart
\* the feed loop has caught up with.
EntriesRecent ==
    mode = "explicit" =>
        \A k \in DOMAIN entries : k \in Keys /\ storedAfter[k] >= caughtUp

SeqOK == mode = "explicit" => applied \subseteq Nat /\ lastSeq \in Nat /\ haveSeq \in BOOLEAN

(* The inductive invariant. *)
CInv ==
    /\ IndexOK
    /\ ExplicitOK
    /\ FeedOK
    /\ RestartOK
    /\ EntriesRecent
    /\ SeqOK
    /\ LastSeqIsNewest

-----------------------------------------------------------------------------
(* The operations of the index. *)

(* An entry goes, and the others stay what they were. *)
LEMMA WithoutFacts ==
  ASSUME NEW es, NEW k \in DOMAIN es, IsFiniteSet(DOMAIN es)
  PROVE  /\ DOMAIN Without(es, k) = DOMAIN es \ {k}
         /\ \A j \in DOMAIN Without(es, k) : Without(es, k)[j] = es[j]
         /\ IsFiniteSet(DOMAIN Without(es, k))
         /\ Cardinality(DOMAIN Without(es, k)) = Cardinality(DOMAIN es) - 1
<1>1. DOMAIN Without(es, k) = DOMAIN es \ {k}
  BY DEF Without
<1>2. \A j \in DOMAIN Without(es, k) : Without(es, k)[j] = es[j]
  BY DEF Without
<1> QED
  BY <1>1, <1>2, FS_RemoveElement

\* What a store, a removal or a clearing does to the entries.
Updates ==
    /\ IsFiniteSet(DOMAIN entries')
    /\ Cardinality(DOMAIN entries') <= MaxEntries
    /\ entries' \in [DOMAIN entries' -> Entry]
    /\ eventsDropped' \in Nat
    /\ eventsDropped' > eventsDropped =>
          \A k \in DOMAIN entries \ DOMAIN entries', j \in DOMAIN entries' :
              j \in DOMAIN entries => entries[k].UpdatedAt <= entries[j].UpdatedAt

(* A key the index does not know is stored, at the cost of the oldest. *)
LEMMA StoreNew ==
  ASSUME IndexOK, NEW k, ~Known(k), NEW e \in Entry,
         evictIfNeeded([j \in DOMAIN entries \cup {k} |-> IF j = k THEN e ELSE entries[j]])
  PROVE  Updates /\ DOMAIN entries' \subseteq DOMAIN entries \cup {k}
<1> DEFINE es == [j \in DOMAIN entries \cup {k} |-> IF j = k THEN e ELSE entries[j]]
<1>1. DOMAIN es = DOMAIN entries \cup {k} /\ \A j \in DOMAIN es : es[j] \in Entry
  BY DEF IndexOK
<1>2. \A j \in DOMAIN entries : j # k /\ es[j] = entries[j]
  BY DEF Known
<1>3. IsFiniteSet(DOMAIN es) /\ Cardinality(DOMAIN es) = Cardinality(DOMAIN entries) + 1
  BY <1>1, FS_AddElement DEF IndexOK, Known
<1>4. evictIfNeeded(es)
  OBVIOUS
<1>5. MaxEntries \in Nat /\ Cardinality(DOMAIN entries) \in Nat /\ eventsDropped \in Nat
      /\ Cardinality(DOMAIN entries) <= MaxEntries
  BY IndexAssumption, FS_CardinalityType DEF IndexOK
<1>6. es \in [DOMAIN es -> Entry]
  BY <1>1
<1> HIDE DEF es
<1>7. CASE Cardinality(DOMAIN es) <= MaxEntries
  <2>1. entries' = es /\ eventsDropped' = eventsDropped
    BY <1>4, <1>7 DEF evictIfNeeded
  <2>2. ~(eventsDropped' > eventsDropped)
    BY <1>5, <2>1
  <2> QED
    BY <1>1, <1>3, <1>5, <1>6, <1>7, <2>1, <2>2 DEF Updates
<1>8. CASE ~(Cardinality(DOMAIN es) <= MaxEntries)
  <2>1. PICK o \in Oldest(es) : entries' = Without(es, o) /\ eventsDropped' = eventsDropped + 1
    BY <1>4, <1>8 DEF evictIfNeeded
  <2>2. o \in DOMAIN es /\ \A j \in DOMAIN es : es[o].UpdatedAt <= es[j].UpdatedAt
    BY <2>1 DEF Oldest
  <2>3. /\ DOMAIN entries' = DOMAIN es \ {o}
        /\ \A j \in DOMAIN entries' : entries'[j] = es[j]
        /\ IsFiniteSet(DOMAIN entries')
        /\ Cardinality(DOMAIN entries') = Cardinality(DOMAIN es) - 1
    BY <1>3, <2>1, <2>2, WithoutFacts
  <2>4. Cardinality(DOMAIN entries') <= MaxEntries /\ eventsDropped' \in Nat
    BY <1>3, <1>5, <2>1, <2>3
  <2>5. entries' \in [DOMAIN entries' -> Entry]
    BY <1>1, <2>1, <2>3 DEF Without
  <2>6. ASSUME NEW a \in DOMAIN entries \ DOMAIN entries', NEW j \in DOMAIN entries',
               j \in DOMAIN entries
        PROVE  entries[a].UpdatedAt <= entries[j].UpdatedAt
    BY <1>1, <1>2, <2>2, <2>3, <2>6
  <2> QED
    BY <1>1, <2>3, <2>4, <2>5, <2>6 DEF Updates
<1> QED
  BY <1>7, <1>8

(* The counters and the clock of the index after an event. *)
LEMMA EventFacts ==
  ASSUME IndexOK, NEW s \in Int, checkSeq(s), lastUpdate' = now, now' = now
  PROVE  /\ lastUpdate' \in Nat /\ now' \in Nat /\ lastUpdate' <= now' /\ now' > 0
         /\ lastUpdate' # 0 /\ sequenceGaps' \in Nat
<1>1. sequenceGaps' = sequenceGaps + 1 \/ sequenceGaps' = sequenceGaps
  BY DEF checkSeq
<1> QED
  BY <1>1 DEF IndexOK

(* An update and the counters make an index again. *)
LEMMA UpdatesIndex ==
  ASSUME IndexOK, NEW s \in Int, checkSeq(s), lastUpdate' = now, now' = now, Updates
  PROVE  IndexOK'
BY EventFacts DEF IndexOK, Updates

(* Nothing is dropped for the bound, and no key is new. *)
LEMMA KeepsBound ==
  ASSUME IndexOK, eventsDropped' = eventsDropped, DOMAIN entries' \subseteq DOMAIN entries,
         entries' \in [DOMAIN entries' -> Entry]
  PROVE  Updates
<1>1. /\ IsFiniteSet(DOMAIN entries')
      /\ Cardinality(DOMAIN entries') <= Cardinality(DOMAIN entries)
  BY FS_Subset DEF IndexOK
<1>2. /\ Cardinality(DOMAIN entries') \in Nat /\ Cardinality(DOMAIN entries) \in Nat
      /\ MaxEntries \in Nat /\ eventsDropped \in Nat
      /\ Cardinality(DOMAIN entries) <= MaxEntries
  BY <1>1, IndexAssumption, FS_CardinalityType DEF IndexOK
<1>3. Cardinality(DOMAIN entries') <= MaxEntries /\ ~(eventsDropped' > eventsDropped)
  BY <1>1, <1>2
<1> QED
  BY <1>1, <1>2, <1>3 DEF Updates

LEMMA StoreIndex ==
  ASSUME IndexOK, NEW s \in Int, NEW k, NEW t \in Nat \ {0}, ApplyStore(s, k, t)
  PROVE  IndexOK' /\ Updates /\ DOMAIN entries' \subseteq DOMAIN entries \cup {k}
<1>1. checkSeq(s) /\ lastUpdate' = now /\ now' = now
  BY DEF ApplyStore
<1>2. Stored(s, t) \in Entry
  BY DEF Stored, Entry, IndexOK
<1>3. CASE ~Known(k)
  <2>1. evictIfNeeded([j \in DOMAIN entries \cup {k} |->
                           IF j = k THEN Stored(s, t) ELSE entries[j]])
    BY <1>3 DEF ApplyStore
  <2>2. Updates /\ DOMAIN entries' \subseteq DOMAIN entries \cup {k}
    BY <1>2, <1>3, <2>1, StoreNew
  <2> QED
    BY <1>1, <2>2, UpdatesIndex
<1>4. CASE Known(k)
  <2>1. /\ eventsDropped' = eventsDropped
        /\ entries' = entries \/ entries' = [entries EXCEPT ![k] = Stored(s, t)]
    BY <1>4 DEF ApplyStore
  <2>2. DOMAIN entries' = DOMAIN entries
    BY <2>1
  <2>3. entries' \in [DOMAIN entries -> Entry]
    BY <1>2, <2>1 DEF IndexOK
  <2>4. Updates
    BY <2>1, <2>2, <2>3, KeepsBound
  <2> QED
    BY <1>1, <2>2, <2>4, UpdatesIndex
<1> QED
  BY <1>3, <1>4

LEMMA RemoveIndex ==
  ASSUME IndexOK, NEW s \in Int, NEW k, ApplyRemove(s, k)
  PROVE  IndexOK' /\ Updates /\ DOMAIN entries' = DOMAIN entries
<1>1. checkSeq(s) /\ lastUpdate' = now /\ now' = now /\ eventsDropped' = eventsDropped
  BY DEF ApplyRemove
<1>2. CASE Known(k)
  <2>1. k \in DOMAIN entries /\ entries[k] \in Entry /\ now \in Nat
    BY <1>2 DEF Known, IndexOK
  <2>2. PICK e \in Entry : entries' = [entries EXCEPT ![k] = e]
    <3> DEFINE e == [entries[k] EXCEPT !.Present = FALSE, !.LastSeq = s, !.UpdatedAt = now]
    <3>1. e \in Entry
      BY <2>1 DEF Entry
    <3>2. entries' = [entries EXCEPT ![k] = e]
      BY <1>2, <2>1 DEF ApplyRemove, IndexOK
    <3> QED
      BY <3>1, <3>2
  <2>3. DOMAIN entries' = DOMAIN entries /\ entries' \in [DOMAIN entries -> Entry]
    BY <2>2 DEF IndexOK
  <2>4. Updates
    BY <1>1, <2>3, KeepsBound
  <2> QED
    BY <1>1, <2>3, <2>4, UpdatesIndex
<1>3. CASE ~Known(k)
  <2>1. entries' = entries
    BY <1>3 DEF ApplyRemove
  <2>2. Updates
    BY <1>1, <2>1, KeepsBound DEF IndexOK
  <2> QED
    BY <1>1, <2>1, <2>2, UpdatesIndex
<1> QED
  BY <1>2, <1>3

(* An empty index. *)
LEMMA Emptied ==
  ASSUME entries' = <<>>
  PROVE  DOMAIN entries' = {} /\ entries' \in [DOMAIN entries' -> Entry]
OBVIOUS

LEMMA ClearIndex ==
  ASSUME IndexOK, NEW s \in Int, ApplyClear(s)
  PROVE  IndexOK' /\ Updates /\ DOMAIN entries' = {}
<1>1. checkSeq(s) /\ lastUpdate' = now /\ now' = now /\ eventsDropped' = eventsDropped
      /\ entries' = <<>>
  BY DEF ApplyClear
<1>2. DOMAIN entries' = {} /\ entries' \in [DOMAIN entries' -> Entry]
  BY <1>1, Emptied
<1>3. Updates
  BY <1>1, <1>2, KeepsBound
<1> QED
  BY <1>1, <1>2, <1>3, UpdatesIndex

LEMMA ResetIndex ==
  ASSUME IndexOK, Reset
  PROVE  IndexOK' /\ Updates /\ DOMAIN entries' = {}
<1>1. entries' = <<>> /\ lastUpdate' = 0 /\ UNCHANGED <<sequenceGaps, eventsDropped, now>>
  BY DEF Reset
<1>2. DOMAIN entries' = {} /\ entries' \in [DOMAIN entries' -> Entry]
  BY <1>1, Emptied
<1>3. Updates
  BY <1>1, <1>2, KeepsBound
<1> QED
  BY <1>1, <1>2, <1>3 DEF IndexOK, Updates

LEMMA TickIndex ==
  ASSUME IndexOK, Tick
  PROVE  IndexOK' /\ Updates /\ entries' = entries
<1>1. /\ now' = now + 1 /\ entries' = entries
      /\ UNCHANGED <<lastUpdate, sequenceGaps, eventsDropped>>
  BY DEF Tick
<1>2. Updates
  BY <1>1, KeepsBound DEF IndexOK
<1>3. now' \in Nat /\ lastUpdate' <= now' /\ now' > 0 /\ lastUpdate' \in Nat
  BY <1>1 DEF IndexOK
<1> QED
  BY <1>1, <1>2, <1>3 DEF IndexOK, Updates

(* Nothing happens to the index. *)
LEMMA IdleIndex ==
  ASSUME IndexOK, UNCHANGED indexVars
  PROVE  IndexOK' /\ Updates /\ entries' = entries
<1>1. UNCHANGED <<entries, lastUpdate, sequenceGaps, eventsDropped, now>>
  BY DEF indexVars
<1>2. Updates
  BY <1>1, KeepsBound DEF IndexOK
<1> QED
  BY <1>1, <1>2 DEF IndexOK

-----------------------------------------------------------------------------
(* The explicit provider. *)

(* A goroutine stores what it has drawn, perhaps after a later one has.    *)
LEMMA ObserveStoresInv ==
  ASSUME CInv, mode = "explicit", mode' = mode, NEW o \in Observers, ObserveStores(o),
         UNCHANGED feed
  PROVE  CInv' /\ Updates
<1> DEFINE n == observe[o].seq
           k == observe[o].key
           t == observe[o].tokens
<1>0. IndexOK /\ ExplicitOK /\ FeedOK /\ RestartOK /\ EntriesRecent /\ SeqOK /\ LastSeqIsNewest
  BY DEF CInv
<1>1. /\ observe[o] # Nothing /\ ApplyStore(n, k, t)
      /\ storedAfter' = [storedAfter EXCEPT ![k] = restarts]
      /\ applied' = applied \cup {n}
      /\ observe' = [observe EXCEPT ![o] = Nothing]
      /\ seq' = seq /\ UNCHANGED <<runtimeUp, healthy, lastUp, restarts, checked, caughtUp>>
  BY DEF ObserveStores, feedVars, restartVars
<1>2. observe[o] \in Drawn
  BY <1>0, <1>1 DEF ExplicitOK
<1>3. n \in Nat \ {0} /\ k \in Keys /\ t \in Nat \ {0}
  BY <1>2 DEF Drawn
<1> HIDE DEF n, k, t
<1>4. n \in Int
  BY <1>3
<1>5. IndexOK' /\ Updates /\ DOMAIN entries' \subseteq DOMAIN entries \cup {k}
  BY <1>0, <1>1, <1>3, <1>4, StoreIndex
<1>6. ExplicitOK'
  BY <1>0, <1>1, <1>3 DEF ExplicitOK, RestartOK
<1>7. FeedOK' /\ RestartOK'
  BY <1>0, <1>1 DEF FeedOK, RestartOK, feed
<1>8. EntriesRecent'
  <2>1. restarts >= caughtUp
    BY <1>0 DEF RestartOK
  <2>2. ASSUME NEW j \in DOMAIN entries'
        PROVE  j \in Keys /\ storedAfter'[j] >= caughtUp'
    <3>1. CASE j = k
      BY <1>0, <1>1, <1>3, <2>1, <3>1 DEF ExplicitOK
    <3>2. CASE j # k
      <4>1. j \in Keys /\ storedAfter[j] >= caughtUp
        BY <1>0, <1>5, <3>2 DEF EntriesRecent
      <4> QED
        BY <1>0, <1>1, <3>2, <4>1 DEF ExplicitOK
    <3> QED
      BY <3>1, <3>2
  <2> QED
    BY <2>2 DEF EntriesRecent
<1>9. checkSeq(n)
  BY <1>1 DEF ApplyStore
<1>10. SeqOK'
  BY <1>0, <1>1, <1>3, <1>9 DEF SeqOK, checkSeq
<1>11. LastSeqIsNewest'
  <2>1. haveSeq' = TRUE /\ applied' # {}
    BY <1>1, <1>9 DEF checkSeq
  <2>2. applied \subseteq Nat /\ lastSeq \in Nat /\ haveSeq \in BOOLEAN
    BY <1>0 DEF SeqOK
  <2>3. CASE haveSeq
    <3>1. lastSeq \in applied /\ \A x \in applied : x <= lastSeq
      BY <1>0, <2>3 DEF LastSeqIsNewest
    <3>2. CASE n < lastSeq
      <4>1. lastSeq' = lastSeq
        BY <1>9, <2>3, <3>2 DEF checkSeq
      <4>2. n <= lastSeq
        BY <1>3, <2>2, <3>2
      <4> QED
        BY <1>1, <2>1, <3>1, <4>1, <4>2 DEF LastSeqIsNewest
    <3>3. CASE ~(n < lastSeq)
      <4>1. lastSeq' = n
        BY <1>9, <3>3 DEF checkSeq
      <4>2. \A x \in applied : x <= n
        BY <1>3, <2>2, <3>1, <3>3
      <4>3. n <= n
        BY <1>3
      <4> QED
        BY <1>1, <2>1, <4>1, <4>2, <4>3 DEF LastSeqIsNewest
    <3> QED
      BY <3>2, <3>3
  <2>4. CASE ~haveSeq
    <3>1. applied = {}
      BY <1>0, <2>4 DEF LastSeqIsNewest
    <3>2. lastSeq' = n /\ applied' = {n} /\ n <= n
      BY <1>1, <1>3, <1>9, <2>4, <3>1 DEF checkSeq
    <3> QED
      BY <2>1, <3>2 DEF LastSeqIsNewest
  <2> QED
    BY <2>2, <2>3, <2>4
<1> QED
  BY <1>5, <1>6, <1>7, <1>8, <1>10, <1>11 DEF CInv

\* Of the invariant, what speaks of the explicit provider's stores stays true
\* while its variables and the entries are left alone.
StoresUnchanged == UNCHANGED <<entries, haveSeq, lastSeq, storedAfter, applied>>

LEMMA StoresKept ==
  ASSUME CInv, mode' = mode, StoresUnchanged, caughtUp' = caughtUp
  PROVE  EntriesRecent' /\ SeqOK' /\ LastSeqIsNewest'
BY DEF CInv, StoresUnchanged, EntriesRecent, SeqOK, LastSeqIsNewest

LEMMA ObserveDrawsInv ==
  ASSUME CInv, mode' = mode, NEW o \in Observers, NEW k \in Keys, NEW t \in Tokens,
         ObserveDraws(o, k, t), UNCHANGED feed
  PROVE  CInv' /\ Updates
<1>0. IndexOK /\ ExplicitOK /\ FeedOK /\ RestartOK
  BY DEF CInv
<1>1. /\ t > 0 /\ seq' = seq + 1
      /\ observe' = [observe EXCEPT ![o] = [seq |-> seq + 1, key |-> k, tokens |-> t]]
      /\ UNCHANGED <<indexVars, runtimeUp, healthy, lastUp, restarts, checked, caughtUp,
                     storedAfter, applied>>
  BY DEF ObserveDraws, feedVars, restartVars
<1>2. t \in Nat \ {0} /\ seq + 1 \in Nat \ {0}
  BY <1>0, <1>1, ExplicitAssumption DEF ExplicitOK
<1>3. [seq |-> seq + 1, key |-> k, tokens |-> t] \in Drawn
  BY <1>2 DEF Drawn
<1>4. ExplicitOK'
  BY <1>0, <1>1, <1>2, <1>3 DEF ExplicitOK
<1>5. IndexOK' /\ Updates
  BY <1>0, <1>1, IdleIndex
<1>6. FeedOK' /\ RestartOK'
  BY <1>0, <1>1 DEF FeedOK, RestartOK, feed
<1>7. StoresUnchanged
  BY <1>1 DEF StoresUnchanged, indexVars
<1> QED
  BY <1>1, <1>4, <1>5, <1>6, <1>7, StoresKept DEF CInv

-----------------------------------------------------------------------------
(* Restarts of vLLM, the health check and the feed loop. *)

FeedKept == UNCHANGED <<published, earlier, next, batch>>

LEMMA RuntimeInv ==
  ASSUME CInv, mode' = mode, RuntimeStops \/ RuntimeStarts \/ checkHealth, FeedOK'
  PROVE  CInv' /\ Updates
<1>0. IndexOK /\ ExplicitOK /\ RestartOK
  BY DEF CInv
<1>1. UNCHANGED <<indexVars, seq, observe, storedAfter, applied, caughtUp, lastUp>>
  BY DEF RuntimeStops, RuntimeStarts, checkHealth, restartVars
<1>2. IndexOK' /\ Updates /\ ExplicitOK'
  BY <1>0, <1>1, IdleIndex DEF ExplicitOK
<1>3. StoresUnchanged
  BY <1>1 DEF StoresUnchanged, indexVars
<1>4. RestartOK'
  <2>1. CASE RuntimeStops
    BY <1>0, <2>1 DEF RuntimeStops, restartVars, RestartOK
  <2>2. CASE RuntimeStarts
    <3>1. /\ ~healthy /\ ~lastUp /\ runtimeUp' = TRUE /\ restarts' = restarts + 1
          /\ UNCHANGED <<healthy, lastUp, checked, caughtUp>>
      BY <2>2 DEF RuntimeStarts
    <3>2. restarts' \in Nat /\ caughtUp' <= restarts' /\ checked' <= restarts'
      BY <1>0, <3>1 DEF RestartOK
    <3> QED
      BY <1>0, <3>1, <3>2 DEF RestartOK
  <2>3. CASE checkHealth
    <3>1. /\ healthy' \in BOOLEAN /\ UNCHANGED <<runtimeUp, lastUp, restarts, caughtUp>>
          /\ checked' = IF healthy' THEN restarts ELSE checked
      BY <1>0, <2>3 DEF checkHealth
    <3>2. restarts <= restarts
      BY <1>0 DEF RestartOK
    <3> QED
      BY <1>0, <3>1, <3>2 DEF RestartOK
  <2> QED
    BY <2>1, <2>2, <2>3
<1> QED
  BY <1>1, <1>2, <1>3, <1>4, StoresKept DEF CInv

(* The tick of the feed loop.  Either it has just seen vLLM come back, and *)
(* empties the index; or nothing was restarted since the last tick that    *)
(* saw it healthy.                                                         *)
LEMMA FeedTickInv ==
  ASSUME CInv, mode' = mode, FeedTick, FeedKept
  PROVE  CInv' /\ Updates
<1>0. IndexOK /\ ExplicitOK /\ FeedOK /\ RestartOK /\ EntriesRecent
  BY DEF CInv
<1>1. /\ lastUp' = healthy /\ caughtUp' = IF healthy THEN checked ELSE caughtUp
      /\ UNCHANGED <<seq, observe, runtimeUp, healthy, restarts, checked, storedAfter>>
  BY DEF FeedTick
<1>2. ExplicitOK' /\ FeedOK'
  BY <1>0, <1>1 DEF ExplicitOK, FeedOK, FeedKept
<1>3. RestartOK'
  BY <1>0, <1>1 DEF RestartOK
<1>4. CASE healthy /\ ~lastUp
  <2>1. Reset /\ applied' = {}
    BY <1>4 DEF FeedTick
  <2>2. IndexOK' /\ Updates /\ DOMAIN entries' = {}
    BY <1>0, <2>1, ResetIndex
  <2>3. EntriesRecent'
    BY <2>2 DEF EntriesRecent
  <2>4. haveSeq' = FALSE /\ lastSeq' = 0
    BY <2>1 DEF Reset
  <2>5. SeqOK' /\ LastSeqIsNewest'
    BY <2>1, <2>4 DEF SeqOK, LastSeqIsNewest
  <2> QED
    BY <1>2, <1>3, <2>2, <2>3, <2>5 DEF CInv
<1>5. CASE ~(healthy /\ ~lastUp)
  <2>1. UNCHANGED <<indexVars, applied>>
    BY <1>5 DEF FeedTick
  <2>2. caughtUp' = caughtUp
    BY <1>0, <1>1, <1>5 DEF RestartOK
  <2>3. IndexOK' /\ Updates
    BY <1>0, <2>1, IdleIndex
  <2>4. StoresUnchanged
    BY <1>1, <2>1 DEF StoresUnchanged, indexVars
  <2> QED
    BY <1>2, <1>3, <2>2, <2>3, <2>4, StoresKept DEF CInv
<1> QED
  BY <1>4, <1>5

(* Time passes, under either provider. *)
LEMMA TickInv ==
  ASSUME CInv, mode' = mode, Tick, FeedKept,
         UNCHANGED <<seq, observe, feedVars, restartVars, storedAfter, applied>>
  PROVE  CInv' /\ Updates
<1>1. IndexOK' /\ Updates
  BY TickIndex DEF CInv
<1>2. ExplicitOK' /\ FeedOK' /\ RestartOK'
  BY DEF CInv, ExplicitOK, FeedOK, FeedKept, RestartOK, feedVars, restartVars
<1>3. StoresUnchanged /\ caughtUp' = caughtUp
  BY DEF StoresUnchanged, Tick, restartVars
<1> QED
  BY <1>1, <1>2, <1>3, StoresKept DEF CInv

-----------------------------------------------------------------------------
(* The native provider: the stream of events, with losses and repetitions. *)
LEMMA NativeInv ==
  ASSUME CInv, mode = "native", mode' = mode, ENext(runtimeUp),
         UNCHANGED <<explicitVars, feedVars, restartVars>>
  PROVE  CInv' /\ Updates
<1>0. IndexOK /\ ExplicitOK /\ FeedOK /\ RestartOK
  BY DEF CInv
<1>1. ExplicitOK' /\ RestartOK' /\ EntriesRecent' /\ SeqOK' /\ LastSeqIsNewest'
  BY <1>0 DEF ExplicitOK, RestartOK, EntriesRecent, SeqOK, LastSeqIsNewest, explicitVars,
              feedVars, restartVars
<1>2. CASE \E events \in Batches : Publish(events)
  <2>1. PICK events \in Batches : Publish(events)
    BY <1>2
  <2>2. published' = Append(published, events) /\ UNCHANGED <<indexVars, earlier, next, batch>>
    BY <2>1 DEF Publish
  <2>3. FeedOK'
    BY <1>0, <2>2, Appended DEF FeedOK
  <2> QED
    BY <1>0, <1>1, <2>2, <2>3, IdleIndex DEF CInv
<1>3. CASE Deliver \/ Lose \/ Redeliver
  <2>1. UNCHANGED <<indexVars, published, earlier>>
    BY <1>3 DEF Deliver, Lose, Redeliver, Receive
  <2>2. next' \in Nat /\ batch' \in Nat
    <3>1. CASE Deliver
      BY <1>0, <3>1 DEF Deliver, Receive, FeedOK
    <3>2. CASE Lose
      BY <1>0, <3>2 DEF Lose, FeedOK
    <3>3. CASE Redeliver
      BY <1>0, <3>3 DEF Redeliver, Receive, FeedOK
    <3> QED
      BY <1>3, <3>1, <3>2, <3>3
  <2>3. FeedOK'
    BY <1>0, <2>1, <2>2 DEF FeedOK
  <2> QED
    BY <1>0, <1>1, <2>1, <2>3, IdleIndex DEF CInv
<1>4. CASE Ingest
  <2>1. /\ Apply(published[batch][pos], batch - earlier)
        /\ UNCHANGED <<published, earlier, next>> /\ batch' \in {batch, 0}
    BY <1>4 DEF Ingest
  <2>2. batch - earlier \in Int
    BY <1>0 DEF FeedOK
  <2>3. BlockTokens \in Nat \ {0}
    BY EventsAssumption
  <2>4. IndexOK' /\ Updates
    BY <1>0, <2>1, <2>2, <2>3, StoreIndex, RemoveIndex, ClearIndex DEF Apply
  <2>5. FeedOK'
    BY <1>0, <2>1 DEF FeedOK
  <2> QED
    BY <1>1, <2>4, <2>5 DEF CInv
<1>5. CASE Tick /\ UNCHANGED feed
  BY <1>5, TickInv DEF FeedKept, feed, explicitVars
<1> QED
  BY <1>2, <1>3, <1>4, <1>5 DEF ENext

-----------------------------------------------------------------------------
LEMMA InitCInv == Init => CInv
<1> SUFFICES ASSUME Init PROVE CInv
  OBVIOUS
<1> USE DEF Init, XInit, EInit, IndexInit
<1>1. DOMAIN entries = {} /\ entries \in [DOMAIN entries -> Entry]
  OBVIOUS
<1>2. IsFiniteSet({}) /\ Cardinality({}) = 0
  BY FS_EmptySet
<1>3. Cardinality(DOMAIN entries) <= MaxEntries
  BY <1>1, <1>2, IndexAssumption
<1>4. IndexOK
  BY <1>1, <1>2, <1>3 DEF IndexOK
<1>5. ExplicitOK
  BY DEF ExplicitOK
<1>6. FeedOK
  BY EmptySequence DEF FeedOK
<1>7. RestartOK
  BY DEF RestartOK
<1>8. EntriesRecent
  BY <1>1 DEF EntriesRecent
<1>9. haveSeq = FALSE /\ applied = {} /\ lastSeq = 0
  OBVIOUS
<1>10. SeqOK /\ LastSeqIsNewest
  BY ONLY <1>9 DEF SeqOK, LastSeqIsNewest
<1> QED
  BY <1>4, <1>5, <1>6, <1>7, <1>8, <1>10 DEF CInv

LEMMA NextCInv == CInv /\ [Next]_pvars => CInv' /\ Updates
<1> SUFFICES ASSUME CInv, [Next]_pvars
             PROVE  CInv' /\ Updates
  OBVIOUS
<1>1. CASE UNCHANGED pvars
  <2>1. /\ UNCHANGED <<indexVars, seq, observe, feedVars, restartVars, storedAfter, applied>>
        /\ mode' = mode /\ UNCHANGED feed
    BY <1>1 DEF pvars, xvars
  <2>2. IndexOK' /\ Updates
    BY <2>1, IdleIndex DEF CInv
  <2>3. ExplicitOK' /\ FeedOK' /\ RestartOK'
    BY <2>1 DEF CInv, ExplicitOK, FeedOK, feed, RestartOK, feedVars, restartVars
  <2>4. StoresUnchanged /\ caughtUp' = caughtUp
    BY <2>1 DEF StoresUnchanged, indexVars, restartVars
  <2> QED
    BY <2>1, <2>2, <2>3, <2>4, StoresKept DEF CInv
<1>2. CASE Next
  <2>0. mode' = mode
    BY <1>2 DEF Next
  <2>1. CASE Explicit
    <3>1. mode = "explicit" /\ XNext /\ UNCHANGED feed
      BY <2>1 DEF Explicit
    <3>2. FeedKept /\ FeedOK'
      BY <3>1 DEF FeedKept, feed, CInv, FeedOK
    <3>3. CASE \E o \in Observers, k \in Keys, t \in Tokens : ObserveDraws(o, k, t)
      BY <2>0, <3>1, <3>3, ObserveDrawsInv
    <3>4. CASE \E o \in Observers : ObserveStores(o)
      BY <2>0, <3>1, <3>4, ObserveStoresInv
    <3>5. CASE RuntimeStops \/ RuntimeStarts \/ checkHealth
      BY <2>0, <3>2, <3>5, RuntimeInv
    <3>6. CASE FeedTick
      BY <2>0, <3>2, <3>6, FeedTickInv
    <3>7. CASE Tick /\ UNCHANGED <<seq, observe, feedVars, restartVars, storedAfter, applied>>
      BY <2>0, <3>2, <3>7, TickInv
    <3> QED
      BY <3>1, <3>3, <3>4, <3>5, <3>6, <3>7 DEF XNext
  <2>2. CASE Native
    BY <2>0, <2>2, NativeInv DEF Native
  <2>3. CASE NativeHealth \/ NativeStops
    <3>1. FeedOK'
      BY <2>3 DEF NativeHealth, NativeStops, feed, CInv, FeedOK
    <3> QED
      BY <2>0, <2>3, <3>1, RuntimeInv DEF NativeHealth, NativeStops
  <2>4. CASE NativeStarts
    <3>1. /\ RuntimeStarts /\ earlier' = Len(published) /\ next' = Len(published) + 1
          /\ UNCHANGED <<published, batch>>
      BY <2>4 DEF NativeStarts, Republish
    <3>2. Len(published) \in Nat
      BY LengthOf DEF CInv, FeedOK
    <3>3. FeedOK'
      BY <3>1, <3>2 DEF CInv, FeedOK
    <3> QED
      BY <2>0, <3>1, <3>3, RuntimeInv
  <2>5. CASE NativeFeedTick
    <3>1. FeedTick /\ FeedKept
      BY <2>5 DEF NativeFeedTick, FeedKept
    <3> QED
      BY <2>0, <3>1, FeedTickInv
  <2> QED
    BY <1>2, <2>1, <2>2, <2>3, <2>4, <2>5 DEF Next
<1> QED
  BY <1>1, <1>2

(* CInv is an invariant of the cache plane (internal/cache and the feed    *)
(* loop of cmd/sidecar/main.go).                                           *)
THEOREM CacheInvariance == Spec => []CInv
<1>1. Init => CInv
  BY InitCInv
<1>2. CInv /\ [Next]_pvars => CInv'
  BY NextCInv
<1> QED
  BY <1>1, <1>2, PTL DEF Spec

(* The index keeps its bound, and drops the entry updated longest ago      *)
(* (index.go, evictIfNeeded).                                              *)
THEOREM EvictionOfTheOldest == Spec => EvictsOldest
<1>1. CInv /\ [Next]_pvars => [EvictsOldestStep]_xvars
  BY NextCInv DEF Updates, EvictsOldestStep
<1> QED
  BY <1>1, CacheInvariance, PTL DEF Spec, EvictsOldest

(* last_event_sequence is the newest number stored since the last Reset    *)
(* (explicit_provider.go, Observe; index.go, checkSeq).                    *)
THEOREM NewestSequence == Spec => []LastSeqIsNewest
<1>1. CInv => LastSeqIsNewest
  BY DEF CInv
<1> QED
  BY <1>1, CacheInvariance, PTL

(* What the directory may list. *)
LEMMA DirectoryFacts ==
  ASSUME IndexOK, NEW d \in Directory(DirMax)
  PROVE  d \subseteq Live
BY DEF Directory

(* No key stored before a restart of vLLM is published once the feed loop  *)
(* has seen it healthy again (main.go's feed loop, OnRuntimeRestart).      *)
THEOREM RestartsAreForgotten == Spec => []RestartForgets
<1>1. CInv => RestartForgets
  <2> SUFFICES ASSUME CInv, mode = "explicit", NEW d \in Directory(DirMax), NEW k \in d
               PROVE  storedAfter[k] >= caughtUp
    BY DEF RestartForgets
  <2>1. k \in DOMAIN entries
    BY DirectoryFacts DEF CInv, Live
  <2> QED
    BY <2>1 DEF CInv, EntriesRecent
<1> QED
  BY <1>1, CacheInvariance, PTL

(* What the router is told and what a local lookup answers agree, and what *)
(* is told is told with some confidence (index.go, Directory, LookupKey    *)
(* and confidence).                                                        *)
THEOREM DirectoryAndLookupAgree == Spec => []DirectoryAgrees
<1>1. CInv => DirectoryAgrees
  <2> SUFFICES ASSUME IndexOK PROVE DirectoryAgrees
    BY DEF CInv
  <2>0. DirMax \in Nat /\ StaleAfter \in Nat
    BY ExplicitAssumption, IndexAssumption
  <2>1. /\ IsFiniteSet(Live) /\ Cardinality(Live) <= Cardinality(DOMAIN entries)
        /\ Cardinality(Live) \in Nat /\ Cardinality(DOMAIN entries) \in Nat
    BY FS_Subset, FS_CardinalityType DEF Live, IndexOK
  <2>2. \A k \in Live : lookupKey(k) > 0
    BY DEF Live, lookupKey, Known, IndexOK, Entry
  <2>3. \A k : lookupKey(k) > 0 => k \in Live
    BY DEF Live, lookupKey, Known
  <2>4. ASSUME NEW d \in Directory(DirMax)
        PROVE  /\ Cardinality(d) <= DirMax
               /\ \A k \in d : LookupKey(k) > 0
               /\ Cardinality(DOMAIN entries) <= DirMax =>
                      \A k \in Keys : LookupKey(k) > 0 => k \in d
    <3>1. CASE isStale \/ lastUpdate = 0
      <4>1. d = {} /\ Cardinality(d) = 0
        BY <2>4, <3>1, FS_EmptySet DEF Directory
      <4>2. \A k : ~(LookupKey(k) > 0)
        BY <3>1 DEF LookupKey, lookupKey, Known, IndexOK
      <4> QED
        BY <2>0, <4>1, <4>2
    <3>2. CASE ~(isStale \/ lastUpdate = 0)
      <4>1. \A k : LookupKey(k) = lookupKey(k)
        BY <3>2 DEF LookupKey
      <4>2. \A k \in d : LookupKey(k) > 0
        BY <2>2, <2>4, <4>1, DirectoryFacts
      <4>3. CASE Cardinality(DOMAIN entries) <= DirMax \/ Cardinality(Live) <= DirMax
        <5>1. d = Live
          BY <2>4, <3>2, <4>3 DEF Directory
        <5>2. Cardinality(Live) <= DirMax
          BY <2>0, <2>1, <4>3
        <5> QED
          BY <2>3, <4>1, <4>2, <5>1, <5>2
      <4>4. CASE ~(Cardinality(DOMAIN entries) <= DirMax \/ Cardinality(Live) <= DirMax)
        <5>1. Cardinality(d) = DirMax
          BY <2>4, <3>2, <4>4 DEF Directory
        <5> QED
          BY <2>0, <4>2, <4>4, <5>1
      <4> QED
        BY <4>3, <4>4
    <3> QED
      BY <3>1, <3>2
  <2>5. ASSUME Directory(DirMax) # {{}}, now - lastUpdate # StaleAfter
        PROVE  confidence > 0
    <3>1. ~(isStale \/ lastUpdate = 0)
      BY <2>5 DEF Directory
    <3> DEFINE fresh == IF StaleAfter > 0 THEN StaleAfter - (now - lastUpdate) ELSE 1
               gaps  == IF sequenceGaps > 3 THEN 3 ELSE sequenceGaps
    <3>2. fresh \in Nat /\ fresh > 0
      BY <2>0, <2>5, <3>1 DEF isStale, IndexOK
    <3>3. gaps \in 0..3
      BY DEF IndexOK
    <3>4. confidence = fresh * (4 - gaps)
      BY <3>1 DEF confidence
    <3> HIDE DEF fresh, gaps
    <3>5. gaps = 0 \/ gaps = 1 \/ gaps = 2 \/ gaps = 3
      BY <3>3
    <3>6. fresh * 4 > 0 /\ fresh * 3 > 0 /\ fresh * 2 > 0 /\ fresh * 1 > 0
      BY <3>2
    <3>7. 4 - 0 = 4 /\ 4 - 1 = 3 /\ 4 - 2 = 2 /\ 4 - 3 = 1
      OBVIOUS
    <3> QED
      BY <3>4, <3>5, <3>6, <3>7
  <2> QED
    BY <2>4, <2>5 DEF DirectoryAgrees, DirectoryMatchesLookup
<1> QED
  BY <1>1, CacheInvariance, PTL
-----------------------------------------------------------------------------
(* The native provider: the index is what vLLM holds. *)

(* The stream of vLLM's present process: what it held after each batch,    *)
(* and which batch is being ingested.                                      *)
StreamOK ==
    /\ blocks \in Seq(SUBSET Keys) /\ Len(blocks) = Len(published)
    /\ earlier < next /\ next <= Len(published) + 1
    /\ batch # 0 => batch > earlier /\ batch < next /\ pos \in 1..Len(published[batch])
    /\ \A n \in (earlier + 1)..Len(published) :
          blocks[n] = HeldAfter(HeldBefore(n), published[n], Len(published[n]))

(* An index that was reset is empty, and the first batch after that counts *)
(* as the first only if the reset did not fall into it.                    *)
FirstOK ==
    /\ haveSeq \in BOOLEAN /\ lastSeq \in Nat /\ outOfOrder \in Nat /\ firstSeq \in Nat
    /\ ~haveSeq => DOMAIN entries = {}
    /\ ~haveSeq /\ firstSeq # 0 => batch # 0 /\ pos = 1 /\ firstSeq = batch - earlier

(* The index has counted nothing that is amiss since the last restart. *)
Clean == sequenceGaps = 0 /\ outOfOrder = 0 /\ eventsDropped = 0 /\ caughtUp = restarts

(* Between batches: the latest is the one the index is at. *)
BetweenOK ==
    Clean /\ batch = 0 /\ haveSeq =>
        /\ lastSeq > 0 /\ earlier + lastSeq < next
        /\ PresentKeys \subseteq blocks[earlier + lastSeq]
        /\ firstSeq = 1 => blocks[earlier + lastSeq] \subseteq PresentKeys

(* The batch is the one after the latest, or the latest again. *)
InOrder == haveSeq => batch - earlier \in {lastSeq, lastSeq + 1}

(* Within a batch: what vLLM held before it, or after it when it is there  *)
(* once more, bounds the index from above and, if nothing was missed, from *)
(* below, both taken as far as the batch is ingested.                      *)
Start == {HeldBefore(batch), blocks[batch]}

WithinOK ==
    Clean /\ batch # 0 =>
        /\ haveSeq /\ pos > 1 => lastSeq = batch - earlier
        /\ InOrder =>
              /\ \E u \in Start : PresentKeys \subseteq HeldAfter(u, published[batch], pos - 1)
              /\ firstSeq = 1 =>
                    \E u \in Start : HeldAfter(u, published[batch], pos - 1) \subseteq PresentKeys

(* The inductive invariant of the native provider. *)
StreamInv == mode = "native" => StreamOK /\ FirstOK /\ BetweenOK /\ WithinOK

-----------------------------------------------------------------------------
(* What vLLM holds after the events of a batch. *)

(* Before the first event it holds what it held. *)
LEMMA HeldAtFirst ==
    ASSUME NEW u \in SUBSET Keys, NEW e
    PROVE  HeldAfter(u, e, 0) = u
BY DEF HeldAfter

(* The last event decides over the keys it touches. *)
LEMMA HeldStep ==
    ASSUME NEW u, NEW e, NEW n \in Nat, NEW k \in Keys
    PROVE  k \in HeldAfter(u, e, n + 1)
             <=> Stores(e[n + 1], k) \/ (k \in HeldAfter(u, e, n) /\ ~Touches(e[n + 1], k))
<1> DEFINE Since(i, m) == \A j \in (i + 1)..m : ~Touches(e[j], k)
           In(m) == \/ \E i \in 1..m : Stores(e[i], k) /\ Since(i, m)
                    \/ k \in u /\ Since(0, m)
<1>1. \A m \in Nat : k \in HeldAfter(u, e, m) <=> In(m)
  BY DEF HeldAfter
<1>2. \A i \in 0..n : Since(i, n + 1) <=> Since(i, n) /\ ~Touches(e[n + 1], k)
  <2> SUFFICES ASSUME NEW i \in 0..n
               PROVE  Since(i, n + 1) <=> Since(i, n) /\ ~Touches(e[n + 1], k)
    OBVIOUS
  <2>1. (i + 1)..(n + 1) = ((i + 1)..n) \cup {n + 1}
    OBVIOUS
  <2> QED
    BY <2>1
<1>3. Since(n + 1, n + 1)
  OBVIOUS
<1>4. 1..(n + 1) = (1..n) \cup {n + 1} /\ \A i \in 1..n : i \in 0..n
  OBVIOUS
<1>5. 0 \in 0..n /\ n + 1 \in Nat
  OBVIOUS
<1> HIDE DEF Since
<1>6. In(n + 1) <=> Stores(e[n + 1], k) \/ (In(n) /\ ~Touches(e[n + 1], k))
  BY <1>2, <1>3, <1>4, <1>5
<1> HIDE DEF In
<1> QED
  BY <1>1, <1>5, <1>6

(* A batch that is there once more changes nothing. *)
LEMMA HeldAgain ==
    ASSUME NEW u, NEW e, NEW n
    PROVE  HeldAfter(HeldAfter(u, e, n), e, n) = HeldAfter(u, e, n)
BY DEF HeldAfter

(* It is always a set of keys. *)
LEMMA HeldKeys ==
    ASSUME NEW u, NEW e, NEW n
    PROVE  HeldAfter(u, e, n) \in SUBSET Keys
BY DEF HeldAfter

(* Unless an entry is evicted, an event does to the index what it says of  *)
(* vLLM (vllm_provider.go, index.go).                                      *)
LEMMA Applied ==
    ASSUME IndexOK, NEW ev \in Events, NEW s, Apply(ev, s), eventsDropped' = eventsDropped
    PROVE  \A k : k \in PresentKeys' <=> Stores(ev, k) \/ (k \in PresentKeys /\ ~Touches(ev, k))
<1>1. /\ ev.kind \in {"block_stored", "block_removed", "all_blocks_cleared"}
      /\ eventsDropped \in Nat /\ eventsDropped # eventsDropped + 1
  BY DEF Events, IndexOK
<1>2. CASE ev.kind = "block_stored"
  <2>1. ApplyStore(s, ev.key, BlockTokens)
    BY <1>2 DEF Apply
  <2>2. PICK e : e = Stored(s, BlockTokens)
    OBVIOUS
  <2>3. e.Present = TRUE
    BY <2>2 DEF Stored
  <2>4. CASE ~Known(ev.key)
    <3>1. entries' = [j \in DOMAIN entries \cup {ev.key} |-> IF j = ev.key THEN e ELSE entries[j]]
      BY <1>1, <2>1, <2>2, <2>4 DEF ApplyStore, evictIfNeeded
    <3>2. /\ DOMAIN entries' = DOMAIN entries \cup {ev.key}
          /\ \A j \in DOMAIN entries : j # ev.key => entries'[j] = entries[j]
          /\ entries'[ev.key].Present = TRUE
      BY <2>3, <3>1
    <3> QED
      BY <1>2, <3>2 DEF PresentKeys, Stores, Touches
  <2>5. CASE Known(ev.key)
    <3>1. \/ entries' = entries /\ entries[ev.key].Present
          \/ entries' = [entries EXCEPT ![ev.key] = e]
      BY <2>1, <2>2, <2>5 DEF ApplyStore
    <3>2. /\ DOMAIN entries' = DOMAIN entries \cup {ev.key}
          /\ \A j \in DOMAIN entries : j # ev.key => entries'[j] = entries[j]
          /\ entries'[ev.key].Present = TRUE
      BY <2>3, <2>5, <3>1 DEF Known, IndexOK, Entry
    <3> QED
      BY <1>2, <3>2 DEF PresentKeys, Stores, Touches
  <2> QED
    BY <2>4, <2>5
<1>3. CASE ev.kind = "block_removed"
  <2>1. ApplyRemove(s, ev.key)
    BY <1>3 DEF Apply
  <2>2. CASE Known(ev.key)
    <3>1. /\ DOMAIN entries' = DOMAIN entries
          /\ \A j \in DOMAIN entries : j # ev.key => entries'[j] = entries[j]
          /\ entries'[ev.key].Present = FALSE
      BY <2>1, <2>2 DEF ApplyRemove, Known, IndexOK, Entry
    <3> QED
      BY <1>3, <2>2, <3>1 DEF PresentKeys, Stores, Touches, Known
  <2>3. CASE ~Known(ev.key)
    BY <1>3, <2>1, <2>3 DEF ApplyRemove, PresentKeys, Stores, Touches, Known
  <2> QED
    BY <2>2, <2>3
<1>4. CASE ev.kind = "all_blocks_cleared"
  <2>1. entries' = <<>>
    BY <1>4 DEF Apply, ApplyClear
  <2>2. DOMAIN entries' = {}
    BY <2>1
  <2> QED
    BY <1>4, <2>2 DEF PresentKeys, Stores, Touches
<1> QED
  BY <1>1, <1>2, <1>3, <1>4

-----------------------------------------------------------------------------
(* The steps of the native provider. *)

(* What the steps below may use, and what each of them has to show. *)
StreamNow == IndexOK /\ FeedOK /\ RestartOK /\ StreamOK /\ FirstOK /\ BetweenOK /\ WithinOK

StreamNext == StreamOK' /\ FirstOK' /\ BetweenOK' /\ WithinOK'

(* The index, but for its clock, stays as it is. *)
IndexKept ==
    UNCHANGED <<entries, haveSeq, lastSeq, sequenceGaps, outOfOrder, eventsDropped>>

(* A step that leaves the stream and the index alone. *)
LEMMA StreamStays ==
    ASSUME StreamNow, IndexKept, UNCHANGED feed, caughtUp' = restarts' => caughtUp = restarts
    PROVE  StreamNext
<1>1. StreamOK'
  BY DEF StreamNow, StreamOK, feed, HeldBefore
<1>2. FirstOK'
  BY DEF StreamNow, FirstOK, feed, IndexKept
<1>3. Clean' => Clean
  BY DEF Clean, IndexKept
<1>4. BetweenOK'
  BY <1>3 DEF StreamNow, BetweenOK, feed, IndexKept, PresentKeys
<1>5. WithinOK'
  BY <1>3 DEF StreamNow, WithinOK, InOrder, Start, HeldBefore, feed, IndexKept, PresentKeys
<1> QED
  BY <1>1, <1>2, <1>4, <1>5 DEF StreamNext

(* The batches and what was held are sequences of the same length. *)
LEMMA StreamTypes ==
    ASSUME StreamNow
    PROVE  /\ Len(published) \in Nat /\ Len(blocks) = Len(published)
           /\ earlier \in Nat /\ next \in Nat /\ batch \in Nat
           /\ \A n \in 1..Len(published) :
                 /\ blocks[n] \in SUBSET Keys
                 /\ published[n] \in Seq(Events)
                 /\ Len(published[n]) \in Nat \ {0}
<1>1. published \in Seq(Batches) /\ blocks \in Seq(SUBSET Keys) /\ Len(blocks) = Len(published)
  BY DEF StreamNow, FeedOK, StreamOK
<1>2. Len(published) \in Nat
  BY <1>1, LengthOf
<1>3. ASSUME NEW n \in 1..Len(published)
      PROVE  /\ blocks[n] \in SUBSET Keys
             /\ published[n] \in Seq(Events)
             /\ Len(published[n]) \in Nat \ {0}
  <2>1. published[n] \in Batches /\ blocks[n] \in SUBSET Keys
    BY <1>1, <1>2, <1>3, LengthOf
  <2>2. published[n] \in Seq(Events) /\ published[n] # <<>>
    BY <2>1, EventsAssumption
  <2> QED
    BY <2>1, <2>2, EmptySequence
<1> QED
  BY <1>1, <1>2, <1>3 DEF StreamNow, FeedOK

(* vLLM publishes a batch (external). *)
LEMMA PublishStream ==
    ASSUME StreamNow, NEW events \in Batches, Publish(events), UNCHANGED restartVars
    PROVE  StreamNext
<1> DEFINE L == Len(published)
           held == HeldAfter(HeldBefore(L + 1), events, Len(events))
<1>1. /\ published' = Append(published, events) /\ blocks' = Append(blocks, held)
      /\ IndexKept /\ UNCHANGED <<earlier, next, batch, pos, firstSeq, caughtUp, restarts>>
  BY StreamTypes DEF Publish, IndexKept, indexVars, restartVars
<1>2. L \in Nat /\ Len(blocks) = L /\ earlier \in Nat /\ next \in Nat /\ batch \in Nat
  BY StreamTypes
<1>3. held \in SUBSET Keys
  BY HeldKeys
<1> HIDE DEF held
<1>4. /\ Len(published') = L + 1 /\ \A n \in 1..L : published'[n] = published[n]
      /\ published'[L + 1] = events
  BY <1>1, Appended DEF StreamNow, FeedOK
<1>5. /\ blocks' \in Seq(SUBSET Keys) /\ Len(blocks') = L + 1 /\ blocks'[L + 1] = held
      /\ \A n \in 1..L : blocks'[n] = blocks[n]
  BY <1>1, <1>2, <1>3, Appended DEF StreamNow, StreamOK
<1> HIDE DEF L
<1>6. earlier < next /\ next <= L + 1
  BY DEF StreamNow, StreamOK, L
<1>7. \A n \in (earlier + 1)..(L + 1) : HeldBefore(n)' = HeldBefore(n)
  <2> SUFFICES ASSUME NEW n \in (earlier + 1)..(L + 1)
               PROVE  HeldBefore(n)' = HeldBefore(n)
    OBVIOUS
  <2>1. CASE n = earlier + 1
    BY <1>1, <2>1 DEF HeldBefore
  <2>2. CASE n # earlier + 1
    <3>1. n - 1 \in 1..L
      BY <1>2, <2>2
    <3> QED
      BY <1>1, <1>5, <3>1 DEF HeldBefore
  <2> QED
    BY <2>1, <2>2
<1>8. \A n \in (earlier + 1)..L : n \in 1..L
  BY <1>2
<1>9. StreamOK'
  <2>1. ASSUME batch # 0
        PROVE  batch > earlier /\ batch < next /\ pos \in 1..Len(published'[batch])
    <3>1. batch > earlier /\ batch < next /\ pos \in 1..Len(published[batch])
      BY <2>1 DEF StreamNow, StreamOK
    <3>2. batch \in 1..L
      BY <1>2, <1>6, <3>1
    <3> QED
      BY <1>4, <3>1, <3>2
  <2>2. ASSUME NEW n \in (earlier + 1)..(L + 1)
        PROVE  blocks'[n] = HeldAfter(HeldBefore(n)', published'[n], Len(published'[n]))
    <3>1. CASE n = L + 1
      BY <1>4, <1>5, <1>7, <3>1 DEF held, L
    <3>2. CASE n # L + 1
      <4>1. n \in (earlier + 1)..L /\ n \in 1..L
        BY <1>2, <3>2
      <4>2. blocks[n] = HeldAfter(HeldBefore(n), published[n], Len(published[n]))
        BY <4>1 DEF StreamNow, StreamOK, L
      <4> QED
        BY <1>4, <1>5, <1>7, <4>1, <4>2
    <3> QED
      BY <3>1, <3>2
  <2>3. next <= (L + 1) + 1
    BY <1>2, <1>6
  <2> QED
    BY <1>1, <1>4, <1>5, <1>6, <2>1, <2>2, <2>3 DEF StreamOK, HeldAfter
<1>10. FirstOK'
  BY <1>1 DEF StreamNow, FirstOK, IndexKept
<1>11. (Clean' <=> Clean) /\ PresentKeys' = PresentKeys
  BY <1>1 DEF Clean, IndexKept, PresentKeys
<1>12. BetweenOK'
  <2> SUFFICES ASSUME Clean, batch = 0, haveSeq
               PROVE  /\ lastSeq > 0 /\ earlier + lastSeq < next
                      /\ PresentKeys \subseteq blocks'[earlier + lastSeq]
                      /\ firstSeq = 1 => blocks'[earlier + lastSeq] \subseteq PresentKeys
    BY <1>1, <1>11 DEF BetweenOK, IndexKept
  <2>1. lastSeq > 0 /\ earlier + lastSeq < next /\ lastSeq \in Nat
    BY DEF StreamNow, BetweenOK, FirstOK
  <2>2. earlier + lastSeq \in 1..L
    BY <1>2, <1>6, <2>1
  <2>3. blocks'[earlier + lastSeq] = blocks[earlier + lastSeq]
    BY <1>5, <2>2
  <2> QED
    BY <2>1, <2>3 DEF StreamNow, BetweenOK
<1>13. WithinOK'
  <2> SUFFICES ASSUME batch # 0
               PROVE  WithinOK'
    BY <1>1 DEF WithinOK
  <2>1. batch \in 1..L /\ batch \in (earlier + 1)..(L + 1)
    BY <1>2, <1>6 DEF StreamNow, StreamOK
  <2>2. /\ published'[batch] = published[batch] /\ blocks'[batch] = blocks[batch]
        /\ HeldBefore(batch)' = HeldBefore(batch)
    <3>1. \A n : n = batch => HeldBefore(n)' = HeldBefore(n)
      BY <1>7, <2>1
    <3>2. HeldBefore(batch)' = HeldBefore(batch)
      BY <1>1, <3>1 DEF HeldBefore
    <3> QED
      BY <1>4, <1>5, <2>1, <3>2
  <2>3. Start' = Start /\ (InOrder' <=> InOrder)
    BY <1>1, <2>2 DEF Start, InOrder, IndexKept
  <2> QED
    BY <1>1, <1>11, <2>2, <2>3 DEF StreamNow, WithinOK, IndexKept, HeldAfter
<1> QED
  BY <1>9, <1>10, <1>12, <1>13 DEF StreamNext

(* A batch is lost on the way (external). *)
LEMMA LoseStream ==
    ASSUME StreamNow, Lose, UNCHANGED restartVars
    PROVE  StreamNext
<1>1. /\ next <= Len(published) /\ next' = next + 1 /\ IndexKept
      /\ UNCHANGED <<published, earlier, blocks, batch, pos, firstSeq, caughtUp, restarts>>
  BY DEF Lose, IndexKept, indexVars, restartVars
<1>2. /\ earlier < next' /\ next' <= Len(published) + 1
      /\ \A n \in Nat : n < next => n < next'
      /\ batch \in Nat /\ earlier \in Nat
  BY <1>1, StreamTypes DEF StreamNow, StreamOK
<1>3. StreamOK'
  BY <1>1, <1>2 DEF StreamNow, StreamOK, HeldBefore
<1>4. FirstOK'
  BY <1>1 DEF StreamNow, FirstOK, IndexKept
<1>5. Clean' => Clean
  BY <1>1 DEF Clean, IndexKept
<1>6. lastSeq \in Nat /\ earlier + lastSeq \in Nat
  BY <1>2 DEF StreamNow, FirstOK
<1>7. BetweenOK'
  BY <1>1, <1>2, <1>5, <1>6 DEF StreamNow, BetweenOK, IndexKept, PresentKeys
<1>8. WithinOK'
  BY <1>1, <1>5 DEF StreamNow, WithinOK, InOrder, Start, HeldBefore, IndexKept, PresentKeys
<1> QED
  BY <1>3, <1>4, <1>7, <1>8 DEF StreamNext

(* A batch arrives, for the first time or again: in order, late or after a *)
(* gap.                                                                    *)
LEMMA ReceiveStream ==
    ASSUME StreamNow, NEW n \in Nat, Receive(n), n > earlier, n < next',
           next' \in Nat, next <= next', next' <= Len(published) + 1, UNCHANGED restartVars
    PROVE  StreamNext
<1>1. /\ batch = 0 /\ batch' = n /\ pos' = 1 /\ IndexKept
      /\ firstSeq' = IF firstSeq = 0 THEN n - earlier ELSE firstSeq
      /\ UNCHANGED <<published, earlier, blocks, caughtUp, restarts>>
  BY DEF Receive, IndexKept, indexVars, restartVars
<1>2. /\ Len(published) \in Nat /\ earlier \in Nat /\ next \in Nat
      /\ earlier < next
      /\ lastSeq \in Nat /\ firstSeq \in Nat
  BY StreamTypes DEF StreamNow, StreamOK, FirstOK
<1>3. n \in 1..Len(published) /\ n # 0 /\ n - earlier \in Nat
  BY <1>2
<1>4. blocks[n] \in SUBSET Keys /\ Len(published[n]) \in Nat \ {0}
  BY <1>3, StreamTypes
<1>5. HeldBefore(n) \in SUBSET Keys
  <2>1. CASE n = earlier + 1
    BY <2>1 DEF HeldBefore
  <2>2. CASE n # earlier + 1
    <3>1. n - 1 \in 1..Len(published)
      BY <1>2, <1>3, <2>2
    <3> QED
      BY <2>2, <3>1, StreamTypes DEF HeldBefore
  <2> QED
    BY <2>1, <2>2
<1>6. StreamOK'
  <2>1. earlier < next' /\ 1 \in 1..Len(published[n])
    BY <1>2, <1>4
  <2> QED
    BY <1>1, <2>1 DEF StreamNow, StreamOK, HeldBefore
<1>7. FirstOK'
  BY <1>1, <1>3 DEF StreamNow, FirstOK, IndexKept
<1>8. BetweenOK'
  BY <1>1, <1>3 DEF BetweenOK
<1>9. WithinOK'
  <2> SUFFICES ASSUME Clean', InOrder'
               PROVE  /\ \E u \in Start' : PresentKeys' \subseteq HeldAfter(u, published'[n], 0)
                      /\ firstSeq' = 1 =>
                            \E u \in Start' : HeldAfter(u, published'[n], 0) \subseteq PresentKeys'
    BY <1>1 DEF WithinOK
  <2>1. Start' = {HeldBefore(n), blocks[n]} /\ PresentKeys' = PresentKeys /\ Clean
    BY <1>1 DEF Start, HeldBefore, PresentKeys, IndexKept, Clean
  <2>2. /\ HeldAfter(HeldBefore(n), published'[n], 0) = HeldBefore(n)
        /\ HeldAfter(blocks[n], published'[n], 0) = blocks[n]
    BY <1>4, <1>5, HeldAtFirst
  <2>3. firstSeq = 0 /\ firstSeq' = 1 => HeldBefore(n) = {}
    BY <1>1, <1>2 DEF HeldBefore
  <2>4. CASE haveSeq
    <3>1. /\ lastSeq > 0 /\ PresentKeys \subseteq blocks[earlier + lastSeq]
          /\ firstSeq = 1 => blocks[earlier + lastSeq] \subseteq PresentKeys
      BY <1>1, <2>1, <2>4 DEF StreamNow, BetweenOK
    <3>2. n - earlier \in {lastSeq, lastSeq + 1}
      BY <1>1, <2>4 DEF InOrder, IndexKept
    <3>3. blocks[earlier + lastSeq] \in {HeldBefore(n), blocks[n]}
      <4>1. CASE n - earlier = lastSeq
        <5>1. earlier + lastSeq = n
          BY <1>2, <4>1
        <5> QED
          BY <5>1
      <4>2. CASE n - earlier = lastSeq + 1
        <5>1. earlier + lastSeq = n - 1 /\ n # earlier + 1
          BY <1>2, <3>1, <4>2
        <5> QED
          BY <5>1 DEF HeldBefore
      <4> QED
        BY <3>2, <4>1, <4>2
    <3>4. firstSeq' = 1 => firstSeq = 0 \/ firstSeq = 1
      BY <1>1
    <3> QED
      BY <2>1, <2>2, <2>3, <3>1, <3>3, <3>4
  <2>5. CASE ~haveSeq
    <3>1. PresentKeys = {} /\ firstSeq = 0
      BY <1>1, <2>5 DEF StreamNow, FirstOK, PresentKeys
    <3> QED
      BY <2>1, <2>2, <2>3, <3>1
  <2> QED
    BY <2>4, <2>5
<1> QED
  BY <1>6, <1>7, <1>8, <1>9 DEF StreamNext

(* The sequence check of an index that counts nothing amiss (index.go). *)
LEMMA CleanSeq ==
    ASSUME IndexOK, FirstOK, NEW s \in Nat, checkSeq(s)
    PROVE  /\ haveSeq' = TRUE /\ lastSeq' \in Nat /\ outOfOrder' \in Nat
           /\ sequenceGaps' = 0 /\ outOfOrder' = 0 =>
                 /\ lastSeq' = s /\ sequenceGaps = 0 /\ outOfOrder = 0
                 /\ haveSeq => s \in {lastSeq, lastSeq + 1}
<1>1. sequenceGaps \in Nat /\ outOfOrder \in Nat /\ lastSeq \in Nat
  BY DEF IndexOK, FirstOK
<1> QED
  BY <1>1 DEF checkSeq

(* An event is applied: what it does to the index it does to the bounds of *)
(* the index, and the end of the batch is where the bounds meet.           *)
LEMMA IngestStream ==
    ASSUME StreamNow, Ingest, UNCHANGED restartVars
    PROVE  StreamNext
<1> DEFINE e == published[batch]
           s == batch - earlier
<1>1. /\ batch # 0 /\ Apply(e[pos], s)
      /\ IF pos < Len(e) THEN pos' = pos + 1 /\ batch' = batch ELSE pos' = 1 /\ batch' = 0
      /\ UNCHANGED <<published, earlier, blocks, next, firstSeq, caughtUp, restarts>>
  BY DEF Ingest, restartVars
<1>2. /\ batch > earlier /\ batch < next /\ next <= Len(published) + 1 /\ pos \in 1..Len(e)
      /\ Len(published) \in Nat /\ earlier \in Nat /\ next \in Nat /\ batch \in Nat
  BY <1>1, StreamTypes DEF StreamNow, StreamOK
<1>3. batch \in 1..Len(published) /\ s \in Nat /\ s > 0 /\ earlier + s = batch
  BY <1>2
<1>4. e \in Seq(Events) /\ Len(e) \in Nat \ {0} /\ blocks[batch] \in SUBSET Keys
  BY <1>3, StreamTypes
<1>5. e[pos] \in Events /\ pos \in Nat /\ pos > 0
  BY <1>2, <1>4, LengthOf
<1>6. checkSeq(s) /\ eventsDropped \in Nat
      /\ (eventsDropped' = eventsDropped \/ eventsDropped' = eventsDropped + 1)
  BY <1>1, <1>5
     DEF Apply, ApplyStore, ApplyRemove, ApplyClear, evictIfNeeded, StreamNow, IndexOK
<1>7. /\ haveSeq' = TRUE /\ lastSeq' \in Nat /\ outOfOrder' \in Nat
      /\ sequenceGaps' = 0 /\ outOfOrder' = 0 =>
            /\ lastSeq' = s /\ sequenceGaps = 0 /\ outOfOrder = 0
            /\ haveSeq => s \in {lastSeq, lastSeq + 1}
  <2> HIDE DEF s
  <2> QED
    BY <1>3, <1>6, CleanSeq DEF StreamNow
<1>8. StreamOK'
  <2>1. batch' # 0 => pos' \in 1..Len(e) /\ batch' = batch
    BY <1>1, <1>2, <1>4
  <2> QED
    BY <1>1, <1>2, <2>1 DEF StreamNow, StreamOK, HeldBefore
<1>9. FirstOK'
  BY <1>1, <1>7 DEF StreamNow, FirstOK
<1>10. ASSUME Clean'
       PROVE  /\ lastSeq' = s
              /\ \E u \in Start : PresentKeys' \subseteq HeldAfter(u, e, pos)
              /\ firstSeq = 1 => \E u \in Start : HeldAfter(u, e, pos) \subseteq PresentKeys'
  <2>1. Clean /\ eventsDropped' = eventsDropped /\ lastSeq' = s /\ InOrder
    BY <1>1, <1>6, <1>7, <1>10 DEF Clean, InOrder
  <2>2. \A k : k \in PresentKeys'
                 <=> Stores(e[pos], k) \/ (k \in PresentKeys /\ ~Touches(e[pos], k))
    <3> HIDE DEF e, s
    <3> QED
      BY <1>1, <1>5, <2>1, Applied DEF StreamNow
  <2>3. PICK m \in Nat : m = pos - 1 /\ pos = m + 1
    BY <1>5
  <2>4. ASSUME NEW u, NEW k \in Keys
        PROVE  k \in HeldAfter(u, e, pos)
                 <=> Stores(e[pos], k) \/ (k \in HeldAfter(u, e, m) /\ ~Touches(e[pos], k))
    <3> HIDE DEF e
    <3> QED
      BY <2>3, HeldStep
  <2>5. \A k : Stores(e[pos], k) => k \in Keys
    BY <1>5 DEF Stores, Events
  <2>6. /\ \E u \in Start : PresentKeys \subseteq HeldAfter(u, e, m)
        /\ firstSeq = 1 => \E u \in Start : HeldAfter(u, e, m) \subseteq PresentKeys
    BY <1>1, <2>1, <2>3 DEF StreamNow, WithinOK
  <2> HIDE DEF e, s
  <2>7. ASSUME NEW u, PresentKeys \subseteq HeldAfter(u, e, m)
        PROVE  PresentKeys' \subseteq HeldAfter(u, e, pos)
    BY <2>2, <2>4, <2>5, <2>7, HeldKeys
  <2>8. ASSUME NEW u, HeldAfter(u, e, m) \subseteq PresentKeys
        PROVE  HeldAfter(u, e, pos) \subseteq PresentKeys'
    BY <2>2, <2>4, <2>8, HeldKeys
  <2> QED
    BY <2>1, <2>6, <2>7, <2>8
<1>11. WithinOK'
  <2> SUFFICES ASSUME Clean', batch' # 0
               PROVE  WithinOK'
    BY DEF WithinOK
  <2>1. batch' = batch /\ pos' - 1 = pos /\ Start' = Start
    BY <1>1, <1>5 DEF Start, HeldBefore
  <2> QED
    BY <1>1, <1>10, <2>1 DEF WithinOK
<1>12. BetweenOK'
  <2> SUFFICES ASSUME Clean', batch' = 0
               PROVE  BetweenOK'
    BY DEF BetweenOK
  <2>1. pos = Len(e)
    BY <1>1, <1>2, <1>4
  <2>2. blocks[batch] = HeldAfter(HeldBefore(batch), e, pos)
    <3>1. batch \in (earlier + 1)..Len(published)
      BY <1>2
    <3> QED
      BY <2>1, <3>1 DEF StreamNow, StreamOK
  <2>3. HeldAfter(blocks[batch], e, pos) = blocks[batch]
    BY <2>2, HeldAgain
  <2>4. \A u \in Start : HeldAfter(u, e, pos) = blocks[batch]
    BY <2>2, <2>3 DEF Start
  <2>5. lastSeq' = s /\ PresentKeys' \subseteq blocks[batch]
        /\ (firstSeq = 1 => blocks[batch] \subseteq PresentKeys')
    <3> HIDE DEF e, s
    <3> QED
      BY <1>10, <2>4
  <2> QED
    BY <1>1, <1>2, <1>3, <2>5 DEF BetweenOK
<1> QED
  BY <1>8, <1>9, <1>11, <1>12 DEF StreamNext

(* vLLM is started anew: until the feed loop has seen it healthy, nothing  *)
(* is claimed of the index.                                                *)
LEMMA RestartStream ==
    ASSUME StreamNow, RuntimeStarts, Republish
    PROVE  StreamNext
<1>1. /\ batch = 0 /\ batch' = 0 /\ earlier' = Len(published) /\ next' = Len(published) + 1
      /\ firstSeq' = 0 /\ published' = published /\ blocks' = blocks
  BY DEF Republish
<1>2. Len(published) \in Nat
  BY StreamTypes
<1>3. StreamOK'
  BY <1>1, <1>2 DEF StreamNow, StreamOK
<1>4. FirstOK'
  BY <1>1 DEF StreamNow, FirstOK, RuntimeStarts, indexVars
<1>5. caughtUp' # restarts'
  <2>1. caughtUp \in Nat /\ restarts \in Nat /\ caughtUp <= restarts
    BY DEF StreamNow, RestartOK
  <2>2. caughtUp' = caughtUp /\ restarts' = restarts + 1
    BY DEF RuntimeStarts
  <2> QED
    BY <2>1, <2>2
<1> QED
  BY <1>3, <1>4, <1>5 DEF StreamNext, BetweenOK, WithinOK, Clean

(* The tick of the feed loop: a reset may fall between two batches or into *)
(* the middle of one (cmd/sidecar/main.go).                                *)
LEMMA FeedTickStream ==
    ASSUME StreamNow, FeedTick,
           firstSeq' = IF healthy /\ ~lastUp THEN 0 ELSE firstSeq,
           UNCHANGED <<published, earlier, blocks, next, redelivered, batch, pos>>
    PROVE  StreamNext
<1>1. CASE healthy /\ ~lastUp
  <2>1. DOMAIN entries' = {} /\ haveSeq' = FALSE /\ lastSeq' = 0 /\ outOfOrder' = outOfOrder
        /\ firstSeq' = 0
    BY <1>1 DEF FeedTick, Reset
  <2>2. StreamOK'
    <3>1. StreamOK /\ UNCHANGED <<published, earlier, blocks, next, batch, pos>>
      BY DEF StreamNow
    <3> QED
      BY ONLY <3>1 DEF StreamOK, HeldBefore
  <2>3. FirstOK'
    <3>1. outOfOrder \in Nat
      BY DEF StreamNow, FirstOK
    <3> QED
      BY ONLY <2>1, <3>1 DEF FirstOK
  <2>4. PresentKeys' = {}
    BY <2>1 DEF PresentKeys
  <2>5. BetweenOK'
    BY ONLY <2>1 DEF BetweenOK
  <2>6. WithinOK'
    <3>1. HeldBefore(batch)' \in Start'
      BY DEF Start
    <3>2. \A S : PresentKeys' \subseteq S
      BY <2>4
    <3> QED
      BY ONLY <2>1, <3>1, <3>2 DEF WithinOK
  <2> QED
    BY <2>2, <2>3, <2>5, <2>6 DEF StreamNext
<1>2. CASE ~(healthy /\ ~lastUp)
  <2>1. IndexKept /\ UNCHANGED feed
    BY <1>2 DEF FeedTick, IndexKept, indexVars, feed
  <2>2. caughtUp' = restarts' => caughtUp = restarts
    BY <1>2 DEF FeedTick, StreamNow, RestartOK
  <2> QED
    BY <2>1, <2>2, StreamStays
<1> QED
  BY <1>1, <1>2

(* It holds initially, and every step of the plane keeps it. *)
LEMMA InitStream == Init => StreamInv
<1> SUFFICES ASSUME Init
             PROVE  StreamInv
  OBVIOUS
<1> USE DEF Init, EInit, IndexInit
<1>1. blocks \in Seq(SUBSET Keys) /\ Len(blocks) = 0 /\ Len(published) = 0
  BY EmptySequence
<1>2. StreamOK
  BY <1>1 DEF StreamOK
<1>3. DOMAIN entries = {}
  OBVIOUS
<1>4. FirstOK
  BY <1>3 DEF FirstOK
<1> QED
  BY <1>2, <1>4 DEF StreamInv, BetweenOK, WithinOK

LEMMA NextStream == CInv /\ StreamInv /\ [Next]_pvars => StreamInv'
<1> SUFFICES ASSUME CInv, StreamInv, [Next]_pvars, mode' = "native"
             PROVE  StreamNext
  BY DEF StreamInv, StreamNext
<1>1. mode = "native" /\ StreamNow
  BY DEF Next, pvars, CInv, StreamInv, StreamNow
<1>2. CASE UNCHANGED pvars
  BY <1>1, <1>2, StreamStays DEF pvars, xvars, indexVars, IndexKept, restartVars
<1>3. CASE Native
  <2>1. ENext(runtimeUp) /\ UNCHANGED restartVars
    BY <1>3 DEF Native
  <2>2. CASE \E events \in Batches : Publish(events)
    BY <1>1, <2>1, <2>2, PublishStream
  <2>3. CASE Deliver
    <3>1. next <= Len(published) /\ next' = next + 1
      BY <2>3 DEF Deliver
    <3>2. Receive(next)
      BY <2>3 DEF Deliver
    <3>3. earlier \in Nat /\ next \in Nat /\ Len(published) \in Nat
      BY <1>1, StreamTypes
    <3>4. earlier < next
      BY <1>1 DEF StreamNow, StreamOK
    <3>5. /\ next \in Nat /\ next > earlier /\ next < next' /\ next' \in Nat
          /\ next <= next' /\ next' <= Len(published) + 1
      BY ONLY <3>1, <3>3, <3>4
    <3> QED
      BY <1>1, <2>1, <3>1, <3>2, <3>5, ReceiveStream
  <2>4. CASE Redeliver
    <3>1. PICK n \in (earlier + 1)..(next - 1) : Receive(n)
      BY <2>4 DEF Redeliver
    <3>2. next' = next
      BY <2>4 DEF Redeliver
    <3>3. /\ n \in Nat /\ n > earlier /\ n < next' /\ next' \in Nat
          /\ next <= next' /\ next' <= Len(published) + 1
      <4>1. earlier \in Nat /\ next \in Nat /\ Len(published) \in Nat
        BY <1>1, StreamTypes
      <4>2. next <= Len(published) + 1
        BY <1>1 DEF StreamNow, StreamOK
      <4>3. n \in (earlier + 1)..(next - 1)
        OBVIOUS
      <4> QED
        BY ONLY <3>2, <4>1, <4>2, <4>3
    <3> QED
      BY <1>1, <2>1, <3>1, <3>3, ReceiveStream
  <2>5. CASE Lose
    BY <1>1, <2>1, <2>5, LoseStream
  <2>6. CASE Ingest
    BY <1>1, <2>1, <2>6, IngestStream
  <2>7. CASE Tick /\ UNCHANGED feed
    BY <1>1, <2>1, <2>7, StreamStays DEF Tick, IndexKept, restartVars
  <2> QED
    BY <2>1, <2>2, <2>3, <2>4, <2>5, <2>6, <2>7 DEF ENext
<1>4. CASE NativeHealth \/ NativeStops
  BY <1>1, <1>4, StreamStays
     DEF NativeHealth, NativeStops, checkHealth, RuntimeStops, indexVars, restartVars, IndexKept
<1>5. CASE NativeStarts
  BY <1>1, <1>5, RestartStream DEF NativeStarts
<1>6. CASE NativeFeedTick
  BY <1>1, <1>6, FeedTickStream DEF NativeFeedTick
<1> QED
  BY <1>1, <1>2, <1>3, <1>4, <1>5, <1>6 DEF Next, Explicit

(* The counters of the index tell when it can be trusted: with no gap, no  *)
(* late batch and nothing dropped, it holds exactly what vLLM holds, or    *)
(* less if it joined late or was reset in the middle of a batch; whatever  *)
(* was published, lost or delivered twice, and however often vLLM was      *)
(* restarted (index.go, vllm_provider.go).                                 *)
THEOREM TheCleanStreamIsExact == Spec => []CleanStreamExact
<1>1. Init => StreamInv
  BY InitStream
<1>2. CInv /\ StreamInv /\ [Next]_pvars => StreamInv'
  BY NextStream
<1>3. StreamInv => CleanStreamExact
  BY DEF StreamInv, CleanStreamExact, Settled, BetweenOK, Clean
<1> QED
  BY <1>1, <1>2, <1>3, CacheInvariance, PTL DEF Spec
=============================================================================
