----------------------------- MODULE CacheIndex -----------------------------
(***************************************************************************)
(* The sidecar's index of cached prefixes and blocks                       *)
(* (internal/cache/index.go).  Every method runs under the index's lock,   *)
(* so each is one step; CacheEvents and ExplicitCache are the two          *)
(* providers that call them.                                               *)
(*                                                                         *)
(* Abstracted: what only /v1/cache shows (the reset epoch and the totals   *)
(* of events, duplicates, resets and stale invalidations), the parent and  *)
(* the block size of an entry (stored, and read by nobody).  Confidence is *)
(* an integer, in units of 1/(4*StaleAfter).  Time 0 is Go's zero time.    *)
(***************************************************************************)
EXTENDS Naturals, Sequences, FiniteSets

CONSTANTS
    Keys,          \* hashed prefix or block keys
    MaxEntries,
    EntryTTL,      \* 0: entries do not expire
    StaleAfter,    \* 0: the index is never stale
    MaxNow         \* bound: the horizon of the clock

ASSUME IndexAssumption ==
    /\ IsFiniteSet(Keys)
    /\ MaxEntries \in Nat \ {0}
    /\ EntryTTL \in Nat
    /\ StaleAfter \in Nat
    /\ MaxNow \in Nat

VARIABLES
    entries,       \* from keys to entries
    haveSeq, lastSeq, lastUpdate,
    sequenceGaps, outOfOrder, eventsDropped,
    now

indexVars == <<entries, haveSeq, lastSeq, lastUpdate, sequenceGaps,
               outOfOrder, eventsDropped, now>>

IndexInit ==
    /\ entries = <<>>
    /\ haveSeq = FALSE
    /\ lastSeq = 0
    /\ lastUpdate = 0
    /\ sequenceGaps = 0
    /\ outOfOrder = 0
    /\ eventsDropped = 0
    /\ now = 1

-----------------------------------------------------------------------------
(* Events. *)

\* Mutants: one lost batch goes unnoticed; a late batch sets lastSeq back.
checkSeqTolerant(seq) ==
    /\ haveSeq' = TRUE
    /\ lastSeq' = IF haveSeq /\ seq < lastSeq THEN lastSeq ELSE seq
    /\ outOfOrder' = IF haveSeq /\ seq < lastSeq THEN outOfOrder + 1 ELSE outOfOrder
    /\ sequenceGaps' = IF haveSeq /\ seq > lastSeq + 2 THEN sequenceGaps + 1
                                                       ELSE sequenceGaps

checkSeqRewinds(seq) ==
    /\ haveSeq' = TRUE
    /\ lastSeq' = seq
    /\ outOfOrder' = IF haveSeq /\ seq < lastSeq THEN outOfOrder + 1 ELSE outOfOrder
    /\ sequenceGaps' = IF haveSeq /\ seq > lastSeq + 1 THEN sequenceGaps + 1
                                                       ELSE sequenceGaps

\* Every event is accepted; late ones and jumps are counted.
checkSeq(seq) ==
    /\ haveSeq' = TRUE
    /\ lastSeq' = IF haveSeq /\ seq < lastSeq THEN lastSeq ELSE seq
    /\ outOfOrder' = IF haveSeq /\ seq < lastSeq THEN outOfOrder + 1 ELSE outOfOrder
    /\ sequenceGaps' = IF haveSeq /\ seq > lastSeq + 1 THEN sequenceGaps + 1
                                                       ELSE sequenceGaps

Without(es, k) == [j \in DOMAIN es \ {k} |-> es[j]]

\* Mutant: the entry updated last is taken for the oldest.
OldestNewest(es) == {k \in DOMAIN es : \A j \in DOMAIN es : es[j].UpdatedAt <= es[k].UpdatedAt}

Oldest(es) == {k \in DOMAIN es : \A j \in DOMAIN es : es[k].UpdatedAt <= es[j].UpdatedAt}

\* Mutant: the bound is checked before the new entry is counted.
evictIfNeededLate(es) ==
    IF Cardinality(DOMAIN es) <= MaxEntries + 1
    THEN entries' = es /\ UNCHANGED eventsDropped
    ELSE /\ \E k \in Oldest(es) : entries' = Without(es, k)
         /\ eventsDropped' = eventsDropped + 1

\* An insertion exceeds the bound by one at most, so one entry goes.  Which
\* of several equally old ones depends on the iteration order of the map.
evictIfNeeded(es) ==
    IF Cardinality(DOMAIN es) <= MaxEntries
    THEN entries' = es /\ UNCHANGED eventsDropped
    ELSE /\ \E k \in Oldest(es) : entries' = Without(es, k)
         /\ eventsDropped' = eventsDropped + 1

Stored(seq, tokens) ==
    [MatchedTokens |-> tokens, Present |-> TRUE, LastSeq |-> seq, UpdatedAt |-> now]

Known(k) == k \in DOMAIN entries

ApplyStore(seq, k, tokens) ==
    /\ checkSeq(seq)
    /\ lastUpdate' = now
    /\ IF ~Known(k)
       THEN evictIfNeeded([j \in DOMAIN entries \cup {k} |->
                               IF j = k THEN Stored(seq, tokens) ELSE entries[j]])
       ELSE /\ UNCHANGED eventsDropped
            \* present at the same sequence number: a duplicate
            /\ entries' = IF entries[k].Present /\ entries[k].LastSeq = seq THEN entries
                          ELSE [entries EXCEPT ![k] = Stored(seq, tokens)]
    /\ UNCHANGED now

ApplyRemove(seq, k) ==
    /\ checkSeq(seq)
    /\ lastUpdate' = now
    /\ entries' = IF Known(k)
                  THEN [entries EXCEPT ![k].Present = FALSE, ![k].LastSeq = seq,
                                       ![k].UpdatedAt = now]
                  ELSE entries
    /\ UNCHANGED <<eventsDropped, now>>

ApplyClear(seq) ==
    /\ checkSeq(seq)
    /\ lastUpdate' = now
    /\ entries' = <<>>
    /\ UNCHANGED <<eventsDropped, now>>

\* The gaps counted so far are kept.
Reset ==
    /\ entries' = <<>>
    /\ haveSeq' = FALSE
    /\ lastSeq' = 0
    /\ lastUpdate' = 0
    /\ UNCHANGED <<sequenceGaps, outOfOrder, eventsDropped, now>>

Tick ==
    /\ now < MaxNow
    /\ now' = now + 1
    /\ UNCHANGED <<entries, haveSeq, lastSeq, lastUpdate, sequenceGaps,
                   outOfOrder, eventsDropped>>

-----------------------------------------------------------------------------
(* Reads. *)

isStale ==
    /\ StaleAfter > 0
    /\ lastUpdate = 0 \/ now - lastUpdate > StaleAfter

confidence ==
    IF lastUpdate = 0 \/ isStale THEN 0
    ELSE LET fresh == IF StaleAfter > 0 THEN StaleAfter - (now - lastUpdate) ELSE 1
             gaps  == IF sequenceGaps > 3 THEN 3 ELSE sequenceGaps
         IN  fresh * (4 - gaps)

Expired(k) == EntryTTL > 0 /\ now - entries[k].UpdatedAt > EntryTTL

\* Mutant: a lookup does not look at the age of the entry.
lookupKeyAgeless(k) == IF Known(k) /\ entries[k].Present THEN entries[k].MatchedTokens ELSE 0

lookupKey(k) ==
    IF Known(k) /\ entries[k].Present /\ ~Expired(k) THEN entries[k].MatchedTokens ELSE 0

LookupKey(k) == IF isStale THEN 0 ELSE lookupKey(k)

Live == {k \in DOMAIN entries : entries[k].Present /\ ~Expired(k)}

\* The keys Directory(max) may publish; which of equally recent ones are cut
\* off is open.
Directory(max) ==
    IF isStale \/ lastUpdate = 0 THEN {{}}
    ELSE IF Cardinality(DOMAIN entries) <= max \/ Cardinality(Live) <= max THEN {Live}
    ELSE {d \in SUBSET Live :
            /\ Cardinality(d) = max
            /\ \A k \in d, j \in Live \ d : entries[j].UpdatedAt <= entries[k].UpdatedAt}

-----------------------------------------------------------------------------
(* Properties of the index, whoever feeds it. *)

(* The router, which reads the published directory, and the sidecar, which *)
(* looks a key up, see the same cache: a published key is one a lookup     *)
(* matches, and unless the directory is cut off every such key is in it.   *)
DirectoryMatchesLookup(max) ==
    \A d \in Directory(max) :
        /\ Cardinality(d) <= max
        /\ \A k \in d : LookupKey(k) > 0
        /\ Cardinality(DOMAIN entries) <= max =>
               \A k \in Keys : LookupKey(k) > 0 => k \in d

(* Every step keeps the bound, entries that are not present included, and  *)
(* what it drops for it is never more recent than what it keeps.           *)
EvictsOldestStep ==
    /\ Cardinality(DOMAIN entries') <= MaxEntries
    /\ eventsDropped' > eventsDropped =>
          \A k \in DOMAIN entries \ DOMAIN entries', j \in DOMAIN entries' :
              j \in DOMAIN entries => entries[k].UpdatedAt <= entries[j].UpdatedAt
=============================================================================
