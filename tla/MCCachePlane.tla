---------------------------- MODULE MCCachePlane ----------------------------
(* An instance of CachePlane: an index too small for its keys, a smaller   *)
(* directory, entries that expire, an index that goes stale; batches of    *)
(* one event, and of two whose order matters.                              *)
EXTENDS CachePlane, TLC

StoreOf(k)  == [kind |-> "block_stored", key |-> k]
RemoveOf(k) == [kind |-> "block_removed", key |-> k]
ClearAll    == [kind |-> "all_blocks_cleared"]

MCBatches ==
    {<<StoreOf(k)>> : k \in Keys} \cup {<<RemoveOf(k)>> : k \in Keys}
    \cup {<<RemoveOf(k), StoreOf(k)>> : k \in Keys} \cup {<<ClearAll>>}

Symmetry == Permutations(Observers) \cup Permutations(Keys)
=============================================================================
