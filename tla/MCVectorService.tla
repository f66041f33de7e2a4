-------------------------- MODULE MCVectorService --------------------------
(***************************************************************************)
(* Keys on one shard or two, two vectors of different dimensions.           *)
(***************************************************************************)
EXTENDS VectorService, TLC

CONSTANTS k1, k2, k3, s1, s2, v2

Routed     == [k \in Keys |-> IF k = k1 \/ s2 \notin Shards THEN s1 ELSE s2]
OwnDim     == [v \in Values |-> IF v = v2 THEN 2 ELSE 1]
SameDim    == [v \in Values |-> 1]
Symmetry   == Permutations({k2, k3})   \* two keys on one shard
=============================================================================
