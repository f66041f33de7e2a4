------------------------------ MODULE MCSearch ------------------------------
(***************************************************************************)
(* Two shards; the first holds all vectors but one.  A request for less     *)
(* than there is, one for everything above a score, one with a filter.      *)
(***************************************************************************)
EXTENDS Search

CONSTANTS s1, s2, lone

Placed == [k \in Ids |-> IF k = lone THEN s2 ELSE s1]
Asked  == {[k |-> 2, min |-> 0, filter |-> Scores],
           [k |-> 0, min |-> 2, filter |-> Scores],
           [k |-> 1, min |-> 0, filter |-> Scores \ {2}]}

(***************************************************************************)
(* The vectors of the first shard are interchangeable.                      *)
(***************************************************************************)
Alike == Permutations(Ids \ {lone})
=============================================================================
