-------------------------- MODULE MCConsistentHash --------------------------
(***************************************************************************)
(* Three nodes with two virtual nodes each on a ring of six positions; n1   *)
(* and n2 collide on position 3 and n3 collides with itself.                *)
(***************************************************************************)
EXTENDS ConsistentHash

CONSTANTS n1, n2, n3

Colliding ==
  [n \in Nodes |-> CASE n = n1 -> <<1, 3>>
                     [] n = n2 -> <<3, 4>>
                     [] OTHER  -> <<5, 5>>]
=============================================================================
