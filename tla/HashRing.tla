------------------------------ MODULE HashRing ------------------------------
(***************************************************************************)
(* The definition of a consistent-hash ring: positions have owners, and a   *)
(* key belongs to the owner of the first owned position at or after it,     *)
(* going round.  ConsistentHash (internal/shard/consistent_hash.go), which   *)
(* searches a sorted slice, is compared with it.                            *)
(***************************************************************************)
EXTENDS Naturals, FiniteSetsExt

CONSTANTS
  Hashes,  \* the 32-bit hash values that occur
  None

VARIABLE owner  \* the owner of each position, None where it has none

Occupied == {h \in Hashes : owner[h] # None}

(***************************************************************************)
(* The first position of S at or after x, going round.                      *)
(***************************************************************************)
AtOrAfter(S, x) == {h \in S : h >= x}
First(S, x) == IF AtOrAfter(S, x) # {} THEN Min(AtOrAfter(S, x)) ELSE Min(S)

Successor(x) == First(Occupied, x)

(***************************************************************************)
(* The node a key with hash x belongs to; None: "no nodes available".       *)
(***************************************************************************)
Lookup(x) == IF Occupied = {} THEN None ELSE owner[Successor(x)]
=============================================================================
