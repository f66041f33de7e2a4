--------------------------- MODULE ConsistentHash ---------------------------
(***************************************************************************)
(* internal/shard/consistent_hash.go.  Every operation runs under c.mu, so  *)
(* each is one action.  hash is CRC-32 (external): here any function.       *)
(***************************************************************************)
EXTENDS Naturals, FiniteSets, Sequences, SequencesExt, SeqFilter

CONSTANTS
  Nodes,         \* Redis addresses
  VirtualNodes,  \* virtual nodes per address
  Hashes,        \* hash values that occur
  VHash,         \* VHash[n][i]: the hash of "n#i"
  MaxKeys,       \* bound on the length of sortedKeys
  None

ASSUME HashAssumption ==
  /\ VirtualNodes \in Nat /\ Hashes \subseteq Nat
  /\ VHash \in [Nodes -> [1 .. VirtualNodes -> Hashes]]
  /\ None \notin Nodes

VARIABLES
  nodes,      \* c.nodes: owner of a hash, None where the map has no entry
  sortedKeys  \* c.sortedKeys, one entry per virtual node added

vars == <<nodes, sortedKeys>>

Points == [n \in Nodes |-> Range(VHash[n])]

Init ==
  /\ nodes = [h \in Hashes |-> None]
  /\ sortedKeys = <<>>

(***************************************************************************)
(* sort.Slice (external): its i-th entry is the value such that fewer than  *)
(* i entries of s are smaller and at least i are not larger.                *)
(***************************************************************************)
Below(s, h)    == Cardinality({j \in 1 .. Len(s) : s[j] < h})
NotAbove(s, h) == Cardinality({j \in 1 .. Len(s) : s[j] <= h})

HasRank(s, h, i) == Below(s, h) < i /\ i <= NotAbove(s, h)

Sorted(s) == [i \in 1 .. Len(s) |-> CHOOSE h \in Range(s) : HasRank(s, h, i)]

(***************************************************************************)
(* c.nodes is overwritten where another node already owns the hash, and     *)
(* sortedKeys gets a duplicate.                                             *)
(***************************************************************************)
AddNode(n) ==
  /\ Len(sortedKeys) + VirtualNodes <= MaxKeys
  /\ nodes' = [h \in Hashes |-> IF h \in Points[n] THEN n ELSE nodes[h]]
  /\ sortedKeys' = Sorted(sortedKeys \o VHash[n])

(***************************************************************************)
(* The node's hashes leave the map whoever owns them, and sortedKeys keeps  *)
(* what is still in the map.                                                *)
(***************************************************************************)
Remaining_All(ks, owner) == ks
Remaining(ks, owner) == Filter(ks, {h \in Hashes : owner[h] # None})

RemoveNode(n) ==
  /\ nodes' = [h \in Hashes |-> IF h \in Points[n] THEN None ELSE nodes[h]]
  /\ sortedKeys' = Remaining(sortedKeys, nodes')

(***************************************************************************)
(* sort.Search (external) finds the first index whose key is not below x;   *)
(* past the end the code wraps to the first.                                *)
(***************************************************************************)
SearchIndex_Modulo(x) == (x % Len(sortedKeys)) + 1
SearchIndex_NoWrap(x) ==
  LET hits == {i \in 1 .. Len(sortedKeys) : sortedKeys[i] >= x}
  IN  IF hits = {} THEN Len(sortedKeys) ELSE Min(hits)
SearchIndex(x) ==
  LET hits == {i \in 1 .. Len(sortedKeys) : sortedKeys[i] >= x}
  IN  IF hits = {} THEN 1 ELSE Min(hits)

GetNode(x) ==
  IF \A h \in Hashes : nodes[h] = None THEN None
  ELSE nodes[sortedKeys[SearchIndex(x)]]

Next == \E n \in Nodes : AddNode(n) \/ RemoveNode(n)

Spec == Init /\ [][Next]_vars

-----------------------------------------------------------------------------
(***************************************************************************)
(* sortedKeys is ascending and lists exactly the hashes in the map, so the  *)
(* index GetNode uses is in range and leads to a node (AddNode, RemoveNode). *)
(***************************************************************************)
KeysMatchMap ==
  /\ \A i \in 1 .. Len(sortedKeys) - 1 : sortedKeys[i] <= sortedKeys[i + 1]
  /\ Range(sortedKeys) = {h \in Hashes : nodes[h] # None}

(***************************************************************************)
(* The ring whose owners the map holds.                                     *)
(***************************************************************************)
Ring == INSTANCE HashRing WITH owner <- nodes

(***************************************************************************)
(* GetNode finds the owner the ring defines, for every hash, whatever       *)
(* nodes were added, removed, added twice or collide.                       *)
(***************************************************************************)
GetNodeAgrees == \A x \in Hashes : GetNode(x) = Ring!Lookup(x)

(***************************************************************************)
(* Membership changes move no more keys than they must: AddNode moves keys  *)
(* only to the node added, RemoveNode only those that lay on one of its     *)
(* positions (which may belong to another node where virtual nodes          *)
(* collide).                                                                *)
(***************************************************************************)
KeysMoveMinimally ==
  [][\A n \in Nodes, x \in Hashes :
       /\ AddNode(n) => GetNode(x)' \in {GetNode(x), n}
       /\ RemoveNode(n) /\ sortedKeys # <<>> /\ Ring!Successor(x) \notin Points[n] =>
            GetNode(x)' = GetNode(x)]_vars
=============================================================================
