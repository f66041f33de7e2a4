------------------------ MODULE ShardManager_proofs ------------------------
(***************************************************************************)
(* For any number of shards, addresses, virtual nodes and handlers, any     *)
(* hash functions, and whatever Redis servers are down at start-up or       *)
(* later: a shard is active only if it has an adapter, every key routes to  *)
(* a shard on the node the ring gives it, and the shards of a node share    *)
(* its keys.                                                                *)
(***************************************************************************)
EXTENDS ShardManager, TLAPS

(***************************************************************************)
(* The inductive invariant: the loop of NewShardManager sets up one shard   *)
(* after the other, and a shard it has not come to is not active.           *)
(***************************************************************************)
AdapterInv ==
  /\ created \in 0 .. ShardCount
  /\ status \in [Shards -> {"none", "active", "error", "no_adapter", "unhealthy"}]
  /\ hasAdapter \subseteq 0 .. created - 1
  /\ ActiveHasAdapter

(***************************************************************************)
(* One round of NewShardManager makes shard `created' active only together  *)
(* with its adapter.                                                        *)
(***************************************************************************)
LEMMA NewShardStep == AdapterInv /\ NewShard => AdapterInv'
<1> SUFFICES ASSUME AdapterInv, NewShard PROVE AdapterInv'
  OBVIOUS
<1> DEFINE i == created
           up_i == NodeOf(created) \in up
<1>1. /\ ShardCount \in Nat \ {0} /\ i \in Shards /\ created' = created + 1
      /\ hasAdapter' = IF up_i THEN hasAdapter \cup {i} ELSE hasAdapter
      /\ status' = [status EXCEPT ![i] = IF up_i THEN "active" ELSE "error"]
  BY ShardAssumption
     DEF AdapterInv, NewShard, NextShard, StatusWithoutAdapter, Ready, Shards
<1> HIDE DEF up_i
<1>2. created' \in 0 .. ShardCount /\ hasAdapter' \subseteq 0 .. created' - 1
  BY <1>1 DEF AdapterInv, Shards
<1>3. status' \in [Shards -> {"none", "active", "error", "no_adapter", "unhealthy"}]
  BY <1>1 DEF AdapterInv
<1>4. ActiveHasAdapter'
  <2> SUFFICES ASSUME NEW s \in Shards, status'[s] = "active" PROVE s \in hasAdapter'
    BY DEF ActiveHasAdapter
  <2>1. CASE s = i
    BY <1>1, <2>1 DEF AdapterInv
  <2>2. CASE s # i
    BY <1>1, <2>2 DEF AdapterInv, ActiveHasAdapter
  <2> QED
    BY <2>1, <2>2
<1> QED
  BY <1>2, <1>3, <1>4 DEF AdapterInv

(***************************************************************************)
(* The health check calls a shard active only after its adapter answered.   *)
(***************************************************************************)
LEMMA HealthShardStep ==
  ASSUME NEW s \in Shards, AdapterInv, HealthShard(s)
  PROVE  AdapterInv'
<1>1. /\ status' = [status EXCEPT ![s] = Checked(s)]
      /\ UNCHANGED <<created, hasAdapter>>
  BY DEF HealthShard
<1>2. /\ Checked(s) \in {"active", "no_adapter", "unhealthy"}
      /\ Checked(s) = "active" => s \in hasAdapter
  BY DEF Checked
<1>3. ActiveHasAdapter'
  <2> SUFFICES ASSUME NEW t \in Shards, status'[t] = "active" PROVE t \in hasAdapter
    BY <1>1 DEF ActiveHasAdapter
  <2>1. CASE t = s
    BY <1>1, <1>2, <2>1 DEF AdapterInv
  <2>2. CASE t # s
    BY <1>1, <2>2 DEF AdapterInv, ActiveHasAdapter
  <2> QED
    BY <2>1, <2>2
<1> QED
  BY <1>1, <1>2, <1>3 DEF AdapterInv

(***************************************************************************)
(* The status and the adapters of the shards agree in every reachable state *)
(* (NewShardManager, performHealthCheck).                                   *)
(***************************************************************************)
THEOREM ActiveShardsHaveAdapters == Spec => []ActiveHasAdapter
<1>1. Init => AdapterInv
  BY ShardAssumption DEF Init, AdapterInv, ActiveHasAdapter, Shards
<1>2. AdapterInv /\ [Next]_vars => AdapterInv'
  <2> SUFFICES ASSUME AdapterInv, [Next]_vars PROVE AdapterInv'
    OBVIOUS
  <2>1. ASSUME UNCHANGED <<created, status, hasAdapter>> PROVE AdapterInv'
    BY <2>1 DEF AdapterInv, ActiveHasAdapter
  <2>2. CASE NewShard
    BY <2>2, NewShardStep
  <2>3. ASSUME NEW s \in Shards, HealthShard(s) PROVE AdapterInv'
    BY <2>3, HealthShardStep
  <2>4. ASSUME NEW r \in Requests, RequestStep(r) \/ \E k \in Keys : Start(r, k)
        PROVE  AdapterInv'
    BY <2>1, <2>4 DEF RequestStep, Route, GetShardAdapter, Return, Start
  <2>5. CASE HealthLock \/ HealthUnlock \/ Close
    BY <2>1, <2>5 DEF HealthLock, HealthUnlock, Close
  <2>6. ASSUME NEW a \in Addrs, RedisStops(a) \/ RedisStarts(a) PROVE AdapterInv'
    BY <2>1, <2>6 DEF RedisStops, RedisStarts
  <2>7. CASE UNCHANGED vars
    BY <2>1, <2>7 DEF vars
  <2> QED
    BY <2>2, <2>3, <2>4, <2>5, <2>6, <2>7 DEF Next
<1>3. AdapterInv => ActiveHasAdapter
  BY DEF AdapterInv
<1> QED
  BY <1>1, <1>2, <1>3, PTL DEF Spec

-----------------------------------------------------------------------------
(***************************************************************************)
(* What ConsistentHash_proofs shows of the ring is used with the manager's  *)
(* addresses as nodes.                                                      *)
(***************************************************************************)
Proved == INSTANCE ConsistentHash_proofs
            WITH Nodes <- Addrs, MaxKeys <- ShardCount * VirtualNodes

LEMMA RingConstants == Proved!HashAssumption
  BY ShardAssumption DEF Proved!HashAssumption

LEMMA SameRing ==
  /\ Hash!Init => Proved!Init
  /\ \A a \in Addrs : Hash!AddNode(a) => Proved!AddNode(a)
  /\ \A x : Hash!GetNode(x) = Proved!GetNode(x)
  /\ \A x : Hash!Ring!Lookup(x) = Proved!Ring!Lookup(x)
<1>1. \A s : Hash!Sorted(s) = Proved!Sorted(s)
  BY DEF Hash!Sorted, Proved!Sorted, Hash!HasRank, Proved!HasRank,
         Hash!Below, Proved!Below, Hash!NotAbove, Proved!NotAbove,
         Hash!Cardinality, Proved!Cardinality, Hash!Range, Proved!Range
<1>2. \A a \in Addrs : Hash!AddNode(a) => Proved!AddNode(a)
  BY <1>1 DEF Hash!AddNode, Proved!AddNode, Hash!Points, Proved!Points,
              Hash!Range, Proved!Range
<1>3. \A x : Hash!GetNode(x) = Proved!GetNode(x)
  BY DEF Hash!GetNode, Proved!GetNode, Hash!SearchIndex, Proved!SearchIndex,
         Hash!Min, Proved!Min
<1>4. \A x : Hash!Ring!Lookup(x) = Proved!Ring!Lookup(x)
  BY DEF Hash!Ring!Lookup, Proved!Ring!Lookup, Hash!Ring!Occupied, Proved!Ring!Occupied,
         Hash!Ring!Successor, Proved!Ring!Successor, Hash!Ring!First, Proved!Ring!First,
         Hash!Ring!AtOrAfter, Proved!Ring!AtOrAfter, Hash!Ring!Min, Proved!Ring!Min
<1>5. Hash!Init => Proved!Init
  BY DEF Hash!Init, Proved!Init
<1> QED
  BY <1>2, <1>3, <1>4, <1>5

(***************************************************************************)
(* The remainder picks an entry of a sequence that is not empty: an address *)
(* for a shard, a shard for a key.                                          *)
(***************************************************************************)
LEMMA RemainderInRange ==
  ASSUME NEW x \in Nat, NEW n \in Nat, n # 0
  PROVE  (x % n) + 1 \in 1 .. n
  OBVIOUS

LEMMA NodeOfIsAddr ==
  ASSUME NEW i \in Nat
  PROVE  NodeOf(i) \in Addrs
<1>1. Len(RedisAddresses) \in Nat /\ Len(RedisAddresses) # 0
  BY ShardAssumption
<1>2. (i % Len(RedisAddresses)) + 1 \in 1 .. Len(RedisAddresses)
  BY <1>1, RemainderInRange
<1> QED
  BY <1>2, ShardAssumption DEF NodeOf

(***************************************************************************)
(* The inductive invariant of the placement: the shards of a node are those *)
(* set up so far that NodeOf puts there, in the order they were set up, and *)
(* no node is on the ring without a shard.                                  *)
(***************************************************************************)
PlacementInv ==
  /\ Proved!KeysInv
  /\ created \in 0 .. ShardCount
  /\ nodeToShards \in [Addrs -> Seq(Shards)]
  /\ \A a \in Addrs : \A i \in 1 .. Len(nodeToShards[a]) :
       NodeOf(nodeToShards[a][i]) = a /\ nodeToShards[a][i] < created
  /\ \A a \in Addrs : \A i, j \in 1 .. Len(nodeToShards[a]) :
       i < j => nodeToShards[a][i] < nodeToShards[a][j]
  /\ \A h \in Hashes : nodes[h] # None => nodeToShards[nodes[h]] # <<>>
  /\ created # 0 => \E h \in Hashes : nodes[h] # None

(***************************************************************************)
(* One round of NewShardManager adds the shard's node to the ring and the   *)
(* shard to its node.                                                       *)
(***************************************************************************)
LEMMA NewShardPlaces == PlacementInv /\ NewShard => PlacementInv'
<1> SUFFICES ASSUME PlacementInv, NewShard PROVE PlacementInv'
  OBVIOUS
<1> DEFINE c == created
           a == NodeOf(created)
           old == nodeToShards[a]
<1>1. /\ ShardCount \in Nat \ {0} /\ c \in Shards /\ c \in Nat /\ created' = c + 1
      /\ nodeToShards' = [nodeToShards EXCEPT ![a] = Append(@, c)]
      /\ Hash!AddNode(a)
  BY ShardAssumption DEF PlacementInv, NewShard, NextShard, Ready, Shards
<1>2. a \in Addrs
  BY <1>1, NodeOfIsAddr
<1>3. Proved!AddNode(a) /\ nodes' = [h \in Hashes |-> IF h \in Hash!Points[a] THEN a ELSE nodes[h]]
  BY <1>1, <1>2, SameRing DEF Hash!AddNode
<1>4. Proved!KeysInv'
  BY <1>2, <1>3, RingConstants, Proved!AddKeepsKeys DEF PlacementInv
<1>5. /\ old \in Seq(Shards) /\ Append(old, c) \in Seq(Shards)
      /\ Len(old) \in Nat /\ Len(Append(old, c)) = Len(old) + 1
      /\ \A i \in 1 .. Len(old) : Append(old, c)[i] = old[i] /\ old[i] \in Nat
      /\ Append(old, c)[Len(old) + 1] = c
  BY <1>1, <1>2 DEF PlacementInv, Shards
<1>6. /\ nodeToShards' \in [Addrs -> Seq(Shards)]
      /\ nodeToShards'[a] = Append(old, c)
      /\ \A b \in Addrs : b # a => nodeToShards'[b] = nodeToShards[b]
  BY <1>1, <1>2, <1>5 DEF PlacementInv
<1>7. /\ \A i \in 1 .. Len(old) : NodeOf(old[i]) = a /\ old[i] < c
      /\ \A i, j \in 1 .. Len(old) : i < j => old[i] < old[j]
  BY <1>2 DEF PlacementInv
<1>8. ASSUME NEW b \in Addrs, NEW i \in 1 .. Len(nodeToShards'[b])
      PROVE  NodeOf(nodeToShards'[b][i]) = b /\ nodeToShards'[b][i] < c + 1
  <2>1. CASE b # a
    <3>1. nodeToShards'[b] = nodeToShards[b] /\ i \in 1 .. Len(nodeToShards[b])
      BY <1>6, <2>1
    <3>2. nodeToShards[b][i] \in Nat
      BY <3>1, ShardAssumption DEF PlacementInv, Shards
    <3>3. NodeOf(nodeToShards[b][i]) = b /\ nodeToShards[b][i] < c
      BY <3>1 DEF PlacementInv
    <3> HIDE DEF a, c
    <3> QED
      BY <1>1, <3>1, <3>2, <3>3
  <2>2. CASE b = a /\ i = Len(old) + 1
    BY <1>1, <1>5, <1>6, <2>2
  <2>3. CASE b = a /\ i # Len(old) + 1
    <3> HIDE DEF old, a
    <3>1. i \in 1 .. Len(old)
      BY <1>5, <1>6, <2>3
    <3>2. nodeToShards'[b][i] = old[i] /\ old[i] \in Nat /\ NodeOf(old[i]) = a /\ old[i] < c
      BY <1>5, <1>6, <1>7, <2>3, <3>1
    <3> QED
      BY <1>1, <2>3, <3>2
  <2> QED
    BY <2>1, <2>2, <2>3
<1>9. ASSUME NEW b \in Addrs, NEW i \in 1 .. Len(nodeToShards'[b]),
             NEW j \in 1 .. Len(nodeToShards'[b]), i < j
      PROVE  nodeToShards'[b][i] < nodeToShards'[b][j]
  <2>1. CASE b # a
    BY <1>6, <1>9, <2>1 DEF PlacementInv
  <2>2. CASE b = a
    <3> HIDE DEF old, a
    <3>1. i \in 1 .. Len(old) /\ nodeToShards'[b][i] = old[i]
      BY <1>5, <1>6, <1>9, <2>2
    <3>2. CASE j = Len(old) + 1
      <4>1. nodeToShards'[b][j] = c
        BY <1>5, <1>6, <2>2, <3>2
      <4> QED
        BY <1>7, <3>1, <4>1
    <3>3. CASE j # Len(old) + 1
      <4>1. j \in 1 .. Len(old)
        BY <1>5, <1>6, <2>2, <3>3
      <4>2. nodeToShards'[b][j] = old[j]
        BY <1>5, <1>6, <2>2, <4>1
      <4> QED
        BY <1>7, <1>9, <3>1, <4>1, <4>2
    <3> QED
      BY <3>2, <3>3
  <2> QED
    BY <2>1, <2>2
<1>10. ASSUME NEW h \in Hashes, nodes'[h] # None PROVE nodeToShards'[nodes'[h]] # <<>>
  <2>1. CASE nodes'[h] = a
    <3> HIDE DEF old, a
    <3> QED
      BY <1>5, <1>6, <2>1
  <2>2. CASE nodes'[h] # a
    <3>1. nodes'[h] = nodes[h] /\ nodes[h] # None /\ nodes[h] \in Addrs
      BY <1>3, <1>10, <2>2 DEF PlacementInv, Proved!KeysInv
    <3> QED
      BY <1>6, <2>2, <3>1 DEF PlacementInv
  <2> QED
    BY <2>1, <2>2
<1>11. \E h \in Hashes : nodes'[h] # None
  <2>1. VHash[a] \in [1 .. VirtualNodes -> Hashes] /\ 1 \in 1 .. VirtualNodes /\ a # None
    BY <1>2, ShardAssumption
  <2>2. VHash[a][1] \in Hashes /\ VHash[a][1] \in Hash!Points[a]
    BY <1>2, <2>1 DEF Hash!Points, Hash!Range
  <2>3. nodes'[VHash[a][1]] = a
    BY <1>3, <2>2
  <2> QED
    BY <2>1, <2>2, <2>3
<1>12. created' \in 0 .. ShardCount
  BY <1>1 DEF Shards
<1> HIDE DEF c, a, old
<1> QED
  BY <1>1, <1>4, <1>6, <1>8, <1>9, <1>10, <1>11, <1>12 DEF PlacementInv

(***************************************************************************)
(* Nothing else changes the placement.                                      *)
(***************************************************************************)
LEMMA PlacementHolds == Spec => []PlacementInv
<1>1. Init => PlacementInv
  <2> SUFFICES ASSUME Init PROVE PlacementInv
    OBVIOUS
  <2>1. Proved!KeysInv
    BY RingConstants, SameRing, Proved!KeysInvInitially DEF Init
  <2>2. /\ created = 0 /\ nodeToShards = [a \in Addrs |-> <<>>]
        /\ \A h \in Hashes : nodes[h] = None
    BY DEF Init, Hash!Init
  <2> QED
    BY <2>1, <2>2, ShardAssumption DEF PlacementInv
<1>2. PlacementInv /\ [Next]_vars => PlacementInv'
  <2> SUFFICES ASSUME PlacementInv, [Next]_vars PROVE PlacementInv'
    OBVIOUS
  <2>1. ASSUME UNCHANGED <<ringVars, created, nodeToShards>> PROVE PlacementInv'
    BY <2>1 DEF PlacementInv, Proved!KeysInv, ringVars
  <2>2. CASE NewShard
    BY <2>2, NewShardPlaces
  <2>3. ASSUME NEW s \in Shards, HealthShard(s) PROVE PlacementInv'
    BY <2>1, <2>3 DEF HealthShard
  <2>4. ASSUME NEW r \in Requests, RequestStep(r) \/ \E k \in Keys : Start(r, k)
        PROVE  PlacementInv'
    BY <2>1, <2>4 DEF RequestStep, Route, GetShardAdapter, Return, Start
  <2>5. CASE HealthLock \/ HealthUnlock \/ Close
    BY <2>1, <2>5 DEF HealthLock, HealthUnlock, Close
  <2>6. ASSUME NEW a \in Addrs, RedisStops(a) \/ RedisStarts(a) PROVE PlacementInv'
    BY <2>1, <2>6 DEF RedisStops, RedisStarts
  <2>7. CASE UNCHANGED vars
    BY <2>1, <2>7 DEF vars
  <2> QED
    BY <2>2, <2>3, <2>4, <2>5, <2>6, <2>7 DEF Next
<1> QED
  BY <1>1, <1>2, PTL DEF Spec

(***************************************************************************)
(* A key's node: on the ring it always has an owner, and that node's shards *)
(* are at hand.                                                             *)
(***************************************************************************)
LEMMA KeyHasNode ==
  ASSUME PlacementInv, Ready, NEW k \in Keys
  PROVE  LET a == Hash!GetNode(KeyHash[k])
         IN  /\ a = Hash!Ring!Lookup(KeyHash[k])
             /\ a \in Addrs /\ a # None
             /\ nodeToShards[a] \in Seq(Shards) /\ nodeToShards[a] # <<>>
<1> DEFINE x == KeyHash[k]
           a == Hash!GetNode(x)
           O == Proved!Ring!Occupied
<1>1. x \in Hashes /\ Hashes \subseteq Nat
  BY ShardAssumption
<1>2. Proved!GetNode(x) = Proved!Ring!Lookup(x)
  BY <1>1, RingConstants, Proved!LookupAgrees DEF PlacementInv
<1>3. O # {} /\ O \subseteq Nat
  BY <1>1, ShardAssumption DEF PlacementInv, Ready, Proved!Ring!Occupied
<1>4. Proved!Ring!Successor(x) \in O
  BY <1>1, <1>3, RingConstants, Proved!FirstBelongs DEF Proved!Ring!Successor
<1>5. PICK h \in Hashes : nodes[h] # None /\ Proved!Ring!Lookup(x) = nodes[h]
  BY <1>3, <1>4 DEF Proved!Ring!Lookup, Proved!Ring!Occupied
<1>6. a = nodes[h] /\ a = Hash!Ring!Lookup(x)
  BY <1>2, <1>5, SameRing
<1>7. nodes[h] \in Addrs /\ nodeToShards[nodes[h]] # <<>> /\ nodeToShards[nodes[h]] \in Seq(Shards)
  BY <1>5 DEF PlacementInv, Proved!KeysInv
<1> HIDE DEF a
<1> QED
  BY <1>5, <1>6, <1>7 DEF a

(***************************************************************************)
(* The index the remainder gives in the list of a node's shards.            *)
(***************************************************************************)
LEMMA PickedShard ==
  ASSUME PlacementInv, Ready, NEW k \in Keys
  PROVE  LET a == Hash!GetNode(KeyHash[k])
             i == (KeyCrc[k] % Len(nodeToShards[a])) + 1
         IN  /\ i \in 1 .. Len(nodeToShards[a])
             /\ GetShardForKey(k) = nodeToShards[a][i]
<1> DEFINE a == Hash!GetNode(KeyHash[k])
           list == nodeToShards[a]
<1>1. a # None /\ list \in Seq(Shards) /\ list # <<>>
  BY KeyHasNode
<1>2. Len(list) \in Nat /\ Len(list) # 0 /\ KeyCrc[k] \in Nat
  BY <1>1, ShardAssumption
<1>3. (KeyCrc[k] % Len(list)) + 1 \in 1 .. Len(list)
  <2> HIDE DEF list
  <2> QED
    BY <1>2, RemainderInRange
<1>4. GetShardForKey(k) = list[(KeyCrc[k] % Len(list)) + 1]
  BY <1>1 DEF GetShardForKey, PickShard
<1> QED
  BY <1>3, <1>4

(***************************************************************************)
(* Once the manager is ready every key routes to a shard on the node the    *)
(* ring gives it (NewShardManager, GetShardForKey).                         *)
(***************************************************************************)
THEOREM EveryKeyAlwaysRoutes == Spec => []EveryKeyRoutes
<1>1. PlacementInv => EveryKeyRoutes
  <2> SUFFICES ASSUME PlacementInv, Ready, NEW k \in Keys
               PROVE  /\ GetShardForKey(k) \in Shards
                      /\ NodeOf(GetShardForKey(k)) = Hash!Ring!Lookup(KeyHash[k])
    BY DEF EveryKeyRoutes
  <2> DEFINE a == Hash!GetNode(KeyHash[k])
  <2>1. a \in Addrs /\ nodeToShards[a] \in Seq(Shards) /\ a = Hash!Ring!Lookup(KeyHash[k])
    BY KeyHasNode
  <2>2. PICK i \in 1 .. Len(nodeToShards[a]) : GetShardForKey(k) = nodeToShards[a][i]
    BY PickedShard
  <2> HIDE DEF a
  <2>3. NodeOf(nodeToShards[a][i]) = a /\ nodeToShards[a][i] \in Shards
    BY <2>1 DEF PlacementInv
  <2> QED
    BY <2>1, <2>2, <2>3
<1> QED
  BY <1>1, PlacementHolds, PTL

(***************************************************************************)
(* Keys of one node whose crc32Hash leaves different remainders go to       *)
(* different shards (GetShardForKey).                                       *)
(***************************************************************************)
THEOREM ShardsAlwaysShareKeys == Spec => []ShardsShareKeys
<1>1. PlacementInv => ShardsShareKeys
  <2> SUFFICES ASSUME PlacementInv, Ready, NEW j \in Keys, NEW k \in Keys,
                      Hash!GetNode(KeyHash[j]) = Hash!GetNode(KeyHash[k]),
                      LET n == Len(nodeToShards[Hash!GetNode(KeyHash[j])])
                      IN  KeyCrc[j] % n # KeyCrc[k] % n
               PROVE  GetShardForKey(j) # GetShardForKey(k)
    BY DEF ShardsShareKeys
  <2> DEFINE a == Hash!GetNode(KeyHash[j])
             n == Len(nodeToShards[a])
             ij == (KeyCrc[j] % n) + 1
             ik == (KeyCrc[k] % n) + 1
  <2>1. /\ a \in Addrs
        /\ ij \in 1 .. n /\ GetShardForKey(j) = nodeToShards[a][ij]
        /\ ik \in 1 .. n /\ GetShardForKey(k) = nodeToShards[a][ik]
    BY KeyHasNode, PickedShard
  <2>2. ij # ik
    <3>1. KeyCrc[j] % n \in Int /\ KeyCrc[k] % n \in Int
      <4>1. n \in Nat /\ KeyCrc[j] \in Nat /\ KeyCrc[k] \in Nat
        <5>1. nodeToShards[a] \in Seq(Shards)
          BY KeyHasNode
        <5> HIDE DEF a
        <5> QED
          BY <5>1, ShardAssumption
      <4>2. n # 0
        BY <2>1, <4>1
      <4> QED
        BY <4>1, <4>2
    <3> QED
      BY <3>1
  <2> HIDE DEF a, n, ij, ik
  <2>3. \A p, q \in 1 .. Len(nodeToShards[a]) : p < q => nodeToShards[a][p] < nodeToShards[a][q]
    BY <2>1 DEF PlacementInv
  <2>4. \A p \in 1 .. Len(nodeToShards[a]) : nodeToShards[a][p] \in Nat
    <3>1. nodeToShards[a] \in Seq(Shards)
      BY <2>1 DEF PlacementInv
    <3>2. Shards \subseteq Nat
      BY ShardAssumption DEF Shards
    <3>3. \A p \in 1 .. Len(nodeToShards[a]) : nodeToShards[a][p] \in Shards
      BY <3>1
    <3> QED
      BY <3>2, <3>3, Zenon
  <2> QED
    BY <2>1, <2>2, <2>3, <2>4 DEF n
<1> QED
  BY <1>1, PlacementHolds, PTL

(***************************************************************************)
(* The type invariant.                                                      *)
(***************************************************************************)
THEOREM ShardManagerTyped == Spec => []TypeOK
<1> DEFINE Rest ==
      /\ hasAdapter \subseteq Shards
      /\ status \in [Shards -> {"none", "active", "error", "no_adapter", "unhealthy"}]
      /\ lock \in {"free", "health"} /\ unchecked \subseteq Shards
      /\ closed \in BOOLEAN /\ up \subseteq Addrs
      /\ req \in [Requests -> [pc : {"idle", "route", "adapter", "granted", "refused"},
                               key : Keys \cup {None}, shard : Shards \cup {None}]]
           Asked == \A r \in Requests : req[r].pc # "idle" => Ready /\ req[r].key \in Keys
<1>1. Init => Rest /\ Asked
  <2> SUFFICES ASSUME Init PROVE Rest /\ Asked
    OBVIOUS
  <2>1. \A r \in Requests : req[r] = [pc |-> "idle", key |-> None, shard |-> None]
    BY DEF Init
  <2>2. req \in [Requests -> [pc : {"idle", "route", "adapter", "granted", "refused"},
                              key : Keys \cup {None}, shard : Shards \cup {None}]]
    BY DEF Init
  <2> QED
    BY <2>1, <2>2 DEF Init
<1>2. PlacementInv /\ EveryKeyRoutes /\ Rest /\ Asked /\ [Next]_vars => Rest'
  <2> SUFFICES ASSUME PlacementInv, EveryKeyRoutes, Rest, Asked, [Next]_vars PROVE Rest'
    OBVIOUS
  <2>1. CASE NewShard
    <3>1. created \in Shards
      BY <2>1, ShardAssumption DEF PlacementInv, NewShard, Ready, Shards
    <3> QED
      BY <2>1, <3>1 DEF NewShard, NextShard, StatusWithoutAdapter, healthVars
  <2>2. ASSUME NEW s \in Shards, HealthShard(s) PROVE Rest'
    <3>1. Checked(s) \in {"active", "no_adapter", "unhealthy"}
      BY DEF Checked
    <3> QED
      BY <2>2, <3>1 DEF HealthShard
  <2>3. ASSUME NEW r \in Requests, NEW k \in Keys, Start(r, k) PROVE Rest'
    BY <2>3 DEF Start, healthVars
  <2>4. ASSUME NEW r \in Requests, Route(r) PROVE Rest'
    <3>1. GetShardForKey(req[r].key) \in Shards
      BY <2>4 DEF Route, EveryKeyRoutes
    <3> QED
      BY <2>4, <3>1 DEF Route, healthVars
  <2>5. ASSUME NEW r \in Requests, GetShardAdapter(r) \/ Return(r) PROVE Rest'
    BY <2>5 DEF GetShardAdapter, Return, healthVars
  <2>6. CASE HealthLock \/ HealthUnlock \/ Close
    BY <2>6 DEF HealthLock, HealthUnlock, Close, healthVars
  <2>7. ASSUME NEW a \in Addrs, RedisStops(a) \/ RedisStarts(a) PROVE Rest'
    BY <2>7 DEF RedisStops, RedisStarts, healthVars
  <2>8. CASE UNCHANGED vars
    BY <2>8 DEF vars, healthVars
  <2> HIDE DEF Rest
  <2> QED
    BY <2>1, <2>2, <2>3, <2>4, <2>5, <2>6, <2>7, <2>8 DEF Next, RequestStep
<1>3. Rest /\ Asked /\ [Next]_vars => Asked'
  <2> SUFFICES ASSUME Rest, Asked, [Next]_vars, NEW r \in Requests, req'[r].pc # "idle"
               PROVE  Ready' /\ req'[r].key \in Keys
    OBVIOUS
  <2>1. CASE NewShard
    BY <2>1 DEF NewShard
  <2>2. ASSUME NEW q \in Requests, NEW k \in Keys, Start(q, k)
        PROVE  Ready' /\ req'[r].key \in Keys
    BY <2>2 DEF Start, Ready
  <2>3. ASSUME NEW q \in Requests, RequestStep(q)
        PROVE  Ready' /\ req'[r].key \in Keys
    <3>1. created' = created /\ (q # r => req'[r] = req[r])
      BY <2>3 DEF RequestStep, Route, GetShardAdapter, Return
    <3>2. CASE q = r
      <4>1. req[r].pc # "idle" /\ req'[r].key = req[r].key
        BY <2>3, <3>2 DEF RequestStep, Route, GetShardAdapter, Return
      <4> QED
        BY <3>1, <4>1 DEF Ready
    <3> QED
      BY <3>1, <3>2 DEF Ready
  <2>4. CASE UNCHANGED <<req, created>>
    BY <2>4 DEF Ready
  <2>5. CASE HealthLock \/ HealthUnlock \/ Close \/ UNCHANGED vars
    BY <2>4, <2>5 DEF HealthLock, HealthUnlock, Close, vars
  <2>6. ASSUME NEW s \in Shards, HealthShard(s) PROVE UNCHANGED <<req, created>>
    BY <2>6 DEF HealthShard
  <2>7. ASSUME NEW a \in Addrs, RedisStops(a) \/ RedisStarts(a)
        PROVE  UNCHANGED <<req, created>>
    BY <2>7 DEF RedisStops, RedisStarts
  <2> HIDE DEF Rest, Asked
  <2> QED
    BY <2>1, <2>2, <2>3, <2>4, <2>5, <2>6, <2>7 DEF Next
<1>4. PlacementInv /\ Rest => TypeOK
  BY DEF PlacementInv, Proved!KeysInv, TypeOK
<1> HIDE DEF Rest, Asked
<1> QED
  BY <1>1, <1>2, <1>3, <1>4, PlacementHolds, EveryKeyAlwaysRoutes, PTL DEF Spec
=============================================================================
