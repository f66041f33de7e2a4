---------------------------- MODULE ShardManager ----------------------------
(***************************************************************************)
(* internal/shard/manager.go: the shards, their Redis adapters and their    *)
(* health, and the routing of a vector ID to a shard through the hash ring   *)
(* of ConsistentHash.                                                       *)
(*                                                                         *)
(* NewShardManager runs alone.  Afterwards handlers (Requests) route a key   *)
(* and fetch the shard's adapter, each under sm.mu for reading, while the    *)
(* health check holds sm.mu for writing over its calls to every Redis.      *)
(***************************************************************************)
EXTENDS Naturals, Sequences, SequencesExt

CONSTANTS
  ShardCount,       \* config.ShardCount
  RedisAddresses,   \* config.RedisAddresses, a sequence
  VirtualNodes,     \* config.VirtualNodes
  Hashes, VHash,    \* see ConsistentHash
  Keys,             \* vector IDs
  KeyHash,          \* CRC-32 of a key, its place on the ring
  KeyCrc,           \* crc32Hash of a key, which picks among a node's shards
  Requests,         \* handlers
  MayFail,          \* addresses whose Redis may stop and restart
  None

Shards == 0 .. ShardCount - 1
Addrs  == Range(RedisAddresses)

ASSUME ShardAssumption ==
  /\ ShardCount \in Nat \ {0}
  /\ RedisAddresses \in Seq(Addrs) /\ RedisAddresses # <<>>
  /\ VirtualNodes \in Nat \ {0}
  /\ Hashes \subseteq Nat /\ VHash \in [Addrs -> [1 .. VirtualNodes -> Hashes]]
  /\ KeyHash \in [Keys -> Hashes] /\ KeyCrc \in [Keys -> Nat]
  /\ MayFail \subseteq Addrs /\ None \notin Addrs \cup Shards

VARIABLES
  nodes, sortedKeys,  \* sm.consistentHash
  created,            \* number of shards NewShardManager has set up
  nodeToShards,       \* sm.nodeToShards
  hasAdapter,         \* shards with an entry in sm.shardToAdapter
  status,             \* ShardInfo.Status
  lock,               \* sm.mu: "free", or "health" while the check holds it
  unchecked,          \* shards the running health check has still to visit
  closed,             \* Close has been called
  req,                \* per handler: where it is, its key and its shard
  up                  \* external: Redis servers that answer

ringVars   == <<nodes, sortedKeys>>
healthVars == <<lock, unchecked>>
vars == <<ringVars, created, nodeToShards, hasAdapter, status, healthVars, closed,
          req, up>>

Hash == INSTANCE ConsistentHash
          WITH Nodes <- Addrs, MaxKeys <- ShardCount * VirtualNodes

Ready == created = ShardCount

(***************************************************************************)
(* The node shard i is placed on: round robin over the addresses.           *)
(***************************************************************************)
NodeOf(i) == RedisAddresses[(i % Len(RedisAddresses)) + 1]

Init ==
  /\ Hash!Init
  /\ created = 0
  /\ nodeToShards = [a \in Addrs |-> <<>>]
  /\ hasAdapter = {}
  /\ status = [s \in Shards |-> "none"]
  /\ lock = "free" /\ unchecked = {}
  /\ closed = FALSE
  /\ req = [r \in Requests |-> [pc |-> "idle", key |-> None, shard |-> None]]
  /\ up \in SUBSET Addrs /\ Addrs \ MayFail \subseteq up

(***************************************************************************)
(* One round of the loop of NewShardManager.  The node is added to the ring *)
(* once per shard it carries; a shard whose Redis does not answer gets no   *)
(* adapter.                                                                 *)
(***************************************************************************)
StatusWithoutAdapter_Active == "active"
StatusWithoutAdapter == "error"

NextShard_OneBased == created + 1
NextShard == created

NewShard ==
  LET i == NextShard
      a == NodeOf(i)
  IN  /\ ~Ready
      /\ Hash!AddNode(a)
      /\ nodeToShards' = [nodeToShards EXCEPT ![a] = Append(@, i)]
      /\ hasAdapter' = IF a \in up THEN hasAdapter \cup {i} ELSE hasAdapter
      /\ status' = [status EXCEPT ![i] =
                      IF a \in up THEN "active" ELSE StatusWithoutAdapter]
      /\ created' = created + 1
      /\ UNCHANGED <<healthVars, closed, req, up>>

-----------------------------------------------------------------------------
(***************************************************************************)
(* GetShardForKey: the ring gives the node, crc32Hash one of its shards;    *)
(* None: an error, which EveryKeyRoutes rules out once the manager is       *)
(* ready, so that no action below follows it.                               *)
(***************************************************************************)
PickShard_FirstOnly(a, k) == Head(nodeToShards[a])
PickShard(a, k) == nodeToShards[a][(KeyCrc[k] % Len(nodeToShards[a])) + 1]

GetShardForKey_Modulo(k) == KeyCrc[k] % ShardCount
GetShardForKey(k) ==
  LET a == Hash!GetNode(KeyHash[k])
  IN  IF a = None \/ nodeToShards[a] = <<>> THEN None ELSE PickShard(a, k)

Start(r, k) ==
  /\ Ready /\ req[r].pc = "idle"
  /\ req' = [req EXCEPT ![r] = [pc |-> "route", key |-> k, shard |-> None]]
  /\ UNCHANGED <<ringVars, created, nodeToShards, hasAdapter, status, healthVars,
                 closed, up>>

Route(r) ==
  /\ req[r].pc = "route" /\ lock = "free"
  /\ GetShardForKey(req[r].key) # None
  /\ req' = [req EXCEPT ![r].pc = "adapter",
                        ![r].shard = GetShardForKey(req[r].key)]
  /\ UNCHANGED <<ringVars, created, nodeToShards, hasAdapter, status, healthVars,
                 closed, up>>

GetShardAdapter(r) ==
  /\ req[r].pc = "adapter" /\ lock = "free"
  /\ req' = [req EXCEPT ![r].pc =
               IF req[r].shard \in hasAdapter /\ status[req[r].shard] = "active"
               THEN "granted" ELSE "refused"]
  /\ UNCHANGED <<ringVars, created, nodeToShards, hasAdapter, status, healthVars,
                 closed, up>>

Return(r) ==
  /\ req[r].pc \in {"granted", "refused"}
  /\ req' = [req EXCEPT ![r] = [pc |-> "idle", key |-> None, shard |-> None]]
  /\ UNCHANGED <<ringVars, created, nodeToShards, hasAdapter, status, healthVars,
                 closed, up>>

-----------------------------------------------------------------------------
(***************************************************************************)
(* performHealthCheck.  It may run once more after Close, when the ticker's *)
(* channel already holds a tick; the adapters are closed by then.           *)
(***************************************************************************)
HealthLock ==
  /\ Ready /\ lock = "free"
  /\ lock' = "health"
  /\ unchecked' = Shards
  /\ UNCHANGED <<ringVars, created, nodeToShards, hasAdapter, status, closed, req, up>>

Checked_StaysDown(s) ==
  IF s \notin hasAdapter THEN "no_adapter"
  ELSE IF NodeOf(s) \in up /\ ~closed THEN status[s] ELSE "unhealthy"
Checked(s) ==
  IF s \notin hasAdapter THEN "no_adapter"
  ELSE IF NodeOf(s) \in up /\ ~closed THEN "active" ELSE "unhealthy"

HealthShard(s) ==
  /\ lock = "health" /\ s \in unchecked
  /\ status' = [status EXCEPT ![s] = Checked(s)]
  /\ unchecked' = unchecked \ {s}
  /\ UNCHANGED <<ringVars, created, nodeToShards, hasAdapter, lock, closed, req, up>>

HealthUnlock_EarlyReturn ==
  /\ lock = "health" /\ unchecked = {}
  /\ \A s \in Shards : status[s] = "active"
  /\ lock' = "free"
  /\ UNCHANGED <<ringVars, created, nodeToShards, hasAdapter, status, unchecked,
                 closed, req, up>>

HealthUnlock ==
  /\ lock = "health" /\ unchecked = {}
  /\ lock' = "free"
  /\ UNCHANGED <<ringVars, created, nodeToShards, hasAdapter, status, unchecked,
                 closed, req, up>>

(***************************************************************************)
(* Close waits for the lock, then closes the adapters it keeps in the map.  *)
(***************************************************************************)
Close ==
  /\ Ready /\ ~closed /\ lock = "free"
  /\ closed' = TRUE
  /\ UNCHANGED <<ringVars, created, nodeToShards, hasAdapter, status, healthVars,
                 req, up>>

RedisStops(a) ==
  /\ a \in MayFail \cap up
  /\ up' = up \ {a}
  /\ UNCHANGED <<ringVars, created, nodeToShards, hasAdapter, status, healthVars,
                 closed, req>>

RedisStarts(a) ==
  /\ a \in Addrs \ up
  /\ up' = up \cup {a}
  /\ UNCHANGED <<ringVars, created, nodeToShards, hasAdapter, status, healthVars,
                 closed, req>>

RequestStep(r) == Route(r) \/ GetShardAdapter(r) \/ Return(r)

Next ==
  \/ NewShard
  \/ \E r \in Requests : RequestStep(r) \/ \E k \in Keys : Start(r, k)
  \/ HealthLock \/ HealthUnlock \/ \E s \in Shards : HealthShard(s)
  \/ Close
  \/ \E a \in Addrs : RedisStops(a) \/ RedisStarts(a)

Spec == Init /\ [][Next]_vars

(***************************************************************************)
(* Fairness.  Start-up completes; the ticker fires until Close; every call  *)
(* to a Redis ends (5 s timeout), so a check finishes; and a reader blocked *)
(* on sm.mu is let in when the writer unlocks (sync.RWMutex), hence strong  *)
(* fairness for the handlers.                                               *)
(***************************************************************************)
Fairness ==
  /\ WF_vars(NewShard)
  /\ WF_vars(HealthLock /\ ~closed)
  /\ WF_vars(HealthUnlock) /\ \A s \in Shards : WF_vars(HealthShard(s))
  /\ \A r \in Requests : SF_vars(RequestStep(r))

FairSpec == Spec /\ Fairness

-----------------------------------------------------------------------------
(***************************************************************************)
(* Type invariant.                                                          *)
(***************************************************************************)
TypeOK ==
  /\ nodes \in [Hashes -> Addrs \cup {None}] /\ sortedKeys \in Seq(Hashes)
  /\ created \in 0 .. ShardCount
  /\ nodeToShards \in [Addrs -> Seq(Shards)]
  /\ hasAdapter \subseteq Shards
  /\ status \in [Shards -> {"none", "active", "error", "no_adapter", "unhealthy"}]
  /\ lock \in {"free", "health"} /\ unchecked \subseteq Shards
  /\ closed \in BOOLEAN /\ up \subseteq Addrs
  /\ req \in [Requests -> [pc : {"idle", "route", "adapter", "granted", "refused"},
                           key : Keys \cup {None}, shard : Shards \cup {None}]]

(***************************************************************************)
(* GetHealthyShards and the handlers' test on Status never name a shard     *)
(* without an adapter, whatever was down at start-up or went down and came   *)
(* back (NewShardManager, performHealthCheck).                              *)
(***************************************************************************)
ActiveHasAdapter == \A s \in Shards : status[s] = "active" => s \in hasAdapter

(***************************************************************************)
(* Once the manager is ready every key routes to a shard, and to one that   *)
(* lives on the node the ring gives the key: ring, nodeToShards and the     *)
(* placement of the shards agree (NewShardManager, GetShardForKey).         *)
(***************************************************************************)
EveryKeyRoutes ==
  Ready => \A k \in Keys :
    /\ GetShardForKey(k) \in Shards
    /\ NodeOf(GetShardForKey(k)) = Hash!Ring!Lookup(KeyHash[k])

(***************************************************************************)
(* Every shard is reachable: the shards of a node share its keys by         *)
(* crc32Hash, so a node whose keys have all residues uses all its shards    *)
(* (GetShardForKey).  Stated for a node that carries two shards.            *)
(***************************************************************************)
ShardsShareKeys ==
  Ready => \A j, k \in Keys :
    LET a == Hash!GetNode(KeyHash[j])
    IN  /\ a = Hash!GetNode(KeyHash[k])
        /\ KeyCrc[j] % Len(nodeToShards[a]) # KeyCrc[k] % Len(nodeToShards[a])
        => GetShardForKey(j) # GetShardForKey(k)

(***************************************************************************)
(* A handler that asks for a shard gets an answer, although the health      *)
(* check keeps taking the lock over slow calls (sm.mu).                     *)
(***************************************************************************)
RequestsEnd == \A r \in Requests : req[r].pc # "idle" ~> req[r].pc = "idle"

(***************************************************************************)
(* A shard that has an adapter and whose Redis stays up becomes active      *)
(* again and stays so (performHealthCheck).                                 *)
(***************************************************************************)
RecoveredShardServes ==
  \A s \in Shards :
    <>[](s \in hasAdapter /\ NodeOf(s) \in up /\ ~closed) => <>[](status[s] = "active")
=============================================================================
