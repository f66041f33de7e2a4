------------------------- MODULE ReplicationManager -------------------------
(***************************************************************************)
(* The replication manager (internal/replication/manager.go) with the      *)
(* start-up loop of cmd/vectorhub/main.go that fills it.                    *)
(*                                                                         *)
(* One manager is shared by the handlers of the vector service (Callers),  *)
(* by the goroutines each Replicate* call starts (one per replica), by the  *)
(* monitor goroutine and by whoever calls PromoteReplica or Close.  What    *)
(* each of them does under one acquisition of m.mu is one action; what it   *)
(* reads without the lock (Status and Role in the fan-out loop, Role and    *)
(* LastSync in the monitor) is a step of its own.                           *)
(*                                                                         *)
(* A replica is one Redis server with one numbered database per shard.  A   *)
(* vector is a key with a value; the auxiliary keys of a pipeline are in    *)
(* module VectorService.  A value outside Encodable is one json.Marshal     *)
(* refuses (a NaN or an infinity): a batch with such a vector is sent       *)
(* without it.                                                              *)
(***************************************************************************)
EXTENDS Naturals, Sequences

CONSTANTS
  ShardCount,        \* cfg.Sharding.ShardCount
  ReplicaAddresses,  \* cfg.Replication.ReplicaAddresses, a sequence
  SyncInterval,      \* config.SyncInterval, the first tick of the monitor
  MaxLag,            \* config.MaxLag
  FailoverTimeout,   \* config.FailoverTimeout
  LogCap,            \* the replication log is cut above this length (10000)
  LogTrim,           \* and loses this many of its oldest entries (5000)
  Callers,           \* handlers that may be inside a Replicate* call
  Keys, Values,      \* vector IDs and vector contents
  Encodable,         \* the contents StoredVector.ToBytes accepts
  ShardOf,           \* the shard the service routes a key to
  Promotable,        \* addresses an operator may pass to PromoteReplica
  MayCrash,          \* addresses whose Redis server may stop
  Slow,              \* addresses whose server may execute a command late
  MaxTime,           \* bound on the clock
  None, Absent, Unknown, Idle

Shards == 0 .. ShardCount - 1
Addrs  == {ReplicaAddresses[j] : j \in 1 .. Len(ReplicaAddresses)}

ASSUME ConfigAssumption ==
  /\ ShardCount \in Nat \ {0}
  /\ ReplicaAddresses \in Seq(Addrs) /\ ReplicaAddresses # <<>>
  /\ SyncInterval \in Nat /\ MaxLag \in Nat /\ FailoverTimeout \in Nat
  /\ MaxTime \in Nat
  /\ LogCap \in Nat /\ LogTrim \in 1 .. LogCap + 1
  /\ ShardOf \in [Keys -> Shards]
  /\ Encodable \subseteq Values
  /\ Promotable \subseteq Addrs /\ MayCrash \subseteq Addrs /\ Slow \subseteq Addrs

ASSUME DistinctAssumption ==
  /\ None \notin Addrs \cup Shards \cup (Shards \X Addrs) \cup Values \cup {Absent}
  /\ Idle \notin [op : {"insert", "batch", "delete", "batchDelete"},
                  shard : Shards, vals : [Keys -> Values \cup {Absent, None}]]
  /\ Absent \notin Values /\ Unknown \notin Values /\ Absent # Unknown
  /\ Callers \cap (Values \cup {Absent, Unknown}) = {}

VARIABLES
  role,          \* ReplicaNode.Role; "none": not in m.replicas[shard]
  status,        \* ReplicaNode.Status
  lastSync,      \* ReplicaNode.LastSync
  primaryNodes,  \* m.primaryNodes
  adapters,      \* m.adapters: the database its client selects, per address
  logLen,        \* len(m.replicationLog.entries)
  reg,           \* <<i, j>>, the position of main's registration loop
  call,          \* per caller, the Replicate* call it is in
  go,            \* per caller and replica, how far that call got
  scan, doomed,  \* the monitor: replicas left to look at, replica to mark
  closed,        \* Close has been called
  now,           \* the clock
  down,          \* external: replica servers that are down
  stores,        \* external: contents of each database of each server
  settled,       \* ghost: what the finished calls left in a key (see below)
  wasPrimary,    \* ghost: replicas that have ever been primary
  unresolved     \* ghost: commands given up or re-sent, which may yet run

repVars  == <<role, status, lastSync, primaryNodes, adapters, logLen, reg>>
callVars == <<call, go, stores, settled, unresolved>>
monVars  == <<scan, doomed>>
envVars  == <<closed, now, down>>
vars     == <<repVars, callVars, monVars, envVars, wasPrimary>>

Ops     == {"insert", "batch", "delete", "batchDelete"}
Calls   == [op : Ops, shard : Shards, vals : [Keys -> Values \cup {Absent, None}]]
Serving == reg[1] = ShardCount

(***************************************************************************)
(* main opens the gRPC port after the registration loop.                    *)
(***************************************************************************)
AcceptsCalls_BeforeRegistration == TRUE
AcceptsCalls == Serving

(***************************************************************************)
(* m.replicas[s] holds a.                                                   *)
(***************************************************************************)
Registered(s, a) == role[s][a] # "none"

Init ==
  /\ role = [s \in Shards |-> [a \in Addrs |-> "none"]]
  /\ status = [s \in Shards |-> [a \in Addrs |-> "none"]]
  /\ lastSync = [s \in Shards |-> [a \in Addrs |-> 0]]
  /\ primaryNodes = [s \in Shards |-> None]
  /\ adapters = [a \in Addrs |-> None]
  /\ logLen = 0
  /\ reg = <<0, 1>>
  /\ call = [c \in Callers |-> Idle]
  /\ go = [c \in Callers |-> [a \in Addrs |-> "idle"]]
  /\ scan = {} /\ doomed = None
  /\ closed = FALSE /\ now = 0 /\ down = {}
  /\ stores = [a \in Addrs |-> [d \in Shards |-> [k \in Keys |-> Absent]]]
  /\ settled = [k \in Keys |-> Absent]
  /\ wasPrimary = {}
  /\ unresolved = {}

-----------------------------------------------------------------------------
(***************************************************************************)
(* Start-up: main registers every address for every shard, the first        *)
(* address of the list as primary, and only warns when it is refused.       *)
(***************************************************************************)
RoleAt(j) == IF j = 1 THEN "primary" ELSE "secondary"

NextReg ==
  IF reg[2] < Len(ReplicaAddresses) THEN <<reg[1], reg[2] + 1>>
                                    ELSE <<reg[1] + 1, 1>>

(***************************************************************************)
(* The address already serves the shard, or its Redis does not answer the   *)
(* PING of NewRedisAdapter: nothing is recorded.                            *)
(***************************************************************************)
RegisterRefused ==
  LET s == reg[1]
      a == ReplicaAddresses[reg[2]]
  IN  /\ ~Serving
      /\ Registered(s, a) \/ a \in down
      /\ reg' = NextReg
      /\ UNCHANGED <<role, status, lastSync, primaryNodes, adapters, logLen,
                     callVars, monVars, envVars, wasPrimary>>

(***************************************************************************)
(* The adapter map has one entry per address, the last one created; it      *)
(* selects the database of the shard it was created for.                    *)
(***************************************************************************)
RegisterReplica ==
  LET s == reg[1]
      a == ReplicaAddresses[reg[2]]
      r == RoleAt(reg[2])
  IN  /\ ~Serving
      /\ ~Registered(s, a)
      /\ a \notin down
      /\ adapters' = [adapters EXCEPT ![a] = s]
      /\ role' = [role EXCEPT ![s][a] = r]
      /\ status' = [status EXCEPT ![s][a] = "active"]
      /\ lastSync' = [lastSync EXCEPT ![s][a] = now]
      /\ primaryNodes' = IF r = "primary"
                         THEN [primaryNodes EXCEPT ![s] = a]
                         ELSE primaryNodes
      /\ wasPrimary' = IF r = "primary" THEN wasPrimary \cup {<<s, a>>}
                                        ELSE wasPrimary
      /\ reg' = NextReg
      /\ UNCHANGED <<logLen, callVars, monVars, envVars>>

-----------------------------------------------------------------------------
(***************************************************************************)
(* The Replicate* calls.  All four take the slice of the shard's replicas   *)
(* under the read lock, start a goroutine for each replica that is active   *)
(* and not primary, and wait for the goroutines; they differ in the adapter  *)
(* call and in what a failure of it leads to.  ReplicateUpdate is           *)
(* ReplicateInsert.                                                         *)
(*                                                                         *)
(* settled[k] is the caller that is alone in writing k; when that caller is  *)
(* done, the value it wrote; and Unknown as soon as two calls on k overlap,  *)
(* which the manager does not order.                                        *)
(*                                                                         *)
(* vals[k] is what the call makes of key k: a vector, Absent for a delete,   *)
(* None when the call does not concern it.  A single vector has been stored  *)
(* in its shard before it is replicated, so it can be encoded; those of a    *)
(* batch need not be, and BatchStoreVectors passes over the ones that        *)
(* cannot: no command is sent for them.                                     *)
(***************************************************************************)
Sendable == Encodable \cup {Absent}

InFlight(c, k) == call[c] # Idle /\ call[c].vals[k] \in Sendable
Written(c) == {k \in Keys : InFlight(c, k)}

LogsEntries(op)  == op \in {"insert", "delete"}
FailureMarks_NotBatch(op) == op = "insert"
FailureMarks(op) == op \in {"insert", "batch"}

Contents(op) == CASE op = "insert" -> Encodable
                  [] op = "batch"  -> Values
                  [] OTHER         -> {Absent}

Takes(op, s, m) ==
  LET K == {k \in Keys : m[k] # None}
  IN  /\ K # {} /\ \A k \in K : ShardOf[k] = s /\ m[k] \in Contents(op)
      /\ op \in {"insert", "delete"} => \A k, l \in K : k = l

Begin(c, op, s, m) ==
  /\ AcceptsCalls
  /\ call[c] = Idle
  /\ Takes(op, s, m)
  /\ call' = [call EXCEPT ![c] = [op |-> op, shard |-> s, vals |-> m]]
  /\ go' = [go EXCEPT ![c] =
              [a \in Addrs |-> IF Registered(s, a) THEN "check" ELSE "idle"]]
  /\ settled' = [k \in Keys |->
                   IF m[k] \notin Sendable THEN settled[k]
                   ELSE IF \E d \in Callers : InFlight(d, k) THEN Unknown
                   ELSE c]
  /\ UNCHANGED <<repVars, stores, unresolved, monVars, envVars, wasPrimary>>

Replicate(c) ==
  \E op \in Ops, s \in Shards, m \in [Keys -> Values \cup {Absent, None}] :
    Begin(c, op, s, m)

(***************************************************************************)
(* The test at the head of the fan-out loop, made without the lock.         *)
(***************************************************************************)
Selected(s, a) == status[s][a] = "active" /\ role[s][a] # "primary"

Spawn(c, a) ==
  /\ go[c][a] = "check"
  /\ go' = [go EXCEPT ![c][a] =
              IF Selected(call[c].shard, a) THEN "send" ELSE "idle"]
  /\ UNCHANGED <<repVars, call, stores, settled, unresolved, monVars, envVars,
                 wasPrimary>>

(***************************************************************************)
(* The adapter call of the goroutine.  It goes to the database the map's    *)
(* adapter selects.  A batch of which nothing can be encoded is an empty     *)
(* pipeline, whose Exec succeeds without a word to the server.               *)
(*                                                                         *)
(* A failed call (server down, adapter closed, the client's context          *)
(* cancelled) may have executed for any of the keys, and a delete that was    *)
(* given up may still be executed by the server later.  (So may a store, but  *)
(* then the replica is marked failed, and no property speaks of the contents  *)
(* of a failed replica.)  Before a call succeeds or fails, go-redis may have  *)
(* given up on it and sent it again: redis.NewClient is given no MaxRetries   *)
(* and sends a pipeline up to four times.  The server may have executed the   *)
(* earlier copy, or a part of it, or may do so later.                        *)
(***************************************************************************)
Applied(a, K, m) ==
  [stores EXCEPT ![a][adapters[a]] =
     [k \in Keys |-> IF k \in K THEN m[k] ELSE stores[a][adapters[a]][k]]]

MayRunLate(c, a) ==
  IF a \in Slow THEN {<<a, k, call[c].vals[k]>> : k \in Written(c)} ELSE {}

CallOk(c, a) ==
  /\ go[c][a] = "send"
  /\ adapters[a] # None
  /\ Written(c) # {} => a \notin down /\ ~closed
  /\ stores' = Applied(a, Written(c), call[c].vals)
  /\ go' = [go EXCEPT ![c][a] = "ok"]
  /\ UNCHANGED <<repVars, call, settled, unresolved, monVars, envVars, wasPrimary>>

CallFails(c, a) ==
  /\ go[c][a] = "send"
  /\ adapters[a] # None
  /\ Written(c) # {}
  /\ \E K \in SUBSET Written(c) :
       /\ a \in down \/ closed => K = {}
       /\ stores' = Applied(a, K, call[c].vals)
  /\ unresolved' = IF FailureMarks(call[c].op) THEN unresolved
                   ELSE unresolved \cup MayRunLate(c, a)
  /\ go' = [go EXCEPT ![c][a] = "err"]
  /\ UNCHANGED <<repVars, call, settled, monVars, envVars, wasPrimary>>

Resend(c, a) ==
  /\ go[c][a] = "send"
  /\ a \in Slow
  /\ adapters[a] # None /\ ~closed
  /\ Written(c) # {}
  /\ \E K \in SUBSET Written(c) :
       /\ a \in down => K = {}
       /\ stores' = Applied(a, K, call[c].vals)
  /\ unresolved' = unresolved \cup MayRunLate(c, a)
  /\ UNCHANGED <<repVars, call, go, settled, monVars, envVars, wasPrimary>>

LateWrite(a, k, v) ==
  /\ <<a, k, v>> \in unresolved
  /\ adapters[a] # None /\ a \notin down
  /\ stores' = Applied(a, {k}, [l \in Keys |-> v])
  /\ UNCHANGED <<repVars, call, go, settled, unresolved, monVars, envVars,
                 wasPrimary>>

(***************************************************************************)
(* What the goroutine records, each part under its lock: logReplication     *)
(* for the single-vector calls, then markReplicaFailed or                   *)
(* updateReplicaSync.                                                       *)
(***************************************************************************)
LogLenAfter_NeverCut(n) == n + 1
LogLenAfter(n) == IF n + 1 > LogCap THEN n + 1 - LogTrim ELSE n + 1

logReplication(op) ==
  logLen' = IF LogsEntries(op) THEN LogLenAfter(logLen) ELSE logLen

markReplicaFailed(s, a) == status' = [status EXCEPT ![s][a] = "failed"]
updateReplicaSync(s, a) == lastSync' = [lastSync EXCEPT ![s][a] = now]

SettleOk(c, a) ==
  /\ go[c][a] = "ok"
  /\ logReplication(call[c].op)
  /\ updateReplicaSync(call[c].shard, a)
  /\ go' = [go EXCEPT ![c][a] = "idle"]
  /\ UNCHANGED <<role, status, primaryNodes, adapters, reg, call, stores, settled,
                 unresolved, monVars, envVars, wasPrimary>>

SettleErr_WithoutDone(c, a) ==
  /\ go[c][a] = "err"
  /\ markReplicaFailed(call[c].shard, a)
  /\ UNCHANGED <<role, lastSync, primaryNodes, adapters, logLen, reg, callVars,
                 monVars, envVars, wasPrimary>>

SettleErr(c, a) ==
  /\ go[c][a] = "err"
  /\ logReplication(call[c].op)
  /\ IF FailureMarks(call[c].op) THEN markReplicaFailed(call[c].shard, a)
                                 ELSE UNCHANGED status
  /\ go' = [go EXCEPT ![c][a] = "idle"]
  /\ UNCHANGED <<role, lastSync, primaryNodes, adapters, reg, call, stores,
                 settled, unresolved, monVars, envVars, wasPrimary>>

(***************************************************************************)
(* wg.Wait returns.                                                         *)
(***************************************************************************)
Finish(c) ==
  /\ call[c] # Idle
  /\ \A a \in Addrs : go[c][a] = "idle"
  /\ call' = [call EXCEPT ![c] = Idle]
  /\ settled' = [k \in Keys |-> IF settled[k] = c THEN call[c].vals[k]
                                                     ELSE settled[k]]
  /\ UNCHANGED <<repVars, go, stores, unresolved, monVars, envVars, wasPrimary>>

CallStep(c) ==
  \/ \E a \in Addrs : Spawn(c, a) \/ CallOk(c, a) \/ CallFails(c, a)
                        \/ SettleOk(c, a) \/ SettleErr(c, a)
  \/ Finish(c)

-----------------------------------------------------------------------------
(***************************************************************************)
(* The loop of PromoteReplica: the old primary is demoted first, so an      *)
(* address that already is the primary is demoted and not promoted.         *)
(***************************************************************************)
RolesAfterPromote_KeepsOld(s, a) ==
  [role[s] EXCEPT ![a] = "primary"]

RolesAfterPromote(s, a) ==
  [b \in Addrs |->
     IF ~Registered(s, b) THEN role[s][b]
     ELSE IF b = primaryNodes[s] THEN "secondary"
     ELSE IF b = a THEN "primary"
     ELSE role[s][b]]

PromoteReplica(s, a) ==
  /\ Serving
  /\ Registered(s, a)
  /\ status[s][a] = "active"
  /\ role' = [role EXCEPT ![s] = RolesAfterPromote(s, a)]
  /\ primaryNodes' = [primaryNodes EXCEPT ![s] = a]
  /\ wasPrimary' = wasPrimary \cup {<<s, a>>}
  /\ UNCHANGED <<status, lastSync, adapters, logLen, reg, callVars, monVars, envVars>>

(***************************************************************************)
(* The monitor goroutine: at a tick it copies the map under the read lock,   *)
(* looks at each replica without it, and takes the write lock to mark one.  *)
(***************************************************************************)
Lag(s, a) == now - lastSync[s][a]
LagExceeded(s, a) == Lag(s, a) > MaxLag /\ Lag(s, a) > FailoverTimeout

MonitorSkips_Secondary(s, a) == role[s][a] # "primary"
MonitorSkips(s, a) == role[s][a] = "primary"

MonitorTick ==
  /\ ~closed /\ now >= SyncInterval
  /\ scan = {} /\ doomed = None
  /\ scan' = {p \in Shards \X Addrs : Registered(p[1], p[2])}
  /\ scan' # {}
  /\ UNCHANGED <<repVars, callVars, doomed, envVars, wasPrimary>>

MonitorCheck(s, a) ==
  /\ doomed = None
  /\ <<s, a>> \in scan
  /\ scan' = scan \ {<<s, a>>}
  /\ doomed' = IF ~MonitorSkips(s, a) /\ LagExceeded(s, a) THEN <<s, a>> ELSE None
  /\ UNCHANGED <<repVars, callVars, envVars, wasPrimary>>

MonitorMark ==
  /\ doomed # None
  /\ markReplicaFailed(doomed[1], doomed[2])
  /\ doomed' = None
  /\ UNCHANGED <<role, lastSync, primaryNodes, adapters, logLen, reg, callVars, scan,
                 envVars, wasPrimary>>

MonitorStep ==
  MonitorTick \/ MonitorMark \/ \E s \in Shards, a \in Addrs : MonitorCheck(s, a)

(***************************************************************************)
(* Close stops the ticker and closes the adapters; a scan that has begun    *)
(* runs on, and calls in flight fail.                                       *)
(***************************************************************************)
Close ==
  /\ Serving /\ ~closed
  /\ closed' = TRUE
  /\ UNCHANGED <<repVars, callVars, monVars, now, down, wasPrimary>>

TimePasses ==
  /\ now < MaxTime
  /\ now' = now + 1
  /\ UNCHANGED <<repVars, callVars, monVars, closed, down, wasPrimary>>

Crash(a) ==
  /\ a \in MayCrash \ down
  /\ down' = down \cup {a}
  /\ UNCHANGED <<repVars, callVars, monVars, closed, now, wasPrimary>>

Recover(a) ==
  /\ a \in down
  /\ down' = down \ {a}
  /\ UNCHANGED <<repVars, callVars, monVars, closed, now, wasPrimary>>

Next ==
  \/ RegisterReplica \/ RegisterRefused
  \/ \E c \in Callers : Replicate(c) \/ CallStep(c)
  \/ \E c \in Callers, a \in Addrs : Resend(c, a)
  \/ \E a \in Addrs, k \in Keys, v \in Sendable : LateWrite(a, k, v)
  \/ \E s \in Shards, a \in Promotable : PromoteReplica(s, a)
  \/ MonitorStep
  \/ Close
  \/ TimePasses
  \/ \E a \in Addrs : Crash(a) \/ Recover(a)

Spec == Init /\ [][Next]_vars

(***************************************************************************)
(* Fairness.  The Go scheduler runs every goroutine, adapter calls return   *)
(* (the client times out, and sends again a bounded number of times), main  *)
(* runs its loop to the end, time goes on (to its bound), and the ticker    *)
(* keeps firing until Close.  Nothing makes a client, an operator or a      *)
(* server act: in particular no code calls PromoteReplica.                  *)
(***************************************************************************)
Fairness ==
  /\ WF_vars(RegisterReplica \/ RegisterRefused)
  /\ \A c \in Callers : WF_vars(CallStep(c))
  /\ WF_vars(MonitorStep) /\ WF_vars(TimePasses)

FairSpec == Spec /\ Fairness

-----------------------------------------------------------------------------
(***************************************************************************)
(* Type invariant.                                                          *)
(***************************************************************************)
TypeOK ==
  /\ role \in [Shards -> [Addrs -> {"none", "primary", "secondary"}]]
  /\ status \in [Shards -> [Addrs -> {"none", "active", "failed"}]]
  /\ lastSync \in [Shards -> [Addrs -> Nat]]
  /\ primaryNodes \in [Shards -> Addrs \cup {None}]
  /\ adapters \in [Addrs -> Shards \cup {None}]
  /\ logLen \in 0 .. LogCap
  /\ reg \in (0 .. ShardCount) \X (1 .. Len(ReplicaAddresses))
  /\ call \in [Callers -> Calls \cup {Idle}]
  /\ go \in [Callers -> [Addrs -> {"idle", "check", "send", "ok", "err"}]]
  /\ scan \subseteq Shards \X Addrs
  /\ doomed \in (Shards \X Addrs) \cup {None}
  /\ closed \in BOOLEAN /\ now \in Nat /\ down \subseteq Addrs
  /\ stores \in [Addrs -> [Shards -> [Keys -> Values \cup {Absent}]]]
  /\ settled \in [Keys -> Values \cup {Absent, Unknown} \cup Callers]
  /\ wasPrimary \subseteq Shards \X Addrs
  /\ unresolved \subseteq Addrs \X Keys \X Sendable

(***************************************************************************)
(* A replica whose Role is "primary" is the one primaryNodes names, so a    *)
(* shard never has two primaries, whatever promotions follow each other     *)
(* and whatever registrations failed (RegisterReplica, PromoteReplica).     *)
(***************************************************************************)
PrimaryRecorded ==
  \A s \in Shards, a \in Addrs : role[s][a] = "primary" => primaryNodes[s] = a

(***************************************************************************)
(* All the data an address ever receives, of whatever shard, is in one      *)
(* database, and that is the database of the highest-numbered shard the     *)
(* address serves: m.adapters is keyed by address alone, but is complete    *)
(* before the first Replicate* call (RegisterReplica, main).                *)
(***************************************************************************)
ReplicaDataInOneDatabase ==
  \A a \in Addrs, d \in Shards, k \in Keys :
    stores[a][d][k] # Absent =>
      /\ adapters[a] = d
      /\ \A s \in Shards : Registered(s, a) => s <= d

(***************************************************************************)
(* A replica that can be relied on for shard s: active and always a         *)
(* secondary.                                                               *)
(***************************************************************************)
Reliable(s, a) ==
  Registered(s, a) /\ status[s][a] = "active" /\ <<s, a>> \notin wasPrimary

(***************************************************************************)
(* Once a ReplicateInsert, ReplicateUpdate or ReplicateBatch call that was  *)
(* alone in writing a key has returned, with or without an error, every     *)
(* secondary still "active" holds the value, if the value can be encoded: a  *)
(* replica that missed it was marked failed before the call returned, and a *)
(* failed replica never becomes active again.  A batch vector that cannot be *)
(* encoded leaves the replica active and what it held before.  The exception *)
(* is a command on the same key, a delete that failed or a write that was    *)
(* sent twice, that the server executes late: then the replica may hold what  *)
(* that command wrote.                                                      *)
(***************************************************************************)
LateValues(a, k) == {v \in Sendable : <<a, k, v>> \in unresolved}

ActiveSecondaryHasWrites ==
  \A k \in Keys, a \in Addrs :
    settled[k] \in Values /\ Reliable(ShardOf[k], a) =>
      stores[a][adapters[a]][k] \in {settled[k]} \cup LateValues(a, k)

(***************************************************************************)
(* Every Replicate* call returns, whatever its goroutines met: a server     *)
(* that is down, adapters closed under them, a replica promoted or failed   *)
(* between the check and the call (wg.Wait).                                *)
(***************************************************************************)
ReplicateReturns ==
  \A c \in Callers : call[c] # Idle ~> call[c] = Idle

(***************************************************************************)
(* A secondary that is active although its lag is over both thresholds does *)
(* not stay so: it synchronises, is promoted, or the monitor marks it       *)
(* failed, unless the manager is closed (checkReplicaHealth).               *)
(***************************************************************************)
Overdue(s, a) ==
  /\ ~closed /\ role[s][a] = "secondary"
  /\ status[s][a] = "active" /\ LagExceeded(s, a)

OverdueReplicaHandled ==
  \A s \in Shards, a \in Addrs : Overdue(s, a) ~> ~Overdue(s, a)

(***************************************************************************)
(* When the primary's server is down for good and another replica is active, *)
(* another replica becomes the primary.  Nothing in the code does that.     *)
(***************************************************************************)
PrimaryLost(s) ==
  /\ Serving /\ ~closed
  /\ primaryNodes[s] \in down
  /\ \E a \in Addrs \ down : role[s][a] = "secondary" /\ status[s][a] = "active"

AutomaticFailover == \A s \in Shards : ~ <>[] PrimaryLost(s)

-----------------------------------------------------------------------------
(***************************************************************************)
(* The inductive invariants behind the safety invariants.                   *)
(*                                                                         *)
(* RegistrationInv: registration goes through the shards in order, so the   *)
(* adapter of an address belongs to its last registered shard; nothing is    *)
(* written and nobody calls before the loop is done.                        *)
(***************************************************************************)
RegistrationInv ==
  /\ \A s \in Shards, a \in Addrs :
       Registered(s, a) =>
         /\ adapters[a] \in Shards /\ s <= adapters[a]
         /\ s < reg[1] \/ (s = reg[1] /\ reg[2] > 1)
  /\ \A a \in Addrs, d \in Shards, k \in Keys :
       stores[a][d][k] # Absent => Serving /\ adapters[a] = d
  /\ \A c \in Callers : call[c] # Idle => Serving
  /\ \A k \in Keys : settled[k] \in Values => Serving
  /\ unresolved # {} => Serving

(***************************************************************************)
(* CallInv: goroutines belong to a call and to a replica of its shard, a     *)
(* call only writes keys of its shard, and settled[k] names a caller only    *)
(* while that caller is the only one writing k.                             *)
(***************************************************************************)
CallInv ==
  /\ \A c \in Callers, a \in Addrs :
       go[c][a] # "idle" => call[c] # Idle /\ Registered(call[c].shard, a)
  /\ \A c \in Callers, k \in Keys : call[c] # Idle =>
       /\ call[c].vals[k] \in Values => FailureMarks(call[c].op)
       /\ call[c].vals[k] # None => ShardOf[k] = call[c].shard
  /\ \A c \in Callers, k \in Keys :
       /\ InFlight(c, k) => settled[k] \in {c, Unknown}
       /\ settled[k] = c => InFlight(c, k)

(***************************************************************************)
(* DeliveryInv: a primary is recorded as such, and a replica that a call    *)
(* alone in writing k is done with holds its value or one executed late,     *)
(* unless the replica was marked failed or skipped as primary.              *)
(***************************************************************************)
DeliveryInv ==
  /\ \A s \in Shards, a \in Addrs : role[s][a] = "primary" => <<s, a>> \in wasPrimary
  /\ \A c \in Callers, k \in Keys, a \in Addrs :
       /\ InFlight(c, k) /\ settled[k] = c /\ call[c].vals[k] \in Values
       /\ go[c][a] \in {"idle", "ok"}
       /\ Reliable(ShardOf[k], a)
       => stores[a][adapters[a]][k] \in {call[c].vals[k]} \cup LateValues(a, k)

IInv == /\ TypeOK /\ RegistrationInv /\ CallInv /\ DeliveryInv
        /\ PrimaryRecorded /\ ActiveSecondaryHasWrites
=============================================================================
