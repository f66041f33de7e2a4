---------------------------- MODULE VectorService ----------------------------
(***************************************************************************)
(* The write handlers of internal/server/vector_service.go (Insert,         *)
(* BatchInsert, Update, Delete, BatchDelete, CreateIndex, DropIndex) on one *)
(* index name, down to the Redis commands of                                *)
(* internal/storage/redis_adapter.go.                                      *)
(*                                                                         *)
(* All of them loop over shards: the shard of the key, the shards of a      *)
(* batch's groups, or all of them for an index.  The loop is sequential     *)
(* except in a parallel BatchInsert.  On each shard a handler sends a       *)
(* pipeline, which is not a transaction: commands of other handlers may run *)
(* between two of its commands.  It may fail at any point (timeout,         *)
(* cancelled context, lost connection); the commands not yet executed are   *)
(* then lost, or executed late by the server.  Before that go-redis, whose  *)
(* options nobody sets, sends it again, up to three times.                  *)
(*                                                                         *)
(* Redis keys: vec[k] is "vector:<index>:<k>", and k \in ids stands for the *)
(* member k of "index:<index>:ids" on k's shard.  "metadata:..." and        *)
(* "index:<index>:meta" are written but never read by the service and left  *)
(* out, as are timestamps.  The active shards are those for which           *)
(* GetShardAdapter succeeds (ShardManager); replication follows a           *)
(* successful store and cannot change the reply (ReplicationManager).       *)
(***************************************************************************)
EXTENDS Naturals, Sequences, FiniteSets, Functions, SeqFilter

CONSTANTS
  Rpcs,            \* handlers that may run at the same time
  Keys, ShardOf,   \* vector IDs and the shard each is routed to
  Shards,
  Values, DimOf,   \* vectors and their dimensions
  Encodable,       \* the vectors json.Marshal accepts (no NaN, no infinity)
  Dims,            \* dimensions CreateIndex may ask for and Validate accepts
  Ops,             \* the operations clients call
  MayFail,         \* shards that may become inactive
  Lossy,           \* shards on which a pipeline may fail
  MayRestart,      \* the process may be restarted
  MaxLate,         \* bound on pipelines still under way after their failure
  MaxRetries,      \* bound on the pipelines go-redis sends again for a call
  None, Absent, Unknown

Stores   == {"insert", "batchInsert", "update"}
Deletes  == {"delete", "batchDelete"}
IndexOps == {"create", "drop"}
Parts    == {"vec", "ids"}   \* a vector and its listing

ASSUME ServiceAssumption ==
  /\ IsFiniteSet(Keys) /\ ShardOf \in [Keys -> Shards] /\ DimOf \in [Values -> Nat]
  /\ Dims \subseteq Nat \ {0}
  /\ Ops \subseteq Stores \cup Deletes \cup IndexOps
  /\ Encodable \subseteq Values
  /\ MayFail \subseteq Shards /\ Lossy \subseteq Shards /\ MayRestart \in BOOLEAN
  /\ MaxLate \in Nat /\ MaxRetries \in Nat
  /\ None \notin Nat /\ Absent \notin Values
  /\ Unknown \notin Values \cup BOOLEAN \cup {Absent}
  /\ Rpcs \cap (Values \cup BOOLEAN \cup {None, Absent, Unknown}) = {}

VARIABLES
  index,      \* s.indexes[name].Dimension, None without an entry
  indexMu,    \* the handler that holds s.indexMu for writing, or None
  rpc,        \* per handler: call and progress, see NoRpc
  active,     \* external: shards whose adapter GetShardAdapter returns
  vec, ids,   \* external: the contents of Redis
  late,       \* external: tails of failed pipelines that the server may execute
  promise     \* ghost: what the successful writes of a key promise, see Places

dbVars == <<vec, ids, late>>
vars   == <<index, indexMu, rpc, active, dbVars, promise>>

(***************************************************************************)
(* want[k] is the vector to store under k, or Absent to delete; dim is the  *)
(* argument of CreateIndex.  left holds the shards the loop has yet to      *)
(* visit; pipe[s] is the pipeline under way on shard s: the commands not    *)
(* yet executed, and whether it is the delete with which Update begins.     *)
(* again counts the pipelines that may still be sent again.                 *)
(***************************************************************************)
NoPipe == [erase |-> FALSE, cmds |-> None]
NoRpc  == [op |-> None, want |-> <<>>, dim |-> None, par |-> FALSE, pc |-> "idle",
           left |-> {}, again |-> 0, pipe |-> [s \in Shards |-> NoPipe]]

Init ==
  /\ index = None /\ indexMu = None
  /\ rpc = [r \in Rpcs |-> NoRpc]
  /\ active = Shards
  /\ vec = [k \in Keys |-> Absent] /\ ids = {} /\ late = {}
  /\ promise = [p \in Keys \X Parts |-> IF p[2] = "vec" THEN Absent ELSE FALSE]

Only(k, v)    == [x \in {k} |-> v]
Running(r, s) == rpc[r].pipe[s].cmds # None
Group(r, s)   == {k \in DOMAIN rpc[r].want : ShardOf[k] = s}
OnShard(s)    == {k \in Keys : ShardOf[k] = s}
Done(r)       == rpc' = [rpc EXCEPT ![r] = NoRpc]

-----------------------------------------------------------------------------
(***************************************************************************)
(* The pipelines of the adapter, and what a command does to the database.   *)
(* Pipeline(cs, o, f): the commands cs for each key of o in turn.           *)
(* StoreVector fails on a vector it cannot encode; BatchStoreVectors logs   *)
(* and skips it.                                                           *)
(***************************************************************************)
Pipeline(cs, o, f) ==
  [i \in 1..Len(cs) * Len(o) |->
     LET k == o[1 + ((i - 1) \div Len(cs))]
     IN  [c |-> cs[1 + ((i - 1) % Len(cs))], on |-> {k}, v |-> f[k]]]

StoreVector_IgnoresError(k, v) == Pipeline(<<"SET", "ZADD">>, <<k>>, Only(k, v))

StoreVector(k, v) ==
  IF v \in Encodable THEN Pipeline(<<"SET", "ZADD">>, <<k>>, Only(k, v))
                     ELSE << [c |-> "error", on |-> {}, v |-> v] >>

Encodes(f) == {k \in DOMAIN f : f[k] \in Encodable}

BatchStoreVectors_FirstOnly(o, f) ==
  Pipeline(<<"SET", "ZADD">>, Filter(o, Encodes(f) \cap {o[1]}), f)

BatchStoreVectors(o, f) == Pipeline(<<"SET", "ZADD">>, Filter(o, Encodes(f)), f)

DeleteVector_OnlyVector(k) == Pipeline(<<"DEL">>, <<k>>, Only(k, Absent))
DeleteVector(k)            == Pipeline(<<"DEL", "ZREM">>, <<k>>, Only(k, Absent))
BatchDeleteVectors(o, f)   == Pipeline(<<"DEL">>, o, f)
DropIds(s)                 == << [c |-> "ZREM", on |-> OnShard(s), v |-> Absent] >>

Touched(cmd) == cmd.on \X {IF cmd.c \in {"SET", "DEL"} THEN "vec" ELSE "ids"}

Exec(cmd) ==
  /\ vec' = [k \in Keys |-> IF cmd.c \in {"SET", "DEL"} /\ k \in cmd.on
                            THEN cmd.v ELSE vec[k]]
  /\ ids' = CASE cmd.c = "ZADD" -> ids \cup cmd.on
              [] cmd.c = "ZREM" -> ids \ cmd.on
              [] OTHER -> ids

(***************************************************************************)
(* The promise for a vector, and the one for its listing, is the handler    *)
(* alone in writing it and then, when its pipeline has succeeded, what that *)
(* leaves there: the vector or Absent, and whether it is listed.  A         *)
(* BatchDelete leaves the listings alone and DropIndex the vectors, so what *)
(* was promised of them before still holds.  Overlapping writers, a failed  *)
(* write or a late command leave Unknown.  A vector that BatchStoreVectors  *)
(* skips is not written: what was promised of its key before still holds.   *)
(***************************************************************************)
Touches(op) == CASE op = "batchDelete" -> {"vec"} [] op = "drop" -> {"ids"}
                 [] op = "create" -> {} [] OTHER -> Parts

Written(r, s) ==
  CASE rpc[r].op = "drop"        -> OnShard(s)
    [] rpc[r].op = "batchInsert" -> Group(r, s) \cap Encodes(rpc[r].want)
    [] OTHER                     -> Group(r, s)

Places(r, s) == Written(r, s) \X Touches(rpc[r].op)

Writing(r, p) == Running(r, ShardOf[p[1]]) /\ p \in Places(r, ShardOf[p[1]])

Promised(r, p) == IF p[2] = "vec" THEN rpc[r].want[p[1]] ELSE rpc[r].op \in Stores

Claim(r, s) ==
  promise' = [p \in Keys \X Parts |->
                IF p \notin Places(r, s) THEN promise[p]
                ELSE IF \E q \in Rpcs : Writing(q, p) THEN Unknown ELSE r]
Fulfil(r, s) ==
  promise' = [p \in Keys \X Parts |-> IF promise[p] = r /\ p \in Places(r, s)
                                      THEN Promised(r, p) ELSE promise[p]]
Void(P) == promise' = [p \in Keys \X Parts |-> IF p \in P THEN Unknown ELSE promise[p]]

-----------------------------------------------------------------------------
(***************************************************************************)
(* A client calls.  Stores look the index up first, deletes go straight to  *)
(* the shards, index operations take the lock.                              *)
(***************************************************************************)
ShardsOf(f) == {ShardOf[k] : k \in DOMAIN f}

Begin(r, op, f, d, par) ==
  /\ rpc[r].pc = "idle" /\ op \in Ops
  /\ rpc' = [rpc EXCEPT
               ![r].op = op, ![r].want = f, ![r].dim = d, ![r].par = par, ![r].again = MaxRetries,
               ![r].left = IF op \in Deletes THEN ShardsOf(f) ELSE {},
               ![r].pc = CASE op \in Stores -> "lookup" [] op \in Deletes -> "shards"
                           [] OTHER -> "lock"]
  /\ UNCHANGED <<index, indexMu, active, dbVars, promise>>

Call(r) ==
  \/ \E op \in {"insert", "update"}, k \in Keys, v \in Values :
       Begin(r, op, Only(k, v), None, FALSE)
  \/ \E K \in SUBSET Keys : \E f \in [K -> Values], par \in BOOLEAN :
       Begin(r, "batchInsert", f, None, par)
  \/ \E k \in Keys : Begin(r, "delete", Only(k, Absent), None, FALSE)
  \/ \E K \in SUBSET Keys :
       Begin(r, "batchDelete", [k \in K |-> Absent], None, FALSE)
  \/ \E d \in Dims : Begin(r, "create", <<>>, d, FALSE)
  \/ Begin(r, "drop", <<>>, None, FALSE)

(***************************************************************************)
(* The index is read under indexMu for reading and used after the unlock.   *)
(* Vectors of another dimension are refused (all of them in FailedIds when  *)
(* the call is a batch).  Insert refuses a request without a vector before  *)
(* that; Update reads the length of a nil Vector here and panics, and with  *)
(* it the process ends and starts anew: Restart.                            *)
(***************************************************************************)
Fit_Existing(f) == IF index = None THEN {} ELSE DOMAIN f
Fit(f) == {k \in DOMAIN f : DimOf[f[k]] = index}

LookupIndex(r) ==
  LET fit == Fit(rpc[r].want)
      f   == Restrict(rpc[r].want, fit)
  IN  /\ rpc[r].pc = "lookup" /\ indexMu = None
      /\ IF fit = {} THEN Done(r)
         ELSE rpc' = [rpc EXCEPT ![r].pc = "shards", ![r].want = f,
                                 ![r].left = ShardsOf(f)]
      /\ UNCHANGED <<index, indexMu, active, dbVars, promise>>

(***************************************************************************)
(* CreateIndex and DropIndex hold indexMu for writing from the test on      *)
(* s.indexes to the assignment, over their calls to every shard.            *)
(***************************************************************************)
MayLock_Always(r) == TRUE
MayLock(r) == indexMu = None

LockIndex(r) ==
  /\ rpc[r].pc = "lock" /\ MayLock(r)
  /\ IF (rpc[r].op = "create") = (index = None)
     THEN /\ indexMu' = r
          /\ rpc' = [rpc EXCEPT ![r].pc = "shards", ![r].left = Shards]
     ELSE UNCHANGED indexMu /\ Done(r)
  /\ UNCHANGED <<index, active, dbVars, promise>>

-----------------------------------------------------------------------------
(***************************************************************************)
(* The loop comes to shard s.  GetShardAdapter fails: the shard is skipped  *)
(* (its keys go to FailedIds, or the call fails).  Otherwise the first      *)
(* pipeline is sent.  Update deletes before it stores; CreateIndex writes   *)
(* only the unread metadata.                                                *)
(***************************************************************************)
Turn(r, s) ==
  /\ rpc[r].pc = "shards" /\ s \in rpc[r].left
  /\ rpc[r].par \/ \A q \in Shards : ~Running(r, q)

SkipShard(r, s) ==
  /\ Turn(r, s) /\ s \notin active
  /\ rpc' = [rpc EXCEPT ![r].left = @ \ {s}]
  /\ UNCHANGED <<index, indexMu, active, dbVars, promise>>

Orders(K) == {o \in [1 .. Cardinality(K) -> K] : Range(o) = K}

Commands(r, s, o) ==
  LET f == rpc[r].want
  IN  CASE rpc[r].op = "insert" -> StoreVector(o[1], f[o[1]])
        [] rpc[r].op = "batchInsert" -> BatchStoreVectors(o, f)
        [] rpc[r].op \in {"update", "delete"} -> DeleteVector(o[1])
        [] rpc[r].op = "batchDelete" -> BatchDeleteVectors(o, f)
        [] rpc[r].op = "create" -> <<>>
        [] rpc[r].op = "drop" -> DropIds(s)

StartShard(r, s) ==
  /\ Turn(r, s) /\ s \in active
  /\ \E o \in Orders(Group(r, s)) :
       rpc' = [rpc EXCEPT ![r].left = @ \ {s},
                 ![r].pipe[s] = [erase |-> rpc[r].op = "update",
                                 cmds  |-> Commands(r, s, o)]]
  /\ Claim(r, s)
  /\ UNCHANGED <<index, indexMu, active, dbVars>>

(***************************************************************************)
(* Redis executes the next command of a pipeline.                           *)
(***************************************************************************)
Command(r, s) ==
  LET cmds == rpc[r].pipe[s].cmds
  IN  /\ Running(r, s) /\ cmds # <<>> /\ Head(cmds).c # "error"
      /\ Exec(Head(cmds))
      /\ rpc' = [rpc EXCEPT ![r].pipe[s].cmds = Tail(cmds)]
      /\ UNCHANGED <<index, indexMu, active, late, promise>>

(***************************************************************************)
(* go-redis gives up on a pipeline that it has sent, the rest of which is   *)
(* dropped or left under way, and sends it again: the first commands are    *)
(* executed once more.                                                      *)
(***************************************************************************)
StoreOf(r) ==
  LET k == CHOOSE k \in DOMAIN rpc[r].want : TRUE IN StoreVector(k, rpc[r].want[k])

Pipelines(r, s) ==
  IF rpc[r].op = "update" /\ ~rpc[r].pipe[s].erase THEN {StoreOf(r)}
  ELSE {Commands(r, s, o) : o \in Orders(Group(r, s))}

LeavesTail(tail) ==
  /\ tail # <<>> /\ Head(tail).c # "error"
  /\ Cardinality(late) < MaxLate
  /\ late' = late \cup {tail}

Resend(r, s) ==
  /\ Running(r, s) /\ s \in Lossy /\ rpc[r].again > 0
  /\ \E cmds \in Pipelines(r, s) :
       /\ cmds # <<>> /\ Head(cmds).c # "error"
       /\ \E n \in 1 .. Len(cmds) + 1 : rpc[r].pipe[s].cmds = SubSeq(cmds, n, Len(cmds))
       /\ rpc' = [rpc EXCEPT ![r].again = @ - 1, ![r].pipe[s].cmds = cmds]
  /\ UNCHANGED late \/ LeavesTail(rpc[r].pipe[s].cmds)
  /\ UNCHANGED <<index, indexMu, active, vec, ids, promise>>

(***************************************************************************)
(* The pipeline ends: with an error at any time, its tail dropped or left   *)
(* under way, or with success.  Update ignores the failure of its delete    *)
(* and goes on to store.                                                    *)
(***************************************************************************)
StoreNext(r, s) ==
  rpc' = [rpc EXCEPT ![r].pipe[s] = [erase |-> FALSE, cmds |-> StoreOf(r)]]

EndPipe(r, s) == rpc' = [rpc EXCEPT ![r].pipe[s] = NoPipe]

PipelineFails(r, s) ==
  /\ Running(r, s)
  /\ s \in Lossy \/ (rpc[r].pipe[s].cmds # <<>> /\ Head(rpc[r].pipe[s].cmds).c = "error")
  /\ UNCHANGED late \/ LeavesTail(rpc[r].pipe[s].cmds)
  /\ IF rpc[r].pipe[s].erase THEN StoreNext(r, s) /\ UNCHANGED promise
     ELSE EndPipe(r, s) /\ Void(Places(r, s))
  /\ UNCHANGED <<index, indexMu, active, vec, ids>>

PipelineDone(r, s) ==
  /\ Running(r, s) /\ rpc[r].pipe[s].cmds = <<>>
  /\ IF rpc[r].pipe[s].erase THEN StoreNext(r, s) /\ UNCHANGED promise
     ELSE EndPipe(r, s) /\ Fulfil(r, s)
  /\ UNCHANGED <<index, indexMu, active, dbVars>>

LateCommand(t) ==
  /\ t \in late
  /\ Exec(Head(t))
  /\ late' = (late \ {t}) \cup (IF Len(t) = 1 THEN {} ELSE {Tail(t)})
  /\ Void(Touched(Head(t)))
  /\ UNCHANGED <<index, indexMu, rpc, active>>

(***************************************************************************)
(* Every shard visited and every goroutine of a parallel batch ended: the   *)
(* handler replies.  An index operation first assigns s.indexes and         *)
(* unlocks, whatever the shards answered.                                   *)
(***************************************************************************)
Visited(r) == /\ rpc[r].pc = "shards" /\ rpc[r].left = {}
              /\ \A s \in Shards : ~Running(r, s)

Reply(r) ==
  /\ Visited(r) /\ rpc[r].op \notin IndexOps
  /\ Done(r)
  /\ UNCHANGED <<index, indexMu, active, dbVars, promise>>

UnlockIndex_Forgotten(r) ==
  /\ Visited(r) /\ rpc[r].op \in IndexOps
  /\ index' = rpc[r].dim
  /\ Done(r)
  /\ UNCHANGED <<indexMu, active, dbVars, promise>>

UnlockIndex(r) ==
  /\ Visited(r) /\ rpc[r].op \in IndexOps
  /\ index' = rpc[r].dim
  /\ indexMu' = None
  /\ Done(r)
  /\ UNCHANGED <<active, dbVars, promise>>

-----------------------------------------------------------------------------
(***************************************************************************)
(* The health of a shard changes (ShardManager).  The process restarts:     *)
(* s.indexes is only in memory, and pipelines it had sent may be executed   *)
(* late.                                                                   *)
(***************************************************************************)
HealthFlip(s) ==
  /\ s \in MayFail
  /\ active' = IF s \in active THEN active \ {s} ELSE active \cup {s}
  /\ UNCHANGED <<index, indexMu, rpc, dbVars, promise>>

Tails == {rpc[r].pipe[s].cmds : r \in Rpcs, s \in Shards} \ {None, <<>>}

Restart ==
  /\ MayRestart
  /\ index' = None /\ indexMu' = None
  /\ rpc' = [r \in Rpcs |-> NoRpc]
  /\ \E T \in SUBSET {t \in Tails : Head(t).c # "error"} :
       Cardinality(late \cup T) <= MaxLate /\ late' = late \cup T
  /\ Void({p \in Keys \X Parts : \E r \in Rpcs : Writing(r, p)})
  /\ UNCHANGED <<active, vec, ids>>

RpcStep(r) ==
  \/ LookupIndex(r) \/ LockIndex(r) \/ Reply(r) \/ UnlockIndex(r)
  \/ \E s \in Shards : \/ SkipShard(r, s) \/ StartShard(r, s) \/ Command(r, s)
                       \/ Resend(r, s) \/ PipelineFails(r, s) \/ PipelineDone(r, s)

Next ==
  \/ \E r \in Rpcs : Call(r) \/ RpcStep(r)
  \/ \E t \in late : LateCommand(t)
  \/ \E s \in Shards : HealthFlip(s)
  \/ Restart

Spec == Init /\ [][Next]_vars

(***************************************************************************)
(* Fairness.  Every pipeline ends (the client's deadline), and a handler    *)
(* blocked on indexMu gets it when it is released (a sync.RWMutex lets      *)
(* neither its readers nor its writers starve): strong fairness for each    *)
(* handler.                                                                *)
(***************************************************************************)
FairSpec == Spec /\ \A r \in Rpcs : SF_vars(RpcStep(r))
-----------------------------------------------------------------------------
AllCommands == [c : {"SET", "ZADD", "DEL", "ZREM", "error"}, on : SUBSET Keys,
                v : Values \cup {Absent}]

(***************************************************************************)
(* Types.  In particular only vectors json.Marshal accepts reach Redis.     *)
(***************************************************************************)
TypeOK ==
  /\ index \in Dims \cup {None} /\ indexMu \in Rpcs \cup {None}
  /\ active \subseteq Shards
  /\ vec \in [Keys -> Encodable \cup {Absent}] /\ ids \subseteq Keys
  /\ promise \in [Keys \X Parts -> Values \cup BOOLEAN \cup Rpcs \cup {Absent, Unknown}]
  /\ \A t \in late : t \in Seq(AllCommands) /\ t # <<>>
  /\ \A r \in Rpcs :
       /\ rpc[r].op \in Stores \cup Deletes \cup IndexOps \cup {None}
       /\ rpc[r].pc \in {"idle", "lookup", "lock", "shards"}
       /\ DOMAIN rpc[r].want \subseteq Keys
       /\ rpc[r].left \subseteq Shards
       /\ \A s \in Shards : Running(r, s) => rpc[r].pipe[s].cmds \in Seq(AllCommands)

(***************************************************************************)
(* A write that succeeded holds until another write of the key or a late    *)
(* command of a failed write: an inserted or updated vector (also each      *)
(* vector of a batch that is neither in FailedIds nor skipped by            *)
(* BatchStoreVectors, which the reply counts as inserted) is in Redis and   *)
(* listed in the index; a deleted one is gone from both; a batch-deleted    *)
(* one is gone, and listed still if it was; one whose index was dropped is  *)
(* not listed, and there still if it was.  Other handlers' pipelines,       *)
(* failures and skipped shards of other groups and restarts do not undo it. *)
(***************************************************************************)
AckedWritesHold ==
  \A k \in Keys :
    /\ promise[<<k, "vec">>] \in Values \cup {Absent} => vec[k] = promise[<<k, "vec">>]
    /\ promise[<<k, "ids">>] \in BOOLEAN => (k \in ids) = promise[<<k, "ids">>]

(***************************************************************************)
(* An index never changes its dimension: two CreateIndex calls, or a create *)
(* during a drop, never both pass the test on s.indexes.                    *)
(***************************************************************************)
DimensionStable ==
  [][index # None /\ index' # None => index' = index]_vars

(***************************************************************************)
(* A handler that stores uses what it read of the index after indexMu was   *)
(* released.  It is out of date only if a DropIndex completed since: its    *)
(* vectors are of the index's dimension from the lookup on, and no other    *)
(* call, in particular no CreateIndex that passed the test on s.indexes     *)
(* before the lookup, puts an end to that while the handler is under way.   *)
(***************************************************************************)
Valid(r) ==
  /\ rpc[r].pc = "shards" /\ rpc[r].op \in Stores /\ index # None
  /\ \A k \in DOMAIN rpc[r].want : DimOf[rpc[r].want[k]] = index

OnlyDropsOutdate ==
  [][\A r \in Rpcs : (rpc[r].pc = "lookup" \/ Valid(r)) /\ rpc'[r].pc = "shards"
                     => Valid(r)' \/ index' = None]_vars

(***************************************************************************)
(* Every call is answered, whichever shards are down, pipelines fail and    *)
(* index operations compete for indexMu.                                    *)
(***************************************************************************)
EveryRpcReplies == \A r \in Rpcs : (rpc[r].pc # "idle") ~> (rpc[r].pc = "idle")

=============================================================================
