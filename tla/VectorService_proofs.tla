------------------------ MODULE VectorService_proofs ------------------------
(***************************************************************************)
(* For any number of handlers, keys, shards and dimensions: an index keeps  *)
(* its dimension as long as it exists, what a handler read of it goes out   *)
(* of date only by a DropIndex, and a write that succeeded holds until      *)
(* another one, through pipelines that interleave, fail and run late.       *)
(***************************************************************************)
EXTENDS VectorService, SequenceFacts

(***************************************************************************)
(* The inductive invariant.  Only an index operation takes indexMu, and one *)
(* that visits the shards holds it; what it found in s.indexes still holds. *)
(***************************************************************************)
Shape ==
  /\ DOMAIN rpc = Rpcs
  /\ \A r \in Rpcs : DOMAIN rpc[r] = {"op", "want", "dim", "par", "pc", "left", "again", "pipe"}

LockInv ==
  /\ Shape
  /\ \A r \in Rpcs :
       /\ rpc[r].pc = "lookup" => rpc[r].op \notin IndexOps
       /\ rpc[r].op # "create" => rpc[r].dim = None
       /\ rpc[r].pc = "shards" /\ rpc[r].op \in IndexOps => indexMu = r
       /\ rpc[r].pc = "shards" /\ rpc[r].op = "create" => index = None

(***************************************************************************)
(* A step that touches neither s.indexes nor the lock keeps the invariant   *)
(* when it leaves the operation of each call and where it stands.           *)
(***************************************************************************)
LEMMA SameStands ==
  ASSUME LockInv, Shape', UNCHANGED <<index, indexMu>>,
         \A r \in Rpcs : /\ rpc'[r].op = rpc[r].op /\ rpc'[r].pc = rpc[r].pc
                         /\ rpc'[r].dim = rpc[r].dim
  PROVE  LockInv'
  BY DEF LockInv

(***************************************************************************)
(* A call starts, or is refused at once.                                    *)
(***************************************************************************)
LEMMA BeginStep ==
  ASSUME LockInv, NEW r \in Rpcs, NEW op, NEW f, NEW d, NEW par,
         op # "create" => d = None, Begin(r, op, f, d, par)
  PROVE  LockInv' /\ index' = index
<1>1. /\ Shape' /\ UNCHANGED <<index, indexMu>>
      /\ \A q \in Rpcs \ {r} : rpc'[q] = rpc[q]
      /\ rpc'[r].op = op /\ rpc'[r].dim = d
      /\ rpc'[r].pc = CASE op \in Stores -> "lookup" [] op \in Deletes -> "shards"
                        [] OTHER -> "lock"
  BY DEF LockInv, Shape, Begin
<1>2. /\ rpc'[r].pc = "lookup" => op \notin IndexOps
      /\ rpc'[r].pc = "shards" => op \notin IndexOps /\ op # "create"
  BY <1>1 DEF Stores, Deletes, IndexOps
<1> QED
  BY <1>1, <1>2 DEF LockInv

LEMMA DoneStep ==
  ASSUME LockInv, NEW r \in Rpcs, Done(r), UNCHANGED <<index, indexMu>>
  PROVE  LockInv'
  BY DEF LockInv, Shape, Done, NoRpc, IndexOps

LEMMA LookupStep ==
  ASSUME LockInv, NEW r \in Rpcs, LookupIndex(r)
  PROVE  LockInv'
<1>1. UNCHANGED <<index, indexMu>> /\ rpc[r].pc = "lookup"
  BY DEF LookupIndex
<1>2. CASE Done(r)
  BY <1>1, <1>2, DoneStep
<1>3. ASSUME NEW f, rpc' = [rpc EXCEPT ![r].pc = "shards", ![r].want = f,
                                       ![r].left = ShardsOf(f)]
      PROVE  LockInv'
  <2>1. /\ Shape' /\ \A q \in Rpcs \ {r} : rpc'[q] = rpc[q]
        /\ rpc'[r].op = rpc[r].op /\ rpc'[r].dim = rpc[r].dim
    BY <1>3 DEF LockInv, Shape
  <2> QED
    BY <1>1, <2>1 DEF LockInv, IndexOps
<1> QED
  BY <1>2, <1>3 DEF LookupIndex

(***************************************************************************)
(* indexMu is free, so no other index operation visits the shards.          *)
(***************************************************************************)
LEMMA LockStep ==
  ASSUME LockInv, NEW r \in Rpcs, LockIndex(r)
  PROVE  LockInv'
<1>1. index' = index /\ indexMu = None
  BY DEF LockIndex, MayLock
<1>2. CASE Done(r) /\ UNCHANGED indexMu
  BY <1>1, <1>2, DoneStep
<1>3. CASE /\ (rpc[r].op = "create") = (index = None) /\ indexMu' = r
           /\ rpc' = [rpc EXCEPT ![r].pc = "shards", ![r].left = Shards]
  <2>1. /\ Shape' /\ \A q \in Rpcs \ {r} : rpc'[q] = rpc[q]
        /\ rpc'[r].op = rpc[r].op /\ rpc'[r].dim = rpc[r].dim /\ rpc'[r].pc = "shards"
    BY <1>3 DEF LockInv, Shape
  <2>2. \A q \in Rpcs : ~(rpc[q].pc = "shards" /\ rpc[q].op \in IndexOps)
    BY <1>1, ServiceAssumption DEF LockInv
  <2> QED
    BY <1>1, <1>3, <2>1, <2>2 DEF LockInv, IndexOps
<1> QED
  BY <1>2, <1>3 DEF LockIndex

(***************************************************************************)
(* The holder of indexMu creates what it found missing, or drops.           *)
(***************************************************************************)
LEMMA UnlockStep ==
  ASSUME LockInv, NEW r \in Rpcs, UnlockIndex(r)
  PROVE  LockInv' /\ (index # None /\ index' # None => index' = index)
<1>1. /\ rpc[r].pc = "shards" /\ rpc[r].op \in IndexOps /\ Done(r)
      /\ index' = rpc[r].dim /\ indexMu' = None
  BY DEF UnlockIndex, Visited
<1>2. /\ Shape' /\ \A q \in Rpcs \ {r} : rpc'[q] = rpc[q]
      /\ rpc'[r].op = None /\ rpc'[r].dim = None /\ rpc'[r].pc = "idle"
  BY <1>1 DEF LockInv, Shape, Done, NoRpc
<1>3. \A q \in Rpcs \ {r} : ~(rpc[q].pc = "shards" /\ rpc[q].op \in IndexOps)
  BY <1>1 DEF LockInv
<1> QED
  BY <1>1, <1>2, <1>3 DEF LockInv, IndexOps

(***************************************************************************)
(* The steps on the shards change only what is left and the pipelines.      *)
(***************************************************************************)
LEMMA ShardStep ==
  ASSUME LockInv, NEW r \in Rpcs, NEW s \in Shards,
         SkipShard(r, s) \/ StartShard(r, s) \/ Command(r, s) \/ Resend(r, s)
           \/ PipelineFails(r, s) \/ PipelineDone(r, s)
  PROVE  LockInv'
<1>1. UNCHANGED <<index, indexMu>>
  BY DEF SkipShard, StartShard, Command, Resend, PipelineFails, PipelineDone, dbVars
<1> DEFINE Stands ==
           /\ Shape'
           /\ \A q \in Rpcs : /\ rpc'[q].op = rpc[q].op /\ rpc'[q].pc = rpc[q].pc
                              /\ rpc'[q].dim = rpc[q].dim
<1>2. ASSUME SkipShard(r, s) PROVE Stands
  BY <1>2 DEF SkipShard, LockInv, Shape
<1>3. ASSUME StartShard(r, s) PROVE Stands
  <2>1. PICK left, pipe : rpc' = [rpc EXCEPT ![r].left = left, ![r].pipe[s] = pipe]
    BY <1>3 DEF StartShard
  <2> QED
    BY <2>1 DEF LockInv, Shape
<1>4. ASSUME Command(r, s) PROVE Stands
  <2>1. PICK cmds : rpc' = [rpc EXCEPT ![r].pipe[s].cmds = cmds]
    BY <1>4 DEF Command
  <2> QED
    BY <2>1 DEF LockInv, Shape
<1>5. ASSUME NEW v, rpc' = [rpc EXCEPT ![r].pipe[s] = v] PROVE Stands
  BY <1>5 DEF LockInv, Shape
<1>6. ASSUME PipelineFails(r, s) \/ PipelineDone(r, s) PROVE Stands
  BY <1>5, <1>6 DEF PipelineFails, PipelineDone, StoreNext, EndPipe
<1>7. ASSUME Resend(r, s) PROVE Stands
  <2>1. PICK n, cmds : rpc' = [rpc EXCEPT ![r].again = n, ![r].pipe[s].cmds = cmds]
    BY <1>7 DEF Resend
  <2> QED
    BY <2>1 DEF LockInv, Shape
<1> QED
  BY <1>1, <1>2, <1>3, <1>4, <1>6, <1>7, SameStands

(***************************************************************************)
(* Every step keeps the lock's invariant, and with it the dimension of an   *)
(* index that exists before and after the step.                             *)
(***************************************************************************)
LEMMA LockInvKept ==
  ASSUME LockInv, [Next]_vars
  PROVE  LockInv' /\ (index # None /\ index' # None => index' = index)
<1>1. ASSUME NEW r \in Rpcs, Call(r) PROVE LockInv' /\ index' = index
  BY <1>1, BeginStep DEF Call
<1>2. ASSUME NEW r \in Rpcs, LookupIndex(r) PROVE LockInv' /\ index' = index
  BY <1>2, LookupStep DEF LookupIndex
<1>3. ASSUME NEW r \in Rpcs, LockIndex(r) PROVE LockInv' /\ index' = index
  BY <1>3, LockStep DEF LockIndex
<1>4. ASSUME NEW r \in Rpcs, Reply(r) PROVE LockInv' /\ index' = index
  BY <1>4, DoneStep DEF Reply
<1>5. ASSUME NEW r \in Rpcs, UnlockIndex(r)
      PROVE  LockInv' /\ (index # None /\ index' # None => index' = index)
  BY <1>5, UnlockStep
<1>6. ASSUME NEW r \in Rpcs, NEW s \in Shards,
             SkipShard(r, s) \/ StartShard(r, s) \/ Command(r, s) \/ Resend(r, s)
               \/ PipelineFails(r, s) \/ PipelineDone(r, s)
      PROVE  LockInv' /\ index' = index
  <2>1. index' = index
    BY <1>6 DEF SkipShard, StartShard, Command, Resend, PipelineFails, PipelineDone
  <2> QED
    BY <1>6, <2>1, ShardStep
<1>7. CASE (\E t \in late : LateCommand(t)) \/ (\E s \in Shards : HealthFlip(s))
             \/ UNCHANGED vars
  <2>1. UNCHANGED <<index, indexMu, rpc>>
    BY <1>7 DEF LateCommand, HealthFlip, vars
  <2> QED
    BY <2>1 DEF LockInv, Shape
<1>8. CASE Restart
  BY <1>8 DEF Restart, LockInv, Shape, NoRpc, IndexOps
<1> QED
  BY <1>1, <1>2, <1>3, <1>4, <1>5, <1>6, <1>7, <1>8 DEF Next, RpcStep

LEMMA LockInvInitially == Init => LockInv
  BY DEF Init, LockInv, Shape, NoRpc, IndexOps

(***************************************************************************)
(* The critical section of CreateIndex and DropIndex, from the test on      *)
(* s.indexes to the assignment, keeps the dimension of an existing index.   *)
(***************************************************************************)
THEOREM DimensionKept == Spec => DimensionStable
  BY LockInvInitially, LockInvKept, PTL DEF Spec, DimensionStable

-----------------------------------------------------------------------------
(***************************************************************************)
(* The types of the calls.  A command under way stores a vector that        *)
(* json.Marshal accepts; only a handler that visits the shards has a        *)
(* pipeline there, of keys it routes to that shard, and only Update begins  *)
(* with a delete.                                                          *)
(***************************************************************************)
Operations == Stores \cup Deletes \cup IndexOps

SafeCommands ==
  {c \in AllCommands : /\ c.c = "SET" => c.v \in Encodable
                       /\ c.c = "DEL" => c.v = Absent}

Pipes == [Shards -> [erase : BOOLEAN, cmds : Seq(SafeCommands) \cup {None}]]

Wanted(op, f) ==
  /\ op \in Operations
  /\ op \in Stores => \A k \in DOMAIN f : f[k] \in Values
  /\ op \in Deletes => \A k \in DOMAIN f : f[k] = Absent
  /\ op \in {"insert", "update", "delete"} => \E k \in Keys : DOMAIN f = {k}

Fields(r) ==
  /\ rpc[r].op \in Operations \cup {None}
  /\ rpc[r].pc \in {"idle", "lookup", "lock", "shards"}
  /\ rpc[r].dim \in Dims \cup {None}
  /\ DOMAIN rpc[r].want \subseteq Keys
  /\ rpc[r].left \subseteq Shards
  /\ rpc[r].pipe \in Pipes

Stage(r) ==
  /\ rpc[r].pc # "idle" => Wanted(rpc[r].op, rpc[r].want)
  /\ rpc[r].pc = "lookup" => rpc[r].op \in Stores
  /\ rpc[r].pc = "lock" => rpc[r].op \in IndexOps
  /\ rpc[r].pc = "shards" /\ rpc[r].op \notin IndexOps
       => rpc[r].left \subseteq ShardsOf(rpc[r].want)
  /\ \A s \in Shards : Running(r, s) =>
       /\ rpc[r].pc = "shards"
       /\ rpc[r].op \notin IndexOps => s \in ShardsOf(rpc[r].want)
       /\ rpc[r].pipe[s].erase => rpc[r].op = "update"

CallsTyped == \A r \in Rpcs : Fields(r) /\ Stage(r)

LEMMA NoCommands == NoRpc.pipe \in Pipes /\ DOMAIN NoRpc.want = {}
  BY DEF NoRpc, NoPipe, Pipes

LEMMA DoneTyped ==
  ASSUME CallsTyped, Shape, NEW r \in Rpcs, Done(r)
  PROVE  CallsTyped'
<1>1. \A q \in Rpcs : rpc'[q] = rpc[q] \/ rpc'[q] = NoRpc
  BY DEF Done, Shape
<1>2. ASSUME NEW q \in Rpcs, rpc'[q] = NoRpc PROVE Fields(q)' /\ Stage(q)'
  <2>1. NoRpc.op = None /\ NoRpc.pc = "idle" /\ NoRpc.dim = None /\ NoRpc.left = {}
        /\ \A s \in Shards : NoRpc.pipe[s].cmds = None
    BY DEF NoRpc, NoPipe
  <2> QED
    BY <1>2, <2>1, NoCommands DEF Fields, Stage, Running
<1>3. ASSUME NEW q \in Rpcs, rpc'[q] = rpc[q] PROVE Fields(q)' /\ Stage(q)'
  BY <1>3 DEF CallsTyped, Fields, Stage, Running
<1> QED
  BY <1>1, <1>2, <1>3 DEF CallsTyped

LEMMA BeginTyped ==
  ASSUME CallsTyped, Shape, NEW r \in Rpcs, NEW op, NEW f, NEW d, NEW par,
         Wanted(op, f), DOMAIN f \subseteq Keys, d \in Dims \cup {None},
         Begin(r, op, f, d, par)
  PROVE  CallsTyped'
<1>1. /\ \A q \in Rpcs \ {r} : rpc'[q] = rpc[q]
      /\ rpc[r].pc = "idle" /\ rpc'[r].pipe = rpc[r].pipe
      /\ rpc'[r].op = op /\ rpc'[r].dim = d /\ rpc'[r].want = f
      /\ rpc'[r].left = (IF op \in Deletes THEN ShardsOf(f) ELSE {})
      /\ rpc'[r].pc = CASE op \in Stores -> "lookup" [] op \in Deletes -> "shards"
                        [] OTHER -> "lock"
  BY DEF Shape, Begin
<1>2. ASSUME NEW q \in Rpcs \ {r} PROVE Fields(q)' /\ Stage(q)'
  BY <1>1 DEF CallsTyped, Fields, Stage, Running
<1>3. \A s \in Shards : ~Running(r, s) /\ ~Running(r, s)'
  BY <1>1 DEF CallsTyped, Stage, Running
<1>4. ShardsOf(f) \subseteq Shards /\ op \in Operations
  BY ServiceAssumption DEF ShardsOf, Wanted
<1>5. /\ rpc'[r].pc \in {"idle", "lookup", "lock", "shards"}
      /\ rpc'[r].pc = "lookup" => op \in Stores
      /\ rpc'[r].pc = "lock" => op \in IndexOps
      /\ rpc'[r].pc = "shards" => op \in Deletes
  BY <1>1, <1>4 DEF Operations
<1>6. Fields(r)'
  BY <1>1, <1>4, <1>5 DEF CallsTyped, Fields
<1>7. Stage(r)'
  BY <1>1, <1>3, <1>5 DEF Stage
<1> QED
  BY <1>2, <1>6, <1>7 DEF CallsTyped

LEMMA CallTyped ==
  ASSUME CallsTyped, Shape, NEW r \in Rpcs, Call(r)
  PROVE  CallsTyped'
<1>1. ASSUME NEW op \in {"insert", "update"}, NEW k \in Keys, NEW v \in Values,
             Begin(r, op, Only(k, v), None, FALSE)
      PROVE  CallsTyped'
  <2>1. Wanted(op, Only(k, v)) /\ DOMAIN Only(k, v) \subseteq Keys
    BY DEF Wanted, Only, Operations, Stores, Deletes, IndexOps
  <2> QED
    BY <1>1, <2>1, BeginTyped
<1>2. ASSUME NEW K \in SUBSET Keys, NEW f \in [K -> Values], NEW par \in BOOLEAN,
             Begin(r, "batchInsert", f, None, par)
      PROVE  CallsTyped'
  <2>1. Wanted("batchInsert", f) /\ DOMAIN f \subseteq Keys
    BY DEF Wanted, Operations, Stores, Deletes, IndexOps
  <2> QED
    BY <1>2, <2>1, BeginTyped
<1>3. ASSUME NEW k \in Keys, Begin(r, "delete", Only(k, Absent), None, FALSE)
      PROVE  CallsTyped'
  <2>1. Wanted("delete", Only(k, Absent)) /\ DOMAIN Only(k, Absent) \subseteq Keys
    BY DEF Wanted, Only, Operations, Stores, Deletes, IndexOps
  <2> QED
    BY <1>3, <2>1, BeginTyped
<1>4. ASSUME NEW K \in SUBSET Keys,
             Begin(r, "batchDelete", [k \in K |-> Absent], None, FALSE)
      PROVE  CallsTyped'
  <2>1. /\ Wanted("batchDelete", [k \in K |-> Absent])
        /\ DOMAIN [k \in K |-> Absent] \subseteq Keys
    BY DEF Wanted, Operations, Stores, Deletes, IndexOps
  <2> QED
    BY <1>4, <2>1, BeginTyped
<1>5. ASSUME NEW op \in IndexOps, NEW d \in Dims \cup {None}, Begin(r, op, <<>>, d, FALSE)
      PROVE  CallsTyped'
  <2>1. Wanted(op, <<>>) /\ DOMAIN <<>> \subseteq Keys
    BY DEF Wanted, Operations, Stores, Deletes, IndexOps
  <2> QED
    BY <1>5, <2>1, BeginTyped
<1> QED
  BY <1>1, <1>2, <1>3, <1>4, <1>5 DEF Call, IndexOps

LEMMA LookupTyped ==
  ASSUME CallsTyped, Shape, NEW r \in Rpcs, LookupIndex(r)
  PROVE  CallsTyped'
<1> DEFINE fit == Fit(rpc[r].want)
           f   == Restrict(rpc[r].want, fit)
<1>1. CASE Done(r)
  BY <1>1, DoneTyped
<1>2. CASE fit # {} /\ rpc' = [rpc EXCEPT ![r].pc = "shards", ![r].want = f,
                                         ![r].left = ShardsOf(f)]
  <2>1. /\ \A q \in Rpcs \ {r} : rpc'[q] = rpc[q]
        /\ rpc'[r].op = rpc[r].op /\ rpc'[r].dim = rpc[r].dim
        /\ rpc'[r].pipe = rpc[r].pipe /\ rpc'[r].pc = "shards"
        /\ rpc'[r].want = f /\ rpc'[r].left = ShardsOf(f)
    <3> HIDE DEF f
    <3> QED
      BY <1>2 DEF Shape
  <2>2. ASSUME NEW q \in Rpcs \ {r} PROVE Fields(q)' /\ Stage(q)'
    BY <2>1 DEF CallsTyped, Fields, Stage, Running
  <2>3. rpc[r].pc = "lookup" /\ rpc[r].op \in Stores /\ Wanted(rpc[r].op, rpc[r].want)
    BY DEF LookupIndex, CallsTyped, Stage
  <2>4. DOMAIN f \subseteq Keys /\ Wanted(rpc[r].op, f)
    <3>1. DOMAIN f = fit /\ fit \subseteq DOMAIN rpc[r].want
          /\ \A k \in DOMAIN f : f[k] = rpc[r].want[k]
      BY DEF Restrict, Fit
    <3> HIDE DEF f, fit
    <3> QED
      BY <1>2, <2>3, <3>1 DEF Wanted, CallsTyped, Fields
  <2>5. \A s \in Shards : ~Running(r, s) /\ ~Running(r, s)'
    BY <2>1, <2>3 DEF CallsTyped, Stage, Running
  <2>6. ShardsOf(f) \subseteq Shards
    BY <2>4, ServiceAssumption DEF ShardsOf
  <2> HIDE DEF f
  <2>7. Fields(r)'
    BY <2>1, <2>4, <2>6 DEF CallsTyped, Fields
  <2>8. Stage(r)'
    BY <2>1, <2>3, <2>4, <2>5 DEF Stage
  <2> QED
    BY <2>2, <2>7, <2>8 DEF CallsTyped
<1> QED
  BY <1>1, <1>2 DEF LookupIndex

LEMMA LockTyped ==
  ASSUME CallsTyped, Shape, NEW r \in Rpcs, LockIndex(r)
  PROVE  CallsTyped'
<1>1. CASE Done(r)
  BY <1>1, DoneTyped
<1>2. CASE rpc' = [rpc EXCEPT ![r].pc = "shards", ![r].left = Shards]
  <2>1. /\ \A q \in Rpcs \ {r} : rpc'[q] = rpc[q]
        /\ rpc'[r].op = rpc[r].op /\ rpc'[r].dim = rpc[r].dim
        /\ rpc'[r].pipe = rpc[r].pipe /\ rpc'[r].pc = "shards"
        /\ rpc'[r].want = rpc[r].want /\ rpc'[r].left = Shards
    BY <1>2 DEF Shape
  <2>2. ASSUME NEW q \in Rpcs \ {r} PROVE Fields(q)' /\ Stage(q)'
    BY <2>1 DEF CallsTyped, Fields, Stage, Running
  <2>3. rpc[r].pc = "lock" /\ rpc[r].op \in IndexOps
    BY DEF LockIndex, CallsTyped, Stage
  <2>4. \A s \in Shards : ~Running(r, s) /\ ~Running(r, s)'
    BY <2>1, <2>3 DEF CallsTyped, Stage, Running
  <2>5. Fields(r)'
    BY <2>1 DEF CallsTyped, Fields
  <2>6. Stage(r)'
    BY <2>1, <2>3, <2>4 DEF CallsTyped, Stage
  <2> QED
    BY <2>2, <2>5, <2>6 DEF CallsTyped
<1> QED
  BY <1>1, <1>2 DEF LockIndex

(***************************************************************************)
(* The steps on the shards keep the types: they take a shard off the list,  *)
(* and the commands they put under way are safe.                            *)
(***************************************************************************)
PipeChange(r, s, left, e, cmds) ==
  /\ \A q \in Rpcs \ {r} : rpc'[q] = rpc[q]
  /\ rpc'[r].op = rpc[r].op /\ rpc'[r].dim = rpc[r].dim /\ rpc'[r].pc = rpc[r].pc
  /\ rpc'[r].want = rpc[r].want /\ rpc'[r].left = left
  /\ rpc'[r].pipe \in Pipes
  /\ rpc'[r].pipe[s].erase = e /\ rpc'[r].pipe[s].cmds = cmds
  /\ \A t \in Shards \ {s} : rpc'[r].pipe[t] = rpc[r].pipe[t]

LEMMA PipeChanges ==
  ASSUME CallsTyped, NEW r \in Rpcs, NEW s \in Shards, NEW left, NEW e \in BOOLEAN,
         NEW cmds \in Seq(SafeCommands) \cup {None},
         \A q \in Rpcs \ {r} : rpc'[q] = rpc[q],
         rpc'[r].op = rpc[r].op /\ rpc'[r].dim = rpc[r].dim /\ rpc'[r].pc = rpc[r].pc,
         rpc'[r].want = rpc[r].want /\ rpc'[r].left = left,
         rpc'[r].pipe = [rpc[r].pipe EXCEPT ![s] = [erase |-> e, cmds |-> cmds]]
  PROVE  PipeChange(r, s, left, e, cmds)
<1> DEFINE new == [erase |-> e, cmds |-> cmds]
           P   == [erase : BOOLEAN, cmds : Seq(SafeCommands) \cup {None}]
<1>1. new.erase = e /\ new.cmds = cmds /\ new \in P /\ Pipes = [Shards -> P]
  BY DEF Pipes
<1>2. rpc'[r].pipe = [rpc[r].pipe EXCEPT ![s] = new]
  OBVIOUS
<1> HIDE DEF new, P
<1>3. PICK old \in [Shards -> P] : old = rpc[r].pipe
  BY <1>1 DEF CallsTyped, Fields
<1>4. PICK upd : upd = [old EXCEPT ![s] = new]
  OBVIOUS
<1>5. /\ upd \in [Shards -> P] /\ upd[s] = new
      /\ \A t \in Shards \ {s} : upd[t] = old[t]
  BY <1>1, <1>4
<1>6. rpc'[r].pipe = upd
  BY <1>2, <1>3, <1>4
<1> QED
  BY <1>1, <1>3, <1>5, <1>6 DEF PipeChange

LEMMA PipeTyped ==
  ASSUME CallsTyped, NEW r \in Rpcs, NEW s \in Shards, NEW left, NEW e, NEW cmds,
         left \subseteq rpc[r].left, PipeChange(r, s, left, e, cmds),
         cmds # None => /\ rpc[r].pc = "shards"
                        /\ rpc[r].op \notin IndexOps => s \in ShardsOf(rpc[r].want)
                        /\ e => rpc[r].op = "update"
  PROVE  CallsTyped'
<1>1. /\ \A q \in Rpcs \ {r} : rpc'[q] = rpc[q]
      /\ rpc'[r].op = rpc[r].op /\ rpc'[r].dim = rpc[r].dim /\ rpc'[r].pc = rpc[r].pc
      /\ rpc'[r].want = rpc[r].want /\ rpc'[r].left = left
      /\ rpc'[r].pipe \in Pipes
      /\ rpc'[r].pipe[s].erase = e /\ rpc'[r].pipe[s].cmds = cmds
      /\ \A t \in Shards \ {s} : rpc'[r].pipe[t] = rpc[r].pipe[t]
  BY DEF PipeChange
<1>4. ASSUME NEW q \in Rpcs \ {r} PROVE Fields(q)' /\ Stage(q)'
  <2>1. rpc'[q] = rpc[q]
    BY <1>1
  <2> QED
    BY <2>1 DEF CallsTyped, Fields, Stage, Running
<1>5. Fields(r)'
  BY <1>1 DEF CallsTyped, Fields
<1>6. ASSUME NEW t \in Shards, Running(r, t)'
      PROVE  /\ rpc'[r].pc = "shards"
             /\ rpc'[r].op \notin IndexOps => t \in ShardsOf(rpc[r].want)
             /\ rpc'[r].pipe[t].erase => rpc'[r].op = "update"
  <2>1. CASE t = s
    BY <1>1, <1>6, <2>1 DEF Running
  <2>2. CASE t # s
    BY <1>1, <1>6, <2>2 DEF CallsTyped, Stage, Running
  <2> QED
    BY <2>1, <2>2
<1>7. Stage(r)'
  BY <1>1, <1>6 DEF CallsTyped, Stage
<1> QED
  BY <1>4, <1>5, <1>7 DEF CallsTyped

LEMMA SkipTyped ==
  ASSUME CallsTyped, Shape, NEW r \in Rpcs, NEW s \in Shards, SkipShard(r, s)
  PROVE  CallsTyped'
<1>1. /\ \A q \in Rpcs \ {r} : rpc'[q] = rpc[q]
      /\ rpc'[r].op = rpc[r].op /\ rpc'[r].dim = rpc[r].dim /\ rpc'[r].pc = rpc[r].pc
      /\ rpc'[r].want = rpc[r].want /\ rpc'[r].left = rpc[r].left \ {s}
      /\ rpc'[r].pipe = rpc[r].pipe
  BY DEF SkipShard, Shape
<1>2. ASSUME NEW q \in Rpcs \ {r} PROVE Fields(q)' /\ Stage(q)'
  BY <1>1 DEF CallsTyped, Fields, Stage, Running
<1>3. Fields(r)'
  BY <1>1 DEF CallsTyped, Fields
<1>4. Stage(r)'
  BY <1>1 DEF CallsTyped, Stage, Running
<1> QED
  BY <1>2, <1>3, <1>4 DEF CallsTyped

-----------------------------------------------------------------------------
(***************************************************************************)
(* What the pipelines of the adapter consist of: each of the commands cs    *)
(* for each of the keys K, and nothing else.                                *)
(***************************************************************************)
Cmd(c, k, f) == [c |-> c, on |-> {k}, v |-> f[k]]

Sends(cmds, cs, K, f) ==
  /\ cmds \in Seq({Cmd(c, k, f) : c \in cs, k \in K})
  /\ \A c \in cs, k \in K : \E i \in 1 .. Len(cmds) : cmds[i] = Cmd(c, k, f)

LEMMA OneCommand ==
  ASSUME NEW A, NEW o \in Seq(A), NEW c, NEW f
  PROVE  Sends(Pipeline(<<c>>, o, f), {c}, Range(o), f)
<1> DEFINE P == Pipeline(<<c>>, o, f)
           n == Len(o)
<1>0. n \in Nat /\ DOMAIN o = 1 .. n /\ Range(o) = {o[j] : j \in 1 .. n}
  BY DEF Range
<1>1. P = [i \in 1 .. n |-> Cmd(c, o[i], f)]
  <2> HIDE DEF n
  <2>1. Len(<<c>>) = 1 /\ <<c>>[1] = c
    OBVIOUS
  <2>3. 1 * n = n
    BY <1>0
  <2>2. \A i \in 1 .. n : 1 + ((i - 1) \div 1) = i /\ 1 + ((i - 1) % 1) = 1
    BY <1>0
  <2> QED
    BY <2>1, <2>2, <2>3 DEF Pipeline, Cmd, n
<1> HIDE DEF P, n
<1>2. \A i \in 1 .. n : P[i] = Cmd(c, o[i], f) /\ o[i] \in Range(o)
  BY <1>0, <1>1
<1>3. P \in Seq({Cmd(d, k, f) : d \in {c}, k \in Range(o)}) /\ Len(P) = n
  <2> DEFINE S == {Cmd(d, k, f) : d \in {c}, k \in Range(o)}
  <2>1. \A i \in 1 .. n : P[i] \in S
    BY <1>2
  <2> HIDE DEF S
  <2>2. P \in [1 .. n -> S]
    BY <1>1, <2>1
  <2>3. P \in Seq(S) /\ Len(P) = n
    BY <1>0, <2>2
  <2> QED
    BY <2>3 DEF S
<1>4. \A k \in Range(o) : \E i \in 1 .. Len(P) : P[i] = Cmd(c, k, f)
  BY <1>0, <1>2, <1>3
<1> QED
  BY <1>3, <1>4 DEF Sends, P

LEMMA TwoCommands ==
  ASSUME NEW A, NEW o \in Seq(A), NEW c, NEW d, NEW f
  PROVE  Sends(Pipeline(<<c, d>>, o, f), {c, d}, Range(o), f)
<1> DEFINE P == Pipeline(<<c, d>>, o, f)
           n == Len(o)
           K == Range(o)
<1>0. n \in Nat /\ DOMAIN o = 1 .. n /\ K = {o[j] : j \in 1 .. n}
  BY DEF Range
<1>1. P = [i \in 1 .. 2 * n |-> Cmd(<<c, d>>[1 + ((i - 1) % 2)], o[1 + ((i - 1) \div 2)], f)]
  <2>1. Len(<<c, d>>) = 2
    OBVIOUS
  <2> HIDE DEF n
  <2> QED
    BY <2>1 DEF Pipeline, Cmd, n
<1> HIDE DEF P, n, K
<1>2. ASSUME NEW i \in 1 .. 2 * n
      PROVE  \E e \in {c, d}, k \in K : P[i] = Cmd(e, k, f)
  <2>1. 1 + ((i - 1) \div 2) \in 1 .. n /\ 1 + ((i - 1) % 2) \in 1 .. 2
    BY <1>0, <1>2
  <2>2. <<c, d>>[1 + ((i - 1) % 2)] \in {c, d} /\ o[1 + ((i - 1) \div 2)] \in K
    BY <1>0, <2>1
  <2> QED
    BY <1>1, <2>2
<1>3. P \in Seq({Cmd(e, k, f) : e \in {c, d}, k \in K}) /\ Len(P) = 2 * n
  <2> DEFINE m == 2 * n
             C == {Cmd(e, k, f) : e \in {c, d}, k \in K}
  <2>1. m \in Nat /\ DOMAIN P = 1 .. m /\ \A i \in 1 .. m : P[i] \in C
    <3>1. ASSUME NEW i \in 1 .. m PROVE P[i] \in C
      BY <1>2
    <3>2. m \in Nat
      BY <1>0
    <3>3. DOMAIN P = 1 .. m
      BY <1>1
    <3> HIDE DEF m, C
    <3> QED
      BY <3>1, <3>2, <3>3
  <2>2. P = [i \in 1 .. m |-> P[i]]
    BY <1>1
  <2> HIDE DEF m, C
  <2>3. P \in Seq(C) /\ Len(P) = m
    BY <2>1, <2>2
  <2> QED
    BY <2>3 DEF m, C
<1>4. ASSUME NEW j \in 1 .. n
      PROVE  /\ \E i \in 1 .. Len(P) : P[i] = Cmd(c, o[j], f)
             /\ \E i \in 1 .. Len(P) : P[i] = Cmd(d, o[j], f)
  <2>1. /\ 2 * j - 1 \in 1 .. 2 * n /\ 2 * j \in 1 .. 2 * n
        /\ ((2 * j - 1) - 1) \div 2 = j - 1 /\ ((2 * j - 1) - 1) % 2 = 0
        /\ ((2 * j) - 1) \div 2 = j - 1 /\ ((2 * j) - 1) % 2 = 1
    BY <1>0, <1>4
  <2>2. P[2 * j - 1] = Cmd(c, o[j], f)
    <3>1. P[2 * j - 1] = Cmd(<<c, d>>[1 + 0], o[1 + (j - 1)], f)
      BY <1>1, <2>1
    <3> QED
      BY <3>1
  <2>3. P[2 * j] = Cmd(d, o[j], f)
    <3>1. P[2 * j] = Cmd(<<c, d>>[1 + 1], o[1 + (j - 1)], f)
      BY <1>1, <2>1
    <3> QED
      BY <3>1
  <2> QED
    BY <1>3, <2>1, <2>2, <2>3
<1>5. \A e \in {c, d}, k \in K : \E i \in 1 .. Len(P) : P[i] = Cmd(e, k, f)
  BY <1>0, <1>4
<1>6. Sends(P, {c, d}, K, f)
  BY <1>3, <1>5 DEF Sends
<1> QED
  BY <1>6 DEF P, K

(***************************************************************************)
(* What a pipeline of handler r writes: only places of the set P, and there *)
(* what r promises; a place it reaches is written, or the pipeline fails.   *)
(***************************************************************************)
Sets(cmd, p) == IF p[2] = "vec" THEN cmd.v ELSE cmd.c = "ZADD"

Within(cmds, P)  == \A i \in 1 .. Len(cmds) : Touched(cmds[i]) \subseteq P
Obeys(r, cmds)   == \A i \in 1 .. Len(cmds) : \A p \in Touched(cmds[i]) :
                      Sets(cmds[i], p) = Promised(r, p)
Reaches(cmds, p) == \E i \in 1 .. Len(cmds) :
                      cmds[i].c = "error" \/ p \in Touched(cmds[i])
Covers(cmds, P)  == \A p \in P : Reaches(cmds, p)

Part(c) == IF c \in {"SET", "DEL"} THEN "vec" ELSE "ids"

LEMMA TouchedByCmd ==
  ASSUME NEW c, NEW k, NEW f
  PROVE  Touched(Cmd(c, k, f)) = {<<k, Part(c)>>} /\ Cmd(c, k, f).c = c /\ Cmd(c, k, f).v = f[k]
<1>1. Cmd(c, k, f).c = c /\ Cmd(c, k, f).on = {k} /\ Cmd(c, k, f).v = f[k]
  BY DEF Cmd
<1>2. Touched(Cmd(c, k, f)) = {k} \X {Part(c)}
  BY <1>1 DEF Touched, Part
<1> QED
  BY <1>1, <1>2

OneOf(cmd, cs, K, f) == \E c \in cs, k \in K : cmd = Cmd(c, k, f)

LEMMA SentCommand ==
  ASSUME NEW cs, NEW K, NEW f, NEW cmds, Sends(cmds, cs, K, f), NEW i \in 1 .. Len(cmds)
  PROVE  OneOf(cmds[i], cs, K, f)
<1> DEFINE C == {Cmd(c, k, f) : c \in cs, k \in K}
<1>1. cmds \in Seq(C)
  BY DEF Sends
<1>2. cmds[i] \in C
  <2> HIDE DEF C
  <2> QED
    BY <1>1
<1> QED
  BY <1>2 DEF OneOf

LEMMA SendsSafe ==
  ASSUME NEW cs \in SUBSET {"SET", "ZADD", "DEL", "ZREM"}, NEW K \in SUBSET Keys, NEW f,
         NEW cmds, Sends(cmds, cs, K, f), \A k \in K : f[k] \in Values \cup {Absent},
         "SET" \in cs => \A k \in K : f[k] \in Encodable,
         "DEL" \in cs => \A k \in K : f[k] = Absent
  PROVE  cmds \in Seq(SafeCommands)
<1> DEFINE C == {Cmd(c, k, f) : c \in cs, k \in K}
<1>1. ASSUME NEW c \in cs, NEW k \in K PROVE Cmd(c, k, f) \in SafeCommands
  <2>1. Cmd(c, k, f) \in AllCommands
    BY DEF Cmd, AllCommands
  <2>2. Cmd(c, k, f).c = c /\ Cmd(c, k, f).v = f[k]
    BY DEF Cmd
  <2> QED
    BY <2>1, <2>2 DEF SafeCommands
<1>2. C \subseteq SafeCommands /\ cmds \in Seq(C)
  BY <1>1 DEF Sends
<1> HIDE DEF C
<1> QED
  BY <1>2

LEMMA SendsWithin ==
  ASSUME NEW cs, NEW K, NEW f, NEW cmds, Sends(cmds, cs, K, f),
         NEW T, \A c \in cs : Part(c) \in T
  PROVE  Within(cmds, K \X T)
<1> SUFFICES ASSUME NEW i \in 1 .. Len(cmds) PROVE Touched(cmds[i]) \subseteq K \X T
  BY DEF Within
<1>0. OneOf(cmds[i], cs, K, f)
  BY SentCommand
<1>1. PICK c \in cs, k \in K : cmds[i] = Cmd(c, k, f)
  BY <1>0 DEF OneOf
<1>2. Touched(cmds[i]) = {<<k, Part(c)>>}
  BY <1>1, TouchedByCmd
<1> QED
  BY <1>2

LEMMA SendsReaches ==
  ASSUME NEW cs, NEW K, NEW f, NEW cmds, Sends(cmds, cs, K, f),
         NEW T, \A a \in T : \E c \in cs : Part(c) = a
  PROVE  Covers(cmds, K \X T)
<1> SUFFICES ASSUME NEW k \in K, NEW a \in T PROVE Reaches(cmds, <<k, a>>)
  BY DEF Covers
<1>1. PICK c \in cs : Part(c) = a
  OBVIOUS
<1>2. PICK i \in 1 .. Len(cmds) : cmds[i] = Cmd(c, k, f)
  BY DEF Sends
<1>3. <<k, a>> \in Touched(cmds[i])
  BY <1>1, <1>2, TouchedByCmd
<1> QED
  BY <1>3 DEF Reaches

LEMMA SendsObeys ==
  ASSUME NEW cs \in SUBSET {"SET", "ZADD", "DEL", "ZREM"}, NEW K, NEW f, NEW cmds,
         Sends(cmds, cs, K, f), NEW r, \A k \in K : f[k] = rpc[r].want[k],
         "ZADD" \in cs => rpc[r].op \in Stores, "ZREM" \in cs => rpc[r].op \notin Stores
  PROVE  Obeys(r, cmds)
<1> SUFFICES ASSUME NEW i \in 1 .. Len(cmds), NEW p \in Touched(cmds[i])
             PROVE  Sets(cmds[i], p) = Promised(r, p)
  BY DEF Obeys
<1>0. OneOf(cmds[i], cs, K, f)
  BY SentCommand
<1>1. PICK c \in cs, k \in K : cmds[i] = Cmd(c, k, f)
  BY <1>0 DEF OneOf
<1>2. p = <<k, Part(c)>> /\ cmds[i].c = c /\ cmds[i].v = f[k]
  BY <1>1, TouchedByCmd
<1>3. p[1] = k /\ p[2] = Part(c)
  BY <1>2
<1>4. CASE c \in {"SET", "DEL"}
  BY <1>2, <1>3, <1>4 DEF Sets, Promised, Part
<1>5. CASE c = "ZADD"
  BY <1>2, <1>3, <1>5 DEF Sets, Promised, Part
<1>6. CASE c = "ZREM"
  BY <1>2, <1>3, <1>6 DEF Sets, Promised, Part
<1> QED
  BY <1>4, <1>5, <1>6

(***************************************************************************)
(* The pipeline with which a handler begins on a shard of its own.          *)
(***************************************************************************)
Fresh(r, cmds, P) ==
  /\ cmds \in Seq(SafeCommands)
  /\ Within(cmds, P) /\ Obeys(r, cmds) /\ Covers(cmds, P)

LEMMA SendsFresh ==
  ASSUME NEW cs \in SUBSET {"SET", "ZADD", "DEL", "ZREM"}, NEW K \in SUBSET Keys, NEW f,
         NEW cmds, Sends(cmds, cs, K, f), NEW T, {Part(c) : c \in cs} = T,
         NEW r, \A k \in K : f[k] = rpc[r].want[k] /\ f[k] \in Values \cup {Absent},
         "SET" \in cs => \A k \in K : f[k] \in Encodable,
         "DEL" \in cs => \A k \in K : f[k] = Absent,
         "ZADD" \in cs => rpc[r].op \in Stores, "ZREM" \in cs => rpc[r].op \notin Stores
  PROVE  Fresh(r, cmds, K \X T)
<1>1. (\A c \in cs : Part(c) \in T) /\ (\A a \in T : \E c \in cs : Part(c) = a)
  OBVIOUS
<1>2. \A k \in K : f[k] = rpc[r].want[k]
  OBVIOUS
<1>3. \A k \in K : f[k] \in Values \cup {Absent}
  OBVIOUS
<1>4. cmds \in Seq(SafeCommands)
  BY <1>3, SendsSafe
<1>5. Within(cmds, K \X T)
  BY <1>1, SendsWithin
<1>6. Obeys(r, cmds)
  BY <1>2, SendsObeys
<1>7. Covers(cmds, K \X T)
  BY <1>1, SendsReaches
<1> QED
  BY <1>4, <1>5, <1>6, <1>7 DEF Fresh

LEMMA StoreVectorSends ==
  ASSUME NEW k, NEW v \in Encodable
  PROVE  Sends(StoreVector(k, v), {"SET", "ZADD"}, {k}, Only(k, v))
<1>1. <<k>> \in Seq({k}) /\ Range(<<k>>) = {k}
  BY DEF Range
<1>2. Sends(Pipeline(<<"SET", "ZADD">>, <<k>>, Only(k, v)), {"SET", "ZADD"},
            Range(<<k>>), Only(k, v))
  BY <1>1, TwoCommands
<1> QED
  BY <1>1, <1>2 DEF StoreVector

LEMMA StoreIsFresh ==
  ASSUME NEW k \in Keys, NEW v \in Values, NEW r, rpc[r].op \in Stores, rpc[r].want[k] = v,
         NEW P, P = {k} \X Parts
  PROVE  Fresh(r, StoreVector(k, v), P)
<1>1. CASE v \in Encodable
  <2> DEFINE cmds == StoreVector(k, v)
             f    == Only(k, v)
             cs   == {"SET", "ZADD"}
  <2>1. Sends(cmds, cs, {k}, f)
    BY <1>1, StoreVectorSends
  <2>2. \A x \in {k} : f[x] = v
    BY DEF Only
  <2>3. /\ {Part(c) : c \in cs} = Parts
        /\ cs \in SUBSET {"SET", "ZADD", "DEL", "ZREM"} /\ "ZREM" \notin cs /\ "DEL" \notin cs
    BY DEF Part, Parts
  <2>4. /\ \A x \in {k} : f[x] = rpc[r].want[x] /\ f[x] \in Values \cup {Absent}
        /\ \A x \in {k} : f[x] \in Encodable
    BY <1>1, <2>2
  <2> HIDE DEF cmds, f, cs
  <2>5. Fresh(r, cmds, {k} \X Parts)
    BY <2>1, <2>3, <2>4, SendsFresh
  <2> QED
    BY <2>5 DEF cmds
<1>2. CASE v \notin Encodable
  <2> DEFINE cmd == [c |-> "error", on |-> {}, v |-> v]
  <2>1. cmd \in SafeCommands /\ cmd.c = "error" /\ Touched(cmd) = {}
    BY DEF SafeCommands, AllCommands, Touched
  <2> HIDE DEF cmd
  <2>2. <<cmd>> \in Seq(SafeCommands) /\ Len(<<cmd>>) = 1 /\ <<cmd>>[1] = cmd
    BY <2>1
  <2>3. StoreVector(k, v) = <<cmd>>
    BY <1>2 DEF StoreVector, cmd
  <2> QED
    BY <2>1, <2>2, <2>3 DEF Fresh, Within, Obeys, Covers, Reaches
<1> QED
  BY <1>1, <1>2

(***************************************************************************)
(* The pipelines of each operation.                                         *)
(***************************************************************************)
LEMMA OrderIsSeq ==
  ASSUME NEW K \in SUBSET Keys, NEW o \in Orders(K)
  PROVE  o \in Seq(K) /\ Range(o) = K /\ Cardinality(K) \in Nat /\ o \in [1 .. Cardinality(K) -> K]
<1>1. Cardinality(K) \in Nat
  BY ServiceAssumption, FS_Subset, FS_CardinalityType
<1> QED
  BY <1>1 DEF Orders

LEMMA OrderOfOne ==
  ASSUME NEW k \in Keys, NEW o \in Orders({k})
  PROVE  o[1] = k
<1>1. o \in [1 .. 1 -> {k}]
  BY FS_Singleton DEF Orders
<1> QED
  BY <1>1

LEMMA DeleteVectorSends ==
  ASSUME NEW k
  PROVE  Sends(DeleteVector(k), {"DEL", "ZREM"}, {k}, Only(k, Absent))
<1>1. <<k>> \in Seq({k}) /\ Range(<<k>>) = {k}
  BY DEF Range
<1>2. Sends(Pipeline(<<"DEL", "ZREM">>, <<k>>, Only(k, Absent)), {"DEL", "ZREM"},
            Range(<<k>>), Only(k, Absent))
  BY <1>1, TwoCommands
<1> QED
  BY <1>1, <1>2 DEF DeleteVector

LEMMA BatchSends ==
  ASSUME NEW K \in SUBSET Keys, NEW o \in Orders(K), NEW f
  PROVE  /\ Sends(BatchStoreVectors(o, f), {"SET", "ZADD"}, K \cap Encodes(f), f)
         /\ Sends(BatchDeleteVectors(o, f), {"DEL"}, K, f)
<1>1. o \in Seq(K) /\ Range(o) = K
  BY OrderIsSeq
<1> DEFINE E == Encodes(f)
           e == Filter(o, E)
<1>2. e \in Seq(K) /\ \E at : Picks(at, e, o, Len(o), E)
  <2> HIDE DEF E
  <2> QED
    BY <1>1, FilterPicks
<1>3. Range(e) = K \cap E
  <2> HIDE DEF e, E
  <2>1. PICK at : Picks(at, e, o, Len(o), E)
    BY <1>2
  <2>2. /\ DOMAIN e = 1 .. Len(e) /\ DOMAIN o = 1 .. Len(o)
        /\ Range(e) = {e[i] : i \in 1 .. Len(e)} /\ K = {o[p] : p \in 1 .. Len(o)}
    BY <1>1, <1>2 DEF Range
  <2>3. ASSUME NEW k \in Range(e) PROVE k \in K \cap E
    <3>1. PICK i \in 1 .. Len(e) : k = e[i]
      BY <2>2
    <3>2. at[i] \in 1 .. Len(o) /\ e[i] = o[at[i]] /\ o[at[i]] \in E
      BY <2>1, <3>1 DEF Picks
    <3> QED
      BY <2>2, <3>1, <3>2
  <2>4. ASSUME NEW k \in K \cap E PROVE k \in Range(e)
    <3>1. PICK p \in 1 .. Len(o) : k = o[p]
      BY <2>2
    <3>2. PICK i \in 1 .. Len(e) : at[i] = p
      BY <2>1, <2>4, <3>1 DEF Picks
    <3>3. e[i] = k
      BY <2>1, <3>1, <3>2 DEF Picks
    <3> QED
      BY <2>2, <3>2, <3>3
  <2> QED
    BY <2>3, <2>4
<1>4. Sends(Pipeline(<<"SET", "ZADD">>, e, f), {"SET", "ZADD"}, Range(e), f)
  <2> HIDE DEF e
  <2> QED
    BY <1>2, TwoCommands
<1>5. Sends(Pipeline(<<"DEL">>, o, f), {"DEL"}, Range(o), f)
  BY <1>1, OneCommand
<1> QED
  BY <1>1, <1>3, <1>4, <1>5 DEF BatchStoreVectors, BatchDeleteVectors

(***************************************************************************)
(* A handler begins on a shard with a pipeline that writes what it          *)
(* promises, except that Update begins with a delete of the same places.    *)
(***************************************************************************)
LEMMA CommandsFresh ==
  ASSUME CallsTyped, NEW r \in Rpcs, NEW s \in Shards, NEW o \in Orders(Group(r, s)),
         rpc[r].pc = "shards", rpc[r].op \notin IndexOps => s \in ShardsOf(rpc[r].want)
  PROVE  /\ Commands(r, s, o) \in Seq(SafeCommands)
         /\ Within(Commands(r, s, o), Places(r, s))
         /\ rpc[r].op # "update" => Fresh(r, Commands(r, s, o), Places(r, s))
<1> DEFINE f    == rpc[r].want
           op   == rpc[r].op
           K    == Group(r, s)
           cmds == Commands(r, s, o)
<1>1. /\ Wanted(op, f) /\ DOMAIN f \subseteq Keys /\ op \in Operations
      /\ op \notin IndexOps => s \in ShardsOf(f)
  BY DEF CallsTyped, Fields, Stage, Wanted
<1>2. K = {k \in DOMAIN f : ShardOf[k] = s} /\ K \subseteq Keys
  BY <1>1 DEF Group
<1>3. ASSUME op \in {"insert", "update", "delete"}
      PROVE  \E k \in Keys : K = {k} /\ DOMAIN f = {k} /\ o[1] = k
  <2>1. PICK k \in Keys : DOMAIN f = {k}
    BY <1>1, <1>3 DEF Wanted
  <2>2. ShardOf[k] = s
    BY <1>1, <1>3, <2>1 DEF IndexOps, ShardsOf
  <2>3. K = {k}
    BY <1>2, <2>1, <2>2
  <2>4. o \in Orders({k})
    BY <2>3
  <2> HIDE DEF K, f
  <2>5. o[1] = k
    BY <2>4, OrderOfOne
  <2> QED
    BY <2>1, <2>3, <2>5
<1> USE DEF Operations, Stores, Deletes, IndexOps
<1>4. CASE op = "insert"
  <2>1. PICK k \in Keys : K = {k} /\ DOMAIN f = {k} /\ o[1] = k
    BY <1>3, <1>4
  <2>2. f[k] \in Values
    BY <1>1, <1>4, <2>1 DEF Wanted
  <2>3. cmds = StoreVector(k, f[k])
    BY <1>4, <2>1 DEF Commands
  <2>4. Places(r, s) = {k} \X Parts
    BY <1>4, <2>1 DEF Places, Written, Touches
  <2> HIDE DEF cmds
  <2>5. Fresh(r, cmds, Places(r, s))
    BY <1>4, <2>2, <2>3, <2>4, StoreIsFresh
  <2> QED
    BY <2>5 DEF Fresh, cmds
<1>5. CASE op = "batchInsert"
  <2> DEFINE W  == K \cap Encodes(f)
             cs == {"SET", "ZADD"}
  <2>1. cmds = BatchStoreVectors(o, f)
    BY <1>5 DEF Commands
  <2>2. Sends(cmds, cs, W, f)
    <3> HIDE DEF K, f, cmds
    <3> QED
      BY <1>2, <2>1, BatchSends DEF K
  <2>3. Places(r, s) = W \X Parts
    BY <1>5 DEF Places, Written, Touches
  <2>4. /\ W \in SUBSET Keys /\ {Part(c) : c \in cs} = Parts /\ "DEL" \notin cs /\ "ZREM" \notin cs
        /\ cs \in SUBSET {"SET", "ZADD", "DEL", "ZREM"}
        /\ \A k \in W : f[k] = rpc[r].want[k] /\ f[k] \in Values \cup {Absent}
        /\ \A k \in W : f[k] \in Encodable
    BY <1>1, <1>2, <1>5 DEF Wanted, Encodes, Part, Parts
  <2> HIDE DEF cmds, W, cs, f
  <2>5. Fresh(r, cmds, W \X Parts)
    BY <1>5, <2>2, <2>4, SendsFresh
  <2>6. Fresh(r, cmds, Places(r, s))
    BY <2>3, <2>5
  <2> QED
    BY <2>6 DEF Fresh, cmds
<1>6. CASE op \in {"update", "delete"}
  <2> DEFINE cs == {"DEL", "ZREM"}
  <2>1. PICK k \in Keys : K = {k} /\ DOMAIN f = {k} /\ o[1] = k
    BY <1>3, <1>6
  <2> DEFINE g == Only(k, Absent)
  <2>2. Places(r, s) = {k} \X Parts
    BY <1>6, <2>1 DEF Places, Written, Touches
  <2>3. Sends(cmds, cs, {k}, g)
    <3>1. cmds = DeleteVector(k)
      BY <1>6, <2>1 DEF Commands
    <3> QED
      BY <3>1, DeleteVectorSends
  <2>4. /\ {k} \in SUBSET Keys /\ {Part(c) : c \in cs} = Parts
        /\ "SET" \notin cs /\ "ZADD" \notin cs
        /\ \A c \in cs : Part(c) \in Parts
        /\ cs \in SUBSET {"SET", "ZADD", "DEL", "ZREM"}
        /\ \A x \in {k} : g[x] = Absent
    BY DEF Only, Part, Parts
  <2>5. op = "delete" => f[k] = Absent
    BY <1>1, <2>1 DEF Wanted
  <2> HIDE DEF cmds, cs, g
  <2>6. cmds \in Seq(SafeCommands)
    BY <2>3, <2>4, SendsSafe
  <2>7. Within(cmds, {k} \X Parts)
    BY <2>3, <2>4, SendsWithin
  <2>8. ASSUME op = "delete" PROVE Fresh(r, cmds, {k} \X Parts)
    <3>1. \A x \in {k} : g[x] = rpc[r].want[x] /\ g[x] \in Values \cup {Absent}
      BY <2>4, <2>5, <2>8
    <3> QED
      BY <2>3, <2>4, <2>8, <3>1, SendsFresh
  <2> QED
    BY <1>6, <2>2, <2>6, <2>7, <2>8 DEF cmds
<1>7. CASE op = "batchDelete"
  <2> DEFINE cs == {"DEL"}
             T  == {"vec"}
  <2>1. cmds = BatchDeleteVectors(o, f)
    BY <1>7 DEF Commands
  <2>2. Sends(cmds, cs, K, f)
    <3> HIDE DEF K, f, cmds
    <3> QED
      BY <1>2, <2>1, BatchSends DEF K
  <2>3. Places(r, s) = K \X T
    BY <1>7 DEF Places, Written, Touches
  <2>4. /\ {Part(c) : c \in cs} = T /\ "SET" \notin cs /\ "ZREM" \notin cs /\ "ZADD" \notin cs
        /\ cs \in SUBSET {"SET", "ZADD", "DEL", "ZREM"}
        /\ \A k \in K : f[k] = rpc[r].want[k] /\ f[k] \in Values \cup {Absent}
        /\ \A k \in K : f[k] = Absent
    BY <1>1, <1>2, <1>7 DEF Wanted, Part
  <2> HIDE DEF cmds, cs, f, T, K
  <2>5. Fresh(r, cmds, K \X T)
    BY <1>2, <2>2, <2>4, SendsFresh
  <2>6. Fresh(r, cmds, Places(r, s))
    BY <2>3, <2>5
  <2> QED
    BY <2>6 DEF Fresh, cmds
<1>8. CASE op = "create"
  <2>1. cmds = <<>> /\ Places(r, s) = {}
    BY <1>8 DEF Commands, Places, Written, Touches
  <2> HIDE DEF cmds
  <2> QED
    BY <2>1 DEF Fresh, Within, Obeys, Covers, cmds
<1>9. CASE op = "drop"
  <2> DEFINE cmd == [c |-> "ZREM", on |-> OnShard(s), v |-> Absent]
  <2>1. cmds = <<cmd>> /\ Places(r, s) = OnShard(s) \X {"ids"}
    BY <1>9 DEF Commands, DropIds, Places, Written, Touches
  <2>2. cmd \in SafeCommands /\ Touched(cmd) = OnShard(s) \X {"ids"} /\ cmd.c = "ZREM"
    BY DEF SafeCommands, AllCommands, Touched, OnShard
  <2> HIDE DEF cmd, cmds
  <2>3. cmds \in Seq(SafeCommands) /\ Len(cmds) = 1 /\ cmds[1] = cmd
    BY <2>1, <2>2
  <2>4. \A p \in Touched(cmd) : Sets(cmd, p) = Promised(r, p)
    BY <1>9, <2>2 DEF Sets, Promised
  <2> QED
    BY <2>1, <2>2, <2>3, <2>4 DEF Fresh, Within, Obeys, Covers, Reaches, cmds
<1> QED
  BY <1>1, <1>4, <1>5, <1>6, <1>7, <1>8, <1>9

-----------------------------------------------------------------------------
(***************************************************************************)
(* The types of the database: the commands that reach it are safe.          *)
(***************************************************************************)
DbTyped ==
  /\ vec \in [Keys -> Encodable \cup {Absent}] /\ ids \subseteq Keys
  /\ \A t \in late : t \in Seq(SafeCommands) /\ t # <<>>

LEMMA ExecTyped ==
  ASSUME vec \in [Keys -> Encodable \cup {Absent}], ids \subseteq Keys,
         NEW cmd \in SafeCommands, Exec(cmd)
  PROVE  vec' \in [Keys -> Encodable \cup {Absent}] /\ ids' \subseteq Keys
<1>1. /\ cmd.c \in {"SET", "ZADD", "DEL", "ZREM", "error"} /\ cmd.on \subseteq Keys
      /\ cmd.c = "SET" => cmd.v \in Encodable
      /\ cmd.c = "DEL" => cmd.v = Absent
  BY DEF SafeCommands, AllCommands
<1>2. vec' \in [Keys -> Encodable \cup {Absent}]
  BY <1>1 DEF Exec
<1>3. ids' = ids \cup cmd.on \/ ids' = ids \ cmd.on \/ ids' = ids
  BY <1>1 DEF Exec
<1> QED
  BY <1>1, <1>2, <1>3

(***************************************************************************)
(* A pipeline under way: the first command, and the rest.                   *)
(***************************************************************************)
LEMMA PipeOf ==
  ASSUME CallsTyped, NEW r \in Rpcs, NEW s \in Shards
  PROVE  /\ rpc[r].pipe[s].cmds \in Seq(SafeCommands) \cup {None}
         /\ rpc[r].pipe[s].erase \in BOOLEAN
         /\ Running(r, s) =>
              /\ rpc[r].pipe[s].cmds \in Seq(SafeCommands)
              /\ rpc[r].pc = "shards" /\ Wanted(rpc[r].op, rpc[r].want)
              /\ rpc[r].op \notin IndexOps => s \in ShardsOf(rpc[r].want)
              /\ rpc[r].pipe[s].erase => rpc[r].op = "update"
<1>1. rpc[r].pipe[s] \in [erase : BOOLEAN, cmds : Seq(SafeCommands) \cup {None}]
  BY DEF CallsTyped, Fields, Pipes
<1>2. /\ rpc[r].pipe[s].cmds \in Seq(SafeCommands) \cup {None}
      /\ rpc[r].pipe[s].erase \in BOOLEAN
  BY <1>1
<1>3. Running(r, s) => rpc[r].pc = "shards"
  BY DEF CallsTyped, Stage
<1>4. rpc[r].pc = "shards" => rpc[r].pc # "idle"
  OBVIOUS
<1> QED
  BY <1>2, <1>3, <1>4 DEF CallsTyped, Stage, Running

LEMMA HeadTail ==
  ASSUME NEW A, NEW cmds \in Seq(A), cmds # <<>>
  PROVE  /\ Head(cmds) \in A /\ Tail(cmds) \in Seq(A) /\ Head(cmds) = cmds[1]
         /\ Len(cmds) \in Nat \ {0} /\ Len(Tail(cmds)) = Len(cmds) - 1
         /\ \A i \in 1 .. Len(cmds) - 1 : Tail(cmds)[i] = cmds[i + 1]
<1>1. Len(cmds) \in Nat \ {0}
  OBVIOUS
<1>2. Head(cmds) = cmds[1] /\ cmds[1] \in A
  BY <1>1
<1> QED
  BY <1>1, <1>2

LEMMA StoreOfIsFresh ==
  ASSUME CallsTyped, NEW r \in Rpcs, NEW s \in Shards, Running(r, s), rpc[r].op = "update"
  PROVE  Fresh(r, StoreOf(r), Places(r, s))
<1> DEFINE f == rpc[r].want
           k == CHOOSE k \in DOMAIN f : TRUE
<1>1. Wanted(rpc[r].op, f) /\ s \in ShardsOf(f)
  BY PipeOf DEF IndexOps
<1>2. PICK x \in Keys : DOMAIN f = {x}
  BY <1>1 DEF Wanted
<1>3. k = x /\ f[x] \in Values /\ ShardOf[x] = s
  BY <1>1, <1>2 DEF Wanted, ShardsOf, Stores
<1>4. Places(r, s) = {x} \X Parts
  BY <1>1, <1>2, <1>3 DEF Places, Written, Touches, Group
<1>5. Fresh(r, StoreVector(x, f[x]), Places(r, s))
  BY <1>1, <1>3, <1>4, StoreIsFresh DEF Stores
<1>6. StoreOf(r) = StoreVector(x, f[x])
  BY <1>3 DEF StoreOf
<1> QED
  BY <1>5, <1>6

(***************************************************************************)
(* How each step on a shard changes the pipeline there.                     *)
(***************************************************************************)
LEMMA StartChanges ==
  ASSUME CallsTyped, Shape, NEW r \in Rpcs, NEW s \in Shards, StartShard(r, s)
  PROVE  \E e \in BOOLEAN, cmds \in Seq(SafeCommands) :
           /\ PipeChange(r, s, rpc[r].left \ {s}, e, cmds)
           /\ e = (rpc[r].op = "update")
           /\ Within(cmds, Places(r, s))
           /\ ~e => Fresh(r, cmds, Places(r, s))
<1>1. /\ rpc[r].pc = "shards"
      /\ rpc[r].op \notin IndexOps => s \in ShardsOf(rpc[r].want)
  BY DEF StartShard, Turn, CallsTyped, Stage
<1>2. PICK o \in Orders(Group(r, s)) :
        rpc' = [rpc EXCEPT ![r].left = @ \ {s},
                  ![r].pipe[s] = [erase |-> rpc[r].op = "update",
                                  cmds  |-> Commands(r, s, o)]]
  BY DEF StartShard
<1>3. PICK cmds : cmds = Commands(r, s, o)
  OBVIOUS
<1>4. PICK e \in BOOLEAN : e = (rpc[r].op = "update")
  OBVIOUS
<1>5. /\ cmds \in Seq(SafeCommands) /\ Within(cmds, Places(r, s))
      /\ ~e => Fresh(r, cmds, Places(r, s))
  BY <1>1, <1>3, <1>4, CommandsFresh
<1>6. rpc' = [rpc EXCEPT ![r].left = rpc[r].left \ {s},
                        ![r].pipe[s] = [erase |-> e, cmds |-> cmds]]
  BY <1>2, <1>3, <1>4
<1>7. PipeChange(r, s, rpc[r].left \ {s}, e, cmds)
  <2> DEFINE new == [erase |-> e, cmds |-> cmds]
  <2> HIDE DEF new
  <2>1. /\ \A q \in Rpcs \ {r} : rpc'[q] = rpc[q]
        /\ rpc'[r].op = rpc[r].op /\ rpc'[r].dim = rpc[r].dim /\ rpc'[r].pc = rpc[r].pc
        /\ rpc'[r].want = rpc[r].want /\ rpc'[r].left = rpc[r].left \ {s}
        /\ rpc'[r].pipe = [rpc[r].pipe EXCEPT ![s] = new]
    BY <1>6 DEF Shape, new
  <2>2. cmds \in Seq(SafeCommands) \cup {None}
    BY <1>5
  <2>3. PICK left : left = rpc[r].left \ {s}
    OBVIOUS
  <2>4. PipeChange(r, s, left, e, cmds)
    <3>1. rpc'[r].want = rpc[r].want /\ rpc'[r].left = left
      BY <2>1, <2>3
    <3>2. rpc'[r].op = rpc[r].op /\ rpc'[r].dim = rpc[r].dim /\ rpc'[r].pc = rpc[r].pc
      BY <2>1
    <3>3. rpc'[r].pipe = [rpc[r].pipe EXCEPT ![s] = [erase |-> e, cmds |-> cmds]]
      BY <2>1 DEF new
    <3>4. \A q \in Rpcs \ {r} : rpc'[q] = rpc[q]
      BY <2>1
    <3> QED
      BY <2>2, <3>1, <3>2, <3>3, <3>4, PipeChanges
  <2> QED
    BY <2>3, <2>4
<1> QED
  BY <1>4, <1>5, <1>7

LEMMA EndChanges ==
  ASSUME CallsTyped, Shape, NEW r \in Rpcs, NEW s \in Shards, NEW e \in BOOLEAN,
         NEW cmds \in Seq(SafeCommands) \cup {None},
         rpc' = [rpc EXCEPT ![r].pipe[s] = [erase |-> e, cmds |-> cmds]]
  PROVE  PipeChange(r, s, rpc[r].left, e, cmds)
<1> DEFINE new == [erase |-> e, cmds |-> cmds]
<1> HIDE DEF new
<1>1. /\ \A q \in Rpcs \ {r} : rpc'[q] = rpc[q]
      /\ rpc'[r].op = rpc[r].op /\ rpc'[r].dim = rpc[r].dim /\ rpc'[r].pc = rpc[r].pc
      /\ rpc'[r].want = rpc[r].want /\ rpc'[r].left = rpc[r].left
      /\ rpc'[r].pipe = [rpc[r].pipe EXCEPT ![s] = new]
  BY DEF Shape, new
<1> QED
  BY <1>1, PipeChanges DEF new

LEMMA CmdsChange ==
  ASSUME CallsTyped, NEW r \in Rpcs, NEW s \in Shards, NEW cmds \in Seq(SafeCommands),
         \A q \in Rpcs \ {r} : rpc'[q] = rpc[q],
         rpc'[r].op = rpc[r].op /\ rpc'[r].dim = rpc[r].dim /\ rpc'[r].pc = rpc[r].pc,
         rpc'[r].want = rpc[r].want /\ rpc'[r].left = rpc[r].left,
         rpc'[r].pipe = [rpc[r].pipe EXCEPT ![s] = [rpc[r].pipe[s] EXCEPT !.cmds = cmds]]
  PROVE  PipeChange(r, s, rpc[r].left, rpc[r].pipe[s].erase, cmds)
<1>2. PICK e : e = rpc[r].pipe[s].erase
  OBVIOUS
<1>3. e \in BOOLEAN
  BY <1>2, PipeOf
<1>5. [rpc[r].pipe[s] EXCEPT !.cmds = cmds] = [erase |-> e, cmds |-> cmds]
  <2> DEFINE C == Seq(SafeCommands) \cup {None}
  <2>1. PICK old \in [erase : BOOLEAN, cmds : C] : old = rpc[r].pipe[s]
    BY DEF CallsTyped, Fields, Pipes
  <2> HIDE DEF C
  <2>2. old = [erase |-> old.erase, cmds |-> old.cmds] /\ e = old.erase
    BY <1>2, <2>1
  <2>3. [old EXCEPT !.cmds = cmds] = [erase |-> old.erase, cmds |-> cmds]
    BY <2>2
  <2> QED
    BY <2>1, <2>2, <2>3
<1> DEFINE new == [erase |-> e, cmds |-> cmds]
<1>7. rpc'[r].pipe = [rpc[r].pipe EXCEPT ![s] = [erase |-> e, cmds |-> cmds]]
  <2> HIDE DEF new
  <2>1. [rpc[r].pipe[s] EXCEPT !.cmds = cmds] = new
    BY <1>5 DEF new
  <2>2. rpc'[r].pipe = [rpc[r].pipe EXCEPT ![s] = new]
    BY <2>1
  <2> QED
    BY <2>2 DEF new
<1>8. PipeChange(r, s, rpc[r].left, e, cmds)
  BY <1>3, <1>7, PipeChanges
<1> QED
  BY <1>2, <1>8

LEMMA CommandChanges ==
  ASSUME CallsTyped, Shape, NEW r \in Rpcs, NEW s \in Shards, Command(r, s)
  PROVE  PipeChange(r, s, rpc[r].left, rpc[r].pipe[s].erase, Tail(rpc[r].pipe[s].cmds))
<1>1. rpc[r].pipe[s].cmds \in Seq(SafeCommands) /\ rpc[r].pipe[s].cmds # <<>>
  BY PipeOf DEF Command
<1>2. PICK cmds : cmds = Tail(rpc[r].pipe[s].cmds)
  OBVIOUS
<1>3. cmds \in Seq(SafeCommands)
  BY <1>1, <1>2, HeadTail
<1>4. rpc' = [rpc EXCEPT ![r].pipe[s].cmds = cmds]
  BY <1>2 DEF Command
<1>5. /\ \A q \in Rpcs \ {r} : rpc'[q] = rpc[q]
      /\ rpc'[r].op = rpc[r].op /\ rpc'[r].dim = rpc[r].dim /\ rpc'[r].pc = rpc[r].pc
      /\ rpc'[r].want = rpc[r].want /\ rpc'[r].left = rpc[r].left
      /\ rpc'[r].pipe = [rpc[r].pipe EXCEPT ![s] = [rpc[r].pipe[s] EXCEPT !.cmds = cmds]]
  BY <1>4 DEF Shape
<1> QED
  BY <1>2, <1>3, <1>5, CmdsChange

(***************************************************************************)
(* A pipeline that ends is followed by Update's store, or by nothing; one   *)
(* that go-redis sends again begins with its first command.                 *)
(***************************************************************************)
SendsAnew(r, s) ==
  \E e \in BOOLEAN, cmds \in Seq(SafeCommands) :
    /\ PipeChange(r, s, rpc[r].left, e, cmds) /\ (e => rpc[r].op = "update")
    /\ Within(cmds, Places(r, s)) /\ (~e => Fresh(r, cmds, Places(r, s)))

LEMMA StoreNextChanges ==
  ASSUME CallsTyped, Shape, NEW r \in Rpcs, NEW s \in Shards,
         Running(r, s), rpc[r].pipe[s].erase, StoreNext(r, s)
  PROVE  SendsAnew(r, s)
<1>1. PICK cmds : cmds = StoreOf(r) /\ Fresh(r, cmds, Places(r, s))
  BY StoreOfIsFresh, PipeOf
<1>2. rpc' = [rpc EXCEPT ![r].pipe[s] = [erase |-> FALSE, cmds |-> cmds]]
  BY <1>1 DEF StoreNext
<1>3. cmds \in Seq(SafeCommands) /\ Within(cmds, Places(r, s))
  BY <1>1 DEF Fresh
<1>4. PICK e \in BOOLEAN : ~e /\ rpc' = [rpc EXCEPT ![r].pipe[s] = [erase |-> e, cmds |-> cmds]]
  BY <1>2
<1>5. PipeChange(r, s, rpc[r].left, e, cmds)
  BY <1>3, <1>4, EndChanges
<1> QED
  BY <1>1, <1>3, <1>4, <1>5 DEF SendsAnew

LEMMA ResendChanges ==
  ASSUME CallsTyped, Shape, NEW r \in Rpcs, NEW s \in Shards, Resend(r, s)
  PROVE  SendsAnew(r, s)
<1>1. PICK cmds \in Pipelines(r, s) :
        rpc' = [rpc EXCEPT ![r].again = @ - 1, ![r].pipe[s].cmds = cmds]
  BY DEF Resend
<1>2. PICK e \in BOOLEAN : e = rpc[r].pipe[s].erase
  BY PipeOf
<1>3. /\ Running(r, s) /\ rpc[r].pc = "shards"
      /\ rpc[r].op \notin IndexOps => s \in ShardsOf(rpc[r].want)
      /\ e => rpc[r].op = "update"
  BY <1>2, PipeOf DEF Resend
<1>4. /\ cmds \in Seq(SafeCommands) /\ Within(cmds, Places(r, s))
      /\ ~e => Fresh(r, cmds, Places(r, s))
  <2>1. CASE rpc[r].op = "update" /\ ~e
    <3>1. cmds = StoreOf(r)
      BY <1>1, <1>2, <2>1 DEF Pipelines
    <3>2. Fresh(r, cmds, Places(r, s))
      BY <1>3, <2>1, <3>1, StoreOfIsFresh
    <3> QED
      BY <3>2 DEF Fresh
  <2>2. CASE ~(rpc[r].op = "update" /\ ~e)
    <3>1. PICK o \in Orders(Group(r, s)) : cmds = Commands(r, s, o)
      BY <1>1, <1>2, <2>2 DEF Pipelines
    <3> QED
      BY <1>3, <2>2, <3>1, CommandsFresh
  <2> QED
    BY <2>1, <2>2
<1>5. /\ \A q \in Rpcs \ {r} : rpc'[q] = rpc[q]
      /\ rpc'[r].op = rpc[r].op /\ rpc'[r].dim = rpc[r].dim /\ rpc'[r].pc = rpc[r].pc
      /\ rpc'[r].want = rpc[r].want /\ rpc'[r].left = rpc[r].left
      /\ rpc'[r].pipe = [rpc[r].pipe EXCEPT ![s] = [rpc[r].pipe[s] EXCEPT !.cmds = cmds]]
  BY <1>1 DEF Shape
<1>6. PipeChange(r, s, rpc[r].left, e, cmds)
  BY <1>2, <1>4, <1>5, CmdsChange
<1> QED
  BY <1>3, <1>4, <1>6 DEF SendsAnew

LEMMA EndPipeChanges ==
  ASSUME CallsTyped, Shape, NEW r \in Rpcs, NEW s \in Shards, EndPipe(r, s)
  PROVE  PipeChange(r, s, rpc[r].left, FALSE, None)
<1>1. rpc' = [rpc EXCEPT ![r].pipe[s] = [erase |-> FALSE, cmds |-> None]]
  BY DEF EndPipe, NoPipe
<1> QED
  BY <1>1, EndChanges

(***************************************************************************)
(* The types after each step of a pipeline.                                 *)
(***************************************************************************)
LEMMA StartTyped ==
  ASSUME CallsTyped, Shape, NEW r \in Rpcs, NEW s \in Shards, StartShard(r, s)
  PROVE  CallsTyped'
<1>1. PICK e \in BOOLEAN, cmds \in Seq(SafeCommands) :
        PipeChange(r, s, rpc[r].left \ {s}, e, cmds) /\ e = (rpc[r].op = "update")
  BY StartChanges
<1>2. rpc[r].pc = "shards" /\ s \in rpc[r].left
  BY DEF StartShard, Turn
<1>3. rpc[r].op \notin IndexOps => s \in ShardsOf(rpc[r].want)
  BY <1>2 DEF CallsTyped, Stage
<1> QED
  BY <1>1, <1>2, <1>3, PipeTyped

LEMMA CommandTyped ==
  ASSUME CallsTyped, Shape, NEW r \in Rpcs, NEW s \in Shards, Command(r, s)
  PROVE  CallsTyped'
<1>1. PipeChange(r, s, rpc[r].left, rpc[r].pipe[s].erase, Tail(rpc[r].pipe[s].cmds))
  BY CommandChanges
<1>2. /\ rpc[r].pc = "shards"
      /\ rpc[r].op \notin IndexOps => s \in ShardsOf(rpc[r].want)
      /\ rpc[r].pipe[s].erase => rpc[r].op = "update"
  BY PipeOf DEF Command
<1> QED
  BY <1>1, <1>2, PipeTyped

LEMMA AnewTyped ==
  ASSUME CallsTyped, NEW r \in Rpcs, NEW s \in Shards, Running(r, s), SendsAnew(r, s)
  PROVE  CallsTyped'
<1>1. PICK e \in BOOLEAN, cmds \in Seq(SafeCommands) :
        PipeChange(r, s, rpc[r].left, e, cmds) /\ (e => rpc[r].op = "update")
  BY DEF SendsAnew
<1>2. /\ rpc[r].pc = "shards"
      /\ rpc[r].op \notin IndexOps => s \in ShardsOf(rpc[r].want)
  BY PipeOf
<1> QED
  BY <1>1, <1>2, PipeTyped

LEMMA EndTyped ==
  ASSUME CallsTyped, Shape, NEW r \in Rpcs, NEW s \in Shards, Running(r, s),
         (rpc[r].pipe[s].erase /\ StoreNext(r, s)) \/ EndPipe(r, s)
  PROVE  CallsTyped'
<1>2. /\ rpc[r].pc = "shards"
      /\ rpc[r].op \notin IndexOps => s \in ShardsOf(rpc[r].want)
  BY PipeOf
<1>3. CASE rpc[r].pipe[s].erase /\ StoreNext(r, s)
  BY <1>3, StoreNextChanges, AnewTyped
<1>4. CASE EndPipe(r, s)
  BY <1>2, <1>4, EndPipeChanges, PipeTyped
<1> QED
  BY <1>3, <1>4

-----------------------------------------------------------------------------
(***************************************************************************)
(* The inductive invariant of the promises.  A handler that writes a place  *)
(* has its claim there or somebody else has voided it; a pipeline that      *)
(* stores writes what the handler promises, and has done so where it is     *)
(* alone or has yet to; what has been promised is there.                    *)
(***************************************************************************)
At(p)       == IF p[2] = "vec" THEN vec[p[1]] ELSE p[1] \in ids
Content(p)  == IF p[2] = "vec" THEN Values \cup {Absent} ELSE BOOLEAN
AllPlaces   == Keys \X Parts

Claimed == \A r \in Rpcs, p \in AllPlaces : Writing(r, p) => promise[p] \in {r, Unknown}

OnCourse(r, s) ==
  Running(r, s) =>
    /\ Within(rpc[r].pipe[s].cmds, Places(r, s))
    /\ ~rpc[r].pipe[s].erase =>
         /\ Obeys(r, rpc[r].pipe[s].cmds)
         /\ \A p \in Places(r, s) : promise[p] = r =>
              At(p) = Promised(r, p) \/ Reaches(rpc[r].pipe[s].cmds, p)

Honoured == \A p \in AllPlaces : promise[p] \in Content(p) => At(p) = promise[p]

PromiseTyped ==
  promise \in [AllPlaces -> Values \cup BOOLEAN \cup Rpcs \cup {Absent, Unknown}]

WriteInv ==
  /\ PromiseTyped /\ Claimed /\ Honoured
  /\ \A r \in Rpcs, s \in Shards : OnCourse(r, s)

LEMMA PlacesOf ==
  ASSUME CallsTyped, NEW r \in Rpcs, NEW s \in Shards, NEW p \in Places(r, s)
  PROVE  p \in AllPlaces /\ ShardOf[p[1]] = s
<1>1. DOMAIN rpc[r].want \subseteq Keys
  BY DEF CallsTyped, Fields
<1>2. Written(r, s) \subseteq {k \in Keys : ShardOf[k] = s}
  BY <1>1 DEF Written, Group, OnShard
<1>3. Touches(rpc[r].op) \subseteq Parts
  BY DEF Touches, Parts
<1> QED
  BY <1>2, <1>3 DEF Places, AllPlaces

LEMMA WritingIs ==
  ASSUME CallsTyped, NEW r \in Rpcs, NEW s \in Shards, NEW p \in Places(r, s), Running(r, s)
  PROVE  Writing(r, p)
  BY PlacesOf DEF Writing

(***************************************************************************)
(* What a call promises is a content.                                       *)
(***************************************************************************)
LEMMA PromisedIsContent ==
  ASSUME CallsTyped, NEW r \in Rpcs, NEW s \in Shards, NEW p \in Places(r, s), Running(r, s)
  PROVE  Promised(r, p) \in Content(p)
<1>1. Wanted(rpc[r].op, rpc[r].want)
  BY PipeOf
<1>2. CASE p[2] = "vec"
  <2>1. rpc[r].op # "drop" /\ p[1] \in DOMAIN rpc[r].want /\ rpc[r].op # "create"
    BY <1>2 DEF Places, Written, Touches, Group
  <2>2. rpc[r].op \in Stores \cup Deletes
    BY <1>1, <2>1 DEF Wanted, Operations, IndexOps
  <2>3. rpc[r].want[p[1]] \in Values \cup {Absent}
    BY <1>1, <2>1, <2>2 DEF Wanted
  <2> QED
    BY <1>2, <2>3 DEF Promised, Content
<1>3. CASE p[2] # "vec"
  BY <1>3 DEF Promised, Content
<1> QED
  BY <1>2, <1>3

(***************************************************************************)
(* A command writes the places it touches, and no others.                   *)
(***************************************************************************)
LEMMA ExecAt ==
  ASSUME NEW cmd \in SafeCommands, cmd.c # "error", Exec(cmd), NEW p \in AllPlaces,
         vec \in [Keys -> Encodable \cup {Absent}]
  PROVE  At(p)' = IF p \in Touched(cmd) THEN Sets(cmd, p) ELSE At(p)
<1>1. PICK k \in Keys, a \in Parts : p = <<k, a>>
  BY DEF AllPlaces
<1>2. p[1] = k /\ p[2] = a /\ a \in {"vec", "ids"} /\ cmd.c \in {"SET", "ZADD", "DEL", "ZREM"}
  BY <1>1 DEF Parts, SafeCommands, AllCommands
<1>3. CASE cmd.c \in {"SET", "DEL"}
  <2>1. p \in Touched(cmd) <=> k \in cmd.on /\ a = "vec"
    BY <1>1, <1>2, <1>3 DEF Touched
  <2>2. vec'[k] = (IF k \in cmd.on THEN cmd.v ELSE vec[k]) /\ ids' = ids
    BY <1>3 DEF Exec
  <2> QED
    BY <1>2, <1>3, <2>1, <2>2 DEF At, Sets
<1>4. CASE cmd.c = "ZADD"
  <2>1. p \in Touched(cmd) <=> k \in cmd.on /\ a = "ids"
    BY <1>1, <1>2, <1>4 DEF Touched
  <2>2. vec'[k] = vec[k] /\ (k \in ids' <=> k \in ids \/ k \in cmd.on)
    BY <1>4 DEF Exec
  <2> QED
    BY <1>2, <1>4, <2>1, <2>2 DEF At, Sets
<1>5. CASE cmd.c = "ZREM"
  <2>1. p \in Touched(cmd) <=> k \in cmd.on /\ a = "ids"
    BY <1>1, <1>2, <1>5 DEF Touched
  <2>2. vec'[k] = vec[k] /\ (k \in ids' <=> k \in ids /\ k \notin cmd.on)
    BY <1>5 DEF Exec
  <2> QED
    BY <1>2, <1>5, <2>1, <2>2 DEF At, Sets
<1> QED
  BY <1>2, <1>3, <1>4, <1>5

(***************************************************************************)
(* A pipeline that did not move stays on its course when nobody writes the  *)
(* places its handler still claims.                                         *)
(***************************************************************************)
SameCall(q) == rpc'[q].op = rpc[q].op /\ rpc'[q].want = rpc[q].want

LEMMA SamePlaces ==
  ASSUME NEW q, SameCall(q)
  PROVE  /\ \A t : Places(q, t)' = Places(q, t)
         /\ \A p : Promised(q, p)' = Promised(q, p)
  BY DEF SameCall, Places, Written, Group, Promised

LEMMA SameObeys ==
  ASSUME NEW q, SameCall(q), NEW cmds
  PROVE  Obeys(q, cmds)' <=> Obeys(q, cmds)
<1>1. \A p : Promised(q, p)' = Promised(q, p)
  BY SamePlaces
<1> QED
  BY <1>1 DEF Obeys, Sets, Touched

LEMMA Stays ==
  ASSUME NEW q \in Rpcs, NEW t \in Shards, OnCourse(q, t), SameCall(q),
         rpc'[q].pipe[t] = rpc[q].pipe[t],
         \A p \in Places(q, t) :
           Running(q, t) /\ promise'[p] = q => promise[p] = q /\ At(p)' = At(p)
  PROVE  OnCourse(q, t)'
<1> SUFFICES ASSUME Running(q, t)' PROVE OnCourse(q, t)'
  BY DEF OnCourse
<1>1. Running(q, t)
  BY DEF Running
<1>2. PICK cmds, e : cmds = rpc[q].pipe[t].cmds /\ e = rpc[q].pipe[t].erase
  OBVIOUS
<1>3. rpc'[q].pipe[t].cmds = cmds /\ rpc'[q].pipe[t].erase = e
  BY <1>2
<1>4. PICK P : P = Places(q, t)
  OBVIOUS
<1>5. Places(q, t)' = P /\ \A p : Promised(q, p)' = Promised(q, p)
  BY <1>4, SamePlaces
<1>6. /\ Within(cmds, P)
      /\ ~e => /\ Obeys(q, cmds)
               /\ \A p \in P : promise[p] = q => At(p) = Promised(q, p) \/ Reaches(cmds, p)
  BY <1>1, <1>2, <1>4 DEF OnCourse
<1>7. ~e => Obeys(q, cmds)'
  BY <1>6, SameObeys
<1>8. ASSUME ~e, NEW p \in P, promise'[p] = q
      PROVE  At(p)' = Promised(q, p)' \/ Reaches(cmds, p)
  <2>1. promise[p] = q /\ At(p)' = At(p)
    BY <1>1, <1>4, <1>8
  <2> QED
    BY <1>5, <1>6, <1>8, <2>1
<1>9. Within(cmds, P)' /\ \A p : Reaches(cmds, p)' <=> Reaches(cmds, p)
  BY <1>6 DEF Within, Reaches, Touched
<1> QED
  BY <1>3, <1>5, <1>7, <1>8, <1>9 DEF OnCourse

(***************************************************************************)
(* A step that writes nothing and starts no pipeline.                       *)
(***************************************************************************)
LEMMA QuietStep ==
  ASSUME CallsTyped, WriteInv, UNCHANGED <<vec, ids, promise>>,
         \A q \in Rpcs, t \in Shards :
           Running(q, t)' => SameCall(q) /\ rpc'[q].pipe[t] = rpc[q].pipe[t]
  PROVE  WriteInv'
<1>1. \A p : At(p)' = At(p)
  BY DEF At
<1>2. PromiseTyped' /\ Honoured'
  BY <1>1 DEF WriteInv, PromiseTyped, Honoured
<1>3. ASSUME NEW q \in Rpcs, NEW p \in AllPlaces, Writing(q, p)' PROVE promise'[p] \in {q, Unknown}
  <2>1. ShardOf[p[1]] \in Shards /\ Running(q, ShardOf[p[1]])' /\ p \in Places(q, ShardOf[p[1]])'
    BY <1>3, ServiceAssumption DEF Writing, AllPlaces
  <2>2. SameCall(q) /\ rpc'[q].pipe[ShardOf[p[1]]] = rpc[q].pipe[ShardOf[p[1]]]
    BY <2>1
  <2>3. p \in Places(q, ShardOf[p[1]]) /\ Running(q, ShardOf[p[1]])
    BY <2>1, <2>2, SamePlaces DEF Running
  <2> QED
    BY <2>3 DEF WriteInv, Claimed, Writing
<1>4. ASSUME NEW q \in Rpcs, NEW t \in Shards PROVE OnCourse(q, t)'
  <2>1. CASE Running(q, t)'
    <3>1. SameCall(q) /\ rpc'[q].pipe[t] = rpc[q].pipe[t] /\ OnCourse(q, t)
      BY <2>1 DEF WriteInv
    <3>2. \A p \in Places(q, t) :
            Running(q, t) /\ promise'[p] = q => promise[p] = q /\ At(p)' = At(p)
      BY <1>1
    <3> QED
      BY <3>1, <3>2, Stays
  <2>2. CASE ~Running(q, t)'
    BY <2>2 DEF OnCourse
  <2> QED
    BY <2>1, <2>2
<1>5. Claimed'
  BY <1>3 DEF Claimed, AllPlaces
<1> QED
  BY <1>2, <1>4, <1>5 DEF WriteInv

(***************************************************************************)
(* A step on one pipeline leaves the others and all the calls.              *)
(***************************************************************************)
SameElsewhere(r, s) ==
  /\ \A q \in Rpcs : SameCall(q)
  /\ \A q \in Rpcs, t \in Shards :
       q # r \/ t # s => rpc'[q].pipe[t] = rpc[q].pipe[t]

LEMMA Elsewhere ==
  ASSUME NEW r \in Rpcs, NEW s \in Shards, NEW left, NEW e, NEW cmds,
         PipeChange(r, s, left, e, cmds)
  PROVE  /\ SameElsewhere(r, s)
         /\ rpc'[r].pipe[s].cmds = cmds /\ rpc'[r].pipe[s].erase = e
  BY DEF PipeChange, SameCall, SameElsewhere

LEMMA ClaimsApart ==
  ASSUME NEW r \in Rpcs, NEW p
  PROVE  r \notin Content(p) /\ r # Unknown /\ Unknown \notin Content(p)
  BY ServiceAssumption DEF Content

LEMMA WritingKept ==
  ASSUME NEW r \in Rpcs, NEW s \in Shards, NEW left, NEW e, NEW cmds,
         PipeChange(r, s, left, e, cmds), NEW q \in Rpcs, NEW p \in AllPlaces, Writing(q, p)',
         q # r \/ ShardOf[p[1]] # s
  PROVE  Writing(q, p)
<1>1. ShardOf[p[1]] \in Shards
  BY ServiceAssumption DEF AllPlaces
<1>2. PICK t \in Shards : t = ShardOf[p[1]]
  BY <1>1
<1>3. Running(q, t)' /\ p \in Places(q, t)'
  BY <1>2 DEF Writing
<1>0. SameElsewhere(r, s)
  BY Elsewhere
<1>4. SameCall(q) /\ (Running(q, t)' <=> Running(q, t))
  BY <1>0, <1>2 DEF SameElsewhere, Running
<1>5. Places(q, t)' = Places(q, t)
  BY <1>4, SamePlaces
<1> QED
  BY <1>2, <1>3, <1>4, <1>5 DEF Writing

(***************************************************************************)
(* A handler claims the places it is about to write.                        *)
(***************************************************************************)
LEMMA StartWrites ==
  ASSUME CallsTyped, Shape, WriteInv, NEW r \in Rpcs, NEW s \in Shards, StartShard(r, s)
  PROVE  WriteInv'
<1>1. PICK e \in BOOLEAN, cmds \in Seq(SafeCommands) :
           /\ PipeChange(r, s, rpc[r].left \ {s}, e, cmds)
           /\ e = (rpc[r].op = "update")
           /\ Within(cmds, Places(r, s))
           /\ ~e => Fresh(r, cmds, Places(r, s))
  BY StartChanges
<1>2. PICK left : left = rpc[r].left \ {s} /\ PipeChange(r, s, left, e, cmds)
  BY <1>1
<1>3. /\ UNCHANGED <<vec, ids>>
      /\ promise' = [p \in AllPlaces |->
                       IF p \notin Places(r, s) THEN promise[p]
                       ELSE IF \E q \in Rpcs : Writing(q, p) THEN Unknown ELSE r]
  BY DEF StartShard, Claim, dbVars, AllPlaces
<1>4. \A p : At(p)' = At(p)
  BY <1>3 DEF At
<1>5. PromiseTyped'
  BY <1>3 DEF WriteInv, PromiseTyped
<1>6. Honoured'
  <2> SUFFICES ASSUME NEW p \in AllPlaces, promise'[p] \in Content(p) PROVE At(p)' = promise'[p]
    BY DEF Honoured, Content
  <2>1. promise'[p] = promise[p]
    BY <1>3, ClaimsApart
  <2> QED
    BY <1>4, <2>1 DEF WriteInv, Honoured
<1>7. ASSUME NEW q \in Rpcs, NEW p \in AllPlaces, Writing(q, p)' PROVE promise'[p] \in {q, Unknown}
  <2>1. CASE q # r \/ ShardOf[p[1]] # s
    <3>1. Writing(q, p)
      BY <1>2, <1>7, <2>1, WritingKept
    <3> QED
      BY <1>3, <3>1 DEF WriteInv, Claimed
  <2>2. CASE q = r /\ ShardOf[p[1]] = s
    <3>1. p \in Places(r, s)'
      BY <1>7, <2>2 DEF Writing
    <3>2. p \in Places(r, s)
      BY <1>2, <3>1, Elsewhere, SamePlaces DEF SameElsewhere
    <3> QED
      BY <1>3, <2>2, <3>2
  <2> QED
    BY <2>1, <2>2
<1>8. ASSUME NEW q \in Rpcs, NEW t \in Shards, q # r \/ t # s PROVE OnCourse(q, t)'
  <2>0. SameElsewhere(r, s)
    BY <1>2, Elsewhere
  <2>1. SameCall(q) /\ rpc'[q].pipe[t] = rpc[q].pipe[t] /\ OnCourse(q, t)
    BY <1>8, <2>0 DEF WriteInv, SameElsewhere
  <2>2. ASSUME NEW p \in Places(q, t), Running(q, t), promise'[p] = q
        PROVE  promise[p] = q /\ At(p)' = At(p)
    <3>1. Writing(q, p) /\ p \in AllPlaces
      BY <2>2, WritingIs, PlacesOf
    <3>2. promise'[p] = promise[p]
      BY <1>3, <2>2, <3>1, ClaimsApart
    <3> QED
      BY <1>4, <2>2, <3>2
  <2> QED
    BY <2>1, <2>2, Stays
<1>9. OnCourse(r, s)'
  <2>1. /\ rpc'[r].pipe[s].cmds = cmds /\ rpc'[r].pipe[s].erase = e /\ SameCall(r)
    BY <1>2, Elsewhere DEF SameElsewhere
  <2>2. PICK P : P = Places(r, s)
    OBVIOUS
  <2>3. Places(r, s)' = P
    BY <2>1, <2>2, SamePlaces
  <2>4. Within(cmds, P)'
    BY <1>1, <2>2 DEF Within, Touched
  <2>5. ASSUME ~e PROVE Obeys(r, cmds)' /\ \A p \in P : Reaches(cmds, p)'
    <3>1. Obeys(r, cmds) /\ \A p \in P : Reaches(cmds, p)
      BY <1>1, <2>2, <2>5 DEF Fresh, Covers
    <3>2. Obeys(r, cmds)'
      BY <2>1, <3>1, SameObeys
    <3> QED
      BY <3>1, <3>2 DEF Reaches, Touched
  <2> QED
    BY <2>1, <2>3, <2>4, <2>5 DEF OnCourse
<1>10. Claimed'
  BY <1>7 DEF Claimed, AllPlaces
<1> QED
  BY <1>5, <1>6, <1>8, <1>9, <1>10 DEF WriteInv

(***************************************************************************)
(* A command writes places that its handler has claimed, or whose claim is  *)
(* void: nothing that is promised to another.                               *)
(***************************************************************************)
LEMMA CommandWrites ==
  ASSUME CallsTyped, Shape, DbTyped, WriteInv, NEW r \in Rpcs, NEW s \in Shards, Command(r, s)
  PROVE  WriteInv'
<1>1. PICK cmds, e, left : /\ cmds = rpc[r].pipe[s].cmds /\ e = rpc[r].pipe[s].erase
                           /\ left = rpc[r].left
  OBVIOUS
<1>2. /\ PipeChange(r, s, left, e, Tail(cmds)) /\ SameElsewhere(r, s)
      /\ rpc'[r].pipe[s].cmds = Tail(cmds) /\ rpc'[r].pipe[s].erase = e
  BY <1>1, CommandChanges, Elsewhere
<1>3. /\ Running(r, s) /\ cmds \in Seq(SafeCommands) /\ cmds # <<>>
      /\ promise' = promise /\ Exec(Head(cmds)) /\ Head(cmds).c # "error"
  BY <1>1, PipeOf DEF Command
<1>4. PICK cmd \in SafeCommands : cmd = Head(cmds)
  BY <1>3, HeadTail
<1>5. /\ Tail(cmds) \in Seq(SafeCommands) /\ cmd = cmds[1]
      /\ Len(cmds) \in Nat \ {0} /\ Len(Tail(cmds)) = Len(cmds) - 1
      /\ \A i \in 1 .. Len(cmds) - 1 : Tail(cmds)[i] = cmds[i + 1]
  BY <1>3, <1>4, HeadTail
<1>6. PICK P : P = Places(r, s)
  OBVIOUS
<1>7. /\ Within(cmds, P)
      /\ ~e => /\ Obeys(r, cmds)
               /\ \A p \in P : promise[p] = r => At(p) = Promised(r, p) \/ Reaches(cmds, p)
  BY <1>1, <1>3, <1>6 DEF WriteInv, OnCourse
<1>8. ASSUME NEW p \in P
      PROVE  p \in AllPlaces /\ ShardOf[p[1]] = s /\ promise[p] \in {r, Unknown}
  <2>1. Writing(r, p) /\ p \in AllPlaces /\ ShardOf[p[1]] = s
    BY <1>3, <1>6, WritingIs, PlacesOf
  <2> QED
    BY <2>1 DEF WriteInv, Claimed
<1>9. Touched(cmd) \subseteq P
  BY <1>5, <1>7 DEF Within
<1>10. \A p \in AllPlaces : At(p)' = IF p \in Touched(cmd) THEN Sets(cmd, p) ELSE At(p)
  BY <1>3, <1>4, ExecAt DEF DbTyped
<1>11. PromiseTyped'
  BY <1>3 DEF WriteInv, PromiseTyped
<1>12. Honoured'
  <2> SUFFICES ASSUME NEW p \in AllPlaces, promise[p] \in Content(p) PROVE At(p)' = promise[p]
    BY <1>3 DEF Honoured, Content
  <2>1. p \notin Touched(cmd)
    BY <1>8, <1>9, ClaimsApart
  <2> QED
    BY <1>10, <2>1 DEF WriteInv, Honoured
<1>13. ASSUME NEW q \in Rpcs, NEW p \in AllPlaces, Writing(q, p)' PROVE promise'[p] \in {q, Unknown}
  <2>1. CASE q # r \/ ShardOf[p[1]] # s
    <3>1. Writing(q, p)
      BY <1>2, <1>13, <2>1, WritingKept
    <3> QED
      BY <1>3, <3>1 DEF WriteInv, Claimed
  <2>2. CASE q = r /\ ShardOf[p[1]] = s
    <3>1. p \in Places(r, s)'
      BY <1>13, <2>2 DEF Writing
    <3>2. p \in P
      BY <1>2, <1>6, <3>1, SamePlaces DEF SameElsewhere
    <3> QED
      BY <1>3, <1>8, <2>2, <3>2
  <2> QED
    BY <2>1, <2>2
<1>14. ASSUME NEW q \in Rpcs, NEW t \in Shards, q # r \/ t # s PROVE OnCourse(q, t)'
  <2>1. SameCall(q) /\ rpc'[q].pipe[t] = rpc[q].pipe[t] /\ OnCourse(q, t)
    BY <1>2, <1>14 DEF WriteInv, SameElsewhere
  <2>2. ASSUME NEW p \in Places(q, t), Running(q, t), promise'[p] = q
        PROVE  promise[p] = q /\ At(p)' = At(p)
    <3>1. p \in AllPlaces /\ ShardOf[p[1]] = t
      BY PlacesOf
    <3>2. p \notin Touched(cmd)
      BY <1>3, <1>8, <1>9, <1>14, <2>2, <3>1, ClaimsApart
    <3> QED
      BY <1>3, <1>10, <2>2, <3>1, <3>2
  <2> QED
    BY <2>1, <2>2, Stays
<1>15. OnCourse(r, s)'
  <2>1. SameCall(r) /\ Places(r, s)' = P /\ \A p : Promised(r, p)' = Promised(r, p)
    BY <1>2, <1>6, SamePlaces DEF SameElsewhere
  <2>2. PICK tail : tail = Tail(cmds)
    OBVIOUS
  <2>3. \A i \in 1 .. Len(tail) : i + 1 \in 1 .. Len(cmds) /\ tail[i] = cmds[i + 1]
    BY <1>5, <2>2
  <2>4. Within(tail, P)'
    BY <1>7, <2>3 DEF Within, Touched
  <2>5. ASSUME ~e PROVE Obeys(r, tail)'
    <3>1. Obeys(r, tail)
      BY <1>7, <2>3, <2>5 DEF Obeys
    <3> QED
      BY <2>1, <3>1, SameObeys
  <2>6. ASSUME ~e, NEW p \in P, promise[p] = r
        PROVE  At(p)' = Promised(r, p) \/ Reaches(tail, p)
    <3>1. CASE p \in Touched(cmd)
      <4>1. Sets(cmd, p) = Promised(r, p)
        BY <1>5, <1>7, <2>6, <3>1 DEF Obeys
      <4> QED
        BY <1>8, <1>10, <3>1, <4>1
    <3>2. CASE p \notin Touched(cmd)
      <4>1. At(p)' = At(p)
        BY <1>8, <1>10, <3>2
      <4>2. ASSUME Reaches(cmds, p) PROVE Reaches(tail, p)
        <5>1. PICK i \in 1 .. Len(cmds) : cmds[i].c = "error" \/ p \in Touched(cmds[i])
          BY <4>2 DEF Reaches
        <5>2. i # 1
          BY <1>3, <1>4, <1>5, <3>2, <5>1
        <5>3. i - 1 \in 1 .. Len(tail) /\ tail[i - 1] = cmds[i]
          BY <1>5, <2>2, <5>1, <5>2
        <5> QED
          BY <5>1, <5>3 DEF Reaches
      <4> QED
        BY <1>7, <2>6, <4>1, <4>2
    <3> QED
      BY <3>1, <3>2
  <2>7. \A p : Reaches(tail, p)' <=> Reaches(tail, p)
    BY DEF Reaches, Touched
  <2> QED
    BY <1>2, <1>3, <2>1, <2>2, <2>4, <2>5, <2>6, <2>7 DEF OnCourse
<1>16. Claimed'
  BY <1>13 DEF Claimed, AllPlaces
<1> QED
  BY <1>11, <1>12, <1>14, <1>15, <1>16 DEF WriteInv

(***************************************************************************)
(* A pipeline sent under a claim made before: the store of an Update, after *)
(* its delete, or a pipeline that go-redis sends again.                     *)
(***************************************************************************)
LEMMA AnewWrites ==
  ASSUME CallsTyped, WriteInv, NEW r \in Rpcs, NEW s \in Shards, Running(r, s),
         SendsAnew(r, s), UNCHANGED <<vec, ids, promise>>
  PROVE  WriteInv'
<1>1. PICK e \in BOOLEAN, cmds \in Seq(SafeCommands) :
        /\ PipeChange(r, s, rpc[r].left, e, cmds)
        /\ Within(cmds, Places(r, s)) /\ (~e => Fresh(r, cmds, Places(r, s)))
  BY DEF SendsAnew
<1>2. PICK left : left = rpc[r].left /\ PipeChange(r, s, left, e, cmds)
  BY <1>1
<1>3. SameElsewhere(r, s) /\ rpc'[r].pipe[s].cmds = cmds /\ rpc'[r].pipe[s].erase = e
  BY <1>2, Elsewhere
<1>4. \A p : At(p)' = At(p)
  BY DEF At
<1>5. PICK P : P = Places(r, s)
  OBVIOUS
<1>6. SameCall(r) /\ Places(r, s)' = P
  BY <1>3, <1>5, SamePlaces DEF SameElsewhere
<1>7. PromiseTyped' /\ Honoured'
  BY <1>4 DEF WriteInv, PromiseTyped, Honoured, Content
<1>8. ASSUME NEW q \in Rpcs, NEW p \in AllPlaces, Writing(q, p)' PROVE promise'[p] \in {q, Unknown}
  <2>1. CASE q # r \/ ShardOf[p[1]] # s
    <3>1. Writing(q, p)
      BY <1>2, <1>8, <2>1, WritingKept
    <3> QED
      BY <3>1 DEF WriteInv, Claimed
  <2>2. CASE q = r /\ ShardOf[p[1]] = s
    <3>1. p \in Places(r, s)
      BY <1>5, <1>6, <1>8, <2>2 DEF Writing
    <3>2. Writing(r, p)
      BY <3>1, WritingIs
    <3> QED
      BY <2>2, <3>2 DEF WriteInv, Claimed
  <2> QED
    BY <2>1, <2>2
<1>9. ASSUME NEW q \in Rpcs, NEW t \in Shards, q # r \/ t # s PROVE OnCourse(q, t)'
  <2>1. SameCall(q) /\ rpc'[q].pipe[t] = rpc[q].pipe[t] /\ OnCourse(q, t)
    BY <1>3, <1>9 DEF WriteInv, SameElsewhere
  <2>2. \A p \in Places(q, t) :
          Running(q, t) /\ promise'[p] = q => promise[p] = q /\ At(p)' = At(p)
    BY <1>4
  <2> QED
    BY <2>1, <2>2, Stays
<1>10. OnCourse(r, s)'
  <2>1. Within(cmds, P) /\ (~e => Obeys(r, cmds) /\ \A p \in P : Reaches(cmds, p))
    BY <1>1, <1>5 DEF Fresh, Covers
  <2>2. Within(cmds, P)' /\ (~e => \A p \in P : Reaches(cmds, p)')
    BY <2>1 DEF Within, Reaches, Touched
  <2>3. ~e => Obeys(r, cmds)'
    BY <1>6, <2>1, SameObeys
  <2> QED
    BY <1>3, <1>6, <2>2, <2>3 DEF OnCourse
<1>11. Claimed'
  BY <1>8 DEF Claimed, AllPlaces
<1> QED
  BY <1>7, <1>9, <1>10, <1>11 DEF WriteInv

(***************************************************************************)
(* A pipeline ends: where its handler is still alone, what it promised is   *)
(* there if it succeeded, and nothing is promised if it failed.             *)
(***************************************************************************)
Voided(P) == promise' = [p \in AllPlaces |-> IF p \in P THEN Unknown ELSE promise[p]]

NoNewClaim == \A p \in AllPlaces, q \in Rpcs : promise'[p] = q => promise[p] = q
OthersKeep(r, s) ==
  \A p \in AllPlaces, q \in Rpcs :
    Writing(q, p) /\ (q # r \/ ShardOf[p[1]] # s) => promise'[p] \in {q, Unknown}
Going == Claimed /\ \A q \in Rpcs, t \in Shards : OnCourse(q, t)

LEMMA EndOthers ==
  ASSUME CallsTyped, WriteInv, NEW r \in Rpcs, NEW s \in Shards, NEW left,
         PipeChange(r, s, left, FALSE, None), UNCHANGED <<vec, ids>>,
         NoNewClaim, OthersKeep(r, s)
  PROVE  Going'
<1>0. PICK e : e = FALSE /\ PipeChange(r, s, left, e, None)
  OBVIOUS
<1>1. SameElsewhere(r, s) /\ rpc'[r].pipe[s].cmds = None
  BY <1>0, Elsewhere
<1>2. ASSUME NEW q \in Rpcs, NEW p \in AllPlaces, Writing(q, p)' PROVE promise'[p] \in {q, Unknown}
  <2>1. q # r \/ ShardOf[p[1]] # s
    BY <1>1, <1>2 DEF Writing, Running
  <2> QED
    BY <1>2, <2>1, WritingKept DEF OthersKeep
<1>3. ASSUME NEW q \in Rpcs, NEW t \in Shards PROVE OnCourse(q, t)'
  <2>1. CASE q = r /\ t = s
    BY <1>1, <2>1 DEF OnCourse, Running
  <2>2. CASE q # r \/ t # s
    <3>1. SameCall(q) /\ rpc'[q].pipe[t] = rpc[q].pipe[t] /\ OnCourse(q, t)
      BY <1>1, <2>2 DEF WriteInv, SameElsewhere
    <3>2. \A p \in Places(q, t) :
            Running(q, t) /\ promise'[p] = q => promise[p] = q /\ At(p)' = At(p)
      BY PlacesOf DEF At, NoNewClaim
    <3> QED
      BY <3>1, <3>2, Stays
  <2> QED
    BY <2>1, <2>2
<1>4. Claimed'
  BY <1>2 DEF Claimed, AllPlaces
<1> QED
  BY <1>3, <1>4 DEF Going

LEMMA VoidHonours ==
  ASSUME WriteInv, NEW P, Voided(P), UNCHANGED <<vec, ids>>
  PROVE  PromiseTyped' /\ Honoured'
<1>1. \A p : At(p)' = At(p)
  BY DEF At
<1>2. PromiseTyped'
  BY DEF WriteInv, PromiseTyped, Voided
<1>3. ASSUME NEW p \in AllPlaces, promise'[p] \in Content(p) PROVE At(p)' = promise'[p]
  <2>1. promise'[p] # Unknown
    BY <1>3, ServiceAssumption DEF Content
  <2>2. promise'[p] = promise[p]
    BY <2>1 DEF Voided
  <2> QED
    BY <1>1, <1>3, <2>2 DEF WriteInv, Honoured
<1> QED
  BY <1>2, <1>3 DEF Honoured, Content

LEMMA FailureWrites ==
  ASSUME CallsTyped, Shape, WriteInv, NEW r \in Rpcs, NEW s \in Shards,
         EndPipe(r, s), Void(Places(r, s)), UNCHANGED <<vec, ids>>
  PROVE  WriteInv'
<1>1. PICK left : PipeChange(r, s, left, FALSE, None)
  BY EndPipeChanges
<1>2. PICK P : P = Places(r, s) /\ Voided(P)
  BY DEF Void, Voided, AllPlaces
<1>3. PromiseTyped' /\ Honoured'
  BY <1>2, VoidHonours
<1>4. NoNewClaim
  BY <1>2, ClaimsApart DEF Voided, NoNewClaim
<1>5. OthersKeep(r, s)
  BY <1>2 DEF Voided, WriteInv, Claimed, OthersKeep
<1>6. Going'
  BY <1>1, <1>4, <1>5, EndOthers
<1> QED
  BY <1>3, <1>6 DEF WriteInv, Going

LEMMA SuccessWrites ==
  ASSUME CallsTyped, Shape, WriteInv, NEW r \in Rpcs, NEW s \in Shards, Running(r, s),
         rpc[r].pipe[s].cmds = <<>>, ~rpc[r].pipe[s].erase,
         EndPipe(r, s), Fulfil(r, s), UNCHANGED <<vec, ids>>
  PROVE  WriteInv'
<1>1. PICK left : PipeChange(r, s, left, FALSE, None)
  BY EndPipeChanges
<1>2. PICK P : P = Places(r, s)
  OBVIOUS
<1>3. promise' = [p \in AllPlaces |->
                    IF promise[p] = r /\ p \in P THEN Promised(r, p) ELSE promise[p]]
  BY <1>2 DEF Fulfil, AllPlaces
<1>4. ASSUME NEW p \in P
      PROVE  /\ p \in AllPlaces /\ ShardOf[p[1]] = s /\ Promised(r, p) \in Content(p)
             /\ promise[p] = r => At(p) = Promised(r, p)
  <2>1. p \in AllPlaces /\ ShardOf[p[1]] = s /\ Promised(r, p) \in Content(p)
    BY <1>2, PlacesOf, PromisedIsContent
  <2>2. OnCourse(r, s) /\ ~Reaches(<<>>, p)
    BY DEF WriteInv, Reaches
  <2>3. promise[p] = r => At(p) = Promised(r, p)
    BY <1>2, <2>2 DEF OnCourse
  <2> QED
    BY <2>1, <2>3
<1>5. \A p : At(p)' = At(p)
  BY DEF At
<1>6. PromiseTyped'
  <2>1. ASSUME NEW p \in AllPlaces
        PROVE  promise'[p] \in Values \cup BOOLEAN \cup Rpcs \cup {Absent, Unknown}
    <3>1. CASE promise[p] = r /\ p \in P
      BY <1>3, <1>4, <3>1 DEF Content
    <3>2. CASE ~(promise[p] = r /\ p \in P)
      BY <1>3, <3>2 DEF WriteInv, PromiseTyped
    <3> QED
      BY <3>1, <3>2
  <2> QED
    BY <1>3, <2>1 DEF PromiseTyped
<1>7. ASSUME NEW p \in AllPlaces, promise'[p] \in Content(p) PROVE At(p)' = promise'[p]
  <2>1. CASE promise[p] = r /\ p \in P
    BY <1>3, <1>4, <1>5, <2>1
  <2>2. CASE ~(promise[p] = r /\ p \in P)
    BY <1>3, <1>5, <1>7, <2>2 DEF WriteInv, Honoured
  <2> QED
    BY <2>1, <2>2
<1>8. ASSUME NEW p \in AllPlaces, NEW q \in Rpcs, promise'[p] = q PROVE promise[p] = q
  BY <1>3, <1>4, <1>8, ClaimsApart
<1>9. ASSUME NEW p \in AllPlaces, NEW q \in Rpcs, Writing(q, p), q # r \/ ShardOf[p[1]] # s
      PROVE  promise'[p] \in {q, Unknown}
  <2>1. promise[p] \in {q, Unknown}
    BY <1>9 DEF WriteInv, Claimed
  <2>2. ~(promise[p] = r /\ p \in P)
    BY <1>4, <1>9, <2>1, ClaimsApart
  <2> QED
    BY <1>3, <2>1, <2>2
<1>10. Going'
  <2>1. NoNewClaim /\ OthersKeep(r, s)
    BY <1>8, <1>9 DEF NoNewClaim, OthersKeep
  <2> QED
    BY <1>1, <2>1, EndOthers
<1>11. Honoured'
  BY <1>7 DEF Honoured, Content
<1> QED
  BY <1>6, <1>10, <1>11 DEF WriteInv, Going

LEMMA EndWrites ==
  ASSUME CallsTyped, Shape, WriteInv, NEW r \in Rpcs, NEW s \in Shards,
         PipelineFails(r, s) \/ PipelineDone(r, s)
  PROVE  WriteInv' /\ CallsTyped'
<1>1. Running(r, s) /\ UNCHANGED <<vec, ids>>
  BY DEF PipelineFails, PipelineDone, dbVars
<1>2. CASE rpc[r].pipe[s].erase
  <2>1. StoreNext(r, s) /\ promise' = promise
    BY <1>2 DEF PipelineFails, PipelineDone
  <2>2. SendsAnew(r, s)
    BY <1>1, <1>2, <2>1, StoreNextChanges
  <2> QED
    BY <1>1, <1>2, <2>1, <2>2, AnewWrites, EndTyped
<1>3. CASE ~rpc[r].pipe[s].erase
  <2>1. EndPipe(r, s)
    BY <1>3 DEF PipelineFails, PipelineDone
  <2>2. CASE PipelineFails(r, s)
    <3>1. Void(Places(r, s))
      BY <1>3, <2>2 DEF PipelineFails
    <3> QED
      BY <1>1, <2>1, <3>1, FailureWrites, EndTyped
  <2>3. CASE PipelineDone(r, s)
    <3>1. Fulfil(r, s) /\ rpc[r].pipe[s].cmds = <<>>
      BY <1>3, <2>3 DEF PipelineDone
    <3> QED
      BY <1>1, <1>3, <2>1, <3>1, SuccessWrites, EndTyped
  <2> QED
    BY <2>2, <2>3
<1> QED
  BY <1>2, <1>3

(***************************************************************************)
(* A late command voids what it writes; a restart voids what is being       *)
(* written.                                                                *)
(***************************************************************************)
LEMMA ExecElsewhere ==
  ASSUME NEW cmd \in SafeCommands, Exec(cmd), NEW p \in AllPlaces, p \notin Touched(cmd),
         vec \in [Keys -> Encodable \cup {Absent}]
  PROVE  At(p)' = At(p)
<1>1. CASE cmd.c # "error"
  BY <1>1, ExecAt
<1>2. CASE cmd.c = "error"
  <2>1. vec' = [k \in Keys |-> vec[k]] /\ ids' = ids
    BY <1>2 DEF Exec
  <2>2. vec' = vec
    BY <2>1
  <2> QED
    BY <2>1, <2>2 DEF At
<1> QED
  BY <1>1, <1>2

LEMMA LateStep ==
  ASSUME CallsTyped, DbTyped, WriteInv, NEW t \in late, LateCommand(t)
  PROVE  WriteInv' /\ DbTyped' /\ CallsTyped'
<1>1. /\ t \in Seq(SafeCommands) /\ t # <<>> /\ rpc' = rpc
      /\ vec \in [Keys -> Encodable \cup {Absent}] /\ ids \subseteq Keys
  BY DEF DbTyped, LateCommand
<1>2. PICK cmd \in SafeCommands : cmd = Head(t)
  BY <1>1, HeadTail
<1>3. PICK P : P = Touched(cmd) /\ Voided(P)
  BY <1>2 DEF LateCommand, Void, Voided, AllPlaces
<1>4. Exec(cmd) /\ late' = (late \ {t}) \cup (IF Len(t) = 1 THEN {} ELSE {Tail(t)})
  BY <1>2 DEF LateCommand
<1>5. \A p \in AllPlaces : p \notin P => At(p)' = At(p)
  BY <1>1, <1>3, <1>4, ExecElsewhere
<1>6. CallsTyped'
  BY <1>1 DEF CallsTyped, Fields, Stage, Running
<1>7. DbTyped'
  <2>1. vec' \in [Keys -> Encodable \cup {Absent}] /\ ids' \subseteq Keys
    BY <1>1, <1>4, ExecTyped
  <2>2. Tail(t) \in Seq(SafeCommands) /\ (Len(t) # 1 => Tail(t) # <<>>)
    <3>1. /\ Tail(t) \in Seq(SafeCommands) /\ Len(t) \in Nat
          /\ Len(Tail(t)) = Len(t) - 1
      BY <1>1, HeadTail
    <3>2. PICK u : u = Tail(t)
      OBVIOUS
    <3>3. u = <<>> => Len(u) = 0
      OBVIOUS
    <3> QED
      BY <3>1, <3>2, <3>3
  <2>3. ASSUME NEW u \in late' PROVE u \in Seq(SafeCommands) /\ u # <<>>
    BY <1>4, <2>2, <2>3 DEF DbTyped
  <2> QED
    BY <2>1, <2>3 DEF DbTyped
<1>8. \A q \in Rpcs, u \in Shards : SameCall(q) /\ rpc'[q].pipe[u] = rpc[q].pipe[u]
  BY <1>1 DEF SameCall
<1>9. ASSUME NEW q \in Rpcs, NEW u \in Shards PROVE OnCourse(q, u)'
  <2>1. ASSUME NEW p \in Places(q, u), promise'[p] = q PROVE promise[p] = q /\ At(p)' = At(p)
    <3>1. p \in AllPlaces
      BY PlacesOf
    <3>2. p \notin P /\ promise'[p] = promise[p]
      BY <1>3, <2>1, <3>1, ClaimsApart DEF Voided
    <3> QED
      BY <1>5, <2>1, <3>1, <3>2
  <2>2. OnCourse(q, u)
    BY DEF WriteInv
  <2> QED
    BY <1>8, <2>1, <2>2, Stays
<1>10. Claimed'
  <2>1. ASSUME NEW q \in Rpcs, NEW p \in AllPlaces, Writing(q, p)'
        PROVE  promise'[p] \in {q, Unknown}
    <3>1. Writing(q, p)
      BY <1>1, <2>1 DEF Writing, Running, Places, Written, Group
    <3> QED
      BY <1>3, <3>1 DEF WriteInv, Claimed, Voided
  <2> QED
    BY <2>1 DEF Claimed, AllPlaces
<1>11. PromiseTyped'
  BY <1>3 DEF WriteInv, PromiseTyped, Voided
<1>12. ASSUME NEW p \in AllPlaces, promise'[p] \in Content(p) PROVE At(p)' = promise'[p]
  <2>1. promise'[p] # Unknown
    BY <1>12, ServiceAssumption DEF Content
  <2>2. p \notin P /\ promise'[p] = promise[p]
    BY <1>3, <2>1 DEF Voided
  <2> QED
    BY <1>5, <1>12, <2>2 DEF WriteInv, Honoured
<1>13. Honoured'
  BY <1>12 DEF Honoured, Content
<1> QED
  BY <1>6, <1>7, <1>9, <1>10, <1>11, <1>13 DEF WriteInv

LEMMA RestartStep ==
  ASSUME CallsTyped, DbTyped, WriteInv, Restart
  PROVE  WriteInv' /\ DbTyped' /\ CallsTyped'
<1>1. /\ UNCHANGED <<vec, ids>> /\ rpc' = [r \in Rpcs |-> NoRpc]
  BY DEF Restart
<1>2. \A q \in Rpcs : rpc'[q] = NoRpc
  BY <1>1
<1>3. /\ NoRpc.op = None /\ NoRpc.pc = "idle" /\ NoRpc.dim = None /\ NoRpc.left = {}
      /\ \A s \in Shards : NoRpc.pipe[s].cmds = None
  BY DEF NoRpc, NoPipe
<1>4. \A q \in Rpcs, s \in Shards : ~Running(q, s)'
  BY <1>2, <1>3 DEF Running
<1>5. CallsTyped'
  BY <1>2, <1>3, <1>4, NoCommands DEF CallsTyped, Fields, Stage
<1>6. PICK P : Voided(P)
  BY DEF Restart, Void, Voided, AllPlaces
<1>7. PromiseTyped' /\ Honoured'
  BY <1>1, <1>6, VoidHonours
<1>8. \A q \in Rpcs, s \in Shards : OnCourse(q, s)'
  BY <1>4 DEF OnCourse
<1>9. Claimed'
  BY <1>4, ServiceAssumption DEF Claimed, Writing, AllPlaces
<1>10. DbTyped'
  <2>1. PICK T \in SUBSET Tails : late' = late \cup T
    BY DEF Restart
  <2>2. ASSUME NEW u \in Tails PROVE u \in Seq(SafeCommands) /\ u # <<>>
    <3>1. PICK r \in Rpcs, s \in Shards : u = rpc[r].pipe[s].cmds /\ u # None /\ u # <<>>
      BY <2>2 DEF Tails
    <3> QED
      BY <3>1, PipeOf
  <2> QED
    BY <1>1, <2>1, <2>2 DEF DbTyped
<1> QED
  BY <1>5, <1>7, <1>8, <1>9, <1>10 DEF WriteInv

(***************************************************************************)
(* The inductive invariant.                                                 *)
(***************************************************************************)
ScalarsTyped ==
  index \in Dims \cup {None} /\ indexMu \in Rpcs \cup {None} /\ active \subseteq Shards

ServiceInv == LockInv /\ ScalarsTyped /\ CallsTyped /\ DbTyped /\ WriteInv

LEMMA ServiceInvInitially == Init => ServiceInv
<1> SUFFICES ASSUME Init PROVE ServiceInv
  OBVIOUS
<1>1. rpc = [r \in Rpcs |-> NoRpc] /\ vec = [k \in Keys |-> Absent] /\ ids = {} /\ late = {}
  BY DEF Init
<1>2. \A q \in Rpcs : rpc[q] = NoRpc
  BY <1>1
<1>3. /\ NoRpc.op = None /\ NoRpc.pc = "idle" /\ NoRpc.dim = None /\ NoRpc.left = {}
      /\ \A s \in Shards : NoRpc.pipe[s].cmds = None
  BY DEF NoRpc, NoPipe
<1>4. \A q \in Rpcs, s \in Shards : ~Running(q, s)
  BY <1>2, <1>3 DEF Running
<1>5. LockInv /\ ScalarsTyped
  BY LockInvInitially DEF Init, ScalarsTyped
<1>6. CallsTyped
  BY <1>2, <1>3, <1>4, NoCommands DEF CallsTyped, Fields, Stage
<1>7. DbTyped
  BY <1>1 DEF DbTyped
<1>8. promise = [p \in AllPlaces |-> IF p[2] = "vec" THEN Absent ELSE FALSE]
  BY DEF Init, AllPlaces
<1>9. PromiseTyped
  BY <1>8 DEF PromiseTyped
<1>10. Honoured
  <2> SUFFICES ASSUME NEW p \in AllPlaces PROVE At(p) = promise[p]
    BY DEF Honoured
  <2>1. p[1] \in Keys
    BY DEF AllPlaces
  <2>2. CASE p[2] = "vec"
    BY <1>1, <1>8, <2>1, <2>2 DEF At
  <2>3. CASE p[2] # "vec"
    <3>1. promise[p] \in BOOLEAN /\ ~promise[p]
      BY <1>8, <2>3
    <3>2. p[1] \notin ids
      BY <1>1
    <3>3. (p[1] \in ids) = promise[p]
      BY <3>1, <3>2, SMT
    <3> QED
      BY <2>3, <3>3 DEF At
  <2> QED
    BY <2>2, <2>3
<1>11. Claimed /\ \A q \in Rpcs, s \in Shards : OnCourse(q, s)
  BY <1>4, ServiceAssumption DEF Claimed, OnCourse, Writing, AllPlaces
<1> QED
  BY <1>5, <1>6, <1>7, <1>9, <1>10, <1>11 DEF ServiceInv, WriteInv

(***************************************************************************)
(* Steps of a handler outside the shards.                                   *)
(***************************************************************************)
LEMMA DoneQuiet ==
  ASSUME CallsTyped, Shape, WriteInv, NEW r \in Rpcs, Done(r), UNCHANGED <<vec, ids, promise>>
  PROVE  WriteInv' /\ CallsTyped'
<1>1. \A q \in Rpcs : rpc'[q] = rpc[q] \/ rpc'[q] = NoRpc
  BY DEF Done, Shape
<1>2. \A s \in Shards : NoRpc.pipe[s].cmds = None
  BY DEF NoRpc, NoPipe
<1>3. \A q \in Rpcs, t \in Shards :
        Running(q, t)' => SameCall(q) /\ rpc'[q].pipe[t] = rpc[q].pipe[t]
  BY <1>1, <1>2 DEF Running, SameCall
<1> QED
  BY <1>3, QuietStep, DoneTyped

(***************************************************************************)
(* A handler without a pipeline changes only its own call.                  *)
(***************************************************************************)
LEMMA IdleQuiet ==
  ASSUME CallsTyped, WriteInv, NEW r \in Rpcs, UNCHANGED <<vec, ids, promise>>,
         rpc[r].pc # "shards", rpc'[r].pipe = rpc[r].pipe,
         \A q \in Rpcs \ {r} : rpc'[q] = rpc[q]
  PROVE  WriteInv'
<1>1. \A t \in Shards : ~Running(r, t) /\ ~Running(r, t)'
  BY DEF CallsTyped, Stage, Running
<1>2. \A q \in Rpcs, t \in Shards :
        Running(q, t)' => SameCall(q) /\ rpc'[q].pipe[t] = rpc[q].pipe[t]
  BY <1>1 DEF SameCall
<1> QED
  BY <1>2, QuietStep

LEMMA CallQuiet ==
  ASSUME CallsTyped, Shape, WriteInv, NEW r \in Rpcs, Call(r)
  PROVE  WriteInv'
<1>1. ASSUME NEW op, NEW f, NEW d, NEW par, Begin(r, op, f, d, par) PROVE WriteInv'
  <2>1. /\ UNCHANGED <<vec, ids, promise>> /\ rpc[r].pc = "idle"
        /\ rpc'[r].pipe = rpc[r].pipe /\ \A q \in Rpcs \ {r} : rpc'[q] = rpc[q]
    BY <1>1 DEF Begin, dbVars, Shape
  <2> QED
    BY <2>1, IdleQuiet
<1> QED
  BY <1>1 DEF Call

LEMMA LookupQuiet ==
  ASSUME CallsTyped, Shape, WriteInv, NEW r \in Rpcs, LookupIndex(r)
  PROVE  WriteInv'
<1>1. UNCHANGED <<vec, ids, promise>> /\ rpc[r].pc = "lookup"
  BY DEF LookupIndex, dbVars
<1>2. CASE Done(r)
  BY <1>1, <1>2, DoneQuiet
<1>3. CASE ~Done(r)
  <2>1. PICK f, left : rpc' = [rpc EXCEPT ![r].pc = "shards", ![r].want = f, ![r].left = left]
    BY <1>3 DEF LookupIndex
  <2>2. rpc'[r].pipe = rpc[r].pipe /\ \A q \in Rpcs \ {r} : rpc'[q] = rpc[q]
    BY <2>1 DEF Shape
  <2> QED
    BY <1>1, <2>2, IdleQuiet
<1> QED
  BY <1>2, <1>3

LEMMA LockQuiet ==
  ASSUME CallsTyped, Shape, WriteInv, NEW r \in Rpcs, LockIndex(r)
  PROVE  WriteInv'
<1>1. UNCHANGED <<vec, ids, promise>> /\ rpc[r].pc = "lock"
  BY DEF LockIndex, dbVars
<1>2. CASE Done(r)
  BY <1>1, <1>2, DoneQuiet
<1>3. CASE rpc' = [rpc EXCEPT ![r].pc = "shards", ![r].left = Shards]
  <2>1. rpc'[r].pipe = rpc[r].pipe /\ \A q \in Rpcs \ {r} : rpc'[q] = rpc[q]
    BY <1>3 DEF Shape
  <2> QED
    BY <1>1, <2>1, IdleQuiet
<1> QED
  BY <1>2, <1>3 DEF LockIndex

LEMMA SkipQuiet ==
  ASSUME CallsTyped, Shape, WriteInv, NEW r \in Rpcs, NEW s \in Shards, SkipShard(r, s)
  PROVE  WriteInv'
<1>1. UNCHANGED <<vec, ids, promise>>
  BY DEF SkipShard, dbVars
<1>2. \A q \in Rpcs : SameCall(q) /\ rpc'[q].pipe = rpc[q].pipe
  BY DEF SkipShard, SameCall, Shape
<1> QED
  BY <1>1, <1>2, QuietStep

(***************************************************************************)
(* Every step keeps the invariant.                                          *)
(***************************************************************************)
LEMMA CallLeaves ==
  ASSUME NEW r \in Rpcs, Call(r)
  PROVE  UNCHANGED <<index, indexMu, active>> /\ UNCHANGED dbVars
<1>1. ASSUME NEW op, NEW f, NEW d, NEW par, Begin(r, op, f, d, par)
      PROVE  UNCHANGED <<index, indexMu, active>> /\ UNCHANGED dbVars
  BY <1>1 DEF Begin
<1> QED
  BY <1>1 DEF Call

LEMMA ScalarsKept ==
  ASSUME ServiceInv, [Next]_vars
  PROVE  ScalarsTyped'
<1> USE DEF ServiceInv, ScalarsTyped
<1>1. ASSUME NEW r \in Rpcs, Call(r) PROVE ScalarsTyped'
  BY <1>1, CallLeaves
<1>2. ASSUME NEW r \in Rpcs, LookupIndex(r) \/ LockIndex(r) \/ Reply(r) PROVE ScalarsTyped'
  BY <1>2 DEF LookupIndex, LockIndex, Reply
<1>3. ASSUME NEW r \in Rpcs, UnlockIndex(r) PROVE ScalarsTyped'
  <2>1. rpc[r].dim \in Dims \cup {None}
    BY DEF CallsTyped, Fields
  <2> QED
    BY <1>3, <2>1 DEF UnlockIndex
<1>4. ASSUME NEW r \in Rpcs, NEW s \in Shards,
             SkipShard(r, s) \/ StartShard(r, s) \/ Command(r, s) \/ Resend(r, s)
               \/ PipelineFails(r, s) \/ PipelineDone(r, s)
      PROVE  ScalarsTyped'
  <2>1. UNCHANGED <<index, indexMu, active>>
    BY <1>4 DEF SkipShard, StartShard, Command, Resend, PipelineFails, PipelineDone
  <2> QED
    BY <2>1
<1>5. CASE (\E t \in late : LateCommand(t)) \/ UNCHANGED vars
  BY <1>5 DEF LateCommand, vars
<1>6. ASSUME NEW s \in Shards, HealthFlip(s) PROVE ScalarsTyped'
  BY <1>6 DEF HealthFlip
<1>7. CASE Restart
  BY <1>7 DEF Restart
<1> QED
  BY <1>1, <1>2, <1>3, <1>4, <1>5, <1>6, <1>7 DEF Next, RpcStep

LEMMA ServiceInvKept ==
  ASSUME ServiceInv, [Next]_vars
  PROVE  ServiceInv'
<1>1. /\ LockInv /\ Shape /\ CallsTyped /\ DbTyped /\ WriteInv
      /\ LockInv' /\ ScalarsTyped'
  BY LockInvKept, ScalarsKept DEF ServiceInv, LockInv
<1> DEFINE Kept == CallsTyped' /\ DbTyped' /\ WriteInv'
<1>2. ASSUME UNCHANGED dbVars PROVE DbTyped'
  BY <1>1, <1>2 DEF dbVars, DbTyped
<1>3. ASSUME NEW r \in Rpcs, Call(r) PROVE Kept
  <2>1. UNCHANGED dbVars
    BY <1>3, CallLeaves
  <2> QED
    BY <1>1, <1>2, <1>3, <2>1, CallTyped, CallQuiet
<1>4. ASSUME NEW r \in Rpcs, LookupIndex(r) PROVE Kept
  <2>1. UNCHANGED dbVars
    BY <1>4 DEF LookupIndex
  <2> QED
    BY <1>1, <1>2, <1>4, <2>1, LookupTyped, LookupQuiet
<1>5. ASSUME NEW r \in Rpcs, LockIndex(r) PROVE Kept
  <2>1. UNCHANGED dbVars
    BY <1>5 DEF LockIndex
  <2> QED
    BY <1>1, <1>2, <1>5, <2>1, LockTyped, LockQuiet
<1>6. ASSUME NEW r \in Rpcs, Reply(r) \/ UnlockIndex(r) PROVE Kept
  <2>1. Done(r) /\ UNCHANGED dbVars /\ UNCHANGED promise
    BY <1>6 DEF Reply, UnlockIndex
  <2>2. UNCHANGED <<vec, ids, promise>>
    BY <2>1 DEF dbVars
  <2> QED
    BY <1>1, <1>2, <2>1, <2>2, DoneQuiet
<1>7. ASSUME NEW r \in Rpcs, NEW s \in Shards, SkipShard(r, s) PROVE Kept
  <2>1. UNCHANGED dbVars
    BY <1>7 DEF SkipShard
  <2> QED
    BY <1>1, <1>2, <1>7, <2>1, SkipTyped, SkipQuiet
<1>8. ASSUME NEW r \in Rpcs, NEW s \in Shards, StartShard(r, s) PROVE Kept
  <2>1. UNCHANGED dbVars
    BY <1>8 DEF StartShard
  <2> QED
    BY <1>1, <1>2, <1>8, <2>1, StartTyped, StartWrites
<1>9. ASSUME NEW r \in Rpcs, NEW s \in Shards, Command(r, s) PROVE Kept
  <2>1. /\ Head(rpc[r].pipe[s].cmds) \in SafeCommands
        /\ Exec(Head(rpc[r].pipe[s].cmds)) /\ late' = late
    <3>1. rpc[r].pipe[s].cmds \in Seq(SafeCommands) /\ rpc[r].pipe[s].cmds # <<>>
      BY <1>1, <1>9, PipeOf DEF Command
    <3> QED
      BY <1>9, <3>1, HeadTail DEF Command
  <2>2. DbTyped'
    BY <1>1, <2>1, ExecTyped DEF DbTyped
  <2> QED
    BY <1>1, <1>9, <2>2, CommandTyped, CommandWrites
<1>10. ASSUME NEW r \in Rpcs, NEW s \in Shards, PipelineFails(r, s) \/ PipelineDone(r, s)
       PROVE  Kept
  <2>1. rpc[r].pipe[s].cmds \in Seq(SafeCommands) /\ UNCHANGED <<vec, ids>>
    BY <1>1, <1>10, PipeOf DEF PipelineFails, PipelineDone, dbVars
  <2>2. late' = late \/ (late' = late \cup {rpc[r].pipe[s].cmds} /\ rpc[r].pipe[s].cmds # <<>>)
    BY <1>10 DEF PipelineFails, PipelineDone, LeavesTail, dbVars
  <2>3. DbTyped'
    BY <1>1, <2>1, <2>2 DEF DbTyped
  <2> QED
    BY <1>1, <1>10, <2>3, EndWrites
<1>10a. ASSUME NEW r \in Rpcs, NEW s \in Shards, Resend(r, s) PROVE Kept
  <2>1. /\ Running(r, s) /\ rpc[r].pipe[s].cmds \in Seq(SafeCommands)
        /\ UNCHANGED <<vec, ids, promise>>
    BY <1>1, <1>10a, PipeOf DEF Resend
  <2>2. late' = late \/ (late' = late \cup {rpc[r].pipe[s].cmds} /\ rpc[r].pipe[s].cmds # <<>>)
    BY <1>10a DEF Resend, LeavesTail
  <2>3. DbTyped'
    BY <1>1, <2>1, <2>2 DEF DbTyped
  <2> QED
    BY <1>1, <1>10a, <2>1, <2>3, ResendChanges, AnewTyped, AnewWrites
<1>11. ASSUME NEW t \in late, LateCommand(t) PROVE Kept
  BY <1>1, <1>11, LateStep
<1>12. ASSUME UNCHANGED <<rpc, dbVars, promise>> PROVE Kept
  <2>1. UNCHANGED <<vec, ids, promise>> /\ rpc' = rpc
    BY <1>12 DEF dbVars
  <2>2. CallsTyped'
    BY <1>1, <2>1 DEF CallsTyped, Fields, Stage, Running
  <2>3. \A q \in Rpcs, t \in Shards : SameCall(q) /\ rpc'[q].pipe[t] = rpc[q].pipe[t]
    BY <2>1 DEF SameCall
  <2> QED
    BY <1>1, <1>2, <1>12, <2>1, <2>2, <2>3, QuietStep
<1>13. ASSUME (\E s \in Shards : HealthFlip(s)) \/ UNCHANGED vars PROVE Kept
  <2>1. UNCHANGED <<rpc, dbVars, promise>>
    BY <1>13 DEF HealthFlip, vars
  <2> QED
    BY <1>12, <2>1
<1>14. ASSUME Restart PROVE Kept
  BY <1>1, <1>14, RestartStep
<1>15. Kept
  <2> HIDE DEF Kept
  <2> QED
    BY <1>3, <1>4, <1>5, <1>6, <1>7, <1>8, <1>9, <1>10, <1>11, <1>13, <1>14, <1>10a
       DEF Next, RpcStep
<1> QED
  BY <1>1, <1>15 DEF ServiceInv

LEMMA ServiceInvHolds == Spec => []ServiceInv
  BY ServiceInvInitially, ServiceInvKept, PTL DEF Spec

(***************************************************************************)
(* The types of the service: in particular, only vectors json.Marshal       *)
(* accepts reach Redis, through every interleaving of pipelines, their      *)
(* failures and their late commands.                                        *)
(***************************************************************************)
THEOREM ServiceTyped == Spec => []TypeOK
<1>1. ServiceInv => TypeOK
  <2> SUFFICES ASSUME ServiceInv PROVE TypeOK
    OBVIOUS
  <2>1. Seq(SafeCommands) \subseteq Seq(AllCommands)
    <3>1. SafeCommands \subseteq AllCommands
      BY DEF SafeCommands
    <3> QED
      BY <3>1
  <2>2. promise \in [Keys \X Parts -> Values \cup BOOLEAN \cup Rpcs \cup {Absent, Unknown}]
    BY DEF ServiceInv, WriteInv, PromiseTyped, AllPlaces
  <2>3. ASSUME NEW r \in Rpcs, NEW s \in Shards, Running(r, s)
        PROVE  rpc[r].pipe[s].cmds \in Seq(AllCommands)
    BY <2>1, <2>3, PipeOf DEF ServiceInv
  <2>4. \A r \in Rpcs : Fields(r)
    BY DEF ServiceInv, CallsTyped
  <2>5. \A t \in late : t \in Seq(AllCommands) /\ t # <<>>
    BY <2>1 DEF ServiceInv, DbTyped
  <2>6. index \in Dims \cup {None} /\ indexMu \in Rpcs \cup {None} /\ active \subseteq Shards
    BY DEF ServiceInv, ScalarsTyped
  <2>7. vec \in [Keys -> Encodable \cup {Absent}] /\ ids \subseteq Keys
    BY DEF ServiceInv, DbTyped
  <2> QED
    BY <2>2, <2>3, <2>4, <2>5, <2>6, <2>7 DEF TypeOK, Fields, Operations
<1> QED
  BY <1>1, ServiceInvHolds, PTL

(***************************************************************************)
(* A write that succeeded, and that no other writer overlapped, holds until *)
(* another write of the key or a late command of a failed one, whatever     *)
(* other handlers, failures, skipped shards and restarts do.                *)
(***************************************************************************)
THEOREM AckedWritesAlwaysHold == Spec => []AckedWritesHold
<1>1. ServiceInv => AckedWritesHold
  <2> SUFFICES ASSUME Honoured, NEW k \in Keys
               PROVE  /\ promise[<<k, "vec">>] \in Values \cup {Absent}
                           => vec[k] = promise[<<k, "vec">>]
                      /\ promise[<<k, "ids">>] \in BOOLEAN => (k \in ids) = promise[<<k, "ids">>]
    BY DEF ServiceInv, WriteInv, AckedWritesHold
  <2> DEFINE p == <<k, "vec">>
             q == <<k, "ids">>
  <2>1. /\ p \in AllPlaces /\ p[1] = k /\ p[2] = "vec"
        /\ q \in AllPlaces /\ q[1] = k /\ q[2] # "vec"
    BY DEF AllPlaces, Parts
  <2> HIDE DEF p, q
  <2>2. promise[p] \in Values \cup {Absent} => vec[k] = promise[p]
    BY <2>1 DEF Honoured, Content, At
  <2>3. promise[q] \in BOOLEAN => (k \in ids) = promise[q]
    BY <2>1 DEF Honoured, Content, At
  <2> QED
    BY <2>2, <2>3 DEF p, q
<1> QED
  BY <1>1, ServiceInvHolds, PTL

-----------------------------------------------------------------------------
(***************************************************************************)
(* What a handler reads of the index.  A handler comes to its shards from   *)
(* the lookup, or was there and goes on with the same call.                 *)
(***************************************************************************)
LEMMA GoesOn ==
  ASSUME Shape, [Next]_vars, NEW r \in Rpcs, rpc[r].pc \in {"lookup", "shards"},
         rpc'[r].pc = "shards"
  PROVE  LookupIndex(r) \/ (rpc[r].pc = "shards" /\ SameCall(r))
<1> DEFINE Goal == LookupIndex(r) \/ (rpc[r].pc = "shards" /\ SameCall(r))
<1>1. ASSUME NEW q \in Rpcs, q # r,
             \/ Call(q) \/ LookupIndex(q) \/ LockIndex(q) \/ Reply(q) \/ UnlockIndex(q)
      PROVE  Goal
  <2>1. ASSUME NEW op, NEW f, NEW d, NEW par, Begin(q, op, f, d, par) PROVE rpc'[r] = rpc[r]
    BY <1>1, <2>1 DEF Begin, Shape
  <2>2. rpc'[r] = rpc[r]
    BY <1>1, <2>1 DEF Call, LookupIndex, LockIndex, Reply, UnlockIndex, Done, Shape
  <2> QED
    BY <2>2 DEF SameCall
<1>2. ASSUME Call(r) \/ LockIndex(r) \/ Reply(r) \/ UnlockIndex(r) PROVE Goal
  <2>1. NoRpc.pc = "idle"
    BY DEF NoRpc
  <2>2. ~Call(r) /\ ~LockIndex(r)
    <3>1. \A op, f, d, par : ~Begin(r, op, f, d, par)
      BY DEF Begin
    <3> QED
      BY <3>1 DEF Call, LockIndex
  <2>3. rpc'[r] = NoRpc
    BY <1>2, <2>2 DEF Reply, UnlockIndex, Done, Shape
  <2> QED
    BY <2>1, <2>3
<1>3. ASSUME NEW q \in Rpcs, NEW s \in Shards,
             SkipShard(q, s) \/ StartShard(q, s) \/ Command(q, s) \/ Resend(q, s)
               \/ PipelineFails(q, s) \/ PipelineDone(q, s)
      PROVE  Goal
  <2> DEFINE Same == rpc'[r].pc = rpc[r].pc /\ SameCall(r)
  <2>1. ASSUME NEW left, NEW pipe, rpc' = [rpc EXCEPT ![q].left = left, ![q].pipe[s] = pipe]
        PROVE  Same
    BY <2>1 DEF Shape, SameCall
  <2>2. ASSUME NEW pipe, rpc' = [rpc EXCEPT ![q].pipe[s] = pipe] PROVE Same
    BY <2>2 DEF Shape, SameCall
  <2>3. ASSUME Command(q, s) PROVE Same
    BY <2>3 DEF Command, Shape, SameCall
  <2>4. ASSUME SkipShard(q, s) PROVE Same
    BY <2>4 DEF SkipShard, Shape, SameCall
  <2>6. ASSUME Resend(q, s) PROVE Same
    <3>1. PICK n, cmds : rpc' = [rpc EXCEPT ![q].again = n, ![q].pipe[s].cmds = cmds]
      BY <2>6 DEF Resend
    <3> QED
      BY <3>1 DEF Shape, SameCall
  <2>5. Same
    <3> HIDE DEF Same
    <3> QED
      BY <1>3, <2>1, <2>2, <2>3, <2>4, <2>6
         DEF StartShard, PipelineFails, PipelineDone, StoreNext, EndPipe
  <2> QED
    BY <2>5
<1>4. ASSUME \/ \E t \in late : LateCommand(t)
             \/ \E s \in Shards : HealthFlip(s)
             \/ UNCHANGED vars
      PROVE  Goal
  <2>1. rpc' = rpc
    BY <1>4 DEF LateCommand, HealthFlip, vars
  <2> QED
    BY <2>1 DEF SameCall
<1>5. ~Restart
  BY DEF Restart, NoRpc
<1> HIDE DEF Goal
<1>6. Goal
  BY <1>1, <1>2, <1>3, <1>4, <1>5 DEF Next, RpcStep, Goal
<1> QED
  BY <1>6 DEF Goal

LEMMA LookupValid ==
  ASSUME ServiceInv, NEW r \in Rpcs, LookupIndex(r), rpc'[r].pc = "shards"
  PROVE  Valid(r)'
<1> DEFINE fit == Fit(rpc[r].want)
           f   == Restrict(rpc[r].want, fit)
<1>1. /\ rpc[r].op \in Stores /\ \A k \in DOMAIN rpc[r].want : rpc[r].want[k] \in Values
      /\ index' = index
  BY DEF LookupIndex, ServiceInv, CallsTyped, Stage, Wanted
<1>2. ~Done(r)
  BY DEF Done, NoRpc, ServiceInv, LockInv, Shape
<1>3. fit # {} /\ rpc' = [rpc EXCEPT ![r].pc = "shards", ![r].want = f,
                                     ![r].left = ShardsOf(f)]
  BY <1>2 DEF LookupIndex
<1>4. /\ DOMAIN f = fit /\ \A k \in fit : f[k] = rpc[r].want[k]
      /\ \A k \in fit : k \in DOMAIN rpc[r].want /\ DimOf[rpc[r].want[k]] = index
  BY DEF Restrict, Fit
<1>5. rpc'[r].op = rpc[r].op /\ rpc'[r].want = f
  <2> HIDE DEF f
  <2> QED
    BY <1>3 DEF ServiceInv, LockInv, Shape
<1> HIDE DEF f, fit
<1>6. index # None
  BY <1>1, <1>3, <1>4, ServiceAssumption
<1> QED
  BY <1>1, <1>4, <1>5, <1>6 DEF Valid

(***************************************************************************)
(* What a handler read of the index under the lock holds, while it stores,  *)
(* until a DropIndex completes (or a restart ends the handler itself).      *)
(***************************************************************************)
THEOREM OnlyDropsAlwaysOutdate == Spec => OnlyDropsOutdate
<1>1. ASSUME ServiceInv, [Next]_vars, NEW r \in Rpcs,
             rpc[r].pc = "lookup" \/ Valid(r), rpc'[r].pc = "shards"
      PROVE  Valid(r)' \/ index' = None
  <2>1. CASE LookupIndex(r)
    BY <1>1, <2>1, LookupValid
  <2>2. CASE Valid(r) /\ SameCall(r)
    <3>1. index' = None \/ index' = index
      BY <1>1, <2>2, LockInvKept DEF Valid, ServiceInv
    <3> QED
      BY <1>1, <2>2, <3>1 DEF Valid, SameCall
  <2>3. rpc[r].pc \in {"lookup", "shards"}
    BY <1>1 DEF Valid
  <2> QED
    BY <1>1, <2>1, <2>2, <2>3, GoesOn DEF ServiceInv, LockInv, LookupIndex
<1>2. ServiceInv /\ [Next]_vars
        => [\A r \in Rpcs : (rpc[r].pc = "lookup" \/ Valid(r)) /\ rpc'[r].pc = "shards"
                              => Valid(r)' \/ index' = None]_vars
  BY <1>1
<1> QED
  BY <1>2, ServiceInvHolds, PTL DEF Spec, OnlyDropsOutdate
=============================================================================
