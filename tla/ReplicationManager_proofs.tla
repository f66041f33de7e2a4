--------------------- MODULE ReplicationManager_proofs ---------------------
(***************************************************************************)
(* Proofs, for any number of shards, replicas, callers, keys and values and *)
(* any thresholds, of the safety invariants of ReplicationManager.          *)
(***************************************************************************)
EXTENDS ReplicationManager, TLAPS

(***************************************************************************)
(* The registration loop of main always names a configured address and,     *)
(* until it is done, an existing shard.                                     *)
(***************************************************************************)
LEMMA LoopPosition ==
  ASSUME TypeOK, ~Serving
  PROVE  /\ reg[1] \in Shards /\ ReplicaAddresses[reg[2]] \in Addrs
         /\ NextReg \in (0 .. ShardCount) \X (1 .. Len(ReplicaAddresses))
         /\ NextReg[1] > reg[1] \/ (NextReg[1] = reg[1] /\ NextReg[2] > 1)
<1>1. /\ reg[1] \in 0 .. ShardCount /\ reg[2] \in 1 .. Len(ReplicaAddresses)
      /\ reg = <<reg[1], reg[2]>>
  BY DEF TypeOK
<1>2. reg[1] # ShardCount
  BY DEF Serving
<1>3. Len(ReplicaAddresses) \in Nat /\ ReplicaAddresses \in Seq(Addrs)
  BY ConfigAssumption
<1>4. reg[1] \in Shards /\ ShardCount \in Nat
  BY <1>1, <1>2, ConfigAssumption DEF Shards
<1>5. ReplicaAddresses[reg[2]] \in Addrs
  BY <1>1, <1>3
<1> QED
  BY <1>1, <1>2, <1>3, <1>4, <1>5 DEF NextReg

(***************************************************************************)
(* A goroutine's call is one of Calls, on a shard that exists.              *)
(***************************************************************************)
LEMMA GoroutineCall ==
  ASSUME TypeOK, CallInv, NEW c \in Callers, NEW a \in Addrs, go[c][a] # "idle"
  PROVE  /\ call[c] \in Calls /\ call[c].shard \in Shards
         /\ call[c].vals \in [Keys -> Values \cup {Absent, None}]
         /\ Registered(call[c].shard, a)
BY DEF TypeOK, CallInv, Calls

(***************************************************************************)
(* What a goroutine sends, and what of it may be executed late.             *)
(***************************************************************************)
LEMMA WrittenValues ==
  ASSUME NEW c \in Callers, NEW a \in Addrs
  PROVE  /\ Written(c) \subseteq Keys
         /\ \A k \in Keys : k \in Written(c) <=> InFlight(c, k)
         /\ \A k \in Written(c) : call[c].vals[k] \in Sendable
         /\ MayRunLate(c, a) \subseteq Addrs \X Keys \X Sendable
BY DEF Written, InFlight, MayRunLate

LEMMA SendableValues == Sendable \subseteq Values \cup {Absent}
BY ConfigAssumption DEF Sendable

(***************************************************************************)
(* Writing to the database the adapter selects keeps the type of stores.    *)
(***************************************************************************)
LEMMA AppliedType ==
  ASSUME TypeOK, NEW a \in Addrs, adapters[a] # None, NEW K \in SUBSET Keys, NEW v,
         \A k \in K : v[k] \in Sendable
  PROVE  Applied(a, K, v) \in [Addrs -> [Shards -> [Keys -> Values \cup {Absent}]]]
<1> DEFINE d == adapters[a]
           m == [k \in Keys |-> IF k \in K THEN v[k] ELSE stores[a][d][k]]
<1>1. d \in Shards /\ stores \in [Addrs -> [Shards -> [Keys -> Values \cup {Absent}]]]
  BY DEF TypeOK
<1>2. m \in [Keys -> Values \cup {Absent}]
  BY <1>1, SendableValues
<1>3. Applied(a, K, v) = [stores EXCEPT ![a] = [stores[a] EXCEPT ![d] = m]]
  BY <1>1 DEF Applied
<1> HIDE DEF d, m
<1> QED
  BY <1>1, <1>2, <1>3

-----------------------------------------------------------------------------
(***************************************************************************)
(* Every step keeps the type invariant.                                     *)
(***************************************************************************)
LEMMA TypeStep == TypeOK /\ CallInv /\ [Next]_vars => TypeOK'
<1> SUFFICES ASSUME TypeOK, CallInv, [Next]_vars PROVE TypeOK'
  OBVIOUS
<1> USE DEF vars, repVars, callVars, monVars, envVars
<1>1. CASE RegisterReplica
  <2> DEFINE s == reg[1]
             a == ReplicaAddresses[reg[2]]
  <2>1. /\ s \in Shards /\ a \in Addrs
        /\ reg' \in (0 .. ShardCount) \X (1 .. Len(ReplicaAddresses))
    BY <1>1, LoopPosition DEF RegisterReplica
  <2>2. /\ role' \in [Shards -> [Addrs -> {"none", "primary", "secondary"}]]
        /\ status' \in [Shards -> [Addrs -> {"none", "active", "failed"}]]
        /\ lastSync' \in [Shards -> [Addrs -> Nat]]
    BY <1>1, <2>1 DEF RegisterReplica, RoleAt, TypeOK
  <2>3. /\ adapters' \in [Addrs -> Shards \cup {None}]
        /\ primaryNodes' \in [Shards -> Addrs \cup {None}]
        /\ wasPrimary' \subseteq Shards \X Addrs
    BY <1>1, <2>1 DEF RegisterReplica, TypeOK
  <2> QED
    BY <1>1, <2>1, <2>2, <2>3 DEF RegisterReplica, TypeOK
<1>2. CASE RegisterRefused
  BY <1>2, LoopPosition DEF RegisterRefused, TypeOK
<1>3. ASSUME NEW c \in Callers, NEW op \in Ops, NEW s \in Shards,
             NEW m \in [Keys -> Values \cup {Absent, None}], Begin(c, op, s, m)
      PROVE  TypeOK'
  <2>1. [op |-> op, shard |-> s, vals |-> m] \in Calls
    BY DEF Calls
  <2>2. call' \in [Callers -> Calls \cup {Idle}]
    BY <1>3, <2>1 DEF Begin, TypeOK
  <2>3. go' \in [Callers -> [Addrs -> {"idle", "check", "send", "ok", "err"}]]
    BY <1>3 DEF Begin, TypeOK
  <2>4. settled' \in [Keys -> Values \cup {Absent, Unknown} \cup Callers]
    BY <1>3 DEF Begin, TypeOK
  <2> QED
    BY <1>3, <2>2, <2>3, <2>4 DEF Begin, TypeOK
<1>4. ASSUME NEW c \in Callers, NEW a \in Addrs, Spawn(c, a) PROVE TypeOK'
  BY <1>4 DEF Spawn, TypeOK
<1>5. ASSUME NEW c \in Callers, NEW a \in Addrs, CallOk(c, a) PROVE TypeOK'
  <2>1. stores' \in [Addrs -> [Shards -> [Keys -> Values \cup {Absent}]]]
    BY <1>5, WrittenValues, AppliedType DEF CallOk
  <2> QED
    BY <1>5, <2>1 DEF CallOk, TypeOK
<1>6. ASSUME NEW c \in Callers, NEW a \in Addrs, CallFails(c, a) PROVE TypeOK'
  <2>2. stores' \in [Addrs -> [Shards -> [Keys -> Values \cup {Absent}]]]
    <3>1. PICK K \in SUBSET Written(c) : stores' = Applied(a, K, call[c].vals)
      BY <1>6 DEF CallFails
    <3> QED
      BY <1>6, <3>1, WrittenValues, AppliedType DEF CallFails
  <2>3. unresolved' \subseteq Addrs \X Keys \X Sendable
    BY <1>6, WrittenValues DEF CallFails, TypeOK
  <2> QED
    BY <1>6, <2>2, <2>3 DEF CallFails, TypeOK
<1>61. ASSUME NEW c \in Callers, NEW a \in Addrs, Resend(c, a) PROVE TypeOK'
  <2>1. stores' \in [Addrs -> [Shards -> [Keys -> Values \cup {Absent}]]]
    <3>1. PICK K \in SUBSET Written(c) : stores' = Applied(a, K, call[c].vals)
      BY <1>61 DEF Resend
    <3> QED
      BY <1>61, <3>1, WrittenValues, AppliedType DEF Resend
  <2>2. unresolved' \subseteq Addrs \X Keys \X Sendable
    BY <1>61, WrittenValues DEF Resend, TypeOK
  <2> QED
    BY <1>61, <2>1, <2>2 DEF Resend, TypeOK
<1>7. ASSUME NEW c \in Callers, NEW a \in Addrs, SettleOk(c, a) PROVE TypeOK'
  <2>1. logLen' \in 0 .. LogCap
    <3>1. logLen \in 0 .. LogCap /\ logLen' \in {logLen, LogLenAfter(logLen)}
      BY <1>7 DEF SettleOk, logReplication, TypeOK
    <3> QED
      BY <3>1, ConfigAssumption DEF LogLenAfter
  <2> QED
    BY <1>7, <2>1, GoroutineCall DEF SettleOk, updateReplicaSync, TypeOK
<1>8. ASSUME NEW c \in Callers, NEW a \in Addrs, SettleErr(c, a) PROVE TypeOK'
  <2>1. logLen' \in 0 .. LogCap
    <3>1. logLen \in 0 .. LogCap /\ logLen' \in {logLen, LogLenAfter(logLen)}
      BY <1>8 DEF SettleErr, logReplication, TypeOK
    <3> QED
      BY <3>1, ConfigAssumption DEF LogLenAfter
  <2>2. status' \in [Shards -> [Addrs -> {"none", "active", "failed"}]]
    <3>1. call[c].shard \in Shards
      BY <1>8, GoroutineCall DEF SettleErr
    <3>2. CASE FailureMarks(call[c].op)
      <4>1. markReplicaFailed(call[c].shard, a)
        BY <1>8, <3>2 DEF SettleErr
      <4> QED
        BY <3>1, <4>1 DEF markReplicaFailed, TypeOK
    <3>3. CASE ~FailureMarks(call[c].op)
      BY <1>8, <3>3 DEF SettleErr, TypeOK
    <3> QED
      BY <3>2, <3>3
  <2> QED
    BY <1>8, <2>1, <2>2 DEF SettleErr, TypeOK
<1>9. ASSUME NEW c \in Callers, Finish(c) PROVE TypeOK'
  <2>1. \A k \in Keys : settled[k] = c => call[c].vals[k] \in Values \cup {Absent}
    BY SendableValues DEF CallInv, InFlight
  <2>2. settled' \in [Keys -> Values \cup {Absent, Unknown} \cup Callers]
    BY <1>9, <2>1 DEF Finish, TypeOK
  <2> QED
    BY <1>9, <2>2 DEF Finish, TypeOK
<1>10. ASSUME NEW a \in Addrs, NEW k \in Keys, NEW v \in Sendable, LateWrite(a, k, v)
       PROVE  TypeOK'
  <2>1. stores' \in [Addrs -> [Shards -> [Keys -> Values \cup {Absent}]]]
    BY <1>10, AppliedType DEF LateWrite
  <2> QED
    BY <1>10, <2>1 DEF LateWrite, TypeOK
<1>11. ASSUME NEW s \in Shards, NEW a \in Promotable, PromoteReplica(s, a)
       PROVE  TypeOK'
  <2>1. RolesAfterPromote(s, a) \in [Addrs -> {"none", "primary", "secondary"}]
    BY DEF RolesAfterPromote, TypeOK
  <2>2. a \in Addrs
    BY ConfigAssumption
  <2>3. role' \in [Shards -> [Addrs -> {"none", "primary", "secondary"}]]
    BY <1>11, <2>1 DEF PromoteReplica, TypeOK
  <2>4. /\ primaryNodes' \in [Shards -> Addrs \cup {None}]
        /\ wasPrimary' \subseteq Shards \X Addrs
    BY <1>11, <2>2 DEF PromoteReplica, TypeOK
  <2> QED
    BY <1>11, <2>3, <2>4 DEF PromoteReplica, TypeOK
<1>12. CASE MonitorTick
  BY <1>12 DEF MonitorTick, TypeOK
<1>13. ASSUME NEW s \in Shards, NEW a \in Addrs, MonitorCheck(s, a) PROVE TypeOK'
  BY <1>13 DEF MonitorCheck, TypeOK
<1>14. CASE MonitorMark
  BY <1>14 DEF MonitorMark, markReplicaFailed, TypeOK
<1>15. CASE Close
  BY <1>15 DEF Close, TypeOK
<1>16. CASE TimePasses
  BY <1>16 DEF TimePasses, TypeOK
<1>17. ASSUME NEW a \in Addrs, Crash(a) \/ Recover(a) PROVE TypeOK'
  BY <1>17 DEF Crash, Recover, TypeOK
<1>18. CASE UNCHANGED vars
  BY <1>18 DEF TypeOK
<1> QED
  BY <1>1, <1>2, <1>3, <1>4, <1>5, <1>6, <1>7, <1>8, <1>9, <1>10, <1>11, <1>12,
     <1>13, <1>14, <1>15, <1>16, <1>17, <1>18, <1>61
     DEF Next, Replicate, CallStep, MonitorStep

-----------------------------------------------------------------------------
(***************************************************************************)
(* Replicas are never unregistered.                                         *)
(***************************************************************************)
LEMMA StaysRegistered ==
  ASSUME TypeOK, [Next]_vars, NEW x \in Shards, NEW y \in Addrs, Registered(x, y)
  PROVE  Registered(x, y)'
<1> USE DEF Registered
<1>1. CASE RegisterReplica
  <2>1. /\ reg[1] \in Shards /\ ReplicaAddresses[reg[2]] \in Addrs
        /\ role[reg[1]][ReplicaAddresses[reg[2]]] = "none"
    BY <1>1, LoopPosition DEF RegisterReplica
  <2> QED
    BY <1>1, <2>1 DEF RegisterReplica, TypeOK
<1>2. ASSUME NEW s \in Shards, NEW a \in Promotable, PromoteReplica(s, a)
      PROVE  role'[x][y] # "none"
  <2>1. RolesAfterPromote(s, a)[y] = "none" => role[s][y] = "none"
    BY DEF RolesAfterPromote
  <2>2. role'[x] = IF x = s THEN RolesAfterPromote(s, a) ELSE role[x]
    BY <1>2 DEF PromoteReplica, TypeOK
  <2> QED
    BY <2>1, <2>2
<1>3. CASE UNCHANGED role
  BY <1>3
<1>4. ASSUME NEW c \in Callers, Replicate(c) \/ CallStep(c) PROVE UNCHANGED role
  BY <1>4 DEF Replicate, Begin, CallStep, Spawn, CallOk, CallFails, SettleOk,
              SettleErr, Finish, repVars
<1>5. CASE MonitorStep
  BY <1>3, <1>5 DEF MonitorStep, MonitorTick, MonitorCheck, MonitorMark, repVars
<1> QED
  BY <1>1, <1>2, <1>3, <1>4, <1>5
     DEF Next, vars, repVars, LateWrite, Resend, RegisterRefused, Close, TimePasses, Crash,
         Recover

(***************************************************************************)
(* Steps outside the calls keep CallInv.                                    *)
(***************************************************************************)
LEMMA CallFrame ==
  ASSUME TypeOK, CallInv, [Next]_vars, UNCHANGED <<call, go, settled>>
  PROVE  CallInv'
<1>1. \A c \in Callers, a \in Addrs :
        go'[c][a] # "idle" => call'[c] # Idle /\ role'[call'[c].shard][a] # "none"
  BY GoroutineCall, StaysRegistered DEF CallInv, Registered
<1> QED
  BY <1>1 DEF CallInv, InFlight, FailureMarks, Registered

(***************************************************************************)
(* Every step keeps CallInv.                                                *)
(***************************************************************************)
LEMMA CallInvStep == TypeOK /\ CallInv /\ [Next]_vars => CallInv'
<1> SUFFICES ASSUME TypeOK, CallInv, [Next]_vars PROVE CallInv'
  OBVIOUS
<1> USE DEF vars, repVars, callVars, monVars, envVars
<1>1. ASSUME NEW c \in Callers, NEW op \in Ops, NEW s \in Shards,
             NEW m \in [Keys -> Values \cup {Absent, None}], Begin(c, op, s, m)
      PROVE  CallInv'
  <2> DEFINE new == [op |-> op, shard |-> s, vals |-> m]
  <2>1. /\ call[c] = Idle /\ UNCHANGED role
        /\ \A d \in Callers : call'[d] = IF d = c THEN new ELSE call[d]
        /\ \A d \in Callers, a \in Addrs : go'[d][a] =
             IF d # c THEN go[d][a]
             ELSE IF Registered(s, a) THEN "check" ELSE "idle"
        /\ \A k \in Keys : settled'[k] =
             IF m[k] \notin Sendable THEN settled[k]
             ELSE IF \E d \in Callers : InFlight(d, k) THEN Unknown ELSE c
    BY <1>1 DEF Begin, TypeOK
  <2>2. new # Idle
    BY DistinctAssumption DEF Ops
  <2>3. \A k \in Keys : /\ m[k] \in Values => FailureMarks(op)
                        /\ m[k] # None => ShardOf[k] = s
    BY <1>1, DistinctAssumption, ConfigAssumption
       DEF Begin, Takes, Contents, FailureMarks, Ops
  <2>4. \A d \in Callers, a \in Addrs : go'[d][a] # "idle" =>
          call'[d] # Idle /\ role'[call'[d].shard][a] # "none"
    BY <2>1, <2>2 DEF CallInv, Registered
  <2>5. \A d \in Callers, k \in Keys : call'[d] # Idle =>
          /\ call'[d].vals[k] \in Values => FailureMarks(call'[d].op)
          /\ call'[d].vals[k] # None => ShardOf[k] = call'[d].shard
    BY <2>1, <2>3 DEF CallInv, FailureMarks
  <2>6. ASSUME NEW d \in Callers, NEW k \in Keys
        PROVE  /\ InFlight(d, k)' => settled'[k] \in {d, Unknown}
               /\ settled'[k] = d => InFlight(d, k)'
    <3>1. InFlight(d, k)' <=> IF d = c THEN m[k] \in Sendable ELSE InFlight(d, k)
      BY <2>1, <2>2 DEF InFlight, Sendable
    <3>2. ~InFlight(c, k)
      BY <2>1 DEF InFlight
    <3>3. c # Unknown /\ d # Unknown
      BY DistinctAssumption
    <3> QED
      BY <2>1, <3>1, <3>2, <3>3 DEF CallInv
  <2> QED
    BY <2>4, <2>5, <2>6 DEF CallInv, Registered, FailureMarks
<1>2. ASSUME NEW c \in Callers, NEW a \in Addrs,
             \/ Spawn(c, a) \/ CallOk(c, a) \/ CallFails(c, a)
             \/ SettleOk(c, a) \/ SettleErr(c, a)
      PROVE  CallInv'
  <2>1. /\ UNCHANGED <<call, settled, role>>
        /\ go[c][a] # "idle"
        /\ \E g \in {"idle", "send", "ok", "err"} : go' = [go EXCEPT ![c][a] = g]
    BY <1>2 DEF Spawn, CallOk, CallFails, SettleOk, SettleErr
  <2>2. \A d \in Callers, b \in Addrs : go'[d][b] # "idle" => go[d][b] # "idle"
    BY <2>1 DEF TypeOK
  <2> QED
    BY <2>1, <2>2 DEF CallInv, InFlight, Registered, FailureMarks
<1>3. ASSUME NEW c \in Callers, Finish(c) PROVE CallInv'
  <2>1. /\ UNCHANGED <<go, role>> /\ \A a \in Addrs : go[c][a] = "idle"
        /\ \A d \in Callers : call'[d] = IF d = c THEN Idle ELSE call[d]
        /\ \A k \in Keys : settled'[k] = IF settled[k] = c THEN call[c].vals[k]
                                                           ELSE settled[k]
    BY <1>3 DEF Finish, TypeOK
  <2>2. \A k \in Keys : settled[k] = c => call[c].vals[k] \notin Callers
    BY DistinctAssumption, SendableValues DEF CallInv, InFlight
  <2>3. ASSUME NEW d \in Callers, NEW k \in Keys
        PROVE  /\ InFlight(d, k)' => settled'[k] \in {d, Unknown}
               /\ settled'[k] = d => InFlight(d, k)'
    <3>1. InFlight(d, k)' <=> d # c /\ InFlight(d, k)
      BY <2>1 DEF InFlight, Sendable
    <3>2. c # Unknown
      BY DistinctAssumption
    <3> QED
      BY <2>1, <2>2, <3>1, <3>2 DEF CallInv
  <2> QED
    BY <2>1, <2>3 DEF CallInv, Registered, FailureMarks
<1>4. CASE UNCHANGED <<call, go, settled>>
  BY <1>4, CallFrame
<1> QED
  BY <1>1, <1>2, <1>3, <1>4
     DEF Next, Replicate, CallStep, MonitorStep, RegisterReplica, RegisterRefused,
         LateWrite, Resend, PromoteReplica, MonitorTick, MonitorCheck, MonitorMark, Close,
         TimePasses, Crash, Recover

-----------------------------------------------------------------------------
(***************************************************************************)
(* What a write changes: the given keys of one database of one server.      *)
(***************************************************************************)
LEMMA AppliedAt ==
  ASSUME TypeOK, NEW a \in Addrs, adapters[a] # None, NEW K, NEW v,
         NEW b \in Addrs, NEW d \in Shards, NEW k \in Keys
  PROVE  Applied(a, K, v)[b][d][k] =
           IF b = a /\ d = adapters[a] /\ k \in K THEN v[k] ELSE stores[b][d][k]
BY DEF Applied, TypeOK

(***************************************************************************)
(* Every step keeps PrimaryRecorded: PromoteReplica demotes the replica     *)
(* primaryNodes names, which by the invariant is the only primary.          *)
(***************************************************************************)
LEMMA PrimaryStep ==
  TypeOK /\ RegistrationInv /\ PrimaryRecorded /\ [Next]_vars => PrimaryRecorded'
<1> SUFFICES ASSUME TypeOK, RegistrationInv, PrimaryRecorded, [Next]_vars
             PROVE  PrimaryRecorded'
  OBVIOUS
<1>1. CASE RegisterReplica
  <2> DEFINE s == reg[1]
             a == ReplicaAddresses[reg[2]]
  <2>1. s \in Shards /\ a \in Addrs
    BY <1>1, LoopPosition DEF RegisterReplica
  <2>2. reg[2] = 1 => \A b \in Addrs : role[s][b] = "none"
    BY <2>1 DEF RegistrationInv, Registered, Shards
  <2>3. \A x \in Shards, b \in Addrs :
          role'[x][b] = IF x = s /\ b = a THEN RoleAt(reg[2]) ELSE role[x][b]
    BY <1>1, <2>1 DEF RegisterReplica, TypeOK
  <2>4. \A x \in Shards : primaryNodes'[x] =
          IF x = s /\ RoleAt(reg[2]) = "primary" THEN a ELSE primaryNodes[x]
    BY <1>1, <2>1 DEF RegisterReplica, TypeOK
  <2> QED
    BY <2>2, <2>3, <2>4 DEF RoleAt, PrimaryRecorded
<1>2. ASSUME NEW s \in Shards, NEW a \in Promotable, PromoteReplica(s, a)
      PROVE  PrimaryRecorded'
  <2>1. \A b \in Addrs : RolesAfterPromote(s, a)[b] = "primary" => b = a
    BY DEF RolesAfterPromote, PrimaryRecorded, Registered
  <2>2. /\ \A x \in Shards : role'[x] = IF x = s THEN RolesAfterPromote(s, a)
                                                 ELSE role[x]
        /\ \A x \in Shards : primaryNodes'[x] = IF x = s THEN a ELSE primaryNodes[x]
    BY <1>2 DEF PromoteReplica, TypeOK
  <2> QED
    BY <2>1, <2>2 DEF PrimaryRecorded
<1>3. CASE UNCHANGED <<role, primaryNodes>>
  BY <1>3 DEF PrimaryRecorded
<1>4. ASSUME NEW c \in Callers, Replicate(c) \/ CallStep(c)
      PROVE  UNCHANGED <<role, primaryNodes>>
  BY <1>4 DEF Replicate, Begin, CallStep, Spawn, CallOk, CallFails, SettleOk,
              SettleErr, Finish, repVars
<1>5. CASE MonitorStep
  BY <1>3, <1>5 DEF MonitorStep, MonitorTick, MonitorCheck, MonitorMark, repVars
<1> QED
  BY <1>1, <1>2, <1>3, <1>4, <1>5
     DEF Next, vars, repVars, LateWrite, Resend, RegisterRefused, Close, TimePasses, Crash,
         Recover

(***************************************************************************)
(* Every step keeps RegistrationInv.                                        *)
(***************************************************************************)
LEMMA RegistrationStep ==
  TypeOK /\ CallInv /\ RegistrationInv /\ [Next]_vars => RegistrationInv'
<1> SUFFICES ASSUME TypeOK, CallInv, RegistrationInv, [Next]_vars
             PROVE  RegistrationInv'
  OBVIOUS
<1> USE DEF vars, repVars, callVars, monVars, envVars
<1>1. CASE RegisterReplica
  <2> DEFINE s == reg[1]
             a == ReplicaAddresses[reg[2]]
  <2>1. /\ s \in Shards /\ a \in Addrs /\ ~Serving
        /\ reg'[1] \in 0 .. ShardCount
        /\ reg'[1] > s \/ (reg'[1] = s /\ reg'[2] > 1)
    BY <1>1, LoopPosition DEF RegisterReplica
  <2>2. /\ \A b \in Addrs : adapters'[b] = IF b = a THEN s ELSE adapters[b]
        /\ \A x \in Shards, b \in Addrs :
             role'[x][b] = IF x = s /\ b = a THEN RoleAt(reg[2]) ELSE role[x][b]
        /\ UNCHANGED callVars
    BY <1>1, <2>1 DEF RegisterReplica, TypeOK
  <2>3. /\ \A c \in Callers : call[c] = Idle
        /\ \A b \in Addrs, d \in Shards, k \in Keys : stores[b][d][k] = Absent
        /\ \A k \in Keys : settled[k] \notin Values
        /\ unresolved = {}
    BY <2>1 DEF RegistrationInv
  <2>4. ASSUME NEW x \in Shards, NEW b \in Addrs, Registered(x, b)'
        PROVE  /\ adapters'[b] \in Shards /\ x <= adapters'[b]
               /\ x < reg'[1] \/ (x = reg'[1] /\ reg'[2] > 1)
    <3>1. x <= s
      <4>1. CASE x = s
        BY <4>1, <2>1 DEF Shards
      <4>2. CASE x # s
        BY <4>2, <2>1, <2>2, <2>4, ConfigAssumption
           DEF Registered, RegistrationInv, Shards
      <4> QED
        BY <4>1, <4>2
    <3>2. x < reg'[1] \/ (x = reg'[1] /\ reg'[2] > 1)
      BY <2>1, <3>1, ConfigAssumption DEF Shards
    <3>3. adapters'[b] \in Shards /\ x <= adapters'[b]
      <4>1. CASE b = a
        BY <4>1, <2>1, <2>2, <3>1
      <4>2. CASE b # a
        BY <4>2, <2>2, <2>4 DEF Registered, RegistrationInv
      <4> QED
        BY <4>1, <4>2
    <3> QED
      BY <3>2, <3>3
  <2> QED
    BY <2>2, <2>3, <2>4 DEF RegistrationInv
<1>2. CASE RegisterRefused
  <2>1. /\ reg[1] \in Shards /\ reg'[1] \in 0 .. ShardCount
        /\ reg'[1] > reg[1] \/ (reg'[1] = reg[1] /\ reg'[2] > 1)
        /\ ~Serving /\ UNCHANGED <<role, adapters, callVars>>
    BY <1>2, LoopPosition DEF RegisterRefused
  <2>2. \A x \in Shards : x <= reg[1] => x < reg'[1] \/ (x = reg'[1] /\ reg'[2] > 1)
    BY <2>1, ConfigAssumption DEF Shards
  <2>3. ASSUME NEW x \in Shards, NEW b \in Addrs, Registered(x, b)'
        PROVE  /\ adapters'[b] \in Shards /\ x <= adapters'[b]
               /\ x < reg'[1] \/ (x = reg'[1] /\ reg'[2] > 1)
    <3>1. Registered(x, b)
      BY <2>1, <2>3 DEF Registered
    <3>2. x <= reg[1]
      BY <2>1, <3>1, ConfigAssumption DEF RegistrationInv, Shards
    <3> QED
      BY <2>1, <2>2, <3>1, <3>2 DEF RegistrationInv
  <2>4. /\ \A c \in Callers : call[c] = Idle
        /\ \A b \in Addrs, d \in Shards, k \in Keys : stores[b][d][k] = Absent
        /\ \A k \in Keys : settled[k] \notin Values
        /\ unresolved = {}
    BY <2>1 DEF RegistrationInv
  <2> QED
    BY <2>1, <2>3, <2>4 DEF RegistrationInv, callVars
<1>3. ASSUME NEW c \in Callers, NEW op \in Ops, NEW s \in Shards, NEW m,
             Begin(c, op, s, m)
      PROVE  RegistrationInv'
  BY <1>3, DistinctAssumption
     DEF Begin, AcceptsCalls, RegistrationInv, Registered, Serving, TypeOK
<1>4. ASSUME NEW a \in Addrs, adapters[a] # None, NEW K, NEW v,
             stores' = Applied(a, K, v), Serving,
             UNCHANGED <<repVars, call, settled>>
      PROVE  RegistrationInv'
  <2>1. adapters[a] \in Shards
    BY <1>4 DEF TypeOK
  <2>2. \A b \in Addrs, d \in Shards, k \in Keys : stores'[b][d][k] =
          IF b = a /\ d = adapters[a] /\ k \in K THEN v[k] ELSE stores[b][d][k]
    BY <1>4, AppliedAt
  <2> QED
    BY <1>4, <2>1, <2>2 DEF RegistrationInv, Registered, Serving
<1>5. ASSUME NEW c \in Callers, NEW a \in Addrs,
             CallOk(c, a) \/ CallFails(c, a) \/ Resend(c, a)
      PROVE  RegistrationInv'
  <2>1. Serving
    BY <1>5, GoroutineCall DEF CallOk, CallFails, Resend, CallInv, RegistrationInv
  <2> QED
    BY <1>4, <1>5, <2>1 DEF CallOk, CallFails, Resend
<1>6. ASSUME NEW a \in Addrs, NEW k \in Keys, NEW v \in Sendable, LateWrite(a, k, v)
      PROVE  RegistrationInv'
  <2>1. CASE Serving
    BY <1>4, <1>6, <2>1 DEF LateWrite
  <2>2. CASE ~Serving
    BY <1>6, <2>2 DEF LateWrite, RegistrationInv
  <2> QED
    BY <2>1, <2>2
<1>7. ASSUME NEW c \in Callers, Finish(c) PROVE RegistrationInv'
  BY <1>7 DEF Finish, RegistrationInv, Registered, Serving, TypeOK
<1>8. ASSUME NEW s \in Shards, NEW a \in Promotable, PromoteReplica(s, a)
      PROVE  RegistrationInv'
  <2>1. \A x \in Shards, b \in Addrs : Registered(x, b)' => Registered(x, b)
    BY <1>8, ConfigAssumption DEF PromoteReplica, RolesAfterPromote, Registered, TypeOK
  <2> QED
    BY <1>8, <2>1 DEF PromoteReplica, RegistrationInv, Serving
<1>9. CASE UNCHANGED <<role, adapters, reg, call, stores, settled, unresolved>>
  BY <1>9 DEF RegistrationInv, Registered, Serving
<1> QED
  BY <1>1, <1>2, <1>3, <1>5, <1>6, <1>7, <1>8, <1>9
     DEF Next, Replicate, CallStep, Spawn, SettleOk, SettleErr, MonitorStep,
         MonitorTick, MonitorCheck, MonitorMark, Close, TimePasses, Crash, Recover

-----------------------------------------------------------------------------
(***************************************************************************)
(* Once calls are accepted, no step makes a replica reliable that was not,  *)
(* and no step changes an adapter: a failed replica stays failed, a former  *)
(* primary stays one, and registration is over.                             *)
(***************************************************************************)
LEMMA ReliableStep ==
  ASSUME TypeOK, CallInv, [Next]_vars, Serving, NEW x \in Shards, NEW y \in Addrs
  PROVE  UNCHANGED adapters /\ (Reliable(x, y)' => Reliable(x, y))
<1> USE DEF Reliable, Registered
<1>1. ~RegisterReplica /\ ~RegisterRefused
  BY DEF RegisterReplica, RegisterRefused
<1>2. ASSUME UNCHANGED <<role, adapters, wasPrimary>>, NEW s \in Shards, NEW a \in Addrs,
             status' = [status EXCEPT ![s][a] = "failed"]
      PROVE  UNCHANGED adapters /\ (Reliable(x, y)' => Reliable(x, y))
  BY <1>2 DEF TypeOK
<1>3. CASE UNCHANGED <<role, status, adapters, wasPrimary>>
  BY <1>3
<1>4. ASSUME NEW c \in Callers, NEW a \in Addrs, SettleErr(c, a)
      PROVE  UNCHANGED adapters /\ (Reliable(x, y)' => Reliable(x, y))
  <2>1. call[c].shard \in Shards
    BY <1>4, GoroutineCall DEF SettleErr
  <2>2. UNCHANGED <<role, adapters, wasPrimary>>
    BY <1>4 DEF SettleErr
  <2>3. CASE FailureMarks(call[c].op)
    <3>1. markReplicaFailed(call[c].shard, a)
      BY <1>4, <2>3 DEF SettleErr
    <3> QED
      BY <1>2, <2>1, <2>2, <3>1 DEF markReplicaFailed
  <2>4. CASE ~FailureMarks(call[c].op)
    BY <1>3, <1>4, <2>2, <2>4 DEF SettleErr
  <2> QED
    BY <2>3, <2>4
<1>5. CASE MonitorMark
  <2>1. /\ doomed[1] \in Shards /\ doomed[2] \in Addrs
        /\ UNCHANGED <<role, adapters, wasPrimary>>
    BY <1>5 DEF MonitorMark, TypeOK
  <2>2. markReplicaFailed(doomed[1], doomed[2])
    BY <1>5 DEF MonitorMark
  <2> QED
    BY <1>2, <2>1, <2>2 DEF markReplicaFailed
<1>6. ASSUME NEW s \in Shards, NEW a \in Promotable, PromoteReplica(s, a)
      PROVE  UNCHANGED adapters /\ (Reliable(x, y)' => Reliable(x, y))
  <2>1. role'[x] = IF x = s THEN RolesAfterPromote(s, a) ELSE role[x]
    BY <1>6 DEF PromoteReplica, TypeOK
  <2>2. RolesAfterPromote(s, a)[y] # "none" => role[s][y] # "none"
    BY DEF RolesAfterPromote
  <2> QED
    BY <1>6, <2>1, <2>2 DEF PromoteReplica
<1>7. ASSUME NEW c \in Callers, Replicate(c) \/ Finish(c)
      PROVE  UNCHANGED <<role, status, adapters, wasPrimary>>
  BY <1>7 DEF Replicate, Begin, Finish, repVars
<1>8. ASSUME NEW c \in Callers, NEW a \in Addrs,
             Spawn(c, a) \/ CallOk(c, a) \/ CallFails(c, a) \/ SettleOk(c, a)
      PROVE  UNCHANGED <<role, status, adapters, wasPrimary>>
  BY <1>8 DEF Spawn, CallOk, CallFails, SettleOk, repVars
<1> QED
  BY <1>1, <1>3, <1>4, <1>5, <1>6, <1>7, <1>8
     DEF Next, vars, repVars, CallStep, LateWrite, Resend, MonitorStep, MonitorTick,
         MonitorCheck, Close, TimePasses, Crash, Recover

(***************************************************************************)
(* The part of the invariant that follows a write to its replicas.          *)
(***************************************************************************)
Delivery == DeliveryInv /\ ActiveSecondaryHasWrites

(***************************************************************************)
(* A recorded primary stays recorded.                                       *)
(***************************************************************************)
LEMMA PrimaryWasStep ==
  ASSUME TypeOK, DeliveryInv, [Next]_vars
  PROVE  \A s \in Shards, a \in Addrs :
           role'[s][a] = "primary" => <<s, a>> \in wasPrimary'
<1>1. CASE RegisterReplica
  <2>1. reg[1] \in Shards /\ ReplicaAddresses[reg[2]] \in Addrs
    BY <1>1, LoopPosition DEF RegisterReplica
  <2> QED
    BY <1>1, <2>1 DEF RegisterReplica, TypeOK, DeliveryInv
<1>2. ASSUME NEW s \in Shards, NEW a \in Promotable, PromoteReplica(s, a)
      PROVE  \A x \in Shards, b \in Addrs :
               role'[x][b] = "primary" => <<x, b>> \in wasPrimary'
  <2>1. \A x \in Shards : role'[x] = IF x = s THEN RolesAfterPromote(s, a)
                                              ELSE role[x]
    BY <1>2 DEF PromoteReplica, TypeOK
  <2>2. \A b \in Addrs : RolesAfterPromote(s, a)[b] = "primary" =>
                           b = a \/ role[s][b] = "primary"
    BY DEF RolesAfterPromote
  <2> QED
    BY <1>2, <2>1, <2>2 DEF PromoteReplica, DeliveryInv
<1>3. CASE UNCHANGED <<role, wasPrimary>>
  BY <1>3 DEF DeliveryInv
<1>4. ASSUME NEW c \in Callers, Replicate(c) \/ CallStep(c)
      PROVE  UNCHANGED <<role, wasPrimary>>
  BY <1>4 DEF Replicate, Begin, CallStep, Spawn, CallOk, CallFails, SettleOk,
              SettleErr, Finish, repVars
<1>5. CASE MonitorStep
  BY <1>3, <1>5 DEF MonitorStep, MonitorTick, MonitorCheck, MonitorMark, repVars
<1> QED
  BY <1>1, <1>2, <1>3, <1>4, <1>5
     DEF Next, vars, repVars, LateWrite, Resend, RegisterRefused, Close, TimePasses, Crash,
         Recover

(***************************************************************************)
(* Every step keeps Delivery.                                               *)
(***************************************************************************)
LEMMA DeliveryStep ==
  TypeOK /\ CallInv /\ RegistrationInv /\ Delivery /\ [Next]_vars => Delivery'
<1> SUFFICES ASSUME TypeOK, CallInv, RegistrationInv, Delivery, [Next]_vars
             PROVE  Delivery'
  OBVIOUS
<1> DEFINE
     Sent(c, k, a) ==
       /\ InFlight(c, k) /\ settled[k] = c /\ call[c].vals[k] \in Values
       /\ go[c][a] \in {"idle", "ok"}
       /\ Reliable(ShardOf[k], a)
     Kept(k, a) == settled[k] \in Values /\ Reliable(ShardOf[k], a)
     Holds(v, k, a) == stores[a][adapters[a]][k] \in {v} \cup LateValues(a, k)
<1> SUFFICES ASSUME NEW k \in Keys, NEW a \in Addrs
             PROVE  /\ \A c \in Callers :
                         Sent(c, k, a)' => Holds(call[c].vals[k], k, a)'
                    /\ Kept(k, a)' => Holds(settled[k], k, a)'
  BY PrimaryWasStep DEF Delivery, DeliveryInv, ActiveSecondaryHasWrites
<1> USE DEF vars, repVars, callVars, monVars, envVars
<1>1. ShardOf[k] \in Shards
  BY ConfigAssumption
<1>2. /\ \A c \in Callers : Sent(c, k, a) => Holds(call[c].vals[k], k, a)
      /\ Kept(k, a) => Holds(settled[k], k, a)
  BY DEF Delivery, DeliveryInv, ActiveSecondaryHasWrites
<1>3. CASE ~Serving
  <2>1. /\ \A c \in Callers : call[c] = Idle
        /\ settled[k] \notin Values
    BY <1>3 DEF RegistrationInv
  <2>2. ASSUME NEW c \in Callers PROVE ~Replicate(c) /\ ~CallStep(c)
    <3>1. ~Replicate(c)
      BY <1>3 DEF Replicate, Begin, AcceptsCalls
    <3>2. \A b \in Addrs : go[c][b] = "idle"
      BY <2>1 DEF CallInv
    <3> QED
      BY <2>1, <3>1, <3>2
         DEF CallStep, Spawn, CallOk, CallFails, SettleOk, SettleErr, Finish
  <2>3. UNCHANGED <<call, settled>>
    BY <2>2 DEF Next, RegisterReplica, RegisterRefused, LateWrite, Resend, PromoteReplica,
                MonitorStep, MonitorTick, MonitorCheck, MonitorMark, Close,
                TimePasses, Crash, Recover
  <2> QED
    BY <2>1, <2>3 DEF InFlight
<1>4. CASE Serving
  <2>1. UNCHANGED adapters /\ (Reliable(ShardOf[k], a)' => Reliable(ShardOf[k], a))
    BY <1>1, <1>4, ReliableStep
  <2>2. Reliable(ShardOf[k], a) => adapters[a] \in Shards
    BY <1>1 DEF RegistrationInv, Reliable
  <2>3. ASSUME NEW c \in Callers, InFlight(c, k)
        PROVE  /\ settled[k] \notin Values
               /\ \A d \in Callers : settled[k] = d => d = c
    BY <2>3, DistinctAssumption DEF CallInv
  <2>4. CASE UNCHANGED <<call, go, stores, settled, unresolved>>
    BY <1>2, <2>1, <2>4 DEF InFlight, LateValues
  <2>5. ASSUME NEW c \in Callers, NEW op \in Ops, NEW s \in Shards,
               NEW m \in [Keys -> Values \cup {Absent, None}], Begin(c, op, s, m)
        PROVE  /\ \A d \in Callers :
                    Sent(d, k, a)' => Holds(call[d].vals[k], k, a)'
               /\ Kept(k, a)' => Holds(settled[k], k, a)'
    <3> DEFINE new == [op |-> op, shard |-> s, vals |-> m]
    <3>1. /\ call[c] = Idle /\ UNCHANGED <<stores, unresolved>>
          /\ \A d \in Callers : call'[d] = IF d = c THEN new ELSE call[d]
          /\ \A d \in Callers : go'[d][a] =
               IF d # c THEN go[d][a]
               ELSE IF Registered(s, a) THEN "check" ELSE "idle"
          /\ settled'[k] =
               IF m[k] \notin Sendable THEN settled[k]
               ELSE IF \E d \in Callers : InFlight(d, k) THEN Unknown ELSE c
      BY <2>5 DEF Begin, TypeOK
    <3>2. CASE m[k] \notin Sendable
      BY <1>2, <2>1, <3>1, <3>2 DEF InFlight, LateValues
    <3>3. CASE m[k] \in Sendable
      <4>0. m[k] # None
        BY <3>3, SendableValues, DistinctAssumption
      <4>1. settled'[k] \in {Unknown, c} /\ ShardOf[k] = s
        BY <2>5, <3>1, <3>3, <4>0 DEF Begin, Takes
      <4>2. \A d \in Callers : d # Unknown /\ d \notin Values
        BY DistinctAssumption
      <4>3. Unknown \notin Values
        BY DistinctAssumption
      <4>4. Reliable(ShardOf[k], a)' => go'[c][a] = "check"
        BY <2>1, <3>1, <4>1 DEF Reliable
      <4> QED
        BY <4>1, <4>2, <4>3, <4>4
    <3> QED
      BY <3>2, <3>3
  <2>6. ASSUME NEW c \in Callers, NEW b \in Addrs, Spawn(c, b)
        PROVE  /\ \A d \in Callers :
                    Sent(d, k, a)' => Holds(call[d].vals[k], k, a)'
               /\ Kept(k, a)' => Holds(settled[k], k, a)'
    <3>1. /\ UNCHANGED <<call, stores, settled, unresolved, role, status, wasPrimary>>
          /\ go[c][b] = "check"
          /\ \A d \in Callers : go'[d][a] =
               IF d = c /\ a = b
               THEN IF Selected(call[c].shard, b) THEN "send" ELSE "idle"
               ELSE go[d][a]
      BY <2>6 DEF Spawn, TypeOK
    <3>2. InFlight(c, k) => ShardOf[k] = call[c].shard
      BY SendableValues, DistinctAssumption DEF InFlight, CallInv
    <3>3. Reliable(ShardOf[k], a) => Selected(ShardOf[k], a)
      BY <1>1 DEF Reliable, Selected, Delivery, DeliveryInv
    <3>4. \A d \in Callers : Sent(d, k, a)' => Sent(d, k, a)
      BY <2>1, <3>1, <3>2, <3>3 DEF InFlight
    <3> QED
      BY <1>2, <2>1, <3>1, <3>4 DEF LateValues
  <2>7. ASSUME NEW c \in Callers, NEW b \in Addrs,
               CallOk(c, b) \/ CallFails(c, b) \/ Resend(c, b)
        PROVE  /\ \A d \in Callers :
                    Sent(d, k, a)' => Holds(call[d].vals[k], k, a)'
               /\ Kept(k, a)' => Holds(settled[k], k, a)'
    <3>1. /\ UNCHANGED <<call, settled>> /\ unresolved \subseteq unresolved'
          /\ go[c][b] = "send" /\ adapters[b] # None
      BY <2>7 DEF CallOk, CallFails, Resend
    <3>2. PICK K \in SUBSET Written(c), g \in {"ok", "err", "send"} :
            /\ stores' = Applied(b, K, call[c].vals)
            /\ go'[c][b] = g
            /\ \A d \in Callers : d # c \/ a # b => go'[d][a] = go[d][a]
            /\ g = "ok" => K = Written(c)
      <4>1. CASE CallOk(c, b)
        <5>1. go'[c][b] = "ok" /\ \A d \in Callers : d # c \/ a # b => go'[d][a] = go[d][a]
          BY <4>1 DEF CallOk, TypeOK
        <5> QED
          BY <4>1, <5>1 DEF CallOk
      <4>2. CASE CallFails(c, b)
        <5>1. go'[c][b] = "err" /\ \A d \in Callers : d # c \/ a # b => go'[d][a] = go[d][a]
          BY <4>2 DEF CallFails, TypeOK
        <5> QED
          BY <4>2, <5>1 DEF CallFails
      <4>3. CASE Resend(c, b)
        BY <4>3 DEF Resend
      <4> QED
        BY <2>7, <4>1, <4>2, <4>3
    <3>3. call[c] # Idle
      BY <3>1 DEF CallInv
    <3>4. Reliable(ShardOf[k], a) =>
            stores'[a][adapters[a]][k] =
              IF a = b /\ k \in K THEN call[c].vals[k] ELSE stores[a][adapters[a]][k]
      BY <2>2, <3>1, <3>2, AppliedAt
    <3>5. k \in K => InFlight(c, k)
      BY <3>2, WrittenValues
    <3>6. \A d \in Callers : go'[d][a] = IF d = c /\ a = b THEN g ELSE go[d][a]
      BY <3>2
    <3>61. LateValues(a, k) \subseteq LateValues(a, k)'
      BY <3>1 DEF LateValues
    <3>7. Kept(k, a)' => Holds(settled[k], k, a)'
      BY <1>2, <2>1, <2>3, <3>1, <3>4, <3>5, <3>61
    <3>8. ASSUME NEW d \in Callers, Sent(d, k, a)'
          PROVE  Holds(call[d].vals[k], k, a)'
      <4>1. InFlight(d, k) /\ settled[k] = d /\ Reliable(ShardOf[k], a)
        BY <2>1, <3>1, <3>8 DEF InFlight
      <4>2. CASE a = b /\ d = c
        <5>1. g = "ok" /\ k \in K
          BY <3>2, <3>6, <3>8, <4>1, <4>2, WrittenValues
        <5> QED
          BY <2>1, <3>1, <3>4, <4>1, <4>2, <5>1
      <4>3. CASE ~(a = b /\ d = c)
        <5>1. Sent(d, k, a)
          BY <3>1, <3>6, <3>8, <4>1, <4>3
        <5>2. ~(a = b /\ k \in K)
          BY <2>3, <3>5, <4>1, <4>3
        <5> QED
          BY <1>2, <2>1, <3>1, <3>4, <3>61, <4>1, <5>1, <5>2
      <4> QED
        BY <4>2, <4>3
    <3> QED
      BY <3>7, <3>8
  <2>8. ASSUME NEW c \in Callers, NEW b \in Addrs, SettleOk(c, b)
        PROVE  /\ \A d \in Callers :
                    Sent(d, k, a)' => Holds(call[d].vals[k], k, a)'
               /\ Kept(k, a)' => Holds(settled[k], k, a)'
    <3>1. /\ UNCHANGED <<call, stores, settled, unresolved>>
          /\ go[c][b] = "ok"
          /\ \A d \in Callers :
               go'[d][a] = IF d = c /\ a = b THEN "idle" ELSE go[d][a]
      BY <2>8 DEF SettleOk, TypeOK
    <3>2. \A d \in Callers : Sent(d, k, a)' => Sent(d, k, a)
      BY <2>1, <3>1 DEF InFlight
    <3> QED
      BY <1>2, <2>1, <3>1, <3>2 DEF LateValues
  <2>9. ASSUME NEW c \in Callers, NEW b \in Addrs, SettleErr(c, b)
        PROVE  /\ \A d \in Callers :
                    Sent(d, k, a)' => Holds(call[d].vals[k], k, a)'
               /\ Kept(k, a)' => Holds(settled[k], k, a)'
    <3>1. /\ UNCHANGED <<call, stores, settled, unresolved>>
          /\ go[c][b] = "err"
          /\ \A d \in Callers :
               go'[d][a] = IF d = c /\ a = b THEN "idle" ELSE go[d][a]
      BY <2>9 DEF SettleErr, TypeOK
    <3>2. ASSUME a = b, Sent(c, k, a)' PROVE FALSE
      <4>1. call[c].vals[k] \in Values /\ call[c] # Idle
        BY <3>1, <3>2 DEF InFlight
      <4>2. FailureMarks(call[c].op) /\ ShardOf[k] = call[c].shard
        BY <4>1, DistinctAssumption DEF CallInv
      <4>3. markReplicaFailed(call[c].shard, b)
        BY <2>9, <4>2 DEF SettleErr
      <4>4. status'[ShardOf[k]][a] = "failed"
        BY <1>1, <3>2, <4>2, <4>3 DEF markReplicaFailed, TypeOK
      <4> QED
        BY <3>2, <4>4 DEF Reliable
    <3>3. \A d \in Callers : Sent(d, k, a)' => Sent(d, k, a)
      BY <2>1, <3>1, <3>2 DEF InFlight
    <3> QED
      BY <1>2, <2>1, <3>1, <3>3 DEF LateValues
  <2>10. ASSUME NEW c \in Callers, Finish(c)
        PROVE  /\ \A d \in Callers :
                    Sent(d, k, a)' => Holds(call[d].vals[k], k, a)'
               /\ Kept(k, a)' => Holds(settled[k], k, a)'
    <3>1. /\ UNCHANGED <<go, stores, unresolved>> /\ call[c] # Idle
          /\ go[c][a] = "idle"
          /\ \A d \in Callers : call'[d] = IF d = c THEN Idle ELSE call[d]
          /\ settled'[k] = IF settled[k] = c THEN call[c].vals[k] ELSE settled[k]
      BY <2>10 DEF Finish, TypeOK
    <3>2. settled[k] = c => InFlight(c, k)
      BY DEF CallInv
    <3>3. settled[k] = c => call[c].vals[k] \notin Callers
      BY <3>2, DistinctAssumption, SendableValues DEF InFlight
    <3>4. ASSUME NEW d \in Callers, Sent(d, k, a)' PROVE Sent(d, k, a) /\ d # c
      BY <2>1, <3>1, <3>3, <3>4 DEF InFlight
    <3>5. ASSUME Kept(k, a)' PROVE Holds(settled[k], k, a)'
      <4>1. CASE settled[k] = c
        BY <1>2, <2>1, <3>1, <3>2, <3>5, <4>1 DEF LateValues
      <4>2. CASE settled[k] # c
        BY <1>2, <2>1, <3>1, <3>5, <4>2 DEF LateValues
      <4> QED
        BY <4>1, <4>2
    <3> QED
      BY <1>2, <2>1, <3>1, <3>4, <3>5 DEF LateValues
  <2>11. ASSUME NEW b \in Addrs, NEW l \in Keys, NEW v \in Sendable, LateWrite(b, l, v)
        PROVE  /\ \A d \in Callers :
                    Sent(d, k, a)' => Holds(call[d].vals[k], k, a)'
               /\ Kept(k, a)' => Holds(settled[k], k, a)'
    <3>1. /\ UNCHANGED <<call, go, settled, unresolved>> /\ <<b, l, v>> \in unresolved
          /\ adapters[b] # None /\ stores' = Applied(b, {l}, [i \in Keys |-> v])
      BY <2>11 DEF LateWrite
    <3>2. Reliable(ShardOf[k], a) =>
            \/ stores'[a][adapters[a]][k] = stores[a][adapters[a]][k]
            \/ stores'[a][adapters[a]][k] \in LateValues(a, k)
      <4>1. Reliable(ShardOf[k], a) =>
              stores'[a][adapters[a]][k] =
                IF a = b /\ k \in {l} THEN [i \in Keys |-> v][k]
                                      ELSE stores[a][adapters[a]][k]
        BY <2>2, <3>1, AppliedAt
      <4> QED
        BY <3>1, <4>1 DEF LateValues
    <3>3. LateValues(a, k)' = LateValues(a, k)
      BY <3>1 DEF LateValues
    <3> QED
      BY <1>2, <2>1, <3>1, <3>2, <3>3 DEF InFlight
  <2>12. ASSUME NEW c \in Callers, Replicate(c) \/ CallStep(c)
        PROVE  /\ \A d \in Callers :
                    Sent(d, k, a)' => Holds(call[d].vals[k], k, a)'
               /\ Kept(k, a)' => Holds(settled[k], k, a)'
    BY <2>5, <2>6, <2>7, <2>8, <2>9, <2>10, <2>12 DEF Replicate, CallStep
  <2>13. ~RegisterReplica /\ ~RegisterRefused
    BY <1>4 DEF RegisterReplica, RegisterRefused
  <2> HIDE DEF Sent, Kept, Holds
  <2> QED
    BY <2>4, <2>7, <2>11, <2>12, <2>13
       DEF Next, PromoteReplica, MonitorStep, MonitorTick, MonitorCheck, MonitorMark,
           Close, TimePasses, Crash, Recover
<1> QED
  BY <1>3, <1>4

-----------------------------------------------------------------------------
(***************************************************************************)
(* The invariant holds initially and every step keeps it.                   *)
(***************************************************************************)
LEMMA InitInvariant == Init => IInv
<1> SUFFICES ASSUME Init PROVE IInv
  OBVIOUS
<1>1. Len(ReplicaAddresses) \in Nat \ {0}
  BY ConfigAssumption
<1>2. TypeOK
  <2>1. /\ logLen \in 0 .. LogCap
        /\ reg \in (0 .. ShardCount) \X (1 .. Len(ReplicaAddresses))
    BY <1>1, ConfigAssumption DEF Init
  <2>2. stores \in [Addrs -> [Shards -> [Keys -> Values \cup {Absent}]]]
    BY DEF Init
  <2>3. /\ role \in [Shards -> [Addrs -> {"none", "primary", "secondary"}]]
        /\ status \in [Shards -> [Addrs -> {"none", "active", "failed"}]]
        /\ lastSync \in [Shards -> [Addrs -> Nat]]
    BY DEF Init
  <2>4. /\ call \in [Callers -> Calls \cup {Idle}]
        /\ go \in [Callers -> [Addrs -> {"idle", "check", "send", "ok", "err"}]]
    BY DEF Init
  <2> QED
    BY <2>1, <2>2, <2>3, <2>4 DEF Init, TypeOK
<1>3. RegistrationInv
  BY ConfigAssumption, DistinctAssumption DEF Init, RegistrationInv, Registered
<1>4. CallInv
  BY DistinctAssumption DEF Init, CallInv, InFlight
<1>5. DeliveryInv
  BY DEF Init, DeliveryInv, InFlight
<1>6. PrimaryRecorded /\ ActiveSecondaryHasWrites
  BY DistinctAssumption DEF Init, PrimaryRecorded, ActiveSecondaryHasWrites
<1> QED
  BY <1>2, <1>3, <1>4, <1>5, <1>6 DEF IInv

(***************************************************************************)
(* Every step of the manager, of a delivery goroutine, of the lag ticker or *)
(* of a worker preserves the inductive invariant.                           *)
(***************************************************************************)
LEMMA StepInvariant == IInv /\ [Next]_vars => IInv'
BY TypeStep, CallInvStep, RegistrationStep, PrimaryStep, DeliveryStep
   DEF IInv, Delivery

(***************************************************************************)
(* The inductive invariant holds in every reachable state.                  *)
(***************************************************************************)
LEMMA Invariant == Spec => []IInv
BY InitInvariant, StepInvariant, PTL DEF Spec

(***************************************************************************)
(* The manager's state is well-typed and the replication log never holds    *)
(* more than LogCap entries.                                                *)
(***************************************************************************)
THEOREM TypeCorrect == Spec => []TypeOK
BY Invariant, PTL DEF IInv

(***************************************************************************)
(* No shard ever has a primary other than the one primaryNodes names, hence *)
(* never two (RegisterReplica, PromoteReplica).                             *)
(***************************************************************************)
THEOREM PrimaryIsRecorded == Spec => []PrimaryRecorded
BY Invariant, PTL DEF IInv

(***************************************************************************)
(* Everything an address receives lands in the database of the last shard   *)
(* it serves (m.adapters keyed by address).                                 *)
(***************************************************************************)
THEOREM DataInOneDatabase == Spec => []ReplicaDataInOneDatabase
<1>1. IInv => ReplicaDataInOneDatabase
  BY DEF IInv, RegistrationInv, ReplicaDataInOneDatabase
<1> QED
  BY <1>1, Invariant, PTL

(***************************************************************************)
(* An active replica that has always been a secondary holds every settled   *)
(* write that could be encoded, or one the server executed late, whatever   *)
(* failed, was sent twice, promoted, marked or closed meanwhile             *)
(* (ReplicateInsert, ReplicateBatch, BatchStoreVectors, markReplicaFailed). *)
(***************************************************************************)
THEOREM SecondariesHoldWrites == Spec => []ActiveSecondaryHasWrites
BY Invariant, PTL DEF IInv
=============================================================================
