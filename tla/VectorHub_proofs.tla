-------------------------- MODULE VectorHub_proofs --------------------------
(***************************************************************************)
(* Proofs, for any number of calls and shards, that the server keeps what   *)
(* RpcPromise promises, and of the safety invariants of VectorHub.          *)
(***************************************************************************)
EXTENDS VectorHub, TLAPS

-----------------------------------------------------------------------------
(***************************************************************************)
(* The inductive invariant.                                                 *)
(*                                                                         *)
(* ProcessInv: nothing runs in a process that has not come to serving, and  *)
(* the managers know nothing before it.                                     *)
(***************************************************************************)
ProcessInv ==
  /\ main \notin Exposed => probe = "idle" /\ \A c \in Calls : ~Handling(c)
  /\ main \notin Running => active = {} /\ secondaries = {} /\ failed = {}
  /\ "shards" \in closed => main \in {"closingReplicas", "exiting"}
  /\ main \in {"closing", "closingReplicas", "exiting"} => grpc \in Stopping
  /\ grpc = "stopped" => \A c \in Calls : ~Handling(c)

(***************************************************************************)
(* CallInv: a request, its handler or its reply exists only for a call that *)
(* is pending or given up, it had no handler while it waited, and its place *)
(* tells whether it has taken effect.                                       *)
(***************************************************************************)
CallInv ==
  \A c \in Calls :
    /\ at[c] # "none" => told[c] \in {"pending", "error"} /\ shard[c] \in Shards
    /\ told[c] = "idle" => handled[c] = 0
    /\ told[c] = "ok" /\ kind[c] \notin Vague => effect[c] = "done"
    /\ at[c] = "waiting" => handled[c] = 0
    /\ at[c] \in {"lookup", "redis"} => handled[c] = 1
    /\ handled[c] = 0 => effect[c] = "no"
    /\ at[c] = "replicate" /\ Encoded(c) => effect[c] = "done"
    /\ at[c] = "recv" => kind[c] = "stream"
    /\ at[c] = "yes" /\ kind[c] \notin Vague => effect[c] = "done"
    /\ at[c] = "closed" => "shards" \in closed

(***************************************************************************)
(* CopyInv: AcknowledgedIsCopied from the reply of the handler on, and for  *)
(* the replies of a process that is gone.                                   *)
(***************************************************************************)
Acknowledged(c) == at[c] = "yes" \/ (told[c] = "ok" /\ at[c] = "none")

CopyInv ==
  \A c \in Calls : Acknowledged(c) /\ kind[c] \in Stores =>
    /\ main \notin Exposed => copied[c]
    /\ main \in Exposed /\ shard[c] \in secondaries => copied[c] \/ shard[c] \in failed

(***************************************************************************)
(* ProbeInv: a secondary that had failed is still to be asked about, or the *)
(* report is bad already.                                                   *)
(***************************************************************************)
ProbeInv ==
  probe # "idle" /\ hadFailed =>
    (failed \cap toAsk # {}) \/ (probe = "replicas" /\ report = "unhealthy")

IInv == TypeOK /\ ProcessInv /\ CallInv /\ CopyInv /\ ProbeInv

-----------------------------------------------------------------------------
(***************************************************************************)
(* The steps of Next, named once for the case splits below: those of the    *)
(* process, of its environment, of the clients, of the handlers and of the  *)
(* probe.                                                                   *)
(***************************************************************************)
MainMoves == Listen \/ Serve \/ Signal \/ GracefulStop \/ TenSeconds \/ CloseShards \/ CloseReplicas
ProbeMoves ==
  CheckBegins \/ GetHealthyShards \/ (\E s \in Shards : GetReplicaStatus(s)) \/ CheckEnds

(***************************************************************************)
(* The process that ends and the process that is replaced by a new one.     *)
(***************************************************************************)
LEMMA EndingSteps ==
  Killed \/ Exit \/ ServeErr \/ (\E c \in Calls : UpdateWithoutVector(c))
    => Ends /\ main \in Running
BY DEF Killed, Exit, ServeErr, UpdateWithoutVector, Exposed, Running

(***************************************************************************)
(* The steps of the process and the probe touch no call.                    *)
(***************************************************************************)
LEMMA MainKeepsCalls ==
  MainMoves => UNCHANGED <<secondaries, active, failed, callVars, probeVars>>
BY DEF MainMoves, Listen, Serve, Signal, GracefulStop, TenSeconds, CloseShards, CloseReplicas

LEMMA ProbeKeepsCalls ==
  ProbeMoves => UNCHANGED <<main, secondaries, grpc, closed, active, failed, callVars>>
BY DEF ProbeMoves, CheckBegins, GetHealthyShards, GetReplicaStatus, CheckEnds

(***************************************************************************)
(* What go-redis and a late copy do to a call.                              *)
(***************************************************************************)
LEMMA SendingSteps ==
  ASSUME NEW c \in Calls, Sends(c) \/ LateCopy(c)
  PROVE  /\ \/ at[c] = "redis" /\ effect[c] = "no" /\ effect' = [effect EXCEPT ![c] = "sent"]
            \/ effect[c] = "sent" /\ effect' = [effect EXCEPT ![c] = "done"]
         /\ UNCHANGED <<main, secondaries, grpc, closed, active, failed, kind, shard, told, at,
                        live, inbox, handled, copied, probeVars>>
BY DEF Sends, LateCopy

(***************************************************************************)
(* Every step keeps the types.                                              *)
(***************************************************************************)
LEMMA TypeStep == TypeOK /\ ProcessInv /\ CallInv /\ [Next]_vars => TypeOK'
<1> SUFFICES ASSUME TypeOK, ProcessInv, CallInv, [Next]_vars PROVE TypeOK'
  OBVIOUS
<1> USE DEF vars, callVars, probeVars
<1>1. CASE Start
  BY <1>1 DEF Start, Reached, TypeOK, Running
<1>2. CASE MainMoves
  <2>1. /\ main' \in Running \cup {"down"}
        /\ grpc' \in Stopping \cup {"new", "serving", "refused"}
        /\ closed' \subseteq {"shards", "replicas"}
    BY <1>2 DEF MainMoves, Listen, Serve, Signal, GracefulStop, TenSeconds, CloseShards,
                CloseReplicas, TypeOK, Running, Stopping
  <2>2. UNCHANGED <<secondaries, active, failed, callVars, probeVars>>
    BY <1>2, MainKeepsCalls
  <2> QED
    BY <2>1, <2>2 DEF TypeOK
<1>3. CASE Ends
  BY <1>3 DEF Ends, TypeOK
<1>4. ASSUME NEW s \in Shards, HealthFlips(s) \/ LagExceeded(s) PROVE TypeOK'
  <2>1. active' \subseteq Shards /\ failed' \subseteq Shards
    BY <1>4 DEF HealthFlips, LagExceeded, TypeOK
  <2>2. UNCHANGED <<main, secondaries, grpc, closed, callVars, probeVars>>
    BY <1>4 DEF HealthFlips, LagExceeded
  <2> QED
    BY <2>1, <2>2 DEF TypeOK
<1>5. CASE ProbeMoves
  <2>3. /\ probe' \in {"idle", "shards", "replicas"} /\ toAsk' \subseteq Shards
        /\ report' \in {"none", "serves", "unhealthy"} /\ hadFailed' \in BOOLEAN
    BY <1>5
       DEF ProbeMoves, CheckBegins, GetHealthyShards, GetReplicaStatus, CheckEnds,
           FromPercentage, TypeOK
  <2>4. UNCHANGED <<main, secondaries, grpc, closed, active, failed, callVars>>
    BY <1>5, ProbeKeepsCalls
  <2> QED
    BY <2>3, <2>4 DEF TypeOK
<1>6. ASSUME NEW c \in Calls, NEW k \in Kinds, NEW s \in Shards, Issue(c, k, s) PROVE TypeOK'
  BY <1>6 DEF Issue, TypeOK
<1>7. ASSUME NEW c \in Calls, SendOrClose(c) \/ GiveUp(c) \/ Return(c) PROVE TypeOK'
  <2>1. CASE SendOrClose(c)
    BY <2>1 DEF SendOrClose, TypeOK
  <2>2. CASE GiveUp(c)
    BY <2>2 DEF GiveUp, TypeOK
  <2>3. CASE Return(c)
    <3>1. Result(kind[c], at[c] = "yes") \in {"ok", "partial", "error"}
      BY DEF Result
    <3> QED
      BY <2>3, <3>1 DEF Return, TypeOK
  <2> QED
    BY <1>7, <2>1, <2>2, <2>3
<1>8. ASSUME NEW c \in Calls, Dispatch(c) \/ Withdrawn(c) \/ Refuses(c) \/ Lookup(c) \/ Recv(c)
      PROVE TypeOK'
  BY <1>8 DEF Dispatch, Withdrawn, Refuses, Lookup, Recv, Moves, Fails, Failures, CallInv, TypeOK
<1>9. ASSUME NEW c \in Calls,
             UseRedis(c) \/ RedisFails(c) \/ AdapterClosed(c) \/ RepliesClosed(c)
      PROVE  TypeOK'
  <2>1. CASE UseRedis(c)
    <3>1. \E place \in {"replicate", "yes", "no"} : Moves(c, place)
      BY <2>1 DEF UseRedis, Get
    <3>2. effect' = effect \/ effect' = [effect EXCEPT ![c] = "done"]
      BY <2>1 DEF UseRedis, Get, TypeOK
    <3>3. UNCHANGED <<failed, handled, copied>>
      BY <2>1 DEF UseRedis, Get
    <3> QED
      BY <3>1, <3>2, <3>3 DEF Moves, TypeOK
  <2>2. CASE RedisFails(c) \/ AdapterClosed(c) \/ RepliesClosed(c)
    BY <2>2 DEF RedisFails, AdapterClosed, RepliesClosed, Moves, Fails, Failures, TypeOK
  <2> QED
    BY <1>9, <2>1, <2>2
<1>10. ASSUME NEW c \in Calls, Replicate(c) \/ ReplicateFails(c) PROVE TypeOK'
  <2>2. at[c] = "replicate" => shard[c] \in Shards
    BY DEF CallInv
  <2>3. \E place \in {"yes", "no"} : Moves(c, place)
    BY <1>10 DEF Replicate, ReplicateFails, Done
  <2>4. failed' \subseteq Shards /\ UNCHANGED <<handled, effect>>
    BY <1>10, <2>2 DEF Replicate, ReplicateFails, TypeOK
  <2>5. \E b \in BOOLEAN : copied' = [copied EXCEPT ![c] = b]
    <3>1. CASE Replicate(c)
      BY <3>1, (copied[c] \/ (Replicates(c) /\ Encoded(c))) \in BOOLEAN DEF Replicate
    <3>2. CASE ReplicateFails(c)
      BY <3>2 DEF ReplicateFails, TypeOK
    <3> QED
      BY <1>10, <3>1, <3>2
  <2> QED
    BY <2>3, <2>4, <2>5 DEF Moves, TypeOK
<1>11. ASSUME NEW c \in Calls, Sends(c) \/ LateCopy(c) PROVE TypeOK'
  BY <1>11, SendingSteps DEF TypeOK
<1>12. CASE UNCHANGED vars
  BY <1>12 DEF TypeOK
<1> QED
  BY <1>1, <1>2, <1>3, <1>4, <1>5, <1>6, <1>7, <1>8, <1>9, <1>10, <1>11, <1>12, EndingSteps
     DEF Next, MainStep, HandlerStep, ProbeStep, MainMoves, ProbeMoves

(***************************************************************************)
(* Handlers run only in a process that serves; a call moves to no handler   *)
(* but by Dispatch, and none of its steps touches the process.              *)
(***************************************************************************)
LEMMA ProcessStep == TypeOK /\ ProcessInv /\ CallInv /\ [Next]_vars => ProcessInv'
<1> SUFFICES ASSUME TypeOK, ProcessInv, CallInv, [Next]_vars PROVE ProcessInv'
  OBVIOUS
<1> USE DEF vars, callVars, probeVars, Handling
<1>1. CASE Start
  BY <1>1 DEF Start, ProcessInv, Exposed, Running
<1>2. CASE MainMoves
  <2>1. UNCHANGED <<secondaries, active, failed, callVars, probeVars>>
    BY <1>2, MainKeepsCalls
  <2>2. /\ main' \in Exposed /\ main \in Running
        /\ ("shards" \in closed)' => main' \in {"closingReplicas", "exiting"}
        /\ main' \in {"closing", "closingReplicas", "exiting"} => grpc' \in Stopping
        /\ grpc' = "stopped" => \A c \in Calls : ~Handling(c)
    BY <1>2 DEF MainMoves, Listen, Serve, Signal, GracefulStop, TenSeconds, CloseShards,
                CloseReplicas, ProcessInv, Exposed, Running, Stopping
  <2> QED
    BY <2>1, <2>2 DEF ProcessInv, Exposed, Running
<1>3. CASE Ends /\ main \in Running
  BY <1>3 DEF Ends, ProcessInv, Exposed, Running
<1>4. ASSUME NEW s \in Shards, HealthFlips(s) \/ LagExceeded(s) PROVE ProcessInv'
  BY <1>4 DEF HealthFlips, LagExceeded, ProcessInv
<1>5. CASE ProbeMoves
  <2>1. UNCHANGED <<main, secondaries, grpc, closed, active, failed, callVars>>
    BY <1>5, ProbeKeepsCalls
  <2>2. main \notin Exposed => probe' = "idle"
    BY <1>5 DEF ProbeMoves, CheckBegins, GetHealthyShards, GetReplicaStatus, CheckEnds, ProcessInv
  <2> QED
    BY <2>1, <2>2 DEF ProcessInv
<1>6. ASSUME NEW c \in Calls, NEW k \in Kinds, NEW s \in Shards, Issue(c, k, s) PROVE ProcessInv'
  BY <1>6 DEF Issue, ProcessInv, TypeOK
<1>7. ASSUME NEW c \in Calls, SendOrClose(c) \/ GiveUp(c) \/ Return(c) PROVE ProcessInv'
  BY <1>7 DEF SendOrClose, GiveUp, Return, ProcessInv, TypeOK
<1>8. ASSUME NEW c \in Calls, Dispatch(c) \/ Withdrawn(c) PROVE ProcessInv'
  BY <1>8 DEF Dispatch, Withdrawn, Moves, ProcessInv, TypeOK
<1>9. ASSUME NEW c \in Calls, HandlerStep(c) PROVE ProcessInv'
  <2>1. main \in Exposed /\ UNCHANGED <<main, secondaries, grpc, closed, active, probe>>
    BY <1>9 DEF HandlerStep, Refuses, Lookup, UseRedis, Get, RedisFails, AdapterClosed,
                RepliesClosed, Replicate, ReplicateFails, Recv, Fails, Done, Moves, ProcessInv
  <2>3. \E d \in Calls : Handling(d)
    BY <1>9 DEF HandlerStep, Refuses, Lookup, UseRedis, Get, RedisFails, AdapterClosed,
                RepliesClosed, Replicate, ReplicateFails, Recv
  <2> HIDE DEF Handling
  <2> QED
    BY <2>1, <2>3 DEF ProcessInv, Exposed, Running
<1>10. ASSUME NEW c \in Calls, Sends(c) \/ LateCopy(c) PROVE ProcessInv'
  BY <1>10, SendingSteps DEF ProcessInv
<1>11. CASE UNCHANGED vars
  BY <1>11 DEF ProcessInv
<1> QED
  BY <1>1, <1>2, <1>3, <1>4, <1>5, <1>6, <1>7, <1>8, <1>9, <1>10, <1>11, EndingSteps
     DEF Next, MainStep, ProbeStep, MainMoves, ProbeMoves

(***************************************************************************)
(* One step of a call changes one place and says what it has done.          *)
(***************************************************************************)
LEMMA CallStep == TypeOK /\ ProcessInv /\ CallInv /\ [Next]_vars => CallInv'
<1> SUFFICES ASSUME TypeOK, ProcessInv, CallInv, [Next]_vars PROVE CallInv'
  OBVIOUS
<1> USE DEF vars, callVars, probeVars
<1>1. CASE Start
  BY <1>1 DEF Start, CallInv, Encoded
<1>2. CASE MainMoves
  <2>1. UNCHANGED <<secondaries, callVars>> /\ closed \subseteq closed'
    BY <1>2, MainKeepsCalls
       DEF MainMoves, Listen, Serve, Signal, GracefulStop, TenSeconds, CloseShards, CloseReplicas
  <2> QED
    BY <2>1 DEF CallInv, Encoded
<1>3. CASE Ends
  BY <1>3 DEF Ends, CallInv, Encoded
<1>4. CASE ProbeMoves \/ (\E s \in Shards : HealthFlips(s) \/ LagExceeded(s))
  <2>1. UNCHANGED <<secondaries, callVars, closed>>
    BY <1>4, ProbeKeepsCalls DEF HealthFlips, LagExceeded
  <2> QED
    BY <2>1 DEF CallInv, Encoded
<1>5. ASSUME NEW c \in Calls, NEW k \in Kinds, NEW s \in Shards, Issue(c, k, s) PROVE CallInv'
  BY <1>5 DEF Issue, CallInv, Encoded, TypeOK
<1>6. ASSUME NEW c \in Calls, SendOrClose(c) PROVE CallInv'
  BY <1>6 DEF SendOrClose, CallInv, Encoded
<1>7. ASSUME NEW c \in Calls, GiveUp(c) PROVE CallInv'
  BY <1>7 DEF GiveUp, CallInv, Encoded, TypeOK
<1>8. ASSUME NEW c \in Calls, Return(c) PROVE CallInv'
  <2>1. told'[c] = "ok" => told[c] = "ok" \/ at[c] = "yes"
    BY <1>8 DEF Return, Result, TypeOK
  <2>2. /\ \A d \in Calls \ {c} : at'[d] = at[d] /\ told'[d] = told[d]
        /\ at'[c] = "none" /\ told'[c] # "idle"
        /\ UNCHANGED <<kind, shard, handled, effect, closed>>
    BY <1>8 DEF Return, Result, CallInv, TypeOK
  <2> QED
    BY <2>1, <2>2 DEF CallInv, Encoded
<1>9. ASSUME NEW c \in Calls, Dispatch(c) \/ Withdrawn(c) PROVE CallInv'
  BY <1>9 DEF Dispatch, Withdrawn, Moves, CallInv, Encoded, TypeOK
<1>10. ASSUME NEW c \in Calls, Refuses(c) \/ Lookup(c) PROVE CallInv'
  <2>2. CASE Refuses(c)
    BY <2>2 DEF Refuses, Moves, CallInv, Encoded, TypeOK
  <2>3. CASE Lookup(c)
    BY <2>3 DEF Lookup, Fails, Failures, Vague, Moves, CallInv, Encoded, TypeOK
  <2> QED
    BY <1>10, <2>2, <2>3
<1>11. ASSUME NEW c \in Calls, UseRedis(c) PROVE CallInv'
  BY <1>11 DEF UseRedis, Get, Vague, Moves, CallInv, Encoded, TypeOK
<1>12. ASSUME NEW c \in Calls, RedisFails(c) PROVE CallInv'
  BY <1>12 DEF RedisFails, Fails, Failures, Vague, Moves, CallInv, Encoded, TypeOK
<1>13. ASSUME NEW c \in Calls, AdapterClosed(c) \/ RepliesClosed(c) PROVE CallInv'
  BY <1>13 DEF AdapterClosed, RepliesClosed, Fails, Failures, Vague, Moves, CallInv, Encoded, TypeOK
<1>14. ASSUME NEW c \in Calls, Replicate(c) \/ ReplicateFails(c) PROVE CallInv'
  BY <1>14 DEF Replicate, ReplicateFails, Done, Moves, CallInv, Encoded, Vague, TypeOK
<1>15. ASSUME NEW c \in Calls, Recv(c) PROVE CallInv'
  BY <1>15 DEF Recv, Vague, Moves, CallInv, Encoded, TypeOK
<1>16. ASSUME NEW c \in Calls, Sends(c) \/ LateCopy(c) PROVE CallInv'
  BY <1>16, SendingSteps DEF CallInv, Encoded, TypeOK
<1>17. CASE UNCHANGED vars
  BY <1>17 DEF CallInv, Encoded
<1> QED
  BY <1>1, <1>2, <1>3, <1>4, <1>5, <1>6, <1>7, <1>8, <1>9, <1>10, <1>11, <1>12, <1>13, <1>14,
     <1>15, <1>16, <1>17, EndingSteps
     DEF Next, MainStep, HandlerStep, ProbeStep, MainMoves, ProbeMoves

(***************************************************************************)
(* A store is acknowledged by Replicate or by ReplicateFails only, the      *)
(* replicas that failed stay failed, and the end of the process releases    *)
(* what it promised.                                                        *)
(***************************************************************************)
LEMMA CopyStep == TypeOK /\ ProcessInv /\ CallInv /\ CopyInv /\ [Next]_vars => CopyInv'
<1> SUFFICES ASSUME TypeOK, ProcessInv, CallInv, CopyInv, [Next]_vars PROVE CopyInv'
  OBVIOUS
<1> USE DEF vars, callVars, probeVars, Acknowledged
<1>1. CASE Start
  BY <1>1 DEF Start, CopyInv, Exposed, Running
<1>2. CASE MainMoves
  <2>1. UNCHANGED <<secondaries, failed, callVars>>
    BY <1>2, MainKeepsCalls
  <2>2. main' \in Exposed
    BY <1>2 DEF MainMoves, Listen, Serve, Signal, GracefulStop, TenSeconds, CloseShards,
                CloseReplicas, Exposed, Running
  <2> QED
    BY <2>1, <2>2 DEF CopyInv
<1>3. CASE Ends
  BY <1>3 DEF Ends, CopyInv, Exposed
<1>4. ASSUME NEW s \in Shards, HealthFlips(s) \/ LagExceeded(s) PROVE CopyInv'
  BY <1>4 DEF HealthFlips, LagExceeded, CopyInv
<1>5. CASE ProbeMoves
  BY <1>5, ProbeKeepsCalls DEF CopyInv
<1>6. ASSUME NEW c \in Calls, NEW k \in Kinds, NEW s \in Shards, Issue(c, k, s) PROVE CopyInv'
  BY <1>6 DEF Issue, CopyInv, TypeOK
<1>7. ASSUME NEW c \in Calls, SendOrClose(c) PROVE CopyInv'
  BY <1>7 DEF SendOrClose, CopyInv
<1>8. ASSUME NEW c \in Calls, GiveUp(c) PROVE CopyInv'
  BY <1>8 DEF GiveUp, CopyInv, TypeOK
<1>9. ASSUME NEW c \in Calls, Return(c) PROVE CopyInv'
  <2>1. told'[c] = "ok" => at[c] = "yes"
    BY <1>9 DEF Return, Result, CallInv, TypeOK
  <2> QED
    BY <1>9, <2>1 DEF Return, CopyInv, TypeOK
<1>10. ASSUME NEW c \in Calls, Dispatch(c) \/ Withdrawn(c) PROVE CopyInv'
  BY <1>10 DEF Dispatch, Withdrawn, Moves, CallInv, CopyInv, TypeOK
<1>11. ASSUME NEW c \in Calls, Refuses(c) \/ Lookup(c) PROVE CopyInv'
  BY <1>11 DEF Refuses, Lookup, Fails, Failures, Stores, Moves, CopyInv, TypeOK
<1>12. ASSUME NEW c \in Calls, UseRedis(c) PROVE CopyInv'
  BY <1>12 DEF UseRedis, Get, Stores, Moves, CopyInv, TypeOK
<1>13. ASSUME NEW c \in Calls, RedisFails(c) \/ AdapterClosed(c) \/ RepliesClosed(c)
       PROVE  CopyInv'
  BY <1>13 DEF RedisFails, AdapterClosed, RepliesClosed, Fails, Failures, Stores, Moves, CopyInv,
               TypeOK
<1>14. ASSUME NEW c \in Calls, Replicate(c) PROVE CopyInv'
  <2>1. main \in Exposed
    BY <1>14 DEF Replicate, ProcessInv, Handling
  <2> QED
    BY <1>14, <2>1 DEF Replicate, Replicates, Encoded, Stores, Done, Moves, CopyInv, TypeOK
<1>15. ASSUME NEW c \in Calls, ReplicateFails(c) PROVE CopyInv'
  <2>1. main \in Exposed
    BY <1>15 DEF ReplicateFails, ProcessInv, Handling
  <2> QED
    BY <1>15, <2>1 DEF ReplicateFails, Done, Moves, CopyInv, TypeOK
<1>16. ASSUME NEW c \in Calls, Recv(c) PROVE CopyInv'
  BY <1>16 DEF Recv, Stores, Moves, CallInv, CopyInv, TypeOK
<1>17. ASSUME NEW c \in Calls, Sends(c) \/ LateCopy(c) PROVE CopyInv'
  BY <1>17, SendingSteps DEF CopyInv
<1>18. CASE UNCHANGED vars
  BY <1>18 DEF CopyInv
<1> QED
  BY <1>1, <1>2, <1>3, <1>4, <1>5, <1>6, <1>7, <1>8, <1>9, <1>10, <1>11, <1>12, <1>13, <1>14,
     <1>15, <1>16, <1>17, <1>18, EndingSteps
     DEF Next, MainStep, HandlerStep, ProbeStep, MainMoves, ProbeMoves

(***************************************************************************)
(* During a check failed replicas only become more, in the same process.    *)
(***************************************************************************)
LEMMA ProbeInvStep == TypeOK /\ ProcessInv /\ ProbeInv /\ [Next]_vars => ProbeInv'
<1> SUFFICES ASSUME TypeOK, ProcessInv, ProbeInv, [Next]_vars PROVE ProbeInv'
  OBVIOUS
<1> USE DEF vars, callVars, probeVars
<1>1. CASE Ends \/ Start
  <2>1. probe' = "idle"
    BY <1>1 DEF Ends, Start, ProcessInv, Exposed, Running
  <2> QED
    BY <2>1 DEF ProbeInv
<1>2. ASSUME UNCHANGED <<secondaries, probeVars>>, failed \subseteq failed' PROVE ProbeInv'
  BY <1>2 DEF ProbeInv
<1>3. CASE CheckBegins
  BY <1>3 DEF CheckBegins, ProbeInv, TypeOK
<1>4. CASE GetHealthyShards
  BY <1>4 DEF GetHealthyShards, FromPercentage, ProbeInv
<1>5. ASSUME NEW s \in Shards, GetReplicaStatus(s) PROVE ProbeInv'
  BY <1>5 DEF GetReplicaStatus, ProbeInv
<1>6. CASE CheckEnds
  BY <1>6 DEF CheckEnds, ProbeInv
<1>7. MainMoves => UNCHANGED <<secondaries, probeVars>> /\ failed \subseteq failed'
  BY MainKeepsCalls
<1>8. ASSUME NEW s \in Shards, HealthFlips(s) \/ LagExceeded(s)
      PROVE  UNCHANGED <<secondaries, probeVars>> /\ failed \subseteq failed'
  BY <1>8 DEF HealthFlips, LagExceeded
<1>9. ASSUME NEW c \in Calls, NEW k \in Kinds, NEW s \in Shards, Issue(c, k, s)
      PROVE  UNCHANGED <<secondaries, probeVars>> /\ failed \subseteq failed'
  BY <1>9 DEF Issue
<1>10. ASSUME NEW c \in Calls,
              \/ SendOrClose(c) \/ GiveUp(c) \/ Return(c) \/ Dispatch(c) \/ Withdrawn(c)
              \/ HandlerStep(c) \/ Sends(c) \/ LateCopy(c)
       PROVE  UNCHANGED <<secondaries, probeVars>> /\ failed \subseteq failed'
  BY <1>10 DEF SendOrClose, GiveUp, Return, Dispatch, Withdrawn, HandlerStep, Refuses, Lookup,
               UseRedis, Get, RedisFails, AdapterClosed, RepliesClosed, Replicate, ReplicateFails,
               Recv, Fails, Done, Moves, Sends, LateCopy
<1> QED
  BY <1>1, <1>2, <1>3, <1>4, <1>5, <1>6, <1>7, <1>8, <1>9, <1>10, EndingSteps
     DEF Next, MainStep, ProbeStep, MainMoves

-----------------------------------------------------------------------------
(***************************************************************************)
(* The invariant holds in every reachable state.                            *)
(***************************************************************************)
LEMMA Invariant == Spec => []IInv
<1>1. Init => IInv
  <2> SUFFICES ASSUME Init PROVE IInv
    OBVIOUS
  <2>1. TypeOK
    <3>1. live \in [Calls -> BOOLEAN] /\ copied \in [Calls -> BOOLEAN]
      BY Zenon DEF Init
    <3>2. hadFailed \in BOOLEAN
      BY DEF Init
    <3> QED
      BY <3>1, <3>2 DEF Init, TypeOK
  <2>2. ProcessInv
    BY DEF Init, ProcessInv, Handling, Exposed, Running
  <2>3. CallInv /\ CopyInv /\ ProbeInv
    BY DEF Init, CallInv, CopyInv, ProbeInv, Acknowledged, Stores
  <2> QED
    BY <2>1, <2>2, <2>3 DEF IInv
<1>2. IInv /\ [Next]_vars => IInv'
  BY TypeStep, ProcessStep, CallStep, CopyStep, ProbeInvStep DEF IInv
<1> QED
  BY <1>1, <1>2, PTL DEF Spec

(***************************************************************************)
(* Type correctness; in particular no call has a second handler: the client *)
(* sends no request again (its MaxRetries is never used).                   *)
(***************************************************************************)
THEOREM TypeCorrect == Spec => []TypeOK
BY Invariant, PTL DEF IInv

(***************************************************************************)
(* A store acknowledged by the running process was written to its secondary,*)
(* or the secondary is marked failed (the handlers ignore Replicate*'s      *)
(* result), except for vectors that BatchStoreVectors skips.                *)
(***************************************************************************)
THEOREM AcknowledgedCopies == Spec => []AcknowledgedIsCopied
<1>1. IInv => AcknowledgedIsCopied
  BY DEF IInv, CopyInv, Acknowledged, AcknowledgedIsCopied
<1> QED
  BY <1>1, Invariant, PTL

(***************************************************************************)
(* No handler meets a closed adapter before the ten seconds are over, or    *)
(* after GracefulStop has returned (main closes the managers after them).   *)
(***************************************************************************)
THEOREM GraceKept == Spec => []GraceIsKept
<1>1. IInv => GraceIsKept
  BY DEF IInv, ProcessInv, CallInv, Handling, Stopping, GraceIsKept
<1> QED
  BY <1>1, Invariant, PTL

(***************************************************************************)
(* A health check that does not answer "unhealthy" is right about replicas  *)
(* that had failed before it began (HealthChecker.Check).                   *)
(***************************************************************************)
THEOREM ReadyTrue == Spec => []ReadyIsTrue
<1>1. IInv => ReadyIsTrue
  BY DEF IInv, ProbeInv, ReadyIsTrue, StatusOK
<1> QED
  BY <1>1, Invariant, PTL

-----------------------------------------------------------------------------
(***************************************************************************)
(* The refinement: a step that changes neither what a caller knows nor what *)
(* became of its call is a stutter, the others are steps of RpcPromise.     *)
(***************************************************************************)
LEMMA Stutter ==
  UNCHANGED <<told, kind, handled, effect>> => UNCHANGED Promise!vars
BY DEF Promise!vars, Outcome

LEMMA PromiseInit == Init => Promise!Init
BY DEF Init, Promise!Init, Outcome

LEMMA PromiseStep == TypeOK /\ CallInv /\ [Next]_vars => [Promise!Next]_(Promise!vars)
<1> SUFFICES ASSUME TypeOK, CallInv, [Next]_vars PROVE [Promise!Next]_(Promise!vars)
  OBVIOUS
<1> USE DEF vars, callVars, probeVars
<1>1. ASSUME NEW c \in Calls, NEW k \in Kinds, NEW s \in Shards, Issue(c, k, s)
      PROVE  Promise!Issue(c)
  BY <1>1 DEF Issue, Promise!Issue, Outcome, TypeOK
<1>2. ASSUME NEW c \in Calls, GiveUp(c) PROVE Promise!Tell(c)
  BY <1>2 DEF GiveUp, Promise!Tell, Outcome, TypeOK
<1>3. ASSUME NEW c \in Calls, Return(c) PROVE Promise!Tell(c) \/ UNCHANGED Promise!vars
  <2>1. CASE told[c] = "pending"
    <3> DEFINE r == Result(kind[c], at[c] = "yes")
               knows(t) == IF t = "ok" /\ kind[c] \notin Vague
                           THEN "success" ELSE "unsure"
               before == [d \in Calls |-> Outcome(d)]
    <3>1. told' = [told EXCEPT ![c] = r] /\ UNCHANGED <<kind, handled, effect>>
      BY <1>3, <2>1 DEF Return, TypeOK
    <3>2. r \in {"ok", "partial", "error"} /\ (r = "ok" => at[c] = "yes")
      BY DEF Result
    <3>3. before[c] = "pending"
      BY <2>1 DEF Outcome
    <3>4. knows(r) = "unsure" \/ (knows(r) = "success" /\ effect[c] = "done")
      BY <3>2 DEF CallInv
    <3> HIDE DEF r
    <3>5. [d \in Calls |-> Outcome(d)]' = [before EXCEPT ![c] = knows(r)]
      BY <3>1, <3>2 DEF Outcome, TypeOK
    <3> QED
      BY <3>1, <3>3, <3>4, <3>5 DEF Promise!Tell
  <2>2. CASE told[c] # "pending"
    BY <1>3, <2>2, Stutter DEF Return, TypeOK
  <2> QED
    BY <2>1, <2>2
<1>4. ASSUME NEW c \in Calls, Dispatch(c) PROVE Promise!Handle(c)
  <2>1. handled[c] = 0 /\ told[c] \in {"pending", "error"}
    BY <1>4 DEF Dispatch, CallInv
  <2>2. handled' = [handled EXCEPT ![c] = 1] /\ UNCHANGED <<told, kind, effect>>
    BY <1>4, <2>1 DEF Dispatch, Moves, TypeOK
  <2> QED
    BY <2>1, <2>2 DEF Promise!Handle, Outcome
<1>5. ASSUME NEW c \in Calls, UseRedis(c) \/ LateCopy(c) \/ Sends(c)
      PROVE  Promise!Apply(c) \/ UNCHANGED Promise!vars
  <2> DEFINE before == [d \in Calls |-> effect[d] = "done"]
  <2>1. UNCHANGED <<told, kind, handled>>
    BY <1>5 DEF UseRedis, Get, LateCopy, Sends, Moves
  <2>2. CASE UNCHANGED before
    BY <2>1, <2>2 DEF Promise!vars, Outcome
  <2>3. CASE ~UNCHANGED before
    <3>1. effect' = [effect EXCEPT ![c] = "done"] /\ (at[c] = "redis" \/ effect[c] = "sent")
      BY <1>5, <2>3 DEF UseRedis, Get, LateCopy, Sends, TypeOK
    <3>2. handled[c] = 1
      BY <3>1 DEF CallInv, TypeOK
    <3>3. Outcome(c) \in {"pending", "unsure"}
      BY <2>3, <3>1 DEF CallInv, Outcome, TypeOK
    <3>4. before' = [before EXCEPT ![c] = TRUE]
      BY <3>1 DEF TypeOK
    <3> QED
      BY <2>1, <3>2, <3>3, <3>4 DEF Promise!Apply, Outcome
  <2> QED
    BY <2>2, <2>3
<1>6. ASSUME NEW c \in Calls,
             \/ SendOrClose(c) \/ Withdrawn(c) \/ RedisFails(c) \/ Refuses(c) \/ Lookup(c)
             \/ AdapterClosed(c) \/ RepliesClosed(c) \/ Replicate(c) \/ ReplicateFails(c) \/ Recv(c)
      PROVE  UNCHANGED Promise!vars
  <2>1. UNCHANGED <<told, kind, handled, effect>>
    BY <1>6 DEF SendOrClose, Withdrawn, Refuses, Lookup, RedisFails, AdapterClosed, RepliesClosed,
                Replicate, ReplicateFails, Recv, Fails, Done, Moves
  <2> QED
    BY <2>1, Stutter
<1>7. ASSUME \/ MainMoves \/ Ends \/ Start \/ ProbeMoves \/ UNCHANGED vars
             \/ \E s \in Shards : HealthFlips(s) \/ LagExceeded(s)
      PROVE  UNCHANGED Promise!vars
  <2>1. UNCHANGED <<told, kind, handled, effect>>
    BY <1>7, MainKeepsCalls, ProbeKeepsCalls DEF Ends, Start, HealthFlips, LagExceeded
  <2> QED
    BY <2>1, Stutter
<1> QED
  BY <1>1, <1>2, <1>3, <1>4, <1>5, <1>6, <1>7, EndingSteps
     DEF Next, MainStep, HandlerStep, ProbeStep, MainMoves, ProbeMoves, Promise!Next

(***************************************************************************)
(* The server keeps what RpcPromise promises to its callers, whatever is    *)
(* lost, cut off, restarted or shut down under their calls.                 *)
(***************************************************************************)
THEOREM KeepsPromise == Spec => PromiseKept
<1>1. IInv /\ [Next]_vars => [Promise!Next]_(Promise!vars)
  BY PromiseStep DEF IInv
<1> QED
  BY <1>1, PromiseInit, Invariant, PTL DEF Spec, PromiseKept, Promise!Spec
=============================================================================
