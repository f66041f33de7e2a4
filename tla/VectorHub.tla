------------------------------ MODULE VectorHub ------------------------------
(***************************************************************************)
(* The running server as its clients and its probes see it:                 *)
(* cmd/vectorhub/main.go from start-up to exit, the calls of                *)
(* pkg/client/client.go over the stubs of api/proto/vectorhub_grpc.pb.go,   *)
(* the streaming handlers, and the checks of internal/server/health.go.     *)
(*                                                                         *)
(* The managers are reduced to what a caller notices: which shards are      *)
(* active (ShardManager), which shards have a failed secondary              *)
(* (ReplicationManager), and one step each for the use of the shard's Redis *)
(* (VectorService) and for the replication.  A call concerns one shard.     *)
(***************************************************************************)
EXTENDS Naturals, FiniteSets

CONSTANTS
  Calls,     \* calls that clients have under way at the same time
  KindsOf,   \* what each of them may be, see Kinds
  Shards,    \* the shard IDs
  Targets,   \* the shards that the keys of the calls belong to
  Flaky,     \* shards whose Redis, primary or secondary, may fail
  None

(***************************************************************************)
(* Calls differ in what surrounds the use of the shard: "store" (Insert,    *)
(* Update), "batch" (BatchInsert, of a vector that can be encoded),         *)
(* "badBatch" (BatchInsert, of a vector among others that cannot),          *)
(* "delete", "batchDelete", "get", "sweep" (CreateIndex, DropIndex, Search  *)
(* and GetStats, which pass over shards that fail and report success) and   *)
(* "stream" (StreamInsert, StreamSearch, StreamBatchInsert).  The success   *)
(* of a Vague one says nothing about a single shard, or, of a "badBatch",   *)
(* about the vector: BatchStoreVectors leaves it out of the pipeline, no    *)
(* error is returned, and it is not in FailedIds.                           *)
(***************************************************************************)
Stores  == {"store", "batch"}
Deletes == {"delete", "batchDelete"}
Vague   == {"badBatch", "batchDelete", "sweep", "stream"}
Kinds   == Stores \cup Deletes \cup {"badBatch", "get", "sweep", "stream"}

ASSUME HubAssumption ==
  /\ KindsOf \in [Calls -> SUBSET Kinds] /\ Flaky \cup Targets \subseteq Shards
  /\ None \notin Kinds \cup Shards

VARIABLES
  main,      \* where main is
  secondaries,  \* shards that have a registered secondary
  grpc,      \* the gRPC server
  closed,    \* the managers that have been closed
  active,    \* shards for which GetShardAdapter succeeds
  failed,    \* shards with a secondary marked failed
  kind, shard,  \* of each call
  told,      \* what the call returned to the client's program
  at,        \* where the request, its handler or its reply is
  live,      \* the context of the call is not cancelled
  inbox,     \* what the next Recv of a stream's handler will get
  handled,   \* ghost: how many handlers it has had
  effect,    \* ghost: its pipeline was not sent, sent, or executed ("done")
  copied,    \* ghost: its secondary has it, or its process is gone
  probe,     \* where a health check is
  toAsk,     \* the shards whose replicas it has still to look at
  report,    \* its answer as far as it has got
  hadFailed  \* ghost: a secondary had failed before it began

callVars  == <<kind, shard, told, at, live, inbox, handled, effect, copied>>
probeVars == <<probe, toAsk, report, hadFailed>>
vars == <<main, secondaries, grpc, closed, active, failed, callVars, probeVars>>

-----------------------------------------------------------------------------
Running == {"managers", "serving", "grace", "closing", "closingReplicas", "exiting"}
Exposed == Running \ {"managers"}

Init ==
  /\ main = "down" /\ secondaries = {} /\ grpc = "new" /\ closed = {}
  /\ active = {} /\ failed = {}
  /\ kind = [c \in Calls |-> None] /\ shard = [c \in Calls |-> None]
  /\ told = [c \in Calls |-> "idle"] /\ at = [c \in Calls |-> "none"]
  /\ live = [c \in Calls |-> FALSE] /\ inbox = [c \in Calls |-> "empty"]
  /\ handled = [c \in Calls |-> 0] /\ effect = [c \in Calls |-> "no"]
  /\ copied = [c \in Calls |-> TRUE]
  /\ probe = "idle" /\ toAsk = {} /\ report = "none" /\ hadFailed = FALSE

-----------------------------------------------------------------------------
(***************************************************************************)
(* The process.  It takes the default configuration, builds the managers    *)
(* and registers as active the replicas that answer, and listens (or dies   *)
(* when the port is taken).  From then on the HTTP server answers probes,   *)
(* and a goroutine is about to call Serve.                                  *)
(*                                                                         *)
(* The default configuration is the only one to start with: where there is  *)
(* a configuration file, Load unmarshals it with AutomaticEnv and a nil      *)
(* replacer, which viper calls, and the process panics before it has done    *)
(* anything.                                                                *)
(***************************************************************************)
Reached(S) == {A \in SUBSET S : S \ Flaky \subseteq A}

Start ==
  /\ main = "down"
  /\ main' = "managers"
  /\ active' \in Reached(Shards) /\ secondaries' \in Reached(Shards)
  /\ UNCHANGED <<grpc, closed, failed, callVars, probeVars>>

Listen ==
  /\ main = "managers"
  /\ main' = "serving"
  /\ UNCHANGED <<secondaries, grpc, closed, active, failed, callVars, probeVars>>

(***************************************************************************)
(* The process ends: its handlers and its probe are gone.  Requests not yet *)
(* accepted wait in the client for another connection, and replies already  *)
(* sent may still arrive.  The process is killed, it leaves main, Serve      *)
(* finds the server stopped and logger.Fatal exits, or an Update without a  *)
(* Vector panics, which no interceptor recovers from.                       *)
(***************************************************************************)
Ends ==
  /\ main' = "down"
  /\ at' = [c \in Calls |-> IF at[c] \in {"waiting", "yes", "no"} THEN at[c] ELSE "none"]
  /\ copied' = [c \in Calls |-> TRUE]
  /\ probe' = "idle" /\ toAsk' = {} /\ report' = "none" /\ hadFailed' = FALSE
  /\ secondaries' = {}
  /\ grpc' = "new" /\ closed' = {} /\ active' = {} /\ failed' = {}
  /\ UNCHANGED <<kind, shard, told, live, inbox, handled, effect>>

Killed   == main \in Running /\ Ends
Exit     == main = "exiting" /\ Ends
ServeErr == main \in Exposed /\ grpc = "refused" /\ Ends

UpdateWithoutVector(c) ==
  main \in Exposed /\ at[c] = "lookup" /\ kind[c] = "store" /\ Ends

Serve ==
  /\ main \in Exposed /\ grpc = "new"
  /\ grpc' = "serving"
  /\ UNCHANGED <<main, secondaries, closed, active, failed, callVars, probeVars>>

(***************************************************************************)
(* A signal: main starts GracefulStop in a goroutine and waits ten seconds, *)
(* whatever that goroutine does, and closes the managers.  GracefulStop     *)
(* tells the clients to go away, serves what they send until they have      *)
(* heard it, and waits for the calls being handled.  It may run before      *)
(* Serve does, but neither goroutine is delayed for ten seconds.            *)
(***************************************************************************)
Signal ==
  /\ main = "serving"
  /\ main' = "grace"
  /\ UNCHANGED <<secondaries, grpc, closed, active, failed, callVars, probeVars>>

Handling(c) == at[c] \in {"lookup", "redis", "replicate", "recv", "closed"}

GracefulStop ==
  /\ main \in Exposed \ {"serving"}
  /\ \/ grpc = "new" /\ grpc' = "refused"
     \/ grpc = "serving" /\ grpc' = "goaway"
     \/ grpc = "goaway" /\ grpc' = "draining"
     \/ grpc = "draining" /\ ~(\E c \in Calls : Handling(c)) /\ grpc' = "stopped"
  /\ UNCHANGED <<main, secondaries, closed, active, failed, callVars, probeVars>>

Stopping == {"goaway", "draining", "stopped"}

TenSeconds_Drained ==
  /\ main = "grace" /\ grpc = "stopped"
  /\ main' = "closing"
  /\ UNCHANGED <<secondaries, grpc, closed, active, failed, callVars, probeVars>>

TenSeconds ==
  /\ main = "grace" /\ grpc \in Stopping
  /\ main' = "closing"
  /\ UNCHANGED <<secondaries, grpc, closed, active, failed, callVars, probeVars>>

CloseShards_Early ==
  /\ main \in {"grace", "closing"}
  /\ main' = IF main = "grace" THEN main ELSE "closingReplicas"
  /\ closed' = closed \cup {"shards"}
  /\ UNCHANGED <<secondaries, grpc, active, failed, callVars, probeVars>>

CloseShards ==
  /\ main = "closing"
  /\ main' = "closingReplicas" /\ closed' = closed \cup {"shards"}
  /\ UNCHANGED <<secondaries, grpc, active, failed, callVars, probeVars>>

CloseReplicas ==
  /\ main = "closingReplicas"
  /\ main' = "exiting" /\ closed' = closed \cup {"replicas"}
  /\ UNCHANGED <<secondaries, grpc, active, failed, callVars, probeVars>>

(***************************************************************************)
(* Meanwhile the shards' health changes, and the lag monitor marks the      *)
(* secondary of a shard failed: also one nobody has written to for          *)
(* FailoverTimeout.  Nothing makes a failed replica active again.           *)
(***************************************************************************)
HealthFlips(s) ==
  /\ main \in Running
  /\ \/ (s \in Flaky \/ "shards" \in closed) /\ active' = active \ {s}
     \/ s \in Flaky /\ "shards" \notin closed /\ active' = active \cup {s}
  /\ UNCHANGED <<main, secondaries, grpc, closed, failed, callVars, probeVars>>

LagExceeded(s) ==
  /\ main \in Running
  /\ s \in secondaries \ failed
  /\ failed' = failed \cup {s}
  /\ UNCHANGED <<main, secondaries, grpc, closed, active, callVars, probeVars>>

-----------------------------------------------------------------------------
(***************************************************************************)
(* The client library.  Each method sends one request and waits for its     *)
(* reply, for config.Timeout at most; its MaxRetries is never used.  A stream *)
(* is opened with the stub and then sent a message or closed for sending.   *)
(***************************************************************************)
Issue(c, k, s) ==
  /\ told[c] # "pending" /\ at[c] = "none"
  /\ k \in KindsOf[c] /\ s \in Targets
  /\ kind' = [kind EXCEPT ![c] = k] /\ shard' = [shard EXCEPT ![c] = s]
  /\ told' = [told EXCEPT ![c] = "pending"] /\ at' = [at EXCEPT ![c] = "waiting"]
  /\ live' = [live EXCEPT ![c] = TRUE] /\ inbox' = [inbox EXCEPT ![c] = "empty"]
  /\ handled' = [handled EXCEPT ![c] = 0] /\ effect' = [effect EXCEPT ![c] = "no"]
  /\ copied' = [copied EXCEPT ![c] = FALSE]
  /\ UNCHANGED <<main, secondaries, grpc, closed, active, failed, probeVars>>

SendOrClose(c) ==
  /\ kind[c] = "stream" /\ told[c] = "pending" /\ inbox[c] = "empty"
  /\ \E i \in {"message", "eof"} : inbox' = [inbox EXCEPT ![c] = i]
  /\ UNCHANGED <<main, secondaries, grpc, closed, active, failed, kind, shard, told, at,
                 live, handled, effect, copied, probeVars>>

(***************************************************************************)
(* The deadline passes, the connection breaks or cannot be made: the method *)
(* returns an error.  The handler's context is cancelled.  A request that   *)
(* no server accepted may be lost or arrive later all the same.             *)
(***************************************************************************)
GiveUp_Retries(c) ==
  /\ told[c] = "pending" /\ kind[c] # "stream"
  /\ IF at[c] = "none" THEN at' = [at EXCEPT ![c] = "waiting"] /\ UNCHANGED <<told, live>>
     ELSE /\ told' = [told EXCEPT ![c] = "error"] /\ live' = [live EXCEPT ![c] = FALSE]
          /\ at' = [at EXCEPT ![c] = IF @ \in {"yes", "no"} THEN "none" ELSE @]
  /\ UNCHANGED <<main, secondaries, grpc, closed, active, failed, kind, shard, inbox,
                 handled, effect, copied, probeVars>>

GiveUp(c) ==
  /\ told[c] = "pending"
  /\ told' = [told EXCEPT ![c] = "error"]
  /\ live' = [live EXCEPT ![c] = FALSE]
  /\ \/ at' = [at EXCEPT ![c] = IF @ \in {"yes", "no"} THEN "none" ELSE @]
     \/ at[c] = "waiting" /\ at' = [at EXCEPT ![c] = "none"]
  /\ UNCHANGED <<main, secondaries, grpc, closed, active, failed, kind, shard, inbox,
                 handled, effect, copied, probeVars>>

(***************************************************************************)
(* What a method returns for a reply: an error unless resp.Success, except  *)
(* BatchInsert, which returns Success and FailedIds in a result: "partial"  *)
(* when the vectors of the shard were not stored according to it.           *)
(***************************************************************************)
Result(k, success) ==
  IF success THEN "ok" ELSE IF k = "batch" THEN "partial" ELSE "error"

Return(c) ==
  /\ at[c] \in {"yes", "no"}
  /\ at' = [at EXCEPT ![c] = "none"]
  /\ told' = [told EXCEPT ![c] = IF @ = "pending" THEN Result(kind[c], at[c] = "yes") ELSE @]
  /\ live' = [live EXCEPT ![c] = FALSE]
  /\ UNCHANGED <<main, secondaries, grpc, closed, active, failed, kind, shard, inbox,
                 handled, effect, copied, probeVars>>

-----------------------------------------------------------------------------
(***************************************************************************)
(* The server accepts a request and its stub calls the handler.  A request  *)
(* whose client has given up is handled too, or its cancellation overtakes  *)
(* it.                                                                     *)
(***************************************************************************)
Moves(c, place) ==
  /\ at' = [at EXCEPT ![c] = place]
  /\ UNCHANGED <<main, secondaries, grpc, closed, active, kind, shard, told, live, inbox,
                 probeVars>>

Dispatch(c) ==
  /\ main \in Exposed /\ grpc \in {"serving", "goaway"} /\ at[c] = "waiting"
  /\ Moves(c, IF kind[c] = "stream" THEN "recv" ELSE "lookup")
  /\ handled' = [handled EXCEPT ![c] = @ + 1]
  /\ UNCHANGED <<failed, effect, copied>>

Withdrawn(c) ==
  /\ at[c] = "waiting" /\ ~live[c]
  /\ Moves(c, "none")
  /\ UNCHANGED <<failed, handled, effect, copied>>

(***************************************************************************)
(* The reply to a call whose shard is inactive or fails.  A sweep and a     *)
(* BatchDelete pass over the shard; the latter succeeds if another shard    *)
(* deletes something.                                                       *)
(***************************************************************************)
Failures_AsSuccess(k) == IF k \in Deletes \cup {"sweep"} THEN {"yes"} ELSE {"no"}
Failures(k) ==
  CASE k = "sweep" -> {"yes"} [] k = "batchDelete" -> {"yes", "no"} [] OTHER -> {"no"}

Fails(c) == \E answer \in Failures(kind[c]) : Moves(c, answer)

(***************************************************************************)
(* Handlers that look at s.indexes refuse an unknown index (CreateIndex a   *)
(* known one) or a wrong dimension, Insert also a request without a vector. *)
(* The others, and these afterwards, go to the shard: GetShardForKey,       *)
(* GetShardAdapter.                                                         *)
(***************************************************************************)
Refuses(c) ==
  /\ at[c] = "lookup" /\ kind[c] \in Stores \cup {"badBatch", "sweep"}
  /\ Moves(c, "no")
  /\ UNCHANGED <<failed, handled, effect, copied>>

Lookup(c) ==
  /\ at[c] = "lookup"
  /\ IF shard[c] \in active THEN Moves(c, "redis") ELSE Fails(c)
  /\ UNCHANGED <<failed, handled, effect, copied>>

(***************************************************************************)
(* The pipeline to the shard's Redis, without the vector that cannot be     *)
(* encoded.  go-redis sends it, up to four times, until it gets an answer   *)
(* or gives up; a copy that was sent may be executed late, again, or never. *)
(* The call fails when the context is cancelled, the server has trouble, or *)
(* the adapter is closed.  A Get answers with the vector or that there is   *)
(* none.                                                                    *)
(***************************************************************************)
Encoded(c) == kind[c] # "badBatch"

Sends(c) ==
  /\ at[c] = "redis" /\ "shards" \notin closed /\ Encoded(c) /\ effect[c] = "no"
  /\ effect' = [effect EXCEPT ![c] = "sent"]
  /\ UNCHANGED <<main, secondaries, grpc, closed, active, failed, kind, shard, told, at, live,
                 inbox, handled, copied, probeVars>>

LateCopy(c) ==
  /\ effect[c] = "sent"
  /\ effect' = [effect EXCEPT ![c] = "done"]
  /\ UNCHANGED <<main, secondaries, grpc, closed, active, failed, kind, shard, told, at, live,
                 inbox, handled, copied, probeVars>>

Get(c) == \E answer \in {"yes", "no"} : Moves(c, answer)

UseRedis(c) ==
  /\ at[c] = "redis" /\ "shards" \notin closed
  /\ Encoded(c) => effect[c] # "no"
  /\ effect' = [effect EXCEPT ![c] = IF Encoded(c) THEN "done" ELSE @]
  /\ \/ kind[c] # "get" /\ Moves(c, IF kind[c] = "sweep" THEN "yes" ELSE "replicate")
     \/ kind[c] = "get" /\ Get(c)
  /\ UNCHANGED <<failed, handled, copied>>

RedisFails(c) ==
  /\ at[c] = "redis"
  /\ ~live[c] \/ shard[c] \in Flaky
  /\ Fails(c)
  /\ UNCHANGED <<failed, handled, effect, copied>>

AdapterClosed(c) ==
  /\ at[c] = "redis" /\ "shards" \in closed
  /\ Moves(c, "closed")
  /\ UNCHANGED <<failed, handled, effect, copied>>

RepliesClosed(c) ==
  /\ at[c] = "closed"
  /\ Fails(c)
  /\ UNCHANGED <<failed, handled, effect, copied>>

(***************************************************************************)
(* Replicate*: the secondary of the shard, unless it has failed, gets the   *)
(* write too, with the context of the call.  A store that fails there marks *)
(* it failed, a delete does not; the reply is the same.  A BatchDelete that *)
(* found nothing to delete does not succeed.                                *)
(***************************************************************************)
Done(c) ==
  \E answer \in IF kind[c] = "batchDelete" THEN {"yes", "no"} ELSE {"yes"} : Moves(c, answer)

Replicates(c) == shard[c] \in secondaries \ failed

ReplicateFails_Unmarked(c) ==
  /\ at[c] = "replicate" /\ Replicates(c)
  /\ ~live[c] \/ shard[c] \in Flaky \/ "replicas" \in closed
  /\ UNCHANGED failed
  /\ Done(c)
  /\ UNCHANGED <<handled, effect, copied>>

ReplicateFails(c) ==
  /\ at[c] = "replicate" /\ Replicates(c)
  /\ ~live[c] \/ shard[c] \in Flaky \/ "replicas" \in closed
  /\ failed' = IF kind[c] \in Stores \cup {"badBatch"} THEN failed \cup {shard[c]} ELSE failed
  /\ Done(c)
  /\ UNCHANGED <<handled, effect, copied>>

Replicate(c) ==
  /\ at[c] = "replicate"
  /\ Replicates(c) => "replicas" \notin closed
  /\ copied' = [copied EXCEPT ![c] = @ \/ (Replicates(c) /\ Encoded(c))]
  /\ Done(c)
  /\ UNCHANGED <<failed, handled, effect>>

(***************************************************************************)
(* The handler of a stream leaves its loop at the first message it          *)
(* receives, before it looks at it, and returns the error otherwise.        *)
(***************************************************************************)
Recv(c) ==
  /\ at[c] = "recv"
  /\ inbox[c] # "empty" \/ ~live[c]
  /\ \/ inbox[c] = "message" /\ Moves(c, "yes")
     \/ (inbox[c] = "eof" \/ ~live[c]) /\ Moves(c, "no")
  /\ UNCHANGED <<failed, handled, effect, copied>>

-----------------------------------------------------------------------------
(***************************************************************************)
(* HealthChecker.Check takes one snapshot of the shards, one of the active  *)
(* shards and one per shard of the replicas.  The HTTP status of /health    *)
(* and /health/ready is 503 for "unhealthy" and 200 (StatusOK) for          *)
(* "healthy" and "degraded", which "serves" stands for.  The context is     *)
(* not used.                                                                *)
(***************************************************************************)
CheckBegins ==
  /\ main \in Exposed /\ probe = "idle"
  /\ probe' = "shards" /\ toAsk' = Shards /\ hadFailed' = (failed # {})
  /\ UNCHANGED <<main, secondaries, grpc, closed, active, failed, callVars, report>>

FromPercentage ==
  IF Shards = {} \/ 2 * Cardinality(active) < Cardinality(Shards)
  THEN "unhealthy" ELSE "serves"

GetHealthyShards ==
  /\ probe = "shards"
  /\ probe' = "replicas" /\ report' = FromPercentage
  /\ UNCHANGED <<main, secondaries, grpc, closed, active, failed, callVars, toAsk, hadFailed>>

GetReplicaStatus_LastCounts(s) ==
  /\ probe = "replicas" /\ s \in toAsk
  /\ toAsk' = toAsk \ {s}
  /\ report' = IF s \in failed THEN "unhealthy" ELSE FromPercentage
  /\ UNCHANGED <<main, secondaries, grpc, closed, active, failed, callVars, probe, hadFailed>>

GetReplicaStatus(s) ==
  /\ probe = "replicas" /\ s \in toAsk
  /\ toAsk' = toAsk \ {s}
  /\ report' = IF s \in failed THEN "unhealthy" ELSE report
  /\ UNCHANGED <<main, secondaries, grpc, closed, active, failed, callVars, probe, hadFailed>>

StatusOK == report # "unhealthy"

CheckEnds ==
  /\ probe = "replicas" /\ toAsk = {}
  /\ probe' = "idle" /\ report' = "none" /\ hadFailed' = FALSE
  /\ UNCHANGED <<main, secondaries, grpc, closed, active, failed, callVars, toAsk>>

-----------------------------------------------------------------------------
HandlerStep(c) ==
  \/ Refuses(c) \/ Lookup(c) \/ UseRedis(c) \/ RedisFails(c) \/ AdapterClosed(c) \/ RepliesClosed(c)
  \/ Replicate(c) \/ ReplicateFails(c) \/ Recv(c)

MainStep == Exit \/ ServeErr \/ TenSeconds \/ CloseShards \/ CloseReplicas

ProbeStep ==
  GetHealthyShards \/ (\E s \in Shards : GetReplicaStatus(s)) \/ CheckEnds

Next ==
  \/ Start \/ Listen \/ Killed \/ Serve \/ Signal \/ GracefulStop \/ MainStep
  \/ \E s \in Shards : HealthFlips(s) \/ LagExceeded(s)
  \/ \E c \in Calls :
       \/ \E k \in Kinds, s \in Shards : Issue(c, k, s)
       \/ SendOrClose(c) \/ GiveUp(c) \/ Return(c) \/ Dispatch(c) \/ Withdrawn(c)
       \/ HandlerStep(c) \/ UpdateWithoutVector(c) \/ Sends(c) \/ LateCopy(c)
  \/ CheckBegins \/ ProbeStep

Spec == Init /\ [][Next]_vars

(***************************************************************************)
(* Fairness.  main and the goroutines of Serve and GracefulStop run.        *)
(* Handlers may hang, and nobody needs to close a stream, to give up a      *)
(* call, or to start the server.                                            *)
(***************************************************************************)
FairSpec == Spec /\ WF_vars(MainStep) /\ WF_vars(Serve \/ GracefulStop)
-----------------------------------------------------------------------------
(***************************************************************************)
(* Types.                                                                   *)
(***************************************************************************)
TypeOK ==
  /\ main \in Running \cup {"down"} /\ secondaries \subseteq Shards
  /\ grpc \in Stopping \cup {"new", "serving", "refused"}
  /\ closed \subseteq {"shards", "replicas"}
  /\ active \subseteq Shards /\ failed \subseteq Shards
  /\ kind \in [Calls -> Kinds \cup {None}] /\ shard \in [Calls -> Shards \cup {None}]
  /\ told \in [Calls -> {"idle", "pending", "ok", "partial", "error"}]
  /\ at \in [Calls -> {"none", "waiting", "lookup", "redis", "replicate", "recv",
                       "closed", "yes", "no"}]
  /\ live \in [Calls -> BOOLEAN] /\ inbox \in [Calls -> {"empty", "message", "eof"}]
  /\ handled \in [Calls -> 0 .. 1] /\ effect \in [Calls -> {"no", "sent", "done"}]
  /\ copied \in [Calls -> BOOLEAN]
  /\ probe \in {"idle", "shards", "replicas"} /\ toAsk \subseteq Shards
  /\ report \in {"none", "serves", "unhealthy"} /\ hadFailed \in BOOLEAN

(***************************************************************************)
(* The server and the client library implement RpcPromise, over timeouts,   *)
(* broken connections, shutdowns and restarts: a call is handled once at    *)
(* most (the client never sends it again), and has taken effect when the    *)
(* library returns success.  A partial batch, and the success of a Vague    *)
(* call, promise nothing.                                                   *)
(***************************************************************************)
Outcome(c) ==
  IF told[c] \in {"idle", "pending"} THEN told[c]
  ELSE IF told[c] = "ok" /\ kind[c] \notin Vague THEN "success" ELSE "unsure"

Promise == INSTANCE RpcPromise WITH outcome <- [c \in Calls |-> Outcome(c)],
                                    applied <- [c \in Calls |-> effect[c] = "done"]
PromiseKept == Promise!Spec

(***************************************************************************)
(* A store acknowledged by a process has been written to the shard's        *)
(* secondary, unless that is marked failed, as long as the process lives    *)
(* (Insert, Update and BatchInsert ignore what Replicate* returns).  Of a   *)
(* vector that cannot be encoded nothing is promised.                       *)
(***************************************************************************)
AcknowledgedIsCopied ==
  \A c \in Calls :
    told[c] = "ok" /\ at[c] = "none" /\ kind[c] \in Stores /\ shard[c] \in secondaries
      => copied[c] \/ shard[c] \in failed

(***************************************************************************)
(* A handler finds its adapter closed only when ten seconds after a signal  *)
(* were not enough for GracefulStop: not before they are over, and never    *)
(* once it has returned (main closes the managers without waiting for it).  *)
(***************************************************************************)
GraceIsKept ==
  (\E c \in Calls : at[c] = "closed")
    => main \in {"closing", "closingReplicas", "exiting"} /\ grpc \in {"goaway", "draining"}

(***************************************************************************)
(* /health and /health/ready never answer 200 when the secondary of a shard *)
(* had failed before the check began; its reads are separate snapshots      *)
(* (HealthChecker.Check).                                                   *)
(***************************************************************************)
ReadyIsTrue == probe = "replicas" /\ toAsk = {} /\ StatusOK => ~hadFailed

(***************************************************************************)
(* After a signal the process ends, although clients keep streams open and  *)
(* GracefulStop waits for them.                                             *)
(***************************************************************************)
ShutdownEnds == main = "grace" ~> main = "down"

-----------------------------------------------------------------------------
(***************************************************************************)
(* "gRPC API: Fast binary protocol with streaming support" (README.MD:10):  *)
(* when a stream to which the client sent a message ends well, the message  *)
(* has been dealt with.                                                     *)
(***************************************************************************)
StreamMessageHandled ==
  \A c \in Calls : kind[c] = "stream" /\ told[c] = "ok" => effect[c] = "done"
=============================================================================
