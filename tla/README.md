# VectorHub in TLA+

Specifications of VectorHub (a sharded vector store in Go over Redis, `src/`), model-checked with
TLC, with theorems checked by TLAPS. Paths below are relative to `src/`.

## 1. The system

| Part | State | Operations | Talks to |
|---|---|---|---|
| Replication manager (`internal/replication/manager.go`) | `replicas`, `primaryNodes`, `adapters`, the replication log; guarded by `mu`, partly read without it | `RegisterReplica`, `ReplicateInsert/Batch/Update/Delete/BatchDelete`, `PromoteReplica`, `GetReplicationLog`, `Close`, a monitor goroutine | replica Redis servers |
| Consistent hash ring (`internal/shard/consistent_hash.go`) | `nodes`, `sortedKeys` under `mu` | `AddNode`, `RemoveNode`, `GetNode` | - |
| Shard manager (`internal/shard/manager.go`) | `shards` with status, `nodeToShards`, `shardToAdapter` under `mu` | `NewShardManager`, `GetShardForKey`, `GetShardAdapter`, health-check goroutine, `Close` | ring, shard Redis servers |
| Vector service (`internal/server/vector_service.go`) | `indexes` under `indexMu`, in memory only | `Insert`, `BatchInsert`, `Update`, `Delete`, `BatchDelete`, `CreateIndex`, `DropIndex`, `Search`, `Get`, `GetStats`, three streaming handlers | shard manager, adapters, replication manager |
| Redis adapter (`internal/storage/redis_adapter.go`) | a client | one pipeline per operation | Redis |
| Top-k and distances (`internal/storage/helpers.go`, `vector.go`) | none | selection, sorting, similarity, JSON | - |
| Health checker (`internal/server/health.go`) | none | `Check`, HTTP handlers | managers |
| `cmd/vectorhub/main.go` | - | wiring, registration of the replicas, serving, shutdown | all |
| Client library (`pkg/client/client.go`) and stubs (`api/proto/vectorhub_grpc.pb.go`) | a connection | one method per call, each with a deadline; streams | gRPC server |
| Configuration (`internal/config/config.go`) | settings | `Load`, which only returns without a configuration file; `Validate` has no caller | main |
| Metrics, generated messages | counters; data | - | - |

A write goes: handler -> index lookup -> `GetShardForKey` -> `GetShardAdapter` -> pipeline to the
shard's Redis -> `Replicate*`, which starts one goroutine per active secondary and waits for them
all -> reply. Beside the handlers run the health check (shard manager) and the lag monitor
(replication manager).

What is hard here:

* handlers overlap on a key, and pipelines are not transactions, so commands of two handlers
  interleave (`redis_adapter.go:108`);
* fields of `ReplicaNode` are read without the lock while others write them (`manager.go:131`,
  `:379`, `:383`);
* a call may fail on some replicas or shards only, or fail and be executed late, and go-redis
  sends a pipeline up to four times, since nobody sets its `MaxRetries` (`redis_adapter.go:54`): a
  copy may be executed twice, or after a later write;
* a batch leaves out vectors that cannot be encoded, without an error (`redis_adapter.go:150`);
* the health check and the index operations hold a lock over network calls;
* Redis servers are down at start-up, stop and restart; the process restarts and loses `indexes`;
* a search lists the ids and then gets each vector while writers run, and merges what its
  goroutines send in any order;
* virtual nodes collide; the log is cut at a boundary; adapters are keyed by address although a
  shard has its own database;
* deadlines, broken connections and signals cut calls off anywhere between the client and the
  replication; main closes the managers ten seconds after a signal, whoever uses them;
* a health check reads the shards and the replicas of each in separate snapshots.

`PROJECT.json` lists these hazards at their lines with the properties that watch them.

## 2. The modules

| Module | Models | Proofs |
|---|---|---|
| `ReplicationManager` | replication manager and main's registration loop | `ReplicationManager_proofs` |
| `ReplicationLog` | contents of the replication log and its readers | `ReplicationLog_proofs` |
| `HashRing` | the reference definition of a key's owner on a ring | - |
| `ConsistentHash` | the map and sorted slice; its lookup is compared with `HashRing` | `ConsistentHash_proofs` |
| `ShardManager` | shard manager; composes `ConsistentHash` (INSTANCE `Hash`, whose ring is `Hash!Ring`) | `ShardManager_proofs` |
| `VectorService` | write and index handlers down to Redis commands | `VectorService_proofs` |
| `Search` | Search with its goroutines and channels, `SearchVectors`, the top-k selection; the loop of StreamSearch; GetStats | `Search_proofs` |
| `SeqFilter` | the loop that appends what passes a test to a new slice, which RemoveNode, BatchStoreVectors and Search contain | `SequenceFacts` |
| `RpcPromise` | abstract: what a caller of VectorHub may rely on | - |
| `VectorHub` | the running server: main, gRPC, client library, streams, health checks; implements `RpcPromise` (`PromiseKept`) | `VectorHub_proofs` |

`SequenceFacts` has no state: it holds the facts about loops and sequences that the other proofs
cite. `MC*` modules give the constants values that a `.cfg` cannot. Operators named `X_Something`
are faulty variants of the definition `X` next to them, used to see that each property can fail;
no specification refers to them.

### ReplicationManager

`role`, `status`, `lastSync` are the fields of the `ReplicaNode` of a shard and an address (`role
= "none"`: not registered); `adapters[a]` is the database that the adapter of `m.adapters[a]`
selects. `stores` is what each database of each replica server contains. What happens under one
acquisition of `m.mu` is one action; `Spawn` (the test in the fan-out loop) and `MonitorCheck`
read without the lock and are steps of their own. The goroutine of a call on a replica is
`go[c][a]`: "check", "send", then "ok" or "err" until it has recorded the outcome. `SettleOk` and
`SettleErr` put `logReplication` and the marking together: they touch different variables under
different locks and nothing reads both.

Unlocked reads are data races. Every status string has the same length as the value it may be
confused with, roles are compared with one constant, and a time's comparison reads one word, so a
racing read returns the outcome of the old or the new value; both are behaviours of the model.

A call is a record of what it makes of each key (`vals`). The vectors of a batch need not be
`Encodable`: `BatchStoreVectors` skips the others and returns nil, so that `CallOk` stores only
what is `Written` and the replica stays active, "synchronised", without the skipped vector. A
batch of which nothing is left succeeds without the server.

`CallFails` covers a server that is down, a closed adapter and the client's cancelled context: the
write may or may not have been executed, for each of its keys, and a given-up delete may be
executed later (`LateWrite`). `Resend` is go-redis giving up on a pipeline and sending it again,
before the call succeeds or fails: some of its keys may have been written, and the earlier copy
may still be executed at any time (`LateWrite`), after later writes too. `Slow` are the servers on
which that happens. The monitor runs from the construction of the manager, so also during
registration. A replica server that restarts keeps its data (`docker-compose.yml` runs Redis with
`--appendonly yes`).

Ghosts: `settled[k]` is the caller that is alone in writing `k`, then the value that its finished
call wrote; `Unknown` once two calls on `k` overlapped, since nothing orders them. A call does not
claim a vector it skips. `wasPrimary` and `unresolved` delimit what `ActiveSecondaryHasWrites`
excepts: replicas that have been primary (the fan-out skips them), and the values of failed
deletes and of calls sent twice, which a replica may hold instead.

### ReplicationLog

An entry is the ordinal of the call that logged it, so the model can tell which entries a cut
keeps. `ReplicationManager` has the length only.

### HashRing and ConsistentHash

`HashRing` defines, for the owners of the positions, the owner of a key (`Lookup`).
`ConsistentHash` keeps the map and the sorted slice with its duplicates (a node is added once per
shard it carries), and `GetNode` searches the slice; `GetNodeAgrees` compares it with `Lookup` on
the map. `sort.Slice` is modelled by the rank of each entry (`HasRank`). `KeysMoveMinimally` is
about what `GetNode` answers before and after a change of the nodes. CRC-32 is any function:
`VHash` and `KeyHash` are constants, and the instances make nodes collide.

### ShardManager

One `NewShard` step per round of the constructor's loop. The health check takes the lock, visits
the shards in any order and releases it; handlers wait for it. `up` is external. `GetShardForKey`
is `Route`; its error cannot occur once the manager is ready (`EveryKeyRoutes`), so no action
follows it.

### VectorService

One index name. A handler is a record: the vectors it wants stored (or `Absent` to delete), the
shards its loop has yet to visit, and the pipeline under way on each shard. All handlers share the
loop: `StartShard` / `SkipShard` (is `GetShardAdapter` successful?), `Command` (Redis executes one
command), `Resend` (go-redis sends the pipeline again, from its first command, and the rest of the
first copy is lost or late), `PipelineFails` / `PipelineDone`, `Reply`. They differ in `Commands`;
Update sends a delete and then a store, ignoring a failure of the delete. A parallel BatchInsert
has several pipelines under way, all other loops one. `LockIndex` to `UnlockIndex` is the critical
section of CreateIndex and DropIndex.

Redis is `vec` (the vectors) and `ids` (members of the sorted set that Search and GetStats use).
Metadata keys are written and never read by the service; timestamps are only scores. `Encodable`
are the vectors `json.Marshal` accepts: not those with NaN or infinity; StoreVector fails on
another, BatchStoreVectors leaves it out. A batch names each vector ID once. Requests that
`Validate` or the "vector is required" test of Insert refuses change nothing and are left out.
Update has no such test: a nil Vector panics at `vector_service.go:400` and ends the process,
which is a `Restart` here.

`promise` (ghost) is kept for a key's vector and for its listing: the handler alone in writing it,
then what its success promises. Two overlapping writers, a failed write and a late command void
it. A handler claims only what its commands touch: BatchDelete deletes vectors and leaves the ids,
DropIndex deletes the ids of the shards it reaches and leaves the vectors. So `AckedWritesHold`
says what remains after those two as well. A vector that a batch leaves out is not claimed: the
reply counts it as inserted, but what its key held before must still be there.

### Search

One search at a time, since searches only read; `vec` and `listed` are Redis as in
`VectorService`, changed by the writers' commands in any order. A vector is abstracted to its
score against the query and a filter to the scores it accepts. `StartSearch` copies the healthy
shards; `worker[s]` is the goroutine of a shard: `GetAdapter`, `GetAllVectorIDs`, one `GetVector`
per id, then `SendResults` or, at a failure, `Fail`, which sends to a channel nobody receives
from. `CloseChannels` is the goroutine that waits for the others; `Merge` and `Reply` are the
handler. `QuickSelect`, `Partition` and `SortByScore` follow `helpers.go` swap by swap, as
recursive functions; `Narrow` is how a pass moves the bounds and `BringBest` the inner loop of the
sort. A failed GET is passed over as in the code. Scores are numbers: a NaN (from a NaN in the
query, or norms that overflow a float32) compares with nothing, and no property speaks of replies
with such scores.

`seen`, `steady` and `missing` (ghosts) are the vectors stored at some time during the search,
those stored and listed all the time, and the shards that did not answer in full. `ReplyIsTopK` is
the selection's reference definition applied to `steady`.

GetStats (`StartStats`, `StatsAdapter`, `CountShard`, `ReplyStats`) asks the shards one after the
other and passes over those that fail; for it `seen` and `steady` follow the listing alone, and
`StatsCountListed` bounds the count by them.

### RpcPromise and VectorHub

`RpcPromise` is the caller's side: a call is issued, is handled at most once, takes effect only if
it is handled, perhaps after the caller was answered or gave up, and has taken effect when the
caller is told of success. How often its commands are executed is not promised, because go-redis
may send them again.

`VectorHub` composes the parts as a caller sees them. `main` is where `main()` is: down, building
the managers, serving, in the ten seconds after a signal (`grace`), closing the shard manager,
closing the replication manager, exiting. `grpc` is the server, used by two goroutines (`Serve`,
`GracefulStop`): when the signal comes first, `Serve` returns an error and `logger.Fatal` ends the
process at once. When it comes later, GracefulStop tells the clients to go away (`goaway`: what
they send until they have heard it is still served), waits for the handlers (`draining`) and
returns (`stopped`). The process starts on the default configuration, the only one with which it
gets that far (see section 3).

`at[c]` follows one call: waiting for a server, in its handler (`lookup`, `redis`, `replicate`,
for streams `recv`, or `closed` when the adapter was closed under it), then `yes` or `no` while
its reply is under way. `told[c]` is what the client's program has got. `live[c]` is the context
of the handler. A request that no process accepted stays and may reach the next one; the handlers
of a process that ends are gone and their calls end by their deadline. The client library never
retries (`MaxRetries` is unused), and gRPC retries only requests that no server has processed, so
that `handled[c]` is at most 1. `effect[c]` is what became of the pipeline: not sent (`no`),
`sent` (`Sends`), executed (`done`). A copy that was sent may be executed late (`LateCopy`),
whatever the handler has replied meanwhile; `UseRedis` is an answer to one of the copies. An
Update without a Vector (`UpdateWithoutVector`) ends the process with all its handlers.

The managers are reduced: `active` and `failed` are what `ShardManager` and `ReplicationManager`
decide, changed by the health check, the lag monitor and the handlers; `secondaries` are the
shards whose replica could be registered. A call concerns one shard of `Targets`. Handlers over
all shards are a `sweep`: what one shard does cannot be told from their reply. For those, and for
BatchDelete, whose reply is a count over all shards, success promises nothing (`Vague`).
BatchInsert returns no error for failures; the shard's part is `partial` when FailedIDs says so. A
`badBatch` is a BatchInsert seen from a vector that cannot be encoded: it is acknowledged, not in
FailedIDs, not sent and not copied (`Encoded`), and so Vague as well; the secondary stays active.

The probe follows `Check`: one snapshot of the shards, one per shard of its replicas. `hadFailed`
(ghost) remembers whether a replica had failed before it began.

## 3. The runs

Passing:

| Run | Shows | Bounds |
|---|---|---|
| `replication_safety` | one recorded primary; each server's data in one database; active secondaries hold settled writes | 2 shards, addresses a1 a2 a1 (the repetition is refused), 2 callers (symmetric), 1 key, 1 vector that can be encoded and 1 that cannot, calls sent again and executed late on a2 (`Slow`), log cut at every entry, promotions of a2; clock at 0 |
| `replication_live` | every Replicate call returns; overdue secondaries are dealt with | 1 shard, 2 replicas, 1 caller, the same vectors, a2 may stop and restart and is `Slow`, log cut above 1, clock to 2, thresholds 0 and 1 |
| `replication_log` | recent entries kept, replies are the latest | a log of 6 cut by 3, 16 entries logged; limits -1, 0, 1, 3, 6 and 7 |
| `consistent_hash` | slice and map agree; lookup is the ring's; membership changes move no more keys than needed | 3 nodes, 2 virtual nodes each, 6 positions, one collision between nodes and one within a node; slice of at most 10 |
| `shard_manager` | adapters, status, routing, sharing of keys, progress | 3 shards on 2 servers, 3 keys, 1 request, any server down at any time |
| `service_calls` | successful writes hold, stable dimension, lookups outdated by drops only, replies | 2 handlers, 1 key, 3 vectors (one unencodable), 2 dimensions, 1 shard that fails pipelines and turns inactive, each call sends 1 pipeline again (`MaxRetries`), restarts |
| `service_batch` | batches report failures truthfully | 1 handler, 3 keys over 2 shards, 3 vectors (one of another dimension, one unencodable), a shard that fails pipelines, 1 late pipeline, 1 sent again |
| `search` | the reply is the top k by score, nothing is made up, no goroutine blocks, a count is one of listed vectors | 4 vectors, any 3 scores, 3 on a shard that may fail and turn inactive (symmetric), 1 on another; 1 command of a writer; requests for 2, for all above a minimum, for 1 with a filter; GetStats |
| `vectorhub` | calls implement `RpcPromise`; acknowledged stores are copied or the secondary is marked failed; nothing is closed under a handler within the grace, or after GracefulStop; health checks tell the truth; shutdown ends | one call after the other, of any kind, on a shard whose servers may fail, beside a shard whose do not; any number of signals, kills and restarts |

The instances are small because the hazards are: two callers on one key show every overlap, since
the promises are per key; a second shard is needed where an address serves two; two keys on one
shard and one on the other give a pipeline with several vectors and a batch with several groups.
`MaxTime`, `MaxKeys`, `MaxLogged` and `MaxLate` bound what grows without limit in the code,
`MaxRetries` the three further attempts of go-redis (one gives a copy before, between and after another
write; `VectorHub` and `ReplicationManager` have no such bound); one writer's command may fall
between any two steps of a search, and lists of up to four with ties and three scores take the
selection through every branch. Deadlock is checked in all of them.

What the code does not keep (each a run whose property TLC refutes):

| Run | The text says | The code does |
|---|---|---|
| `automatic_failover` | README.MD:9 "automatic failover" | marks late secondaries failed, never looks at the primary, and nothing calls `PromoteReplica` |
| `search_finds_similar` | README.MD:189 "Find similar vectors" | the score is a distance (1 - similarity) and the highest are kept: the reply is the least similar vectors |
| `stream_message_handled` | README.MD:10 "streaming support" | the loops of the three stream handlers break when `Recv` succeeds (`vector_service.go:672`, `:785`, `:927`): the first message ends the stream with success, unread and unanswered |

Other differences met while modelling, which no run isolates: a delete that fails on a replica is
only logged, and the replica stays active with the vector (`manager.go:237`); an Insert that
overlaps a Delete of its key may leave the vector stored and not listed, so that no search finds
it (DEL, SET, ZADD, ZREM; `redis_adapter.go:108`); SearchVectors scores by cosine whatever the
index's metric (`redis_adapter.go:328`, README.MD:11); a search replies success without the shards
that failed and the vectors whose GET failed; BatchStoreVectors skips a vector that cannot be
encoded (`redis_adapter.go:151`) and BatchInsert counts it as inserted (README.MD:188), and
ReplicateBatch leaves the secondary active without it (`manager.go:194`); go-redis sends a
pipeline up to four times (`redis_adapter.go:54` sets no `MaxRetries`), so that an acknowledged
write may be executed again after a later one of its key; `PromoteReplica` on the current primary
leaves the shard without one although `primaryNodes` (manager.go:24) names it; a shard whose Redis
was down at start-up never gets an adapter; a key of an inactive shard is refused while others are
active (README.MD:219 speaks of failover); DropIndex leaves the vectors, so Get returns them and a
new index of the name inherits them (README.MD:194); BatchDelete leaves the ids, so GetStats
counts deleted vectors; an Insert that read the index before a DropIndex and CreateIndex stores a
vector of the old dimension in the new index (`vector_service.go:55`; that only a drop can outdate
the lookup is `OnlyDropsOutdate`).

And of the process: a server without writes marks its secondaries failed after `FailoverTimeout`,
and `/health/ready` (the readiness probe of `deployments/k8s/vectorhub-deployment.yaml`) answers
503 until it is restarted; a restart makes every replica that answers active again, whatever it
missed; readiness is reported during the ten seconds in which new calls are refused; an Update
without a Vector panics (`vector_service.go:400`), and with no recovery interceptor in main the
process ends; `config.go:121` speaks of keys with double underscores, but hands viper a nil
`*strings.Replacer`, which `AutomaticEnv` makes it call: `Load` panics wherever the configuration
file exists, and the server starts only without one; `Validate` is never called; `ReplicaNode.Lag`
is never anything but 0, so the average lag in a health check cannot be too high; CreateIndex,
DropIndex, Search and GetStats report success whatever shards fail.

### Fairness

Actions of clients, operators, servers and the network are never fair. Weak fairness: the
scheduler runs every goroutine, adapter calls end (client deadlines, five-second timeouts, a
bounded number of attempts), tickers fire until `Close`, time goes on, the start-up loops finish.
Strong fairness: a handler waiting on a `sync.RWMutex` that is released again and again, since
that lock starves neither side. `replication_live`, `shard_manager`, `service_calls` and
`automatic_failover` use it. In `vectorhub` only main and the goroutines of `Serve` and
`GracefulStop` are fair, and neither of these is taken to be delayed for the ten seconds of the
shutdown; handlers may hang and clients may keep streams open, and shutdown still ends. `search`
assumes none: its liveness is stated as `SendsNeverBlock`, a blocked send being the only way a
search could hang when Redis calls end.

## 4. The proofs

All results hold for every value of the constants that the named assumptions allow
(`ConfigAssumption`: at least one shard and one address, a cut that leaves the log within its
capacity; `DistinctAssumption`: the special values differ from ordinary ones).

**ReplicationManager.** The lemma `Invariant` shows that `IInv` is inductive; `TypeCorrect`,
`PrimaryIsRecorded`, `DataInOneDatabase` and `SecondariesHoldWrites` follow. The safety properties
are not inductive alone:

* `ActiveSecondaryHasWrites` speaks of calls that are over. `DeliveryInv` says what it becomes
  while the call is running: a replica that the call is done with, and that is still active, holds
  the value, or what a command sent earlier wrote late. `CallInv` ties goroutines to calls and
  makes the claim in `settled` exclusive, so no other caller can overwrite it in between. A failed
  store marks the replica failed in the step that ends its goroutine, and nothing clears that.
* `ReplicaDataInOneDatabase` needs `RegistrationInv`: the loop goes through the shards in order,
  so the adapter of an address belongs to the last shard it is registered for, and no call starts
  before the loop is over.

The proof has one lemma per part of `IInv` and in it one step per action.

**ReplicationLog.** `LogKeepsRecent`: for any capacity and any cut up to one more than the
capacity, the log is the suffix of what was logged, long enough and not too long. The property is
inductive; the work is in `AppendAndCut`, on sequences. `RepliesAreLatest` needs no more:
`ReadLatest` shows that a suffix of a suffix is one.

**SequenceFacts.** The prover cannot instantiate an induction theorem, since that takes a
predicate as its parameter. `LeastElement` (every set of naturals that is not empty has a least
element, from the library's `WFMin`, whose parameters are sets) takes its place: assume that a
property fails, take the least number at which it does, and look at the one before. `Recursion`
shows in this way that a recursive function on `0 .. n` satisfies its equation; `Loops` describes
a loop by the states it may be in, and `LoopKeeps` and `LoopStates` are the rule for its
invariant. `FilterPicks` and `FilterLength` say what `Filter` returns. With these, what the loops
of this code compute is proved for every input.

**ConsistentHash.** `KeysAlwaysMatch` (`KeysMatchMap`): the inductive `KeysInv` orders any two
entries and not only neighbours. That sorting keeps the members and brings them in order is
`SortedSorts`, by counting the entries below each rank; that RemoveNode's loop keeps order and
members follows from `FilterPicks`. `GetNodeAlwaysAgrees`: in an ordered slice the first index not
below `x` holds the first position of the ring at or after `x`, and past the end the wrap-around
is the ring's. `KeysAlwaysMoveMinimally`: with the two, what `GetNode` answers is the owner of the
first position after a key, and lemmas show that this is unchanged by positions added or removed
elsewhere.

**ShardManager.** `ActiveShardsHaveAdapters`: `AdapterInv` adds that the loop of NewShardManager
sets the shards up in order, so that one it has not come to is not active. `EveryKeyAlwaysRoutes`
and `ShardsAlwaysShareKeys`: `PlacementInv` takes `KeysInv` over from `ConsistentHash_proofs` (by
INSTANCE) and says what the loop has done so far: each node on the ring has a shard, and the
shards of a node are listed in increasing order, so once each. `ShardManagerTyped` joins the types
to it.

**VectorService.** `DimensionKept`, an action property: `LockInv` says that an index operation
that visits the shards holds `indexMu` (so there is one at a time), and that what it found in
`s.indexes` is still so; a restart forgets the index and the lock together.
`OnlyDropsAlwaysOutdate` follows for the handlers that use what they read after releasing the
lock: `GoesOn` shows that a handler stays with its call from the lookup on, and what the lookup
found can then only go with the index.

`AckedWritesAlwaysHold`, under `ServiceAssumption`, for any number of handlers, keys and shards,
of calls in flight, failures and restarts. `AckedWritesHold` says that a promise is true, and that
is all it says: nothing in it tells why the step that makes the promise may make it. `WriteInv`
says what a handler may count on before that:

* `Claimed`: whoever has a pipeline under way on a place (a key's vector or its listing) holds the
  promise of that place, or the promise is void. So two writers of one place void it, whichever
  comes first, and a fulfilled promise has no writer.
* `OnCourse`: the commands a pipeline has yet to run touch only the places its handler writes, set
  there what the handler promises, and at each place where its claim stands it has written, or is
  still to write. A pipeline that has run to its end has therefore written all of them. Update's
  pipeline is exempt while it is the delete; the store that follows it starts afresh on the same
  claim.
* `Honoured`, the property itself by place.

`CommandsFresh` shows that each of the six kinds of pipelines starts on course, the batches by
`FilterPicks`, in any order of their vectors; a pipeline that is sent again starts so as well
(`SendsAnew`), on the same claim, and so does the store of Update. A failed pipeline voids its
places before its tail can become late; a late command voids what it touches. `ServiceTyped`
(`TypeOK`) is part of the same invariant: a pipeline runs only in a handler that visits the
shards, and only of keys routed to its shard.

**Search.** The shards and vectors are finitely many (`SearchAssumption`), no bound is used.

* `NoSendBlocks`: every goroutine sends once, in the step that ends it, so that the two channels
  together never hold more than one entry per goroutine that is done (`SendInv`); one that is not
  leaves room for itself (`RoomLeft`). GetStats has no channels and cannot disturb it.
  `SearchTyped` adds the types and that a goroutine finds only what is in `seen` (`Remembers`).
* The selection, for every list and every `k`, ties included: `PartitionPivots` (a pass moves what
  it sorts, and only that, and its pivot parts the range), `QuickSelectCuts` (when the passes end,
  nothing after the first `k` is better than anything in them: either the pivot has landed on `k`,
  or the bounds have met, and everything outside them is already cut at them), `BringBestBrings`
  and `SortByScoreSorts`, hence `BestIsTop`.
* `RepliesAreTopK` and `RepliesWereStored`: neither is inductive, since both speak of the reply
  alone. `SelectInv` follows what is read on its way there. `Reading`: a goroutine has found, or
  has still to read, each vector of its shard that was there all the time, each id once, and only
  what was there at some time. `Claims`, from the moment it sends: such a vector is in the pool
  (what was merged and what is in the channel), or `k` others in the pool are not worse. This
  claim cannot be undone, because the pool only grows until the reply and no id is in it twice
  (`Apart`: an id has one shard). At the reply, `k` different results that are not worse than a
  vector leave no room for it in the best `k` (`TopBeats`, by the pigeonhole theorem), and the cut
  at `min_score` cannot shorten those.
* `CountsAlwaysListed`: `Tallied`, the sum so far lies between what was listed all the time and
  what was listed at some time, on the shards counted so far.

**VectorHub.** Under `HubAssumption` (the call kinds and shards named exist), for any number of
concurrent calls: `TypeCorrect`, `AcknowledgedCopies`, `GraceKept`, `ReadyTrue` and
`KeepsPromise`, the refinement of `RpcPromise`. `IInv` adds to the types: `ProcessInv`, handlers
and probes exist only in a process that serves, and none once GracefulStop has returned;
`CallInv`, the place of a call tells whether it has had a handler and whether it has taken effect,
and a request, handler or reply exists only for a call whose caller waits or has given up;
`CopyInv`, `AcknowledgedIsCopied` from the moment the handler decides its reply; `ProbeInv`, a
replica that had failed is still to be asked about, or has been reported. The refinement needs
`CallInv`: nothing takes effect that has not been handled, no request is handled twice, and
`Return` reports the success of a call that is not Vague only when it has taken effect.

Only model-checked: liveness, for which neither fairness nor ENABLED is within the prover's reach
(`ReplicateReturns`, `OverdueReplicaHandled`, `RequestsEnd`, `RecoveredShardServes`,
`EveryRpcReplies`, `ShutdownEnds`), and the three findings. Every other property of a passing run
is a theorem. The inductive invariants also hold in TLC on the instances of the runs (`SelectInv`
with its quantifiers bounded to the results there are); they are not part of the runs, which check
the properties that follow from them.

## 5. Not modelled

Floating-point distances and JSON (no TLC representation; only that some vectors are refused is
used; NaN scores are left out), configuration (the values of the constants; no file can be
loaded), metrics (nothing reads them), the client's conversions, generated messages, logging.
`GetNodes`, `GetNodeCount` and `GetShardStats` only copy. `RebalanceShards` changes no state and
`UpdateShardReplicas` only a field of GetStats; neither has a caller. The sharded adapter
(`NewShardedRedisAdapter`) has no caller, nor has `Validate`. What the handlers of streams do
after the first message is unreachable. `/health/live` answers whenever the process runs.
Keepalive limits of the connections enter `VectorHub` as calls that are given up.

## 6. Plan

All modules of section 2 are done, with the runs above; every safety property of a passing run is
proved. What may be added:

1. the safety part of the liveness properties, where it is worth a theorem (a handler that waits
   has somebody to wait for: the lock of the health check has a holder that is in its loop, and so
   has `indexMu`);
2. refinements of the reduced managers in `VectorHub` by `ShardManager` and `ReplicationManager`.
