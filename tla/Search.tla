------------------------------- MODULE Search -------------------------------
(***************************************************************************)
(* The read path: Search of internal/server/vector_service.go with its      *)
(* goroutine per shard and two channels, SearchVectors of                   *)
(* internal/storage/redis_adapter.go, which lists the ids and then gets     *)
(* them one by one, and the selection of internal/storage/helpers.go; and   *)
(* GetStats, which counts the ids of one shard after the other.  Writers'   *)
(* commands and the health check run meanwhile.  These calls only read, so  *)
(* that one at a time is enough.                                            *)
(*                                                                         *)
(* A vector is abstracted to its score against the query (a number) and a   *)
(* filter to the scores of the vectors it accepts.  The score is computed   *)
(* by GetDistanceFunc("cosine"), whatever the index's metric: it is a       *)
(* distance, 1 - similarity.                                                *)
(***************************************************************************)
EXTENDS Naturals, Sequences, SequencesExt, SeqFilter

CONSTANTS
  Ids, Shards, ShardOf,  \* vectors and the shard each is routed to
  Scores,
  Requests,              \* what clients ask for: top_k, min_score, a filter
  DefaultTopK,           \* what top_k <= 0 stands for
  MayFail,               \* shards whose Redis calls may fail, or that turn inactive
  MaxWrites,             \* bound on the writers' commands
  None, Absent, Refused, Ended

ASSUME SearchAssumption ==
  /\ IsFiniteSet(Ids) /\ IsFiniteSet(Shards)
  /\ ShardOf \in [Ids -> Shards] /\ MayFail \subseteq Shards
  /\ Scores \subseteq Nat
  /\ Requests \subseteq [k : Nat, min : Nat, filter : SUBSET Scores]
  /\ DefaultTopK \in Nat \ {0} /\ MaxWrites \in Nat
  /\ Absent \notin Scores /\ None \notin Seq([id : Ids, score : Scores])

VARIABLES
  vec,      \* vec[k]: "vector:<index>:<k>"
  listed,   \* the members of "index:<index>:ids" of all shards
  writes,   \* commands the writers have run
  active,   \* shards whose status is "active"
  req,      \* the request being served or served last
  worker,   \* the goroutine of each shard
  results,  \* resultsChan
  errors,   \* the length of errorsChan, which nobody receives from
  closed,   \* both channels are closed
  merged,   \* allResults
  total,    \* totalVectors, of GetStats
  reply,
  seen,     \* history: the vectors there at some time during the call
  steady,   \* history: those there, and to be found, all the time
  missing   \* history: shards that contribute nothing or too little

redis   == <<vec, listed, writes>>
tally   == <<merged, total>>
history == <<seen, steady, missing>>
vars == <<redis, active, req, worker, results, errors, closed, tally, reply, history>>

Result(k, x) == [id |-> k, score |-> x]
Stored   == {Result(k, vec[k]) : k \in {i \in Ids : vec[i] # Absent}}
Findable == {r \in Stored : r.id \in listed}
Busy     == req # None /\ reply = None

(***************************************************************************)
(* The history is of vectors for a search and of listed ids for GetStats.   *)
(***************************************************************************)
Present(call)  == IF call = "stats" THEN listed ELSE Stored
Lasting(call) == IF call = "stats" THEN listed ELSE Findable

Idle == [s \in Shards |-> [pc |-> "none", todo |-> <<>>, found |-> <<>>]]

-----------------------------------------------------------------------------
(***************************************************************************)
(* internal/storage/helpers.go, on indices from 1.                          *)
(***************************************************************************)
Swap(rs, i, j) == [rs EXCEPT ![i] = rs[j], ![j] = rs[i]]

Partition(rs, l, r) ==
  LET before[j \in l .. r] ==  \* the loop's state when it comes to j
        IF j = l THEN [rs |-> rs, i |-> l]
        ELSE LET st == before[j - 1]
             IN  IF st.rs[j - 1].score > rs[r].score
                 THEN [rs |-> Swap(st.rs, st.i, j - 1), i |-> st.i + 1] ELSE st
      end == before[r]
  IN  [rs |-> Swap(end.rs, end.i, r), i |-> end.i]

(***************************************************************************)
(* The pass whose pivot ends at k (here k + 1) stops the loop; any other    *)
(* one shortens [l, r], so that Len(rs) passes are enough.                  *)
(*                                                                         *)
(* Scores are compared as numbers.  A NaN, which a query with a NaN or a    *)
(* vector whose norm overflows a float32 gives, compares with none: such    *)
(* scores are left out, and nothing is said of replies that hold them.      *)
(***************************************************************************)
QuickSelect_OnePass(rs, k) == Partition(rs, 1, Len(rs)).rs

Narrow(p, l, r, k) ==
  CASE p.i < k + 1 -> [rs |-> p.rs, l |-> p.i + 1, r |-> r]
    [] p.i > k + 1 -> [rs |-> p.rs, l |-> l, r |-> p.i - 1]
    [] OTHER       -> [rs |-> p.rs, l |-> r, r |-> r]

QuickSelect(rs, k) ==
  LET pass[n \in 0 .. Len(rs)] ==
        IF n = 0 THEN [rs |-> rs, l |-> 1, r |-> Len(rs)]
        ELSE LET st == pass[n - 1]
             IN  IF st.l < st.r THEN Narrow(Partition(st.rs, st.l, st.r), st.l, st.r, k)
                 ELSE st
  IN  pass[Len(rs)].rs

(***************************************************************************)
(* The two loops of SortResultsByScore.                                     *)
(***************************************************************************)
BringBest(rs, i) ==
  LET inner[j \in i .. Len(rs)] ==
        IF j = i THEN rs
        ELSE LET s == inner[j - 1]
             IN  IF s[i].score < s[j].score THEN Swap(s, i, j) ELSE s
  IN  inner[Len(rs)]

SortByScore(rs) ==
  LET outer[i \in 0 .. Len(rs)] ==
        IF i = 0 THEN rs ELSE BringBest(outer[i - 1], i)
  IN  outer[Len(rs)]

Best(rs, k) ==
  SortByScore(IF Len(rs) > k THEN SubSeq(QuickSelect(rs, k), 1, k) ELSE rs)

-----------------------------------------------------------------------------
Init ==
  /\ vec \in [Ids -> Scores \cup {Absent}]
  /\ listed = {k \in Ids : vec[k] # Absent}
  /\ writes = 0 /\ active = Shards
  /\ req = None /\ reply = None
  /\ worker = Idle /\ results = <<>> /\ errors = 0 /\ closed = FALSE
  /\ merged = <<>> /\ total = 0
  /\ seen = {} /\ steady = {} /\ missing = {}

(***************************************************************************)
(* A request, read before the healthy shards are: "search", "stats", or the *)
(* first one on a "stream".                                                 *)
(***************************************************************************)
Limit(k) == IF k = 0 THEN DefaultTopK ELSE k

Request(call) ==
  /\ ~Busy
  /\ \E q \in Requests :
       req' = [k |-> Limit(q.k), min |-> q.min, filter |-> q.filter,
               shards |-> {}, call |-> call]
  /\ worker' = Idle /\ results' = <<>> /\ errors' = 0 /\ closed' = FALSE
  /\ merged' = <<>> /\ total' = 0 /\ reply' = None
  /\ seen' = Present(call) /\ steady' = Lasting(call) /\ missing' = {}
  /\ UNCHANGED <<redis, active>>

(***************************************************************************)
(* The healthy shards are copied under the shard manager's lock; later      *)
(* changes of their health are not seen.  One goroutine per shard starts.   *)
(* Without a healthy shard, or if the index does not exist or has another   *)
(* dimension (fits = FALSE), the request is refused.                        *)
(***************************************************************************)
StartSearch(fits) ==
  /\ Busy /\ req.call = "search" /\ req.shards = {}
  /\ IF fits /\ active # {}
     THEN /\ req' = [req EXCEPT !.shards = active]
          /\ worker' = [s \in Shards |->
                          IF s \in active THEN [Idle[s] EXCEPT !.pc = "adapter"] ELSE Idle[s]]
          /\ missing' = Shards \ active
          /\ UNCHANGED reply
     ELSE reply' = Refused /\ UNCHANGED <<req, worker, missing>>
  /\ UNCHANGED <<redis, active, results, errors, closed, tally, seen, steady>>

(***************************************************************************)
(* StreamSearch (and the other streaming handlers) leave their loop when    *)
(* Recv returns a message, and with the error when it does not: what        *)
(* follows in the loop never runs.                                          *)
(***************************************************************************)
StreamSearch ==
  /\ Busy /\ req.call = "stream"
  /\ reply' = Ended
  /\ UNCHANGED <<redis, active, req, worker, results, errors, closed, tally, history>>

-----------------------------------------------------------------------------
(***************************************************************************)
(* The goroutine of shard s.  Its sends block when the channel is full.     *)
(***************************************************************************)
At(s, pc) == Busy /\ worker[s].pc = pc
Capacity_One == 1
Capacity  == Cardinality(req.shards)

Fail(s) ==
  /\ errors < Capacity
  /\ errors' = errors + 1
  /\ worker' = [worker EXCEPT ![s].pc = "done"]
  /\ missing' = missing \cup {s}
  /\ UNCHANGED <<redis, active, req, results, closed, tally, reply, seen, steady>>

WorkerOnly ==
  UNCHANGED <<redis, active, req, results, errors, closed, tally, reply, seen, steady>>

GetAdapter(s) ==
  /\ At(s, "adapter") /\ req.call = "search"
  /\ IF s \in active
     THEN worker' = [worker EXCEPT ![s].pc = "ids"] /\ WorkerOnly /\ UNCHANGED missing
     ELSE Fail(s)

(***************************************************************************)
(* ZREVRANGE returns the ids in the order of their timestamps: any order.   *)
(***************************************************************************)
GetAllVectorIDs(s) ==
  /\ At(s, "ids")
  /\ \/ /\ \E o \in SetToSeqs({k \in listed : ShardOf[k] = s}) :
             worker' = [worker EXCEPT ![s].pc = "vectors", ![s].todo = o]
        /\ WorkerOnly /\ UNCHANGED missing
     \/ s \in MayFail /\ Fail(s)

(***************************************************************************)
(* One GET per id.  A vector that is gone, whose GET fails, or that the     *)
(* filter refuses is passed over.                                           *)
(***************************************************************************)
Accept_Unfiltered(rs, k) ==
  IF vec[k] # Absent THEN Append(rs, Result(k, vec[k])) ELSE rs
Accept_Unchecked(rs, k) == Append(rs, Result(k, vec[k]))
Accept(rs, k) ==
  IF vec[k] # Absent /\ vec[k] \in req.filter THEN Append(rs, Result(k, vec[k])) ELSE rs

GetVector(s) ==
  /\ At(s, "vectors") /\ worker[s].todo # <<>>
  /\ LET k == Head(worker[s].todo)
     IN  \/ /\ worker' = [worker EXCEPT ![s].todo = Tail(@), ![s].found = Accept(@, k)]
            /\ UNCHANGED missing
         \/ /\ s \in MayFail
            /\ worker' = [worker EXCEPT ![s].todo = Tail(@)]
            /\ missing' = missing \cup {s}
  /\ WorkerOnly

SendResults(s) ==
  /\ At(s, "vectors") /\ worker[s].todo = <<>>
  /\ Len(results) < Capacity
  /\ results' = Append(results, Best(worker[s].found, req.k))
  /\ worker' = [worker EXCEPT ![s].pc = "done", ![s].found = <<>>]
  /\ UNCHANGED <<redis, active, req, errors, closed, tally, reply, history>>

WorkerStep(s) ==
  GetAdapter(s) \/ GetAllVectorIDs(s) \/ GetVector(s) \/ SendResults(s)

(***************************************************************************)
(* The closing goroutine waits for the others.                              *)
(***************************************************************************)
AllDone == \A s \in req.shards : worker[s].pc = "done"

CloseChannels ==
  /\ Busy /\ req.call = "search" /\ req.shards # {} /\ ~closed /\ AllDone
  /\ closed' = TRUE
  /\ UNCHANGED <<redis, active, req, worker, results, errors, tally, reply, history>>

(***************************************************************************)
(* The handler merges what it receives until the channel is closed and      *)
(* empty, keeps the best and drops those below min_score.                   *)
(***************************************************************************)
Merge ==
  /\ Busy /\ results # <<>>
  /\ merged' = merged \o Head(results)
  /\ results' = Tail(results)
  /\ UNCHANGED <<redis, active, req, worker, errors, closed, total, reply, history>>

Shown(rs) == Filter(rs, {r \in Range(rs) : r.score >= req.min})

Reply ==
  /\ Busy /\ closed /\ results = <<>>
  /\ reply' = Shown(Best(merged, req.k))
  /\ merged' = <<>>
  /\ UNCHANGED <<redis, active, req, worker, results, errors, closed, total, history>>

-----------------------------------------------------------------------------
(***************************************************************************)
(* GetStats visits all shards, one after the other; one without an adapter, *)
(* inactive or failing is passed over, and the call succeeds all the same.  *)
(* The reply is the sum of the counts.                                      *)
(***************************************************************************)
StartStats(exists) ==
  /\ Busy /\ req.call = "stats" /\ req.shards = {}
  /\ IF exists
     THEN /\ req' = [req EXCEPT !.shards = Shards]
          /\ worker' = [s \in Shards |-> [Idle[s] EXCEPT !.pc = "adapter"]]
          /\ UNCHANGED reply
     ELSE reply' = Refused /\ UNCHANGED <<req, worker>>
  /\ UNCHANGED <<redis, active, results, errors, closed, tally, history>>

StatsAdapter(s) ==
  /\ At(s, "adapter") /\ req.call = "stats" /\ \A t \in Shards : ~At(t, "count")
  /\ worker' = [worker EXCEPT ![s].pc = IF s \in active THEN "count" ELSE "done"]
  /\ missing' = IF s \in active THEN missing ELSE missing \cup {s}
  /\ WorkerOnly

GetVectorCount_AllShards(s) == Cardinality(listed)
GetVectorCount(s) == Cardinality({k \in listed : ShardOf[k] = s})

CountShard(s) ==
  /\ At(s, "count")
  /\ worker' = [worker EXCEPT ![s].pc = "done"]
  /\ \/ total' = total + GetVectorCount(s) /\ UNCHANGED missing
     \/ s \in MayFail /\ missing' = missing \cup {s} /\ UNCHANGED total
  /\ UNCHANGED <<redis, active, req, results, errors, closed, merged, reply, seen, steady>>

ReplyStats ==
  /\ Busy /\ req.call = "stats" /\ req.shards # {} /\ AllDone
  /\ reply' = total
  /\ UNCHANGED <<redis, active, req, worker, results, errors, closed, tally, history>>

-----------------------------------------------------------------------------
(***************************************************************************)
(* The commands of the writers' pipelines (VectorService), in any order:    *)
(* SET, DEL, ZADD, ZREM.  And the shards' health as the health check sets   *)
(* it (ShardManager).                                                       *)
(***************************************************************************)
Command(k) ==
  /\ writes < MaxWrites
  /\ writes' = writes + 1
  /\ \/ \E x \in (Scores \cup {Absent}) \ {vec[k]} :
          vec' = [vec EXCEPT ![k] = x] /\ UNCHANGED listed
     \/ listed' = listed \cup {k} /\ k \notin listed /\ UNCHANGED vec
     \/ listed' = listed \ {k} /\ k \in listed /\ UNCHANGED vec
  /\ UNCHANGED <<active, req, worker, results, errors, closed, tally, reply, missing>>
  /\ IF Busy THEN /\ seen' = seen \cup Present(req.call)'
                  /\ steady' = steady \cap Lasting(req.call)'
             ELSE UNCHANGED <<seen, steady>>

HealthFlip(s) ==
  /\ s \in MayFail
  /\ active' = IF s \in active THEN active \ {s} ELSE active \cup {s}
  /\ UNCHANGED <<redis, req, worker, results, errors, closed, tally, reply, history>>

Next ==
  \/ \E call \in {"search", "stream", "stats"} : Request(call)
  \/ \E fits \in BOOLEAN : StartSearch(fits) \/ StartStats(fits)
  \/ StreamSearch \/ ReplyStats
  \/ \E s \in Shards : WorkerStep(s) \/ StatsAdapter(s) \/ CountShard(s) \/ HealthFlip(s)
  \/ CloseChannels \/ Merge \/ Reply
  \/ \E k \in Ids : Command(k)

Spec == Init /\ [][Next]_vars

-----------------------------------------------------------------------------
Replies(call) == req # None /\ req.call = call /\ reply \notin {None, Refused, Ended}
Answered == Replies("search")
Replied  == {reply[i] : i \in DOMAIN reply}

(***************************************************************************)
(* Types, and the bounds of the two channels.                               *)
(***************************************************************************)
TypeOK ==
  /\ vec \in [Ids -> Scores \cup {Absent}] /\ listed \subseteq Ids
  /\ active \subseteq Shards
  /\ Len(results) + errors <= Cardinality(Shards)
  /\ \A s \in Shards :
       /\ worker[s].pc \in {"none", "adapter", "ids", "vectors", "count", "done"}
       /\ Range(worker[s].todo) \subseteq Ids
       /\ Range(worker[s].found) \subseteq seen

(***************************************************************************)
(* The selection is right whatever the order in which shards and vectors    *)
(* come, with ties: the reply is ordered by score, no longer than asked     *)
(* for, and every vector that was there all the time, on a shard that       *)
(* answered in full, is in it unless as many others score no less           *)
(* (QuickSelectResults, SortResultsByScore and both uses of them).          *)
(***************************************************************************)
Wanted(r) == r.score \in req.filter /\ r.score >= req.min /\ ShardOf[r.id] \notin missing

ReplyIsTopK ==
  Answered =>
    /\ Len(reply) <= req.k
    /\ \A i, j \in DOMAIN reply : i < j => reply[i].score >= reply[j].score
    /\ \A r \in steady : Wanted(r) =>
         r \in Replied \/ (Len(reply) = req.k /\ \A q \in Replied : q.score >= r.score)

(***************************************************************************)
(* Nothing is made up or shown twice: every result is a vector that was     *)
(* stored with that score at some time during the search, although ids and  *)
(* vectors are read by separate calls and writers run between them.         *)
(***************************************************************************)
ReplyWasStored ==
  Answered =>
    /\ Replied \subseteq {r \in seen : r.score \in req.filter /\ r.score >= req.min}
    /\ \A i, j \in DOMAIN reply : reply[i].id = reply[j].id => i = j

(***************************************************************************)
(* Search never hangs: a goroutine that has not ended finds room in both    *)
(* channels, although the handler may receive nothing from one and never    *)
(* does from the other; and once all have ended nothing more is sent, so    *)
(* that what the handler merges before the close is all there is.           *)
(***************************************************************************)
SendsNeverBlock ==
  Busy /\ req.call = "search" => \A s \in req.shards :
            worker[s].pc # "done" =>
              Len(results) < Capacity /\ errors < Capacity /\ ~closed

(***************************************************************************)
(* The number of vectors GetStats reports is not less than were listed all  *)
(* the time on shards that answered, nor more than were at some time,       *)
(* although it counts the shards one after the other while writers run and  *)
(* passes over those that fail (GetStats, GetVectorCount).                  *)
(***************************************************************************)
StatsCountListed ==
  Replies("stats") =>
    /\ reply >= Cardinality({k \in steady : ShardOf[k] \notin missing})
    /\ reply <= Cardinality({k \in seen : ShardOf[k] \notin missing})

-----------------------------------------------------------------------------
(***************************************************************************)
(* What the documentation says and the code does not do: the results are    *)
(* the vectors most similar to the query.  The score is a distance, so that *)
(* the nearest vectors have the lowest.                                     *)
(***************************************************************************)
SearchFindsSimilar ==
  Answered =>
    \A r \in steady : Wanted(r) =>
      r \in Replied \/ \A q \in Replied : q.score <= r.score
=============================================================================
