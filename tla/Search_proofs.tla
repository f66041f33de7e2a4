---------------------------- MODULE Search_proofs ----------------------------
(***************************************************************************)
(* For any number of shards and vectors, whatever fails, turns inactive or  *)
(* is written meanwhile: no goroutine of a search waits for room in a       *)
(* channel and none sends on a closed one; the selection of helpers.go      *)
(* finds the best k of any list; a search replies the best of what was      *)
(* there all the time and nothing that was not there; and GetStats counts   *)
(* what was listed.                                                         *)
(***************************************************************************)
EXTENDS Search, SequenceFacts

(***************************************************************************)
(* The inductive invariant: every goroutine sends once, at its end, so that *)
(* the channels together never hold more than one entry per goroutine that  *)
(* is done.                                                                 *)
(***************************************************************************)
Finished == {s \in req.shards : worker[s].pc = "done"}

Shape ==
  /\ DOMAIN worker = Shards
  /\ \A s \in Shards : DOMAIN worker[s] = {"pc", "todo", "found"}
  /\ active \subseteq Shards
  /\ \E T : results \in Seq(T)
  /\ errors \in Nat
  /\ Busy => DOMAIN req = {"k", "min", "filter", "shards", "call"}

Searching ==
  /\ req.shards \subseteq Shards
  /\ \A s \in Shards : /\ worker[s].pc \notin {"none", "done"} => s \in req.shards
                       /\ worker[s].pc # "count"
  /\ Len(results) + errors <= Cardinality(Finished)
  /\ closed => req.shards # {} /\ AllDone

SendInv == Shape /\ (Busy /\ req.call = "search" => Searching)

(***************************************************************************)
(* The bound leaves room for every goroutine that is not done.              *)
(***************************************************************************)
LEMMA RoomLeft ==
  ASSUME SendInv, Busy, req.call = "search", NEW s \in req.shards, worker[s].pc # "done"
  PROVE  Len(results) < Capacity /\ errors < Capacity /\ ~closed
<1>1. Searching /\ Len(results) \in Nat /\ errors \in Nat
  BY DEF SendInv, Shape
<1>2. IsFiniteSet(req.shards)
  BY <1>1, SearchAssumption, FS_Subset DEF Searching
<1>3. Finished \subseteq req.shards /\ Finished # req.shards
  BY DEF Finished
<1>4. /\ Cardinality(Finished) \in Nat /\ Capacity \in Nat
      /\ Cardinality(Finished) < Capacity
  <2>1. IsFiniteSet(Finished) /\ Cardinality(Finished) <= Cardinality(req.shards)
    BY <1>2, <1>3, FS_Subset
  <2>2. Cardinality(Finished) # Cardinality(req.shards)
    BY <1>2, <1>3, FS_Subset
  <2> QED
    BY <1>2, <2>1, <2>2, FS_CardinalityType DEF Capacity
<1> QED
  BY <1>1, <1>4 DEF Searching, AllDone

(***************************************************************************)
(* One more goroutine is done.                                              *)
(***************************************************************************)
LEMMA OneMoreFinished ==
  ASSUME SendInv, Searching, NEW s \in req.shards, worker[s].pc # "done",
         req' = req, worker'[s].pc = "done", 
         \A t \in Shards \ {s} : worker'[t].pc = worker[t].pc
  PROVE  /\ Cardinality(Finished) \in Nat
         /\ Cardinality(Finished') = Cardinality(Finished) + 1
<1>1. IsFiniteSet(req.shards) /\ Finished \subseteq req.shards
  BY SearchAssumption, FS_Subset DEF Searching, Finished
<1>2. IsFiniteSet(Finished) /\ s \notin Finished
  BY <1>1, FS_Subset DEF Finished
<1>3. Finished' = Finished \cup {s}
  BY DEF Finished, Searching
<1> QED
  BY <1>2, <1>3, FS_AddElement, FS_CardinalityType

(***************************************************************************)
(* Steps that send nothing keep the invariant when no goroutine begins,     *)
(* ends or is in GetStats because of them.                                  *)
(***************************************************************************)
LEMMA NothingSent ==
  ASSUME SendInv, Shape', Busy' => Busy, UNCHANGED <<req, results, errors, closed>>,
         \A s \in Shards : /\ worker'[s].pc = "done" <=> worker[s].pc = "done"
                           /\ worker'[s].pc = "none" <=> worker[s].pc = "none"
                           /\ req.call = "search" => worker'[s].pc # "count"
  PROVE  SendInv'
<1> SUFFICES ASSUME Busy', req.call = "search" PROVE Searching'
  BY DEF SendInv
<1>1. Searching /\ Finished' = Finished
  BY DEF SendInv, Searching, Finished
<1> QED
  BY <1>1 DEF Searching, AllDone

(***************************************************************************)
(* A goroutine fails: its only send is to errorsChan.                       *)
(***************************************************************************)
LEMMA FailStep ==
  ASSUME SendInv, NEW s \in Shards, worker[s].pc \notin {"none", "done"}, Busy, Fail(s)
  PROVE  SendInv'
<1>1. /\ UNCHANGED <<active, req, results, closed, reply>> /\ errors' = errors + 1
      /\ worker' = [worker EXCEPT ![s].pc = "done"]
  BY DEF Fail
<1>2. Shape' /\ worker'[s].pc = "done" /\ \A t \in Shards \ {s} : worker'[t].pc = worker[t].pc
  BY <1>1 DEF SendInv, Shape, Busy
<1> SUFFICES ASSUME Busy', req.call = "search" PROVE Searching'
  BY <1>1, <1>2 DEF SendInv
<1>3. Searching /\ s \in req.shards /\ ~closed
  BY RoomLeft DEF SendInv, Searching
<1>4. Cardinality(Finished) \in Nat /\ Cardinality(Finished') = Cardinality(Finished) + 1
  BY <1>1, <1>2, <1>3, OneMoreFinished DEF Searching
<1>5. Len(results) \in Nat /\ errors \in Nat
  BY DEF SendInv, Shape
<1> QED
  BY <1>1, <1>2, <1>3, <1>4, <1>5 DEF Searching

(***************************************************************************)
(* A goroutine sends its results, at its end.                               *)
(***************************************************************************)
LEMMA SendStep ==
  ASSUME SendInv, NEW s \in Shards, SendResults(s)
  PROVE  SendInv'
<1>1. /\ UNCHANGED <<active, req, errors, closed, reply>> /\ Busy
      /\ worker' = [worker EXCEPT ![s].pc = "done", ![s].found = <<>>]
      /\ worker[s].pc = "vectors"
  BY DEF SendResults, At
<1>2. PICK r : results' = Append(results, r)
  BY DEF SendResults
<1>3. PICK T : results \in Seq(T)
  BY DEF SendInv, Shape
<1>4. results \in Seq(T \cup {r})
  BY <1>3
<1>5. results' \in Seq(T \cup {r}) /\ Len(results') = Len(results) + 1
  BY <1>2, <1>4
<1>6. /\ DOMAIN worker' = Shards /\ \A t \in Shards : DOMAIN worker'[t] = {"pc", "todo", "found"}
      /\ worker'[s].pc = "done" /\ \A t \in Shards \ {s} : worker'[t].pc = worker[t].pc
  BY <1>1 DEF SendInv, Shape
<1>7. Shape'
  BY <1>1, <1>5, <1>6 DEF SendInv, Shape, Busy
<1> SUFFICES ASSUME Busy', req.call = "search" PROVE Searching'
  BY <1>1, <1>7 DEF SendInv
<1>8. Searching /\ s \in req.shards /\ ~closed
  BY <1>1, RoomLeft DEF SendInv, Searching
<1>9. Cardinality(Finished) \in Nat /\ Cardinality(Finished') = Cardinality(Finished) + 1
  BY <1>1, <1>6, <1>8, OneMoreFinished DEF Searching
<1>10. Len(results) \in Nat /\ errors \in Nat
  BY DEF SendInv, Shape
<1> QED
  BY <1>1, <1>5, <1>6, <1>8, <1>9, <1>10 DEF Searching

(***************************************************************************)
(* The other steps of a goroutine: nothing is sent.                         *)
(***************************************************************************)
LEMMA WorkerMoves ==
  ASSUME SendInv, NEW s \in Shards, WorkerStep(s)
  PROVE  SendInv'
<1>1. ASSUME WorkerOnly, Busy, worker[s].pc \notin {"none", "done"},
             worker'[s].pc \notin {"none", "done", "count"},
             DOMAIN worker' = DOMAIN worker, DOMAIN worker'[s] = DOMAIN worker[s],
             \A t \in Shards \ {s} : worker'[t] = worker[t]
      PROVE  SendInv'
  <2>1. UNCHANGED <<active, req, results, errors, closed, reply>>
    BY <1>1 DEF WorkerOnly
  <2>2. Shape' /\ Busy'
    BY <1>1, <2>1 DEF SendInv, Shape, Busy
  <2>3. \A t \in Shards : /\ worker'[t].pc = "done" <=> worker[t].pc = "done"
                          /\ worker'[t].pc = "none" <=> worker[t].pc = "none"
                          /\ req.call = "search" => worker'[t].pc # "count"
    BY <1>1 DEF SendInv, Searching
  <2> QED
    BY <1>1, <2>1, <2>2, <2>3, NothingSent
<1>2. CASE GetAdapter(s)
  <2>1. worker[s].pc = "adapter" /\ Busy
    BY <1>2 DEF GetAdapter, At
  <2>2. CASE Fail(s)
    BY <2>1, <2>2, FailStep
  <2>3. CASE worker' = [worker EXCEPT ![s].pc = "ids"] /\ WorkerOnly
    BY <1>1, <2>1, <2>3 DEF SendInv, Shape
  <2> QED
    BY <1>2, <2>2, <2>3 DEF GetAdapter
<1>3. CASE GetAllVectorIDs(s)
  <2>1. worker[s].pc = "ids" /\ Busy
    BY <1>3 DEF GetAllVectorIDs, At
  <2>2. CASE Fail(s)
    BY <2>1, <2>2, FailStep
  <2>3. ASSUME NEW o, worker' = [worker EXCEPT ![s].pc = "vectors", ![s].todo = o], WorkerOnly
        PROVE  SendInv'
    BY <1>1, <2>1, <2>3 DEF SendInv, Shape
  <2> QED
    BY <1>3, <2>2, <2>3 DEF GetAllVectorIDs
<1>4. CASE GetVector(s)
  <2>1. worker[s].pc = "vectors" /\ Busy /\ WorkerOnly
    BY <1>4 DEF GetVector, At
  <2>2. PICK o, f : \/ worker' = [worker EXCEPT ![s].todo = o, ![s].found = f]
                    \/ worker' = [worker EXCEPT ![s].todo = o]
    BY <1>4 DEF GetVector
  <2> QED
    BY <1>1, <2>1, <2>2 DEF SendInv, Shape
<1>5. CASE SendResults(s)
  BY <1>5, SendStep
<1> QED
  BY <1>2, <1>3, <1>4, <1>5 DEF WorkerStep

(***************************************************************************)
(* A request begins with new channels, and StartSearch with a goroutine for *)
(* each healthy shard, none of which is done.                               *)
(***************************************************************************)
LEMMA RequestStep ==
  ASSUME SendInv, NEW call, Request(call)
  PROVE  SendInv'
<1>1. /\ results' = <<>> /\ errors' = 0 /\ ~closed' /\ active' = active /\ worker' = Idle
      /\ req'.shards = {} /\ DOMAIN req' = {"k", "min", "filter", "shards", "call"}
  BY DEF Request
<1>2. Shape'
  BY <1>1 DEF SendInv, Shape, Idle
<1>3. Finished' = {} /\ Cardinality({}) = 0
  BY <1>1, FS_EmptySet DEF Finished
<1> QED
  BY <1>1, <1>2, <1>3 DEF SendInv, Searching, Idle

LEMMA StartSearchStep ==
  ASSUME SendInv, NEW fits, StartSearch(fits)
  PROVE  SendInv'
<1>1. /\ Busy /\ req.call = "search" /\ req.shards = {} /\ Searching
      /\ UNCHANGED <<active, results, errors, closed>>
  BY DEF StartSearch, SendInv
<1>2. CASE UNCHANGED <<req, worker>>
  <2>1. Shape'
    BY <1>1, <1>2 DEF SendInv, Shape, Busy
  <2> QED
    BY <1>1, <1>2, <2>1, NothingSent DEF Searching
<1>3. CASE /\ req' = [req EXCEPT !.shards = active]
           /\ worker' = [s \in Shards |->
                IF s \in active THEN [Idle[s] EXCEPT !.pc = "adapter"] ELSE Idle[s]]
  <2>1. /\ DOMAIN req' = DOMAIN req /\ req'.shards = active
        /\ \A s \in Shards : /\ DOMAIN worker'[s] = {"pc", "todo", "found"}
                             /\ worker'[s].pc = IF s \in active THEN "adapter" ELSE "none"
    BY <1>1, <1>3 DEF SendInv, Shape, Idle
  <2>2. Shape'
    BY <1>1, <1>3, <2>1 DEF SendInv, Shape, Busy
  <2>3. Finished = {} /\ Finished' = {} /\ ~closed
    BY <1>1, <2>1 DEF Finished, Searching, SendInv, Shape
  <2> QED
    BY <1>1, <2>1, <2>2, <2>3 DEF SendInv, Searching, Shape
<1> QED
  BY <1>2, <1>3 DEF StartSearch

(***************************************************************************)
(* The closing goroutine, and the handler that receives and replies.        *)
(***************************************************************************)
LEMMA HandlerStep ==
  ASSUME SendInv, CloseChannels \/ Merge \/ Reply \/ StreamSearch
  PROVE  SendInv'
<1>1. CASE CloseChannels
  <2>1. Shape'
    BY <1>1 DEF CloseChannels, SendInv, Shape, Busy
  <2> QED
    BY <1>1, <2>1 DEF CloseChannels, SendInv, Searching, Finished, AllDone, Busy
<1>2. CASE Merge
  <2>1. PICK T : results \in Seq(T)
    BY DEF SendInv, Shape
  <2>2. /\ UNCHANGED <<active, req, worker, errors, closed, reply>>
        /\ results # <<>> /\ results' = Tail(results)
    BY <1>2 DEF Merge
  <2>3. results' \in Seq(T) /\ Len(results') \in Nat /\ Len(results) = Len(results') + 1
    BY <2>1, <2>2
  <2>4. Shape'
    BY <2>2, <2>3 DEF SendInv, Shape, Busy
  <2> SUFFICES ASSUME Busy', req.call = "search" PROVE Searching'
    BY <2>2, <2>4 DEF SendInv
  <2>5. Searching /\ Finished' = Finished /\ errors \in Nat
    BY <2>2 DEF SendInv, Shape, Busy, Finished
  <2>6. Cardinality(Finished) \in Nat
    BY <2>5, SearchAssumption, FS_Subset, FS_CardinalityType DEF Searching, Finished
  <2> QED
    BY <2>2, <2>3, <2>5, <2>6 DEF Searching, AllDone
<1>3. CASE Reply \/ StreamSearch
  <2>1. UNCHANGED <<active, req, worker, results, errors, closed>> /\ Busy
    BY <1>3 DEF Reply, StreamSearch
  <2>2. Shape'
    BY <2>1 DEF SendInv, Shape, Busy
  <2> QED
    BY <2>1, <2>2, NothingSent DEF SendInv, Searching
<1> QED
  BY <1>1, <1>2, <1>3

(***************************************************************************)
(* GetStats has no channels.                                                *)
(***************************************************************************)
LEMMA StatsStep ==
  ASSUME SendInv, \/ \E exists \in BOOLEAN : StartStats(exists)
                  \/ ReplyStats
                  \/ \E s \in Shards : StatsAdapter(s) \/ CountShard(s)
  PROVE  SendInv'
<1>1. CASE \E exists \in BOOLEAN : StartStats(exists)
  <2>1. /\ Busy /\ req.call = "stats" /\ UNCHANGED <<active, results, errors, closed>>
        /\ \/ UNCHANGED <<req, worker>>
           \/ /\ req' = [req EXCEPT !.shards = Shards]
              /\ worker' = [s \in Shards |-> [Idle[s] EXCEPT !.pc = "adapter"]]
    BY <1>1 DEF StartStats
  <2>2. req'.call = "stats" /\ DOMAIN req' = DOMAIN req
    BY <2>1 DEF SendInv, Shape
  <2>3. DOMAIN worker' = Shards /\ \A s \in Shards : DOMAIN worker'[s] = {"pc", "todo", "found"}
    BY <2>1 DEF SendInv, Shape, Idle
  <2> QED
    BY <2>1, <2>2, <2>3 DEF SendInv, Shape
<1>2. CASE ReplyStats
  BY <1>2 DEF ReplyStats, SendInv, Shape, Busy
<1>3. ASSUME NEW s \in Shards, StatsAdapter(s) PROVE SendInv'
  BY <1>3 DEF StatsAdapter, WorkerOnly, At, SendInv, Shape, Busy
<1>4. ASSUME NEW s \in Shards, CountShard(s) PROVE SendInv'
  <2>1. /\ Busy /\ worker[s].pc = "count" /\ worker' = [worker EXCEPT ![s].pc = "done"]
        /\ UNCHANGED <<active, req, results, errors, closed, reply>>
    BY <1>4 DEF CountShard, At
  <2>2. req.call # "search"
    BY <2>1 DEF SendInv, Searching
  <2> QED
    BY <2>1, <2>2 DEF SendInv, Shape, Busy
<1> QED
  BY <1>1, <1>2, <1>3, <1>4

LEMMA SendInvInitially == Init => SendInv
<1> SUFFICES ASSUME Init PROVE SendInv
  OBVIOUS
<1>1. results \in Seq({})
  BY DEF Init
<1> QED
  BY <1>1 DEF Init, SendInv, Shape, Busy, Idle

LEMMA SendInvKept ==
  ASSUME SendInv, [Next]_vars
  PROVE  SendInv'
<1>1. ASSUME UNCHANGED <<req, worker, results, errors, closed, reply>>,
             active' \subseteq Shards
      PROVE  SendInv'
  <2>1. Shape'
    BY <1>1 DEF SendInv, Shape, Busy
  <2> QED
    BY <1>1, <2>1 DEF SendInv, Searching, Busy, Finished, AllDone
<1>2. ASSUME NEW s \in Shards, HealthFlip(s) PROVE SendInv'
  BY <1>1, <1>2 DEF HealthFlip, SendInv, Shape
<1>3. ASSUME NEW k \in Ids, Command(k) PROVE SendInv'
  BY <1>1, <1>3 DEF Command, SendInv, Shape
<1>4. CASE UNCHANGED vars
  BY <1>1, <1>4 DEF vars, SendInv, Shape
<1> QED
  BY <1>2, <1>3, <1>4, RequestStep, StartSearchStep, HandlerStep, StatsStep, WorkerMoves
     DEF Next

(***************************************************************************)
(* No goroutine of a search waits for room or sends on a closed channel     *)
(* (Search: resultsChan and errorsChan, both as long as there are healthy   *)
(* shards).                                                                 *)
(***************************************************************************)
THEOREM NoSendBlocks == Spec => []SendsNeverBlock
<1>1. SendInv => SendsNeverBlock
  BY RoomLeft DEF SendsNeverBlock
<1> QED
  BY <1>1, SendInvInitially, SendInvKept, PTL DEF Spec

-----------------------------------------------------------------------------
(***************************************************************************)
(* internal/storage/helpers.go.  A result, and sequences of n results.      *)
(***************************************************************************)
Scored  == [id : Ids, score : Scores]
Rows(n) == [1 .. n -> Scored]

(***************************************************************************)
(* No id occurs twice.                                                      *)
(***************************************************************************)
Distinct(q) == \A i, j \in DOMAIN q : q[i].id = q[j].id => i = j

(***************************************************************************)
(* q is p with the elements at l .. r in another order.                     *)
(***************************************************************************)
Moves(q, p, n, l, r) ==
  /\ q \in Rows(n)
  /\ \A i \in 1 .. n : i \notin l .. r => q[i] = p[i]
  /\ \A i \in l .. r : \E j \in l .. r : q[i] = p[j]
  /\ \A j \in l .. r : \E i \in l .. r : q[i] = p[j]
  /\ Distinct(p) => Distinct(q)

LEMMA ScoresAreNumbers ==
  ASSUME NEW n \in Nat, NEW q \in Rows(n), NEW i \in 1 .. n
  PROVE  q[i].score \in Nat /\ q[i] \in Scored /\ q[i].id \in Ids
BY SearchAssumption DEF Rows, Scored

LEMMA MovesNothing ==
  ASSUME NEW n \in Nat, NEW p \in Rows(n), NEW l, NEW r
  PROVE  Moves(p, p, n, l, r)
BY DEF Moves

(***************************************************************************)
(* Swap, within l .. r.                                                     *)
(***************************************************************************)
LEMMA SwapMoves ==
  ASSUME NEW n \in Nat, NEW p \in Rows(n), NEW l \in Nat, NEW r \in Nat, 1 <= l, r <= n,
         NEW a \in l .. r, NEW b \in l .. r
  PROVE  /\ Moves(Swap(p, a, b), p, n, l, r)
         /\ Swap(p, a, b)[a] = p[b] /\ Swap(p, a, b)[b] = p[a]
         /\ \A i \in 1 .. n : i # a /\ i # b => Swap(p, a, b)[i] = p[i]
<1> DEFINE q == Swap(p, a, b)
<1>1. a \in 1 .. n /\ b \in 1 .. n
  OBVIOUS
<1>2. q \in Rows(n) /\ DOMAIN q = 1 .. n /\ DOMAIN p = 1 .. n
  BY <1>1 DEF Swap, Rows
<1>3. /\ q[a] = p[b] /\ q[b] = p[a]
      /\ \A i \in 1 .. n : i # a /\ i # b => q[i] = p[i]
  BY <1>1 DEF Swap, Rows
<1> HIDE DEF q
<1>4. \A i \in l .. r : i \in 1 .. n
  OBVIOUS
<1>5. ASSUME NEW i \in l .. r PROVE \E j \in l .. r : q[i] = p[j]
  BY <1>3, <1>4
<1>6. ASSUME NEW j \in l .. r PROVE \E i \in l .. r : q[i] = p[j]
  BY <1>3, <1>4
<1>7. Distinct(p) => Distinct(q)
  BY <1>1, <1>2, <1>3 DEF Distinct
<1>8. \A i \in 1 .. n : i \notin l .. r => q[i] = p[i]
  BY <1>3
<1> QED
  BY <1>2, <1>3, <1>5, <1>6, <1>7, <1>8 DEF Moves, q

(***************************************************************************)
(* One order after another, within a wider part.                            *)
(***************************************************************************)
LEMMA MovesTwice ==
  ASSUME NEW n \in Nat, NEW p \in Rows(n), NEW q, NEW t,
         NEW l \in Nat, NEW r \in Nat, NEW l2 \in Nat, NEW r2 \in Nat,
         1 <= l, r <= n, l <= l2, r2 <= r,
         Moves(q, p, n, l, r), Moves(t, q, n, l2, r2)
  PROVE  Moves(t, p, n, l, r)
<1>1. \A i \in l2 .. r2 : i \in l .. r
  OBVIOUS
<1>0. \A i \in l .. r : i \in 1 .. n
  OBVIOUS
<1>2. ASSUME NEW i \in 1 .. n, i \notin l .. r PROVE t[i] = p[i]
  BY <1>1, <1>2 DEF Moves
<1>3. ASSUME NEW i \in l .. r PROVE \E j \in l .. r : t[i] = p[j]
  <2>1. \E j \in l .. r : t[i] = q[j]
    BY <1>0, <1>1 DEF Moves
  <2> QED
    BY <2>1 DEF Moves
<1>4. ASSUME NEW j \in l .. r PROVE \E i \in l .. r : t[i] = p[j]
  <2>1. PICK m \in l .. r : q[m] = p[j]
    BY DEF Moves
  <2>2. \E i \in l .. r : t[i] = q[m]
    BY <1>0, <1>1 DEF Moves
  <2> QED
    BY <2>1, <2>2
<1> QED
  BY <1>2, <1>3, <1>4 DEF Moves

(***************************************************************************)
(* The loop of partition when it comes to j: the elements above the pivot   *)
(* stand before place i, the others that were looked at from there on.      *)
(***************************************************************************)
Parted(x, p, n, l, r, j) ==
  /\ Moves(x.rs, p, n, l, r) /\ x.rs[r] = p[r]
  /\ x.i \in l .. j
  /\ \A a \in l .. x.i - 1 : x.rs[a].score >= p[r].score
  /\ \A b \in x.i .. j - 1 : x.rs[b].score <= p[r].score

PartRound(x, p, r, j) ==
  IF x.rs[j - 1].score > p[r].score
  THEN [rs |-> Swap(x.rs, x.i, j - 1), i |-> x.i + 1] ELSE x

LEMMA PartRoundKeeps ==
  ASSUME NEW n \in Nat, NEW p \in Rows(n), NEW l \in Nat, NEW r \in Nat, 1 <= l, r <= n,
         NEW j \in l + 1 .. r, NEW x, Parted(x, p, n, l, r, j - 1)
  PROVE  Parted(PartRound(x, p, r, j), p, n, l, r, j)
<1>0. /\ x.rs \in Rows(n) /\ x.i \in l .. j - 1 /\ x.i \in l .. r /\ j - 1 \in l .. r
      /\ x.i \in 1 .. n /\ j - 1 \in 1 .. n /\ r \in 1 .. n /\ r # j - 1 /\ r # x.i
  BY DEF Parted, Moves
<1>3. \A i \in 1 .. n : x.rs[i].score \in Nat /\ p[i].score \in Nat
  BY <1>0, ScoresAreNumbers
<1>1. CASE x.rs[j - 1].score > p[r].score
  <2> DEFINE q == Swap(x.rs, x.i, j - 1)
             y == [rs |-> q, i |-> x.i + 1]
  <2>1. /\ Moves(q, x.rs, n, l, r) /\ q[x.i] = x.rs[j - 1] /\ q[j - 1] = x.rs[x.i]
        /\ \A i \in 1 .. n : i # x.i /\ i # j - 1 => q[i] = x.rs[i]
    BY <1>0, SwapMoves
  <2>2. Moves(q, p, n, l, r)
    BY <2>1, MovesTwice DEF Parted
  <2>3. q[r] = p[r]
    BY <1>0, <2>1 DEF Parted
  <2>4. ASSUME NEW a \in l .. x.i PROVE q[a].score >= p[r].score
    <3>1. CASE a = x.i
      BY <1>0, <1>1, <1>3, <2>1, <3>1
    <3>2. CASE a # x.i
      <4>1. a \in l .. x.i - 1 /\ a # j - 1 /\ a \in 1 .. n
        BY <1>0, <3>2
      <4> QED
        BY <2>1, <3>2, <4>1 DEF Parted
    <3> QED
      BY <3>1, <3>2
  <2>5. ASSUME NEW b \in x.i + 1 .. j - 1 PROVE q[b].score <= p[r].score
    <3>1. CASE b = j - 1
      <4>1. x.i \in x.i .. (j - 1) - 1
        BY <1>0, <3>1
      <4> QED
        BY <2>1, <3>1, <4>1 DEF Parted
    <3>2. CASE b # j - 1
      <4>1. b \in x.i .. (j - 1) - 1 /\ b # x.i /\ b \in 1 .. n
        BY <1>0, <3>2
      <4> QED
        BY <2>1, <3>2, <4>1 DEF Parted
    <3> QED
      BY <3>1, <3>2
  <2>6. x.i + 1 \in l .. j /\ (x.i + 1) - 1 = x.i
    BY <1>0
  <2> HIDE DEF q
  <2>7. Parted(y, p, n, l, r, j)
    BY <2>2, <2>3, <2>4, <2>5, <2>6 DEF Parted
  <2> QED
    BY <1>1, <2>7 DEF PartRound, q
<1>2. CASE ~(x.rs[j - 1].score > p[r].score)
  <2>1. ASSUME NEW b \in x.i .. j - 1 PROVE x.rs[b].score <= p[r].score
    <3>1. CASE b = j - 1
      BY <1>0, <1>2, <1>3, <3>1
    <3>2. CASE b # j - 1
      <4>1. b \in x.i .. (j - 1) - 1
        BY <1>0, <3>2
      <4> QED
        BY <4>1 DEF Parted
    <3> QED
      BY <3>1, <3>2
  <2>2. x.i \in l .. j
    BY <1>0
  <2>3. Parted(x, p, n, l, r, j)
    BY <2>1, <2>2 DEF Parted
  <2> QED
    BY <1>2, <2>3 DEF PartRound
<1> QED
  BY <1>1, <1>2

(***************************************************************************)
(* What partition returns: the pivot's place, no element before it is lower *)
(* and none after it higher.                                                *)
(***************************************************************************)
Pivoted(y, p, n, l, r) ==
  /\ Moves(y.rs, p, n, l, r) /\ y.i \in l .. r
  /\ \A a \in l .. y.i - 1 : y.rs[a].score >= y.rs[y.i].score
  /\ \A b \in y.i + 1 .. r : y.rs[b].score <= y.rs[y.i].score

LEMMA PartitionPivots ==
  ASSUME NEW n \in Nat, NEW p \in Rows(n), NEW l \in Nat, NEW r \in Nat, 1 <= l, l <= r, r <= n
  PROVE  Pivoted(Partition(p, l, r), p, n, l, r)
<1> DEFINE States == [rs : Rows(n), i : Nat]
           Inv == [j \in l .. r |-> {x \in States : Parted(x, p, n, l, r, j)}]
           base == [rs |-> p, i |-> l]
           step == [j \in l .. r |-> [x \in States |-> PartRound(x, p, r, j)]]
           R(f) == f = [j \in l .. r |->
                          IF j = l THEN [rs |-> p, i |-> l]
                          ELSE IF f[j - 1].rs[j - 1].score > p[r].score
                               THEN [rs |-> Swap(f[j - 1].rs, f[j - 1].i, j - 1),
                                     i |-> f[j - 1].i + 1]
                               ELSE f[j - 1]]
           before == CHOOSE f : R(f)
           end == before[r]
<1>1. Partition(p, l, r) = [rs |-> Swap(end.rs, end.i, r), i |-> end.i]
  BY DEF Partition
<1>2. base \in Inv[l]
  <2>1. base \in States /\ l \in l .. r /\ l \in l .. l /\ base.rs = p /\ base.i = l
    OBVIOUS
  <2>2. Parted(base, p, n, l, r, l)
    BY <2>1, MovesNothing DEF Parted
  <2> QED
    BY <2>1, <2>2
<1>3. ASSUME NEW j \in l + 1 .. r, NEW x \in Inv[j - 1]
      PROVE  PartRound(x, p, r, j) \in Inv[j] /\ step[j][x] = PartRound(x, p, r, j)
  <2>1. j \in l .. r /\ j - 1 \in l .. r
    OBVIOUS
  <2>2. x \in States /\ Parted(x, p, n, l, r, j - 1)
    BY <2>1
  <2>3. Parted(PartRound(x, p, r, j), p, n, l, r, j)
    <3> HIDE DEF States, Inv, step, base
    <3> QED
      BY <2>2, PartRoundKeeps
  <2>4. PartRound(x, p, r, j) \in States
    <3>1. PartRound(x, p, r, j).rs \in Rows(n)
      BY <2>3 DEF Parted, Moves
    <3>2. CASE x.rs[j - 1].score > p[r].score
      BY <2>2, <3>1, <3>2 DEF PartRound
    <3>3. CASE ~(x.rs[j - 1].score > p[r].score)
      BY <2>2, <3>3 DEF PartRound
    <3> QED
      BY <3>2, <3>3
  <2> QED
    BY <2>1, <2>2, <2>3, <2>4
<1>4. PICK f : Loops(f, Inv, l, r, base, step)
  <2> HIDE DEF States, Inv, base, step
  <2>1. \A j \in l + 1 .. r : \A x \in Inv[j - 1] : step[j][x] \in Inv[j]
    BY <1>3
  <2> QED
    BY <1>2, <2>1, LoopStates
<1>5. R(f)
  <2> DEFINE g == [j \in l .. r |->
                          IF j = l THEN [rs |-> p, i |-> l]
                          ELSE IF f[j - 1].rs[j - 1].score > p[r].score
                               THEN [rs |-> Swap(f[j - 1].rs, f[j - 1].i, j - 1),
                                     i |-> f[j - 1].i + 1]
                               ELSE f[j - 1]]
  <2>1. ASSUME NEW j \in l .. r PROVE f[j] = g[j]
    <3>1. CASE j = l
      BY <1>4, <3>1 DEF Loops
    <3>2. CASE j # l
      <4>1. j \in l + 1 .. r /\ j - 1 \in l .. r
        BY <3>2
      <4>2. f[j] = step[j][f[j - 1]] /\ f[j - 1] \in Inv[j - 1]
        <5> HIDE DEF Inv, step, base
        <5> QED
          BY <1>4, <4>1 DEF Loops
      <4>3. f[j] = PartRound(f[j - 1], p, r, j)
        <5> HIDE DEF Inv, step
        <5> QED
          BY <1>3, <4>1, <4>2
      <4> HIDE DEF Inv, step
      <4> QED
        BY <3>2, <4>3 DEF PartRound
    <3> QED
      BY <3>1, <3>2
  <2>2. f = [j \in l .. r |-> f[j]]
    <3> HIDE DEF Inv, base, step
    <3> QED
      BY <1>4 DEF Loops
  <2>3. f = g
    BY <2>1, <2>2
  <2> QED
    BY <2>3
<1>6. R(before)
  <2> HIDE DEF R
  <2> QED
    BY <1>5
<1> HIDE DEF before
<1>7. before[l] = base /\ \A j \in l + 1 .. r : before[j] = PartRound(before[j - 1], p, r, j)
  <2>1. l \in l .. r
    OBVIOUS
  <2>2. ASSUME NEW j \in l + 1 .. r PROVE before[j] = PartRound(before[j - 1], p, r, j)
    <3>1. j \in l .. r /\ j # l
      OBVIOUS
    <3> QED
      BY <1>6, <3>1 DEF PartRound
  <2> QED
    BY <1>6, <2>1, <2>2
<1>8. \A j \in l .. r : before[j] \in Inv[j]
  <2> HIDE DEF Inv, R, base, step
  <2>1. before[l] \in Inv[l]
    BY <1>2, <1>7
  <2>2. \A j \in l + 1 .. r : before[j - 1] \in Inv[j - 1] => before[j] \in Inv[j]
    BY <1>3, <1>7
  <2> QED
    BY <2>1, <2>2, LoopKeeps
<1>9. end \in States /\ Parted(end, p, n, l, r, r)
  BY <1>8
<1> HIDE DEF end, States, Inv, R, step, base
<1> DEFINE q == Swap(end.rs, end.i, r)
<1>10. end.rs \in Rows(n) /\ end.i \in l .. r /\ r \in l .. r /\ end.i \in 1 .. n /\ r \in 1 .. n
  BY <1>9 DEF Parted, Moves
<1>11. /\ Moves(q, end.rs, n, l, r) /\ q[end.i] = end.rs[r] /\ q[r] = end.rs[end.i]
       /\ \A i \in 1 .. n : i # end.i /\ i # r => q[i] = end.rs[i]
  BY <1>10, SwapMoves
<1>12. Moves(q, p, n, l, r)
  BY <1>9, <1>11, MovesTwice DEF Parted
<1>13. \A i \in 1 .. n : end.rs[i].score \in Nat /\ p[i].score \in Nat
  BY <1>10, ScoresAreNumbers
<1>14. q[end.i] = p[r]
  BY <1>9, <1>11 DEF Parted
<1>15. ASSUME NEW a \in l .. end.i - 1 PROVE q[a].score >= q[end.i].score
  <2>1. a \in 1 .. n /\ a # end.i /\ a # r
    BY <1>10
  <2> QED
    BY <1>9, <1>11, <1>14, <2>1 DEF Parted
<1>16. ASSUME NEW b \in end.i + 1 .. r PROVE q[b].score <= q[end.i].score
  <2>1. CASE b = r
    <3>1. end.i \in end.i .. r - 1
      BY <1>10, <2>1
    <3> QED
      BY <1>9, <1>11, <1>14, <2>1, <3>1 DEF Parted
  <2>2. CASE b # r
    <3>1. b \in end.i .. r - 1 /\ b # end.i /\ b \in 1 .. n
      BY <1>10, <2>2
    <3> QED
      BY <1>9, <1>11, <1>14, <2>2, <3>1 DEF Parted
  <2> QED
    BY <2>1, <2>2
<1> HIDE DEF q
<1> DEFINE y == [rs |-> q, i |-> end.i]
<1>17. Pivoted(y, p, n, l, r)
  BY <1>10, <1>12, <1>15, <1>16 DEF Pivoted
<1> QED
  BY <1>1, <1>17 DEF q

(***************************************************************************)
(* No element up to place k is lower than one after it.                     *)
(***************************************************************************)
Cut(q, n, k) == \A a \in 1 .. k : \A b \in k + 1 .. n : q[a].score >= q[b].score

(***************************************************************************)
(* The loop of quickSelect after m passes: the order is right at k, or the  *)
(* part that is still searched holds k + 1, is cut off on both sides and    *)
(* has lost an element in every pass.                                       *)
(***************************************************************************)
Narrowed(x, p, n, k, m) ==
  /\ Moves(x.rs, p, n, 1, n)
  /\ \/ x.l >= x.r /\ Cut(x.rs, n, k)
     \/ /\ x.l \in 1 .. k + 1 /\ x.r \in k + 1 .. n /\ x.r + m < x.l + n
        /\ Cut(x.rs, n, x.l - 1) /\ Cut(x.rs, n, x.r)

SelectRound(x, k) ==
  IF x.l < x.r THEN Narrow(Partition(x.rs, x.l, x.r), x.l, x.r, k) ELSE x

Passes(n) == [rs : Rows(n), l : Nat, r : Nat]

LEMMA SelectRoundKeeps ==
  ASSUME NEW n \in Nat, NEW p \in Rows(n), NEW k \in Nat, k < n, NEW m \in 1 .. n,
         NEW x \in Passes(n), Narrowed(x, p, n, k, m - 1)
  PROVE  SelectRound(x, k) \in Passes(n) /\ Narrowed(SelectRound(x, k), p, n, k, m)
<1> DEFINE l == x.l
           r == x.r
<1>1. CASE ~(l < r)
  <2>1. SelectRound(x, k) = x
    BY <1>1 DEF SelectRound
  <2>2. CASE l >= r /\ Cut(x.rs, n, k)
    BY <2>1, <2>2 DEF Narrowed
  <2>3. CASE l \in 1 .. k + 1 /\ r \in k + 1 .. n /\ Cut(x.rs, n, l - 1)
    <3>1. l = k + 1 /\ l - 1 = k /\ l >= r
      BY <1>1, <2>3
    <3>2. l >= r /\ Cut(x.rs, n, k)
      BY <2>3, <3>1
    <3> QED
      BY <2>1, <3>2 DEF Narrowed
  <2> QED
    BY <2>2, <2>3 DEF Narrowed
<1>2. CASE l < r
  <2> DEFINE y == Partition(x.rs, l, r)
             z == Narrow(y, l, r, k)
  <2>1. /\ l \in Nat /\ r \in Nat /\ x.rs \in Rows(n)
        /\ l \in 1 .. k + 1 /\ r \in k + 1 .. n /\ r + (m - 1) < l + n
        /\ Cut(x.rs, n, l - 1) /\ Cut(x.rs, n, r) /\ Moves(x.rs, p, n, 1, n)
    BY <1>2 DEF Narrowed, Passes
  <2>2. Pivoted(y, x.rs, n, l, r)
    <3>1. 1 <= l /\ l <= r /\ r <= n
      BY <1>2, <2>1
    <3> HIDE DEF l, r
    <3> QED
      BY <2>1, <3>1, PartitionPivots
  <2> HIDE DEF y, l, r
  <2>3. y.rs \in Rows(n) /\ y.i \in l .. r /\ y.i \in 1 .. n /\ Moves(y.rs, x.rs, n, l, r)
    BY <2>1, <2>2 DEF Pivoted, Moves
  <2>4. Moves(y.rs, p, n, 1, n)
    BY <2>1, <2>3, MovesTwice
  <2>5. \A a \in 1 .. n : x.rs[a].score \in Nat /\ y.rs[a].score \in Nat
    BY <2>1, <2>3, ScoresAreNumbers
  <2>6. ASSUME NEW b \in l .. n PROVE \E c \in l .. n : y.rs[b] = x.rs[c]
    <3>1. CASE b \in l .. r
      <4>1. PICK c \in l .. r : y.rs[b] = x.rs[c]
        BY <2>3, <3>1 DEF Moves
      <4> QED
        BY <2>1, <4>1
    <3>2. CASE b \notin l .. r
      BY <2>1, <2>3, <3>2 DEF Moves
    <3> QED
      BY <3>1, <3>2
  <2>7. ASSUME NEW a \in 1 .. r PROVE \E c \in 1 .. r : y.rs[a] = x.rs[c]
    <3>1. CASE a \in l .. r
      <4>1. PICK c \in l .. r : y.rs[a] = x.rs[c]
        BY <2>3, <3>1 DEF Moves
      <4> QED
        BY <2>1, <4>1
    <3>2. CASE a \notin l .. r
      BY <2>1, <2>3, <3>2 DEF Moves
    <3> QED
      BY <3>1, <3>2
  <2>8. ASSUME NEW a \in 1 .. l - 1, NEW b \in l .. n PROVE y.rs[a].score >= y.rs[b].score
    <3>1. PICK c \in l .. n : y.rs[b] = x.rs[c]
      BY <2>6
    <3>2. a \in 1 .. n /\ a \notin l .. r /\ (l - 1) + 1 = l
      BY <2>1
    <3>3. y.rs[a] = x.rs[a]
      BY <2>3, <3>2 DEF Moves
    <3> QED
      BY <2>1, <3>1, <3>2, <3>3 DEF Cut
  <2>9. ASSUME NEW a \in 1 .. r, NEW b \in r + 1 .. n PROVE y.rs[a].score >= y.rs[b].score
    <3>1. PICK c \in 1 .. r : y.rs[a] = x.rs[c]
      BY <2>7
    <3>2. b \in 1 .. n /\ b \notin l .. r
      BY <2>1
    <3>3. y.rs[b] = x.rs[b]
      BY <2>3, <3>2 DEF Moves
    <3> QED
      BY <2>1, <3>1, <3>3 DEF Cut
  <2>10. ASSUME NEW a \in 1 .. y.i PROVE y.rs[a].score >= y.rs[y.i].score
    <3>1. CASE a < l
      <4>1. a \in 1 .. l - 1 /\ y.i \in l .. n
        BY <2>1, <2>3, <3>1
      <4> QED
        BY <2>8, <4>1
    <3>2. CASE a = y.i
      BY <2>3, <2>5, <3>2
    <3>3. CASE a >= l /\ a # y.i
      <4>1. a \in l .. y.i - 1
        BY <2>1, <2>3, <3>3
      <4> QED
        BY <2>2, <4>1 DEF Pivoted
    <3> QED
      BY <2>1, <3>1, <3>2, <3>3
  <2>11. ASSUME NEW b \in y.i .. n PROVE y.rs[y.i].score >= y.rs[b].score
    <3>1. CASE b > r
      <4>1. b \in r + 1 .. n /\ y.i \in 1 .. r
        BY <2>1, <2>3, <3>1
      <4> QED
        BY <2>9, <4>1
    <3>2. CASE b = y.i
      BY <2>3, <2>5, <3>2
    <3>3. CASE b <= r /\ b # y.i
      <4>1. b \in y.i + 1 .. r /\ b \in 1 .. n
        BY <2>1, <2>3, <3>3
      <4>2. y.rs[b].score <= y.rs[y.i].score
        BY <2>2, <4>1 DEF Pivoted
      <4> QED
        BY <2>3, <2>5, <4>1, <4>2
    <3> QED
      BY <2>1, <2>3, <3>1, <3>2, <3>3
  <2>12. ASSUME NEW a \in 1 .. y.i, NEW b \in y.i .. n PROVE y.rs[a].score >= y.rs[b].score
    <3>1. a \in 1 .. n /\ b \in 1 .. n
      BY <2>3
    <3> QED
      BY <2>3, <2>5, <2>10, <2>11, <3>1
  <2>13. CASE y.i < k + 1
    <3>1. z = [rs |-> y.rs, l |-> y.i + 1, r |-> r]
      BY <2>3, <2>13 DEF Narrow
    <3>2. z.rs = y.rs /\ z.l = y.i + 1 /\ z.r = r /\ z.l - 1 = y.i
      BY <2>3, <3>1
    <3>3. z.l \in 1 .. k + 1 /\ z.r \in k + 1 .. n /\ z.r + m < z.l + n /\ z \in Passes(n)
      BY <2>1, <2>3, <2>13, <3>1, <3>2 DEF Passes
    <3>4. Cut(y.rs, n, y.i)
      <4> SUFFICES ASSUME NEW a \in 1 .. y.i, NEW b \in y.i + 1 .. n
                   PROVE  y.rs[a].score >= y.rs[b].score
        BY DEF Cut
      <4>1. b \in y.i .. n
        BY <2>3
      <4> QED
        BY <2>12, <4>1
    <3>5. Cut(y.rs, n, r)
      BY <2>9 DEF Cut
    <3> HIDE DEF z
    <3> QED
      BY <2>4, <3>2, <3>3, <3>4, <3>5, <1>2 DEF Narrowed, SelectRound, z, y, l, r
  <2>14. CASE y.i > k + 1
    <3>1. z = [rs |-> y.rs, l |-> l, r |-> y.i - 1]
      BY <2>3, <2>14 DEF Narrow
    <3>2. z.rs = y.rs /\ z.l = l /\ z.r = y.i - 1 /\ z.r + 1 = y.i
      BY <2>3, <3>1
    <3>3. z.l \in 1 .. k + 1 /\ z.r \in k + 1 .. n /\ z.r + m < z.l + n /\ z \in Passes(n)
      BY <2>1, <2>3, <2>14, <3>1, <3>2 DEF Passes
    <3>4. Cut(y.rs, n, z.r)
      <4> SUFFICES ASSUME NEW a \in 1 .. z.r, NEW b \in z.r + 1 .. n
                   PROVE  y.rs[a].score >= y.rs[b].score
        BY DEF Cut
      <4>1. a \in 1 .. y.i /\ b \in y.i .. n
        BY <2>3, <3>2
      <4> QED
        BY <2>12, <4>1
    <3>5. Cut(y.rs, n, l - 1)
      <4> SUFFICES ASSUME NEW a \in 1 .. l - 1, NEW b \in (l - 1) + 1 .. n
                   PROVE  y.rs[a].score >= y.rs[b].score
        BY DEF Cut
      <4>1. b \in l .. n
        BY <2>1
      <4> QED
        BY <2>8, <4>1
    <3> HIDE DEF z
    <3> QED
      BY <2>4, <3>2, <3>3, <3>4, <3>5, <1>2 DEF Narrowed, SelectRound, z, y, l, r
  <2>15. CASE y.i = k + 1
    <3>1. z = [rs |-> y.rs, l |-> r, r |-> r]
      BY <2>3, <2>15 DEF Narrow
    <3>2. z.rs = y.rs /\ z.l >= z.r /\ z \in Passes(n)
      BY <2>1, <2>3, <3>1 DEF Passes
    <3>3. Cut(y.rs, n, k)
      <4> SUFFICES ASSUME NEW a \in 1 .. k, NEW b \in k + 1 .. n
                   PROVE  y.rs[a].score >= y.rs[b].score
        BY DEF Cut
      <4>1. a \in 1 .. y.i /\ b \in y.i .. n
        BY <2>3, <2>15
      <4> QED
        BY <2>12, <4>1
    <3> HIDE DEF z
    <3> QED
      BY <2>4, <3>2, <3>3, <1>2 DEF Narrowed, SelectRound, z, y, l, r
  <2> QED
    BY <2>1, <2>3, <2>13, <2>14, <2>15
<1> QED
  BY <1>1, <1>2 DEF l, r

(***************************************************************************)
(* quickSelect: no result among the first k is lower than one after them.   *)
(***************************************************************************)
LEMMA QuickSelectCuts ==
  ASSUME NEW n \in Nat, NEW p \in Rows(n), NEW k \in Nat, k < n
  PROVE  Moves(QuickSelect(p, k), p, n, 1, n) /\ Cut(QuickSelect(p, k), n, k)
<1> DEFINE Inv == [m \in 0 .. n |-> {x \in Passes(n) : Narrowed(x, p, n, k, m)}]
           base == [rs |-> p, l |-> 1, r |-> n]
           step == [m \in 0 .. n |-> [x \in Passes(n) |-> SelectRound(x, k)]]
           R(f) == f = [m \in 0 .. n |->
                          IF m = 0 THEN [rs |-> p, l |-> 1, r |-> n]
                          ELSE IF f[m - 1].l < f[m - 1].r
                               THEN Narrow(Partition(f[m - 1].rs, f[m - 1].l, f[m - 1].r),
                                           f[m - 1].l, f[m - 1].r, k)
                               ELSE f[m - 1]]
           pass == CHOOSE f : R(f)
<1>0. Len(p) = n /\ 0 \in Nat /\ 0 <= n
  BY DEF Rows
<1>1. QuickSelect(p, k) = pass[n].rs
  BY <1>0 DEF QuickSelect
<1>2. base \in Inv[0]
  <2>1. /\ base \in Passes(n) /\ 0 \in 0 .. n /\ base.rs = p /\ base.l = 1 /\ base.r = n
        /\ 1 - 1 = 0
    BY DEF Passes
  <2>2. Cut(p, n, 0) /\ Cut(p, n, n)
    BY DEF Cut
  <2>3. Narrowed(base, p, n, k, 0)
    <3>1. 1 \in 1 .. k + 1 /\ n \in k + 1 .. n /\ n + 0 < 1 + n
      OBVIOUS
    <3> HIDE DEF base
    <3> QED
      BY <2>1, <2>2, <3>1, MovesNothing DEF Narrowed
  <2> QED
    BY <2>1, <2>3
<1>3. ASSUME NEW m \in 1 .. n, NEW x \in Inv[m - 1]
      PROVE  SelectRound(x, k) \in Inv[m] /\ step[m][x] = SelectRound(x, k)
  <2>1. m \in 0 .. n /\ m - 1 \in 0 .. n
    OBVIOUS
  <2>2. x \in Passes(n) /\ Narrowed(x, p, n, k, m - 1)
    BY <2>1
  <2>3. SelectRound(x, k) \in Passes(n) /\ Narrowed(SelectRound(x, k), p, n, k, m)
    <3> HIDE DEF Inv, step, base
    <3> QED
      BY <2>2, SelectRoundKeeps
  <2> QED
    BY <2>1, <2>2, <2>3
<1>4. PICK f : Loops(f, Inv, 0, n, base, step)
  <2> HIDE DEF Inv, base, step
  <2>1. \A m \in 0 + 1 .. n : \A x \in Inv[m - 1] : step[m][x] \in Inv[m]
    BY <1>3
  <2> QED
    BY <1>0, <1>2, <2>1, LoopStates
<1>5. R(f)
  <2> DEFINE g == [m \in 0 .. n |->
                          IF m = 0 THEN [rs |-> p, l |-> 1, r |-> n]
                          ELSE IF f[m - 1].l < f[m - 1].r
                               THEN Narrow(Partition(f[m - 1].rs, f[m - 1].l, f[m - 1].r),
                                           f[m - 1].l, f[m - 1].r, k)
                               ELSE f[m - 1]]
  <2>1. ASSUME NEW m \in 0 .. n PROVE f[m] = g[m]
    <3>1. CASE m = 0
      BY <1>4, <3>1 DEF Loops
    <3>2. CASE m # 0
      <4>1. m \in 0 + 1 .. n /\ m - 1 \in 0 .. n /\ m \in 1 .. n
        BY <3>2
      <4> HIDE DEF Inv, step, base
      <4>2. f[m] = step[m][f[m - 1]] /\ f[m - 1] \in Inv[m - 1]
        BY <1>4, <4>1 DEF Loops
      <4>3. f[m] = SelectRound(f[m - 1], k)
        BY <1>3, <4>1, <4>2
      <4> QED
        BY <3>2, <4>3 DEF SelectRound
    <3> QED
      BY <3>1, <3>2
  <2>2. f = [m \in 0 .. n |-> f[m]]
    <3> HIDE DEF Inv, base, step
    <3> QED
      BY <1>4 DEF Loops
  <2>3. f = g
    BY <2>1, <2>2
  <2> QED
    BY <2>3
<1>6. R(pass)
  <2> HIDE DEF R
  <2> QED
    BY <1>5
<1> HIDE DEF pass
<1>7. pass[0] = base /\ \A m \in 1 .. n : pass[m] = SelectRound(pass[m - 1], k)
  <2>1. 0 \in 0 .. n
    OBVIOUS
  <2>2. ASSUME NEW m \in 1 .. n PROVE pass[m] = SelectRound(pass[m - 1], k)
    <3>1. m \in 0 .. n /\ m # 0
      OBVIOUS
    <3> QED
      BY <1>6, <3>1 DEF SelectRound
  <2> QED
    BY <1>6, <2>1, <2>2
<1>8. \A m \in 0 .. n : pass[m] \in Inv[m]
  <2> HIDE DEF Inv, R, base, step
  <2>1. pass[0] \in Inv[0]
    BY <1>2, <1>7
  <2>2. \A m \in 0 + 1 .. n : pass[m - 1] \in Inv[m - 1] => pass[m] \in Inv[m]
    BY <1>3, <1>7
  <2> QED
    BY <1>0, <2>1, <2>2, LoopKeeps
<1>9. Narrowed(pass[n], p, n, k, n)
  BY <1>8
<1>10. Moves(pass[n].rs, p, n, 1, n) /\ Cut(pass[n].rs, n, k)
  BY <1>9 DEF Narrowed
<1> QED
  BY <1>1, <1>10

(***************************************************************************)
(* The inner loop of SortResultsByScore when it has come past j.            *)
(***************************************************************************)
Brought(q, p, n, i, j) ==
  Moves(q, p, n, i, n) /\ \A b \in i .. j : q[i].score >= q[b].score

BringRound(q, i, j) == IF q[i].score < q[j].score THEN Swap(q, i, j) ELSE q

LEMMA BringRoundKeeps ==
  ASSUME NEW n \in Nat, NEW p \in Rows(n), NEW i \in 1 .. n, NEW j \in i + 1 .. n,
         NEW q \in Rows(n), Brought(q, p, n, i, j - 1)
  PROVE  BringRound(q, i, j) \in Rows(n) /\ Brought(BringRound(q, i, j), p, n, i, j)
<1>0. i \in i .. n /\ j \in i .. n /\ j \in 1 .. n /\ i # j /\ i \in Nat /\ 1 <= i /\ n <= n
  OBVIOUS
<1>1. \A a \in 1 .. n : q[a].score \in Nat
  BY ScoresAreNumbers
<1>2. CASE q[i].score < q[j].score
  <2> DEFINE t == Swap(q, i, j)
  <2>1. /\ Moves(t, q, n, i, n) /\ t[i] = q[j] /\ t[j] = q[i]
        /\ \A a \in 1 .. n : a # i /\ a # j => t[a] = q[a]
    BY <1>0, SwapMoves
  <2> HIDE DEF t
  <2>2. Moves(t, p, n, i, n) /\ t \in Rows(n)
    <3>1. Moves(t, p, n, i, n)
      BY <1>0, <2>1, MovesTwice DEF Brought
    <3> QED
      BY <3>1 DEF Moves
  <2>3. ASSUME NEW b \in i .. j PROVE t[i].score >= t[b].score
    <3>1. CASE b = i
      BY <1>0, <1>1, <2>1, <3>1
    <3>2. CASE b = j
      BY <1>0, <1>1, <1>2, <2>1, <3>2
    <3>3. CASE b # i /\ b # j
      <4>1. b \in i .. j - 1 /\ b \in 1 .. n
        BY <3>3
      <4>2. q[i].score >= q[b].score /\ t[b] = q[b]
        BY <2>1, <3>3, <4>1 DEF Brought
      <4> QED
        BY <1>0, <1>1, <1>2, <2>1, <4>1, <4>2
    <3> QED
      BY <3>1, <3>2, <3>3
  <2>4. Brought(t, p, n, i, j)
    BY <2>2, <2>3 DEF Brought
  <2> QED
    BY <1>2, <2>2, <2>4 DEF BringRound, t
<1>3. CASE ~(q[i].score < q[j].score)
  <2>1. ASSUME NEW b \in i .. j PROVE q[i].score >= q[b].score
    <3>1. CASE b = j
      BY <1>0, <1>1, <1>3, <3>1
    <3>2. CASE b # j
      <4>1. b \in i .. j - 1
        BY <3>2
      <4> QED
        BY <4>1 DEF Brought
    <3> QED
      BY <3>1, <3>2
  <2> QED
    BY <1>3, <2>1 DEF BringRound, Brought
<1> QED
  BY <1>2, <1>3

LEMMA BringBestBrings ==
  ASSUME NEW n \in Nat, NEW p \in Rows(n), NEW i \in 1 .. n
  PROVE  Brought(BringBest(p, i), p, n, i, n)
<1> DEFINE Inv == [j \in i .. n |-> {q \in Rows(n) : Brought(q, p, n, i, j)}]
           step == [j \in i .. n |-> [q \in Rows(n) |-> BringRound(q, i, j)]]
           R(f) == f = [j \in i .. n |->
                          IF j = i THEN p
                          ELSE IF f[j - 1][i].score < f[j - 1][j].score
                               THEN Swap(f[j - 1], i, j) ELSE f[j - 1]]
           inner == CHOOSE f : R(f)
<1>0. Len(p) = n /\ i \in Nat /\ i <= n
  BY DEF Rows
<1>1. BringBest(p, i) = inner[n]
  BY <1>0 DEF BringBest
<1>2. p \in Inv[i]
  <2>1. i \in i .. n /\ \A b \in i .. i : b = i
    OBVIOUS
  <2>2. p[i].score >= p[i].score
    BY ScoresAreNumbers
  <2>3. Brought(p, p, n, i, i)
    BY <2>1, <2>2, MovesNothing DEF Brought
  <2> QED
    BY <2>1, <2>3
<1>3. ASSUME NEW j \in i + 1 .. n, NEW q \in Inv[j - 1]
      PROVE  BringRound(q, i, j) \in Inv[j] /\ step[j][q] = BringRound(q, i, j)
  <2>1. j \in i .. n /\ j - 1 \in i .. n
    OBVIOUS
  <2>2. q \in Rows(n) /\ Brought(q, p, n, i, j - 1)
    BY <2>1
  <2>3. BringRound(q, i, j) \in Rows(n) /\ Brought(BringRound(q, i, j), p, n, i, j)
    <3> HIDE DEF Inv, step
    <3> QED
      BY <2>2, BringRoundKeeps
  <2> QED
    BY <2>1, <2>2, <2>3
<1>4. PICK f : Loops(f, Inv, i, n, p, step)
  <2> HIDE DEF Inv, step
  <2>1. \A j \in i + 1 .. n : \A q \in Inv[j - 1] : step[j][q] \in Inv[j]
    BY <1>3
  <2> QED
    BY <1>0, <1>2, <2>1, LoopStates
<1>5. R(f)
  <2> DEFINE g == [j \in i .. n |->
                          IF j = i THEN p
                          ELSE IF f[j - 1][i].score < f[j - 1][j].score
                               THEN Swap(f[j - 1], i, j) ELSE f[j - 1]]
  <2>1. ASSUME NEW j \in i .. n PROVE f[j] = g[j]
    <3>1. CASE j = i
      BY <1>4, <3>1 DEF Loops
    <3>2. CASE j # i
      <4>1. j \in i + 1 .. n /\ j - 1 \in i .. n
        BY <3>2
      <4> HIDE DEF Inv, step
      <4>2. f[j] = step[j][f[j - 1]] /\ f[j - 1] \in Inv[j - 1]
        BY <1>4, <4>1 DEF Loops
      <4>3. f[j] = BringRound(f[j - 1], i, j)
        BY <1>3, <4>1, <4>2
      <4> QED
        BY <3>2, <4>3 DEF BringRound
    <3> QED
      BY <3>1, <3>2
  <2>2. f = [j \in i .. n |-> f[j]]
    <3> HIDE DEF Inv, step
    <3> QED
      BY <1>4 DEF Loops
  <2>3. f = g
    BY <2>1, <2>2
  <2> QED
    BY <2>3
<1>6. R(inner)
  <2> HIDE DEF R
  <2> QED
    BY <1>5
<1> HIDE DEF inner
<1>7. inner[i] = p /\ \A j \in i + 1 .. n : inner[j] = BringRound(inner[j - 1], i, j)
  <2>1. i \in i .. n
    OBVIOUS
  <2>2. ASSUME NEW j \in i + 1 .. n PROVE inner[j] = BringRound(inner[j - 1], i, j)
    <3>1. j \in i .. n /\ j # i
      OBVIOUS
    <3> QED
      BY <1>6, <3>1 DEF BringRound
  <2> QED
    BY <1>6, <2>1, <2>2
<1>8. \A j \in i .. n : inner[j] \in Inv[j]
  <2> HIDE DEF Inv, R, step
  <2>1. inner[i] \in Inv[i]
    BY <1>2, <1>7
  <2>2. \A j \in i + 1 .. n : inner[j - 1] \in Inv[j - 1] => inner[j] \in Inv[j]
    BY <1>3, <1>7
  <2> QED
    BY <1>0, <2>1, <2>2, LoopKeeps
<1>9. Brought(inner[n], p, n, i, n)
  BY <1>8
<1> QED
  BY <1>1, <1>9

(***************************************************************************)
(* The outer loop of SortResultsByScore after i rounds.                     *)
(***************************************************************************)
SortedUpTo(q, p, n, i) ==
  /\ Moves(q, p, n, 1, n)
  /\ \A a \in 1 .. i : \A b \in a .. n : q[a].score >= q[b].score

LEMMA SortRoundKeeps ==
  ASSUME NEW n \in Nat, NEW p \in Rows(n), NEW i \in 1 .. n,
         NEW q \in Rows(n), SortedUpTo(q, p, n, i - 1)
  PROVE  BringBest(q, i) \in Rows(n) /\ SortedUpTo(BringBest(q, i), p, n, i)
<1> DEFINE t == BringBest(q, i)
<1>1. Brought(t, q, n, i, n)
  BY BringBestBrings
<1> HIDE DEF t
<1>2. Moves(t, q, n, i, n) /\ t \in Rows(n)
  BY <1>1 DEF Brought, Moves
<1>3. Moves(t, p, n, 1, n)
  <2>1. i \in Nat /\ 1 <= i /\ n <= n /\ 1 \in Nat /\ 1 <= 1
    OBVIOUS
  <2> QED
    BY <1>2, <2>1, MovesTwice DEF SortedUpTo
<1>4. ASSUME NEW a \in 1 .. i, NEW b \in a .. n PROVE t[a].score >= t[b].score
  <2>1. CASE a = i
    BY <1>1, <2>1 DEF Brought
  <2>2. CASE a # i
    <3>1. a \in 1 .. i - 1 /\ a \notin i .. n /\ a \in 1 .. n /\ b \in 1 .. n
      BY <2>2
    <3>2. t[a] = q[a]
      BY <1>2, <3>1 DEF Moves
    <3>3. CASE b \in i .. n
      <4>1. PICK c \in i .. n : t[b] = q[c]
        BY <1>2, <3>3 DEF Moves
      <4>2. c \in a .. n
        BY <3>1, <4>1
      <4> QED
        BY <3>1, <3>2, <4>1, <4>2 DEF SortedUpTo
    <3>4. CASE b \notin i .. n
      <4>1. t[b] = q[b]
        BY <1>2, <3>1, <3>4 DEF Moves
      <4> QED
        BY <3>1, <3>2, <4>1 DEF SortedUpTo
    <3> QED
      BY <3>3, <3>4
  <2> QED
    BY <2>1, <2>2
<1> QED
  BY <1>2, <1>3, <1>4 DEF SortedUpTo, t

LEMMA SortByScoreSorts ==
  ASSUME NEW n \in Nat, NEW p \in Rows(n)
  PROVE  SortedUpTo(SortByScore(p), p, n, n)
<1> DEFINE Inv == [i \in 0 .. n |-> {q \in Rows(n) : SortedUpTo(q, p, n, i)}]
           step == [i \in 0 .. n |-> [q \in Rows(n) |-> BringBest(q, i)]]
           R(f) == f = [i \in 0 .. n |-> IF i = 0 THEN p ELSE BringBest(f[i - 1], i)]
           outer == CHOOSE f : R(f)
<1>0. Len(p) = n /\ 0 \in Nat /\ 0 <= n
  BY DEF Rows
<1>1. SortByScore(p) = outer[n]
  BY <1>0 DEF SortByScore
<1>2. p \in Inv[0]
  <2>1. SortedUpTo(p, p, n, 0)
    BY MovesNothing DEF SortedUpTo
  <2> QED
    BY <2>1
<1>3. ASSUME NEW i \in 1 .. n, NEW q \in Inv[i - 1]
      PROVE  BringBest(q, i) \in Inv[i] /\ step[i][q] = BringBest(q, i)
  <2>1. i \in 0 .. n /\ i - 1 \in 0 .. n
    OBVIOUS
  <2>2. q \in Rows(n) /\ SortedUpTo(q, p, n, i - 1)
    BY <2>1
  <2>3. BringBest(q, i) \in Rows(n) /\ SortedUpTo(BringBest(q, i), p, n, i)
    <3> HIDE DEF Inv, step
    <3> QED
      BY <2>2, SortRoundKeeps
  <2> QED
    BY <2>1, <2>2, <2>3
<1>4. PICK f : Loops(f, Inv, 0, n, p, step)
  <2> HIDE DEF Inv, step
  <2>1. \A i \in 0 + 1 .. n : \A q \in Inv[i - 1] : step[i][q] \in Inv[i]
    BY <1>3
  <2> QED
    BY <1>0, <1>2, <2>1, LoopStates
<1>5. R(f)
  <2> DEFINE g == [i \in 0 .. n |-> IF i = 0 THEN p ELSE BringBest(f[i - 1], i)]
  <2>1. ASSUME NEW i \in 0 .. n PROVE f[i] = g[i]
    <3>1. CASE i = 0
      BY <1>4, <3>1 DEF Loops
    <3>2. CASE i # 0
      <4>1. i \in 0 + 1 .. n /\ i - 1 \in 0 .. n /\ i \in 1 .. n
        BY <3>2
      <4> HIDE DEF Inv, step
      <4>2. f[i] = step[i][f[i - 1]] /\ f[i - 1] \in Inv[i - 1]
        BY <1>4, <4>1 DEF Loops
      <4>3. f[i] = BringBest(f[i - 1], i)
        BY <1>3, <4>1, <4>2
      <4> QED
        BY <3>2, <4>3
    <3> QED
      BY <3>1, <3>2
  <2>2. f = [i \in 0 .. n |-> f[i]]
    <3> HIDE DEF Inv, step
    <3> QED
      BY <1>4 DEF Loops
  <2>3. f = g
    BY <2>1, <2>2
  <2> QED
    BY <2>3
<1>6. R(outer)
  <2> HIDE DEF R
  <2> QED
    BY <1>5
<1> HIDE DEF outer
<1>7. outer[0] = p /\ \A i \in 1 .. n : outer[i] = BringBest(outer[i - 1], i)
  <2>1. 0 \in 0 .. n
    OBVIOUS
  <2>2. ASSUME NEW i \in 1 .. n PROVE outer[i] = BringBest(outer[i - 1], i)
    <3>1. i \in 0 .. n /\ i # 0
      OBVIOUS
    <3> QED
      BY <1>6, <3>1
  <2> QED
    BY <1>6, <2>1, <2>2
<1>8. \A i \in 0 .. n : outer[i] \in Inv[i]
  <2> HIDE DEF Inv, R, step
  <2>1. outer[0] \in Inv[0]
    BY <1>2, <1>7
  <2>2. \A i \in 0 + 1 .. n : outer[i - 1] \in Inv[i - 1] => outer[i] \in Inv[i]
    BY <1>3, <1>7
  <2> QED
    BY <1>0, <2>1, <2>2, LoopKeeps
<1>9. SortedUpTo(outer[n], p, n, n)
  BY <1>8
<1> QED
  BY <1>1, <1>9

(***************************************************************************)
(* b is what is best in p, at most k: in order, and nothing that is left    *)
(* out is better.                                                           *)
(***************************************************************************)
Among(x, p) == \E i \in DOMAIN p : p[i] = x

TopOf(b, p, k) ==
  /\ b \in Seq(Scored) /\ Len(b) <= k
  /\ \A i \in 1 .. Len(b) : Among(b[i], p)
  /\ \A i, j \in 1 .. Len(b) : i < j => b[i].score >= b[j].score
  /\ Distinct(p) => Distinct(b)
  /\ \A j \in 1 .. Len(p) :
       Among(p[j], b) \/ (Len(b) = k /\ \A i \in 1 .. Len(b) : b[i].score >= p[j].score)

(***************************************************************************)
(* What SearchVectors keeps of a shard's vectors, and Search of all: for    *)
(* every list and limit, QuickSelectResults and SortResultsByScore together *)
(* return, in order, entries that none left out beats, ties included.       *)
(***************************************************************************)
THEOREM BestIsTop ==
  ASSUME NEW p \in Seq(Scored), NEW k \in Nat
  PROVE  TopOf(Best(p, k), p, k)
<1> DEFINE n == Len(p)
<1>0. n \in Nat /\ p \in Rows(n) /\ DOMAIN p = 1 .. n
  BY DEF Rows
<1>1. CASE ~(n > k)
  <2> DEFINE b == SortByScore(p)
  <2>1. SortedUpTo(b, p, n, n)
    BY <1>0, SortByScoreSorts
  <2> HIDE DEF b
  <2>2. b \in Rows(n) /\ Moves(b, p, n, 1, n)
    BY <2>1 DEF SortedUpTo, Moves
  <2>3. b \in Seq(Scored) /\ Len(b) = n /\ DOMAIN b = 1 .. n
    BY <1>0, <2>2 DEF Rows
  <2>4. TopOf(b, p, k)
    <3>1. \A i, j \in 1 .. n : i < j => b[i].score >= b[j].score
      BY <1>0, <2>1 DEF SortedUpTo
    <3>2. Distinct(p) => Distinct(b)
      BY <2>2 DEF Moves
    <3>3. \A i \in 1 .. n : Among(b[i], p)
      BY <1>0, <2>2 DEF Moves, Among
    <3>4. \A j \in 1 .. n : Among(p[j], b)
      BY <2>2, <2>3 DEF Moves, Among
    <3>5. Len(b) <= k
      BY <1>0, <1>1, <2>3
    <3> QED
      BY <2>3, <3>1, <3>2, <3>3, <3>4, <3>5, Zenon DEF TopOf
  <2> QED
    BY <1>1, <2>4 DEF Best, b
<1>2. CASE n > k
  <2> DEFINE q == QuickSelect(p, k)
             c == SubSeq(q, 1, k)
             b == SortByScore(c)
  <2>1. Moves(q, p, n, 1, n) /\ Cut(q, n, k)
    BY <1>0, <1>2, QuickSelectCuts
  <2> HIDE DEF q
  <2>2. q \in Rows(n) /\ DOMAIN q = 1 .. n /\ q \in Seq(Scored) /\ Len(q) = n
    BY <1>0, <2>1 DEF Moves, Rows
  <2>3. c \in Rows(k) /\ \A i \in 1 .. k : c[i] = q[i]
    <3>1. c = [i \in 1 .. k |-> q[i]]
      BY <1>0, <1>2, <2>2
    <3>2. \A i \in 1 .. k : q[i] \in Scored
      BY <1>0, <1>2, <2>2 DEF Rows
    <3> QED
      BY <3>1, <3>2 DEF Rows
  <2> HIDE DEF c
  <2>4. SortedUpTo(b, c, k, k)
    BY <2>3, SortByScoreSorts
  <2> HIDE DEF b
  <2>5. b \in Rows(k) /\ Moves(b, c, k, 1, k)
    BY <2>4 DEF SortedUpTo, Moves
  <2>6. b \in Seq(Scored) /\ Len(b) = k /\ DOMAIN b = 1 .. k /\ DOMAIN c = 1 .. k
    BY <2>3, <2>5 DEF Rows
  <2>7. \A i \in 1 .. k : i \in 1 .. n
    BY <1>0, <1>2
  <2>8. ASSUME NEW i \in 1 .. k PROVE Among(b[i], p)
    <3>1. PICK j \in 1 .. k : b[i] = c[j]
      BY <2>5 DEF Moves
    <3>2. b[i] = q[j] /\ j \in 1 .. n
      BY <2>3, <2>7, <3>1
    <3>3. PICK m \in 1 .. n : q[j] = p[m]
      BY <2>1, <3>2 DEF Moves
    <3> QED
      BY <1>0, <3>2, <3>3 DEF Among
  <2>9. Distinct(p) => Distinct(b)
    <3>1. Distinct(p) => Distinct(q)
      BY <2>1 DEF Moves
    <3>2. Distinct(q) => Distinct(c)
      BY <2>2, <2>3, <2>6, <2>7 DEF Distinct
    <3>3. Distinct(c) => Distinct(b)
      BY <2>5 DEF Moves
    <3> QED
      BY <3>1, <3>2, <3>3
  <2>10. ASSUME NEW j \in 1 .. n
         PROVE  Among(p[j], b) \/ \A i \in 1 .. k : b[i].score >= p[j].score
    <3>1. PICK m \in 1 .. n : q[m] = p[j]
      BY <2>1 DEF Moves
    <3>2. CASE m \in 1 .. k
      <4>1. PICK i \in 1 .. k : b[i] = c[m]
        BY <2>5, <3>2 DEF Moves
      <4>2. b[i] = p[j] /\ i \in DOMAIN b
        BY <2>3, <2>6, <3>1, <3>2, <4>1
      <4> QED
        BY <4>2 DEF Among
    <3>3. CASE m \notin 1 .. k
      <4>1. m \in k + 1 .. n
        BY <1>0, <3>3
      <4>2. ASSUME NEW i \in 1 .. k PROVE b[i].score >= p[j].score
        <5>1. PICK a \in 1 .. k : b[i] = c[a]
          BY <2>5 DEF Moves
        <5>2. q[a].score >= q[m].score /\ b[i] = q[a]
          BY <2>1, <2>3, <4>1, <5>1 DEF Cut
        <5> QED
          BY <3>1, <5>2
      <4> QED
        BY <4>2
    <3> QED
      BY <3>2, <3>3
  <2>11. \A i, j \in 1 .. k : i < j => b[i].score >= b[j].score
    BY <2>4 DEF SortedUpTo
  <2>12. TopOf(b, p, k)
    BY <1>0, <2>6, <2>8, <2>9, <2>10, <2>11 DEF TopOf
  <2>13. Best(p, k) = b
    BY <1>2 DEF Best, b, c, q
  <2> QED
    BY <2>12, <2>13
<1> QED
  BY <1>0, <1>1, <1>2

(***************************************************************************)
(* Different results that are all found at places of T are not more than T. *)
(***************************************************************************)
Differ(d, k)      == \A i, j \in 1 .. k : d[i].id = d[j].id => i = j
FoundAt(d, k, b, T) == \A i \in 1 .. k : \E t \in T : b[t] = d[i]

LEMMA Crowded ==
  ASSUME NEW b, NEW k \in Nat, NEW d, NEW T, IsFiniteSet(T),
         Differ(d, k), FoundAt(d, k, b, T)
  PROVE  k <= Cardinality(T)
<1> DEFINE f == [i \in 1 .. k |-> CHOOSE t \in T : b[t] = d[i]]
<1>1. \A i \in 1 .. k : f[i] \in T /\ b[f[i]] = d[i]
  BY DEF FoundAt
<1>2. IsFiniteSet(1 .. k) /\ Cardinality(1 .. k) = k
  BY FS_Interval
<1> SUFFICES ASSUME ~(k <= Cardinality(T)) PROVE FALSE
  OBVIOUS
<1>3. Cardinality(T) < Cardinality(1 .. k)
  BY <1>2, FS_CardinalityType
<1>4. f \in [1 .. k -> T]
  BY <1>1
<1> HIDE DEF f
<1>5. \E x, y \in 1 .. k : x # y /\ f[x] = f[y]
  BY <1>2, <1>3, <1>4, FS_PigeonHole
<1> QED
  BY <1>1, <1>5 DEF Differ

(***************************************************************************)
(* k different results beat score when none of them is lower.               *)
(***************************************************************************)
Beating(d, k, score) ==
  /\ d \in Seq(Scored) /\ Len(d) = k /\ Distinct(d)
  /\ \A i \in 1 .. k : d[i].score >= score

(***************************************************************************)
(* What k results of p beat is beaten by the best k of p.                   *)
(***************************************************************************)
LEMMA TopBeats ==
  ASSUME NEW p \in Seq(Scored), NEW k \in Nat, NEW b, TopOf(b, p, k), NEW score \in Nat,
         NEW d, Beating(d, k, score), \A i \in 1 .. k : Among(d[i], p)
  PROVE  Len(b) = k /\ \A i \in 1 .. k : b[i].score >= score
<1>0. /\ b \in Seq(Scored) /\ Len(b) \in Nat /\ DOMAIN b = 1 .. Len(b) /\ DOMAIN p = 1 .. Len(p)
      /\ Len(b) <= k
      /\ \A j \in 1 .. Len(p) :
           Among(p[j], b) \/ (Len(b) = k /\ \A i \in 1 .. Len(b) : b[i].score >= p[j].score)
  BY DEF TopOf
<1>1. /\ d \in Seq(Scored) /\ DOMAIN d = 1 .. k
      /\ \A i, j \in 1 .. k : d[i].id = d[j].id => i = j
      /\ \A i \in 1 .. k : d[i].score >= score
  BY DEF Beating, Distinct
<1>10. \A i, j \in 1 .. k : d[i].id = d[j].id => i = j
  BY <1>1
<1>11. \A x \in Scored : x.score \in Nat
  BY SearchAssumption DEF Scored
<1>12. (\A i \in 1 .. Len(b) : b[i] \in Scored) /\ \A i \in 1 .. k : d[i] \in Scored
  <2>1. Len(d) = k /\ d \in Seq(Scored)
    BY DEF Beating
  <2>2. \A i \in 1 .. k : d[i] \in Scored
    BY <2>1
  <2>3. b \in Seq(Scored)
    BY <1>0
  <2>4. \A i \in 1 .. Len(b) : b[i] \in Scored
    BY <2>3
  <2> QED
    BY <2>2, <2>4
<1>2. \A i \in 1 .. Len(b) : b[i].score \in Nat
  BY <1>11, <1>12
<1>3. \A i \in 1 .. k : d[i].score \in Nat
  BY <1>11, <1>12
<1>4. \A i \in 1 .. k : \E j \in 1 .. Len(p) : p[j] = d[i]
  BY <1>0 DEF Among
<1>5. \A i \in 1 .. k :
        Among(d[i], b) \/ (Len(b) = k /\ \A j \in 1 .. Len(b) : b[j].score >= d[i].score)
  BY <1>0, <1>4
<1>13. ASSUME NEW T, IsFiniteSet(T), \A i \in 1 .. k : \E t \in T : b[t] = d[i]
       PROVE  k <= Cardinality(T)
  <2>1. Differ(d, k) /\ FoundAt(d, k, b, T)
    BY <1>10, <1>13 DEF Differ, FoundAt
  <2> QED
    BY <1>13, <2>1, Crowded
<1>6. Len(b) = k
  <2> SUFFICES ASSUME Len(b) # k PROVE FALSE
    OBVIOUS
  <2>1. \A i \in 1 .. k : \E t \in 1 .. Len(b) : b[t] = d[i]
    BY <1>0, <1>5 DEF Among
  <2>2. PICK m \in Nat : m = Len(b)
    BY <1>0
  <2> DEFINE T == 1 .. m
  <2>3. IsFiniteSet(T) /\ Cardinality(T) = m
    BY FS_Interval
  <2>4. ASSUME NEW i \in 1 .. k PROVE \E t \in T : b[t] = d[i]
    BY <2>1, <2>2
  <2> HIDE DEF T
  <2>5. k <= Cardinality(T)
    BY <1>13, <2>3, <2>4
  <2>6. m <= k /\ m # k
    BY <1>0, <2>2
  <2> QED
    BY <2>3, <2>5, <2>6
<1>7. ASSUME NEW m \in 1 .. k, ~(b[m].score >= score) PROVE FALSE
  <2> DEFINE T == (1 .. k) \ {m}
  <2>1. ASSUME NEW i \in 1 .. k PROVE \E t \in T : b[t] = d[i]
    <3>1. d[i].score >= score /\ ~(b[m].score >= d[i].score)
      BY <1>1, <1>2, <1>3, <1>6, <1>7
    <3>2. Among(d[i], b)
      BY <1>5, <1>6, <3>1
    <3>3. PICK t \in 1 .. k : b[t] = d[i]
      BY <1>0, <1>6, <3>2 DEF Among
    <3>4. t # m
      BY <1>7, <3>1, <3>3
    <3> QED
      BY <3>3, <3>4
  <2>2. /\ IsFiniteSet(1 .. k) /\ Cardinality(1 .. k) = k
    BY FS_Interval
  <2>3. IsFiniteSet(T) /\ Cardinality(T) = k - 1
    BY <2>2, FS_RemoveElement
  <2> HIDE DEF T
  <2>4. k <= Cardinality(T)
    BY <1>13, <2>1, <2>3
  <2> QED
    BY <2>3, <2>4
<1> QED
  BY <1>6, <1>7

(***************************************************************************)
(* q is b without what scores less than min.                                *)
(***************************************************************************)
Above(q, b, min) ==
  /\ q \in Seq(Scored) /\ Len(q) <= Len(b)
  /\ \A i \in 1 .. Len(q) : Among(q[i], b) /\ q[i].score >= min
  /\ (\A i, j \in 1 .. Len(b) : i < j => b[i].score >= b[j].score)
       => \A i, j \in 1 .. Len(q) : i < j => q[i].score >= q[j].score
  /\ Distinct(b) => Distinct(q)
  /\ \A i \in 1 .. Len(b) : b[i].score >= min => Among(b[i], q)
  /\ (\A i \in 1 .. Len(b) : b[i].score >= min) => Len(q) = Len(b)

LEMMA ShownIsAbove ==
  ASSUME NEW b \in Seq(Scored)
  PROVE  Above(Shown(b), b, req.min)
<1> DEFINE min == req.min
           S == {r \in Range(b) : r.score >= min}
           q == Filter(b, S)
<1>1. Shown(b) = q
  BY DEF Shown
<1>2. DOMAIN b = 1 .. Len(b) /\ \A i \in 1 .. Len(b) : b[i] \in S <=> b[i].score >= min
  BY DEF Range
<1> HIDE DEF S, min
<1>3. q \in Seq(Scored) /\ \E at : Picks(at, q, b, Len(b), S)
  BY FilterPicks
<1>4. Len(q) <= Len(b) /\ ((\A i \in 1 .. Len(b) : b[i] \in S) => Len(q) = Len(b))
  BY FilterLength
<1> HIDE DEF q
<1>5. PICK at : Picks(at, q, b, Len(b), S)
  BY <1>3
<1>6. /\ \A i \in 1 .. Len(q) : at[i] \in 1 .. Len(b) /\ q[i] = b[at[i]] /\ b[at[i]] \in S
      /\ \A i, j \in 1 .. Len(q) : i < j => at[i] < at[j]
      /\ \A p \in 1 .. Len(b) : b[p] \in S => \E i \in 1 .. Len(q) : at[i] = p
  BY <1>5 DEF Picks
<1>7. DOMAIN q = 1 .. Len(q) /\ Len(q) \in Nat /\ Len(b) \in Nat
  BY <1>3
<1>8. \A i \in 1 .. Len(q) : Among(q[i], b) /\ q[i].score >= min
  BY <1>2, <1>6 DEF Among
<1>9. ASSUME \A i, j \in 1 .. Len(b) : i < j => b[i].score >= b[j].score
      PROVE  \A i, j \in 1 .. Len(q) : i < j => q[i].score >= q[j].score
  BY <1>6, <1>9
<1>10. Distinct(b) => Distinct(q)
  <2> SUFFICES ASSUME Distinct(b), NEW i \in 1 .. Len(q), NEW j \in 1 .. Len(q),
                      q[i].id = q[j].id
               PROVE  i = j
    BY <1>7 DEF Distinct
  <2>1. at[i] = at[j]
    BY <1>2, <1>6 DEF Distinct
  <2>2. ~(i < j) /\ ~(j < i)
    BY <1>6, <2>1
  <2> QED
    BY <1>7, <2>2
<1>11. \A i \in 1 .. Len(b) : b[i].score >= min => Among(b[i], q)
  BY <1>2, <1>6, <1>7 DEF Among
<1>12. (\A i \in 1 .. Len(b) : b[i].score >= min) => Len(q) = Len(b)
  BY <1>2, <1>4
<1>13. Above(q, b, min)
  BY <1>3, <1>4, <1>8, <1>9, <1>10, <1>11, <1>12, Zenon DEF Above
<1> QED
  BY <1>1, <1>13 DEF min

(***************************************************************************)
(* The orders in which ZREVRANGE may list a set of ids.                     *)
(***************************************************************************)
LEMMA OrdersHoldAll ==
  ASSUME NEW S, IsFiniteSet(S), NEW o \in SetToSeqs(S)
  PROVE  /\ o \in Seq(S)
         /\ \A i, j \in 1 .. Len(o) : o[i] = o[j] => i = j
         /\ \A k \in S : \E i \in 1 .. Len(o) : o[i] = k
<1> DEFINE n == Cardinality(S)
<1>1. n \in Nat
  BY FS_CardinalityType
<1> DEFINE D == 1 .. n
<1>2. o \in [D -> S] /\ \A i, j \in D : i # j => o[i] # o[j]
  BY DEF SetToSeqs
<1>3. IsFiniteSet(D) /\ Cardinality(D) = n
  <2> HIDE DEF n
  <2> QED
    BY <1>1, FS_Interval
<1>4. o \in Injection(D, S)
  BY <1>2 DEF Injection, IsInjective
<1>5. o \in Surjection(D, S)
  <2> HIDE DEF D
  <2>1. Cardinality(D) = Cardinality(S)
    BY <1>3
  <2> QED
    BY <1>4, <2>1, FS_Injection
<1> HIDE DEF n
<1>6. o \in Seq(S) /\ Len(o) = n
  BY <1>1, <1>2
<1>7. \A k \in S : \E i \in D : o[i] = k
  BY <1>5 DEF Surjection
<1> QED
  BY <1>2, <1>6, <1>7

-----------------------------------------------------------------------------
(***************************************************************************)
(* The values of the variables.                                             *)
(***************************************************************************)
Call == [k : Nat, min : Nat, filter : SUBSET Scores, shards : SUBSET Shards,
         call : {"search", "stream", "stats"}]

Goroutine == [pc : {"none", "adapter", "ids", "vectors", "count", "done"},
              todo : Seq(Ids), found : Seq(Scored)]

Typed ==
  /\ vec \in [Ids -> Scores \cup {Absent}] /\ listed \subseteq Ids /\ active \subseteq Shards
  /\ req # None => req \in Call
  /\ worker \in [Shards -> Goroutine]
  /\ results \in Seq(Seq(Scored)) /\ merged \in Seq(Scored)
  /\ errors \in Nat /\ total \in Nat /\ missing \subseteq Shards

LEMMA IdleTyped == Idle \in [Shards -> Goroutine]
<1>1. <<>> \in Seq(Ids) /\ <<>> \in Seq(Scored)
  OBVIOUS
<1> QED
  BY <1>1 DEF Idle, Goroutine

LEMMA TypedInitially == Init => Typed
<1> SUFFICES ASSUME Init PROVE Typed
  OBVIOUS
<1>1. <<>> \in Seq(Seq(Scored)) /\ <<>> \in Seq(Scored)
  OBVIOUS
<1> QED
  BY <1>1, IdleTyped DEF Init, Typed

LEMMA RequestTyped ==
  ASSUME Typed, NEW call \in {"search", "stream", "stats"}, Request(call)
  PROVE  Typed'
<1>1. PICK q \in Requests : req' = [k |-> Limit(q.k), min |-> q.min, filter |-> q.filter,
                                    shards |-> {}, call |-> call]
  BY DEF Request
<1>2. q \in [k : Nat, min : Nat, filter : SUBSET Scores] /\ Limit(q.k) \in Nat
  BY SearchAssumption DEF Limit
<1>3. req' \in Call
  BY <1>1, <1>2 DEF Call
<1>4. <<>> \in Seq(Seq(Scored)) /\ <<>> \in Seq(Scored)
  OBVIOUS
<1> QED
  BY <1>3, <1>4, IdleTyped DEF Request, redis, Typed

(***************************************************************************)
(* One goroutine moves on.                                                  *)
(***************************************************************************)
LEMMA GoroutineTyped ==
  ASSUME Typed, NEW s \in Shards, worker' \in [Shards -> Goroutine],
         UNCHANGED <<redis, active, req>>,
         results' \in Seq(Seq(Scored)), merged' \in Seq(Scored),
         errors' \in Nat, total' \in Nat,
         missing' \subseteq missing \cup {s}
  PROVE  Typed'
BY DEF Typed, redis

LEMMA FailTyped ==
  ASSUME Typed, NEW s \in Shards, Fail(s)
  PROVE  Typed'
<1>1. worker' \in [Shards -> Goroutine]
  BY DEF Fail, Typed, Goroutine
<1>2. /\ UNCHANGED <<redis, active, req, results, merged, total>> /\ errors' = errors + 1
      /\ missing' = missing \cup {s}
  BY DEF Fail, tally
<1> QED
  BY <1>1, <1>2, GoroutineTyped DEF Typed

LEMMA ReadsTyped ==
  ASSUME Typed, NEW s \in Shards, WorkerStep(s)
  PROVE  Typed'
<1>0. ASSUME WorkerOnly, worker' \in [Shards -> Goroutine], missing' \subseteq missing \cup {s}
      PROVE  Typed'
  BY <1>0, GoroutineTyped DEF Typed, WorkerOnly, tally
<1>1. CASE GetAdapter(s)
  <2>1. CASE Fail(s)
    BY <2>1, FailTyped
  <2>2. CASE worker' = [worker EXCEPT ![s].pc = "ids"] /\ WorkerOnly /\ UNCHANGED missing
    <3>1. worker' \in [Shards -> Goroutine]
      BY <2>2 DEF Typed, Goroutine
    <3> QED
      BY <1>0, <2>2, <3>1
  <2> QED
    BY <1>1, <2>1, <2>2 DEF GetAdapter
<1>2. CASE GetAllVectorIDs(s)
  <2>1. CASE Fail(s)
    BY <2>1, FailTyped
  <2>2. ASSUME NEW o \in SetToSeqs({k \in listed : ShardOf[k] = s}),
               worker' = [worker EXCEPT ![s].pc = "vectors", ![s].todo = o],
               WorkerOnly, UNCHANGED missing
        PROVE  Typed'
    <3> DEFINE S == {k \in listed : ShardOf[k] = s}
    <3>1. IsFiniteSet(S) /\ S \subseteq Ids
      BY SearchAssumption, FS_Subset DEF Typed
    <3> HIDE DEF S
    <3>2. o \in Seq(S)
      BY <2>2, <3>1, OrdersHoldAll DEF S
    <3>3. o \in Seq(Ids)
      BY <3>1, <3>2
    <3>4. worker' \in [Shards -> Goroutine]
      BY <2>2, <3>3 DEF Typed, Goroutine
    <3> QED
      BY <1>0, <2>2, <3>4
  <2> QED
    BY <1>2, <2>1, <2>2 DEF GetAllVectorIDs
<1>3. CASE GetVector(s)
  <2> DEFINE k == Head(worker[s].todo)
             t == Tail(worker[s].todo)
             f == Accept(worker[s].found, k)
  <2>1. worker[s] \in Goroutine /\ worker[s].todo # <<>>
    BY <1>3 DEF GetVector, Typed
  <2>2. t \in Seq(Ids) /\ k \in Ids
    BY <2>1 DEF Goroutine
  <2>3. f \in Seq(Scored)
    <3>1. vec[k] # Absent => Result(k, vec[k]) \in Scored
      BY <2>2 DEF Typed, Scored, Result
    <3>2. worker[s].found \in Seq(Scored)
      BY <2>1 DEF Goroutine
    <3> QED
      BY <3>1, <3>2 DEF Accept
  <2>4. \/ /\ worker' = [worker EXCEPT ![s].todo = t, ![s].found = f]
           /\ UNCHANGED missing
        \/ worker' = [worker EXCEPT ![s].todo = t] /\ missing' = missing \cup {s}
    BY <1>3 DEF GetVector
  <2> HIDE DEF t, f, k
  <2>5. worker' \in [Shards -> Goroutine]
    <3>1. CASE worker' = [worker EXCEPT ![s].todo = t, ![s].found = f]
      BY <2>2, <2>3, <3>1 DEF Typed, Goroutine
    <3>2. CASE worker' = [worker EXCEPT ![s].todo = t]
      BY <2>2, <3>2 DEF Typed, Goroutine
    <3> QED
      BY <2>4, <3>1, <3>2
  <2> QED
    BY <1>0, <1>3, <2>4, <2>5 DEF GetVector
<1>4. CASE SendResults(s)
  <2> DEFINE b == Best(worker[s].found, req.k)
  <2>0. <<>> \in Seq(Scored)
    OBVIOUS
  <2>1. worker' \in [Shards -> Goroutine]
    BY <1>4, <2>0 DEF SendResults, Typed, Goroutine
  <2>2. b \in Seq(Scored)
    <3>1. req # None /\ req \in Call /\ req.k \in Nat /\ worker[s].found \in Seq(Scored)
      BY <1>4 DEF SendResults, At, Busy, Typed, Call, Goroutine
    <3> QED
      BY <3>1, BestIsTop DEF TopOf
  <2>3. results' = Append(results, b)
    BY <1>4 DEF SendResults
  <2> HIDE DEF b
  <2>4. results' \in Seq(Seq(Scored))
    BY <2>2, <2>3 DEF Typed
  <2> QED
    BY <1>4, <2>1, <2>4, GoroutineTyped DEF SendResults, Typed, tally, history
<1> QED
  BY <1>1, <1>2, <1>3, <1>4 DEF WorkerStep

LEMMA StatsTyped ==
  ASSUME Typed, NEW s \in Shards, StatsAdapter(s) \/ CountShard(s)
  PROVE  Typed'
<1>1. worker' \in [Shards -> Goroutine]
  <2>1. PICK pc \in {"count", "done"} : worker' = [worker EXCEPT ![s].pc = pc]
    BY DEF StatsAdapter, CountShard
  <2> QED
    BY <2>1 DEF Typed, Goroutine
<1>2. CASE StatsAdapter(s)
  BY <1>1, <1>2, GoroutineTyped DEF StatsAdapter, WorkerOnly, Typed, tally
<1>3. CASE CountShard(s)
  <2>1. GetVectorCount(s) \in Nat
    BY SearchAssumption, FS_Subset, FS_CardinalityType DEF GetVectorCount, Typed
  <2>2. total' \in Nat
    BY <1>3, <2>1 DEF CountShard, Typed
  <2> QED
    BY <1>1, <1>3, <2>2, GoroutineTyped DEF CountShard, Typed
<1> QED
  BY <1>2, <1>3

LEMMA StartTyped ==
  ASSUME Typed, NEW b \in BOOLEAN, StartSearch(b) \/ StartStats(b)
  PROVE  Typed'
<1>1. ASSUME NEW T \in SUBSET Shards, Busy, req' = [req EXCEPT !.shards = T] PROVE req' \in Call
  BY <1>1 DEF Busy, Typed, Call
<1>2. \A s \in Shards : Idle[s] \in Goroutine /\ [Idle[s] EXCEPT !.pc = "adapter"] \in Goroutine
  BY IdleTyped DEF Goroutine
<1>3. CASE StartSearch(b)
  <2>1. /\ Busy /\ UNCHANGED <<vec, listed, active, results, errors, merged, total>>
        /\ \/ UNCHANGED <<req, worker, missing>>
           \/ /\ req' = [req EXCEPT !.shards = active]
              /\ worker' = [s \in Shards |->
                             IF s \in active THEN [Idle[s] EXCEPT !.pc = "adapter"] ELSE Idle[s]]
              /\ missing' = Shards \ active
    BY <1>3 DEF StartSearch, redis, tally
  <2>2. req' # None => req' \in Call
    BY <1>1, <2>1 DEF Typed
  <2>3. worker' \in [Shards -> Goroutine]
    BY <1>2, <2>1 DEF Typed
  <2> QED
    BY <2>1, <2>2, <2>3 DEF Typed
<1>4. CASE StartStats(b)
  <2>1. /\ Busy /\ UNCHANGED <<vec, listed, active, results, errors, merged, total, missing>>
        /\ \/ UNCHANGED <<req, worker>>
           \/ /\ req' = [req EXCEPT !.shards = Shards]
              /\ worker' = [s \in Shards |-> [Idle[s] EXCEPT !.pc = "adapter"]]
    BY <1>4 DEF StartStats, redis, tally, history
  <2>2. req' # None => req' \in Call
    BY <1>1, <2>1 DEF Typed
  <2>3. worker' \in [Shards -> Goroutine]
    BY <1>2, <2>1 DEF Typed
  <2> QED
    BY <2>1, <2>2, <2>3 DEF Typed
<1> QED
  BY <1>3, <1>4

LEMMA HandlerTyped ==
  ASSUME Typed, CloseChannels \/ Merge \/ Reply \/ StreamSearch \/ ReplyStats
  PROVE  Typed'
<1>1. UNCHANGED <<vec, listed, active, req, worker, errors, total, missing>>
  BY DEF CloseChannels, Merge, Reply, StreamSearch, ReplyStats, redis, tally, history
<1>2. results' \in Seq(Seq(Scored)) /\ merged' \in Seq(Scored)
  <2>1. CASE Merge
    <3>1. results # <<>> /\ results' = Tail(results) /\ merged' = merged \o Head(results)
      BY <2>1 DEF Merge
    <3>2. Head(results) \in Seq(Scored) /\ Tail(results) \in Seq(Seq(Scored))
      BY <3>1 DEF Typed
    <3> QED
      BY <3>1, <3>2 DEF Typed
  <2>2. CASE Reply
    <3>1. <<>> \in Seq(Scored)
      OBVIOUS
    <3> QED
      BY <2>2, <3>1 DEF Reply, Typed
  <2>3. CASE CloseChannels \/ StreamSearch \/ ReplyStats
    BY <2>3 DEF CloseChannels, StreamSearch, ReplyStats, Typed, tally
  <2> QED
    BY <2>1, <2>2, <2>3
<1> QED
  BY <1>1, <1>2 DEF Typed

LEMMA TypedKept ==
  ASSUME Typed, [Next]_vars
  PROVE  Typed'
<1>1. ASSUME NEW k \in Ids, Command(k) PROVE Typed'
  <2>1. vec' \in [Ids -> Scores \cup {Absent}] /\ listed' \subseteq Ids
    BY <1>1 DEF Command, Typed
  <2> QED
    BY <1>1, <2>1 DEF Command, Typed, tally
<1>2. ASSUME NEW s \in Shards, HealthFlip(s) PROVE Typed'
  <2>1. active' \subseteq Shards
    BY <1>2 DEF HealthFlip, Typed
  <2> QED
    BY <1>2, <2>1 DEF HealthFlip, Typed, tally, redis, history
<1>3. CASE UNCHANGED vars
  BY <1>3 DEF vars, Typed, tally, redis, history
<1> QED
  BY <1>1, <1>2, <1>3, RequestTyped, StartTyped, HandlerTyped, ReadsTyped, StatsTyped DEF Next

(***************************************************************************)
(* What the history remembers: what is there now, and whatever a goroutine  *)
(* has found; steady is still there.  Only a search reads vectors.          *)
(***************************************************************************)
Remembers ==
  /\ Busy => Present(req.call) \subseteq seen /\ steady \subseteq Lasting(req.call)
  /\ \A s \in Shards : \A i \in DOMAIN worker[s].found : worker[s].found[i] \in seen
  /\ Busy /\ req.call # "search" => \A s \in Shards : worker[s].pc \notin {"ids", "vectors"}

(***************************************************************************)
(* Steps that read no vector.                                               *)
(***************************************************************************)
LEMMA RemembersQuietly ==
  ASSUME Remembers, UNCHANGED <<vec, listed, seen, steady>>,
         Busy' => Busy /\ req'.call = req.call,
         \A s \in Shards : worker'[s].found \in {worker[s].found, <<>>},
         Busy /\ req.call # "search" =>
           \A s \in Shards : worker'[s].pc \in {"ids", "vectors"} => worker'[s].pc = worker[s].pc
  PROVE  Remembers'
<1>1. Busy' => Present(req.call)' = Present(req.call) /\ Lasting(req.call)' = Lasting(req.call)
  BY DEF Present, Lasting, Stored, Findable
<1>2. \A s \in Shards : \A i \in DOMAIN worker'[s].found : worker'[s].found[i] \in seen'
  BY DEF Remembers
<1> QED
  BY <1>1, <1>2 DEF Remembers

LEMMA RemembersKept ==
  ASSUME Typed, Remembers, [Next]_vars
  PROVE  Remembers'
<1>1. ASSUME NEW call, Request(call) PROVE Remembers'
  <2>1. /\ UNCHANGED <<vec, listed>> /\ worker' = Idle /\ req'.call = call
        /\ seen' = Present(call) /\ steady' = Lasting(call)
    BY <1>1 DEF Request, redis
  <2>2. Present(call)' = Present(call) /\ Lasting(call)' = Lasting(call)
    BY <2>1 DEF Present, Lasting, Stored, Findable
  <2>3. \A s \in Shards : worker'[s].pc = "none" /\ DOMAIN worker'[s].found = {}
    BY <2>1 DEF Idle
  <2> QED
    BY <2>1, <2>2, <2>3 DEF Remembers
<1>2. ASSUME NEW b \in BOOLEAN, StartSearch(b) \/ StartStats(b) PROVE Remembers'
  <2>1. /\ Busy /\ UNCHANGED <<vec, listed, seen, steady>>
        /\ \/ UNCHANGED <<req, worker>>
           \/ /\ \E T : req' = [req EXCEPT !.shards = T]
              /\ \A s \in Shards : /\ worker'[s].found = <<>>
                                   /\ worker'[s].pc \in {"none", "adapter"}
    BY <1>2 DEF StartSearch, StartStats, redis, history, Idle
  <2>2. req'.call = req.call
    BY <2>1 DEF Typed, Call, Busy
  <2> QED
    BY <2>1, <2>2, RemembersQuietly
<1>3. CASE CloseChannels \/ Merge \/ Reply \/ StreamSearch \/ ReplyStats
  <2>1. Busy /\ UNCHANGED <<vec, listed, seen, steady, req, worker>>
    BY <1>3 DEF CloseChannels, Merge, Reply, StreamSearch, ReplyStats, redis, history
  <2> QED
    BY <2>1, RemembersQuietly
<1>4. ASSUME NEW s \in Shards, Fail(s), Busy PROVE Remembers'
  <2>1. /\ UNCHANGED <<vec, listed, seen, steady, req>>
        /\ worker' = [worker EXCEPT ![s].pc = "done"]
    BY <1>4 DEF Fail, redis
  <2>2. \A t \in Shards : /\ worker'[t].found = worker[t].found
                          /\ worker'[t].pc \in {worker[t].pc, "done"}
    BY <2>1 DEF Typed, Goroutine
  <2> QED
    BY <1>4, <2>1, <2>2, RemembersQuietly
<1>5. ASSUME NEW s \in Shards, GetAdapter(s) \/ GetAllVectorIDs(s) \/ SendResults(s)
      PROVE  Remembers'
  <2>1. CASE Fail(s)
    BY <1>4, <1>5, <2>1 DEF GetAdapter, GetAllVectorIDs, SendResults, At
  <2>2. CASE GetAdapter(s) /\ ~Fail(s)
    <3>1. /\ Busy /\ UNCHANGED <<vec, listed, seen, steady, req>> /\ req.call = "search"
          /\ worker' = [worker EXCEPT ![s].pc = "ids"]
      BY <2>2 DEF GetAdapter, At, WorkerOnly, redis
    <3>2. \A t \in Shards : worker'[t].found = worker[t].found
      BY <3>1 DEF Typed, Goroutine
    <3> QED
      BY <3>1, <3>2, RemembersQuietly
  <2>3. CASE GetAllVectorIDs(s) /\ ~Fail(s)
    <3>1. /\ Busy /\ UNCHANGED <<vec, listed, seen, steady, req>> /\ req.call = "search"
      BY <2>3 DEF GetAllVectorIDs, At, WorkerOnly, redis, Remembers
    <3>2. PICK o : worker' = [worker EXCEPT ![s].pc = "vectors", ![s].todo = o]
      BY <2>3 DEF GetAllVectorIDs
    <3>3. \A t \in Shards : worker'[t].found = worker[t].found
      BY <3>2 DEF Typed, Goroutine
    <3> QED
      BY <3>1, <3>3, RemembersQuietly
  <2>4. CASE SendResults(s)
    <3>1. /\ Busy /\ UNCHANGED <<vec, listed, seen, steady, req>> /\ req.call = "search"
          /\ worker' = [worker EXCEPT ![s].pc = "done", ![s].found = <<>>]
      BY <2>4 DEF SendResults, At, redis, history, Remembers
    <3>2. \A t \in Shards : worker'[t].found \in {worker[t].found, <<>>}
      BY <3>1 DEF Typed, Goroutine
    <3> QED
      BY <3>1, <3>2, RemembersQuietly
  <2> QED
    BY <1>5, <2>1, <2>2, <2>3, <2>4
<1>6. ASSUME NEW s \in Shards, GetVector(s) PROVE Remembers'
  <2> DEFINE k == Head(worker[s].todo)
             f == worker[s].found
             x == Result(k, vec[k])
  <2>1. /\ Busy /\ UNCHANGED <<vec, listed, seen, steady, req, reply>> /\ req.call = "search"
        /\ worker[s].todo # <<>> /\ worker[s] \in Goroutine
    BY <1>6 DEF GetVector, At, WorkerOnly, redis, Remembers, Typed
  <2>2. k \in Ids /\ f \in Seq(Scored)
    BY <2>1 DEF Goroutine
  <2>3. vec[k] # Absent => x \in seen
    <3>1. vec[k] # Absent => x \in Stored
      BY <2>2 DEF Stored
    <3> QED
      BY <2>1, <3>1 DEF Remembers, Present
  <2>4. /\ worker'[s].found \in {f, Append(f, x)}
        /\ worker'[s].found = f \/ x \in seen
        /\ \A t \in Shards \ {s} : worker'[t] = worker[t]
    BY <1>6, <2>3 DEF GetVector, Accept, Typed, Goroutine
  <2>5. \A i \in DOMAIN f : f[i] \in seen
    BY DEF Remembers
  <2>6. ASSUME NEW i \in DOMAIN worker'[s].found PROVE worker'[s].found[i] \in seen'
    <3> HIDE DEF f, x
    <3>1. CASE worker'[s].found = f
      BY <2>1, <2>5, <2>6, <3>1
    <3>2. CASE worker'[s].found = Append(f, x) /\ x \in seen
      BY <2>1, <2>2, <2>5, <2>6, <3>2
    <3> QED
      BY <2>4, <3>1, <3>2
  <2>7. Present(req.call)' = Present(req.call) /\ Lasting(req.call)' = Lasting(req.call)
    BY <2>1 DEF Present, Lasting, Stored, Findable
  <2> HIDE DEF f, x, k
  <2> QED
    BY <2>1, <2>4, <2>6, <2>7 DEF Remembers, Busy
<1>7. ASSUME NEW s \in Shards, StatsAdapter(s) \/ CountShard(s) PROVE Remembers'
  <2>1. /\ Busy /\ UNCHANGED <<vec, listed, seen, steady, req>>
    BY <1>7 DEF StatsAdapter, CountShard, At, WorkerOnly, redis
  <2>3. PICK c \in {"count", "done"} : worker' = [worker EXCEPT ![s].pc = c]
    BY <1>7 DEF StatsAdapter, CountShard
  <2>2. \A t \in Shards : /\ worker'[t].found = worker[t].found
                          /\ worker'[t].pc \in {worker[t].pc, "count", "done"}
    BY <2>3 DEF Typed, Goroutine
  <2> QED
    BY <2>1, <2>2, RemembersQuietly
<1>8. ASSUME NEW k \in Ids, Command(k) PROVE Remembers'
  <2>1. UNCHANGED <<req, worker, reply>> /\ Busy' = Busy
    BY <1>8 DEF Command, Busy
  <2>2. CASE Busy
    <3>1. seen' = seen \cup Present(req.call)' /\ steady' = steady \cap Lasting(req.call)'
      BY <1>8, <2>2 DEF Command
    <3> QED
      BY <2>1, <3>1 DEF Remembers
  <2>3. CASE ~Busy
    <3>1. UNCHANGED <<seen, steady>>
      BY <1>8, <2>3 DEF Command
    <3> QED
      BY <2>1, <2>3, <3>1 DEF Remembers
  <2> QED
    BY <2>2, <2>3
<1>9. CASE UNCHANGED vars \/ \E s \in Shards : HealthFlip(s)
  <2>1. UNCHANGED <<vec, listed, seen, steady, req, worker, reply>>
    BY <1>9 DEF vars, HealthFlip, redis, history
  <2>2. Busy' = Busy
    BY <2>1 DEF Busy
  <2> QED
    BY <2>1, <2>2, RemembersQuietly
<1> QED
  BY <1>1, <1>2, <1>3, <1>5, <1>6, <1>7, <1>8, <1>9 DEF Next, WorkerStep

(***************************************************************************)
(* The channels never hold more than there are shards.                      *)
(***************************************************************************)
Bounded == Len(results) + errors <= Cardinality(Shards)

(***************************************************************************)
(* Goroutines that read or send belong to a search.                         *)
(***************************************************************************)
LEMMA ReadersSearch ==
  ASSUME Remembers, NEW s \in Shards, WorkerStep(s)
  PROVE  Busy /\ req.call = "search" /\ UNCHANGED <<req, reply>>
<1>1. ASSUME Fail(s) PROVE UNCHANGED <<req, reply>>
  BY <1>1 DEF Fail
<1>2. CASE GetAdapter(s)
  BY <1>1, <1>2 DEF GetAdapter, At, WorkerOnly
<1>3. CASE GetAllVectorIDs(s)
  BY <1>1, <1>3 DEF GetAllVectorIDs, At, WorkerOnly, Remembers
<1>4. CASE GetVector(s)
  BY <1>4 DEF GetVector, At, WorkerOnly, Remembers
<1>5. CASE SendResults(s)
  BY <1>5 DEF SendResults, At, Remembers
<1> QED
  BY <1>2, <1>3, <1>4, <1>5 DEF WorkerStep

LEMMA BoundedKept ==
  ASSUME Typed, SendInv, Remembers, Bounded, SendInv', [Next]_vars
  PROVE  Bounded'
<1>0. Cardinality(Shards) \in Nat /\ Len(results) \in Nat /\ errors \in Nat
  BY SearchAssumption, FS_CardinalityType DEF Typed
<1>1. ASSUME NEW call, Request(call) PROVE Bounded'
  BY <1>0, <1>1 DEF Request, Bounded
<1>2. ASSUME NEW s \in Shards, WorkerStep(s) PROVE Bounded'
  <2>1. Busy' /\ req'.call = "search"
    BY <1>2, ReadersSearch DEF Busy
  <2>2. Searching'
    BY <2>1 DEF SendInv
  <2>3. Finished' \subseteq Shards
    BY <2>2 DEF Searching, Finished
  <2>4. Cardinality(Finished') <= Cardinality(Shards) /\ Cardinality(Finished') \in Nat
    BY <2>3, SearchAssumption, FS_Subset, FS_CardinalityType
  <2>5. Len(results') + errors' <= Cardinality(Finished')
    BY <2>2 DEF Searching
  <2>6. Typed'
    BY <1>2, TypedKept DEF Next
  <2>7. Len(results') \in Nat /\ errors' \in Nat
    BY <2>6 DEF Typed
  <2> QED
    BY <1>0, <2>4, <2>5, <2>7 DEF Bounded
<1>3. CASE Merge
  <2>1. results # <<>> /\ results' = Tail(results) /\ errors' = errors
    BY <1>3 DEF Merge
  <2>2. Len(results') \in Nat /\ Len(results') <= Len(results)
    BY <2>1 DEF Typed
  <2> QED
    BY <1>0, <2>1, <2>2 DEF Bounded
<1>4. ASSUME UNCHANGED <<results, errors>> PROVE Bounded'
  BY <1>4 DEF Bounded
<1>5. CASE \/ CloseChannels \/ Reply \/ StreamSearch \/ ReplyStats \/ UNCHANGED vars
           \/ \E b \in BOOLEAN : StartSearch(b) \/ StartStats(b)
           \/ \E s \in Shards : StatsAdapter(s) \/ CountShard(s) \/ HealthFlip(s)
           \/ \E k \in Ids : Command(k)
  BY <1>4, <1>5
     DEF CloseChannels, Reply, StreamSearch, ReplyStats, vars, StartSearch, StartStats,
         StatsAdapter, WorkerOnly, CountShard, HealthFlip, Command
<1> QED
  BY <1>1, <1>2, <1>3, <1>5 DEF Next

(***************************************************************************)
(* The types, the bounds of the channels, and nothing is found that the     *)
(* history does not know (TypeOK).                                          *)
(***************************************************************************)
ReadInv == Typed /\ SendInv /\ Remembers /\ Bounded

LEMMA ReadInvInitially == Init => ReadInv
<1> SUFFICES ASSUME Init PROVE ReadInv
  OBVIOUS
<1>1. Cardinality(Shards) \in Nat
  BY SearchAssumption, FS_CardinalityType
<1>2. Bounded
  BY <1>1 DEF Init, Bounded
<1>3. Remembers
  BY DEF Init, Remembers, Busy, Idle
<1> QED
  BY <1>2, <1>3, TypedInitially, SendInvInitially DEF ReadInv

LEMMA ReadInvKept ==
  ASSUME ReadInv, [Next]_vars
  PROVE  ReadInv'
<1>1. Typed'
  BY TypedKept DEF ReadInv
<1>2. SendInv'
  BY SendInvKept DEF ReadInv
<1>3. Remembers'
  BY RemembersKept DEF ReadInv
<1>4. Bounded'
  BY <1>2, BoundedKept DEF ReadInv
<1> QED
  BY <1>1, <1>2, <1>3, <1>4 DEF ReadInv

THEOREM SearchTyped == Spec => []TypeOK
<1>1. ReadInv => TypeOK
  <2> SUFFICES ASSUME ReadInv PROVE TypeOK
    OBVIOUS
  <2>1. ASSUME NEW s \in Shards
        PROVE  /\ worker[s].pc \in {"none", "adapter", "ids", "vectors", "count", "done"}
               /\ Range(worker[s].todo) \subseteq Ids
               /\ Range(worker[s].found) \subseteq seen
    <3>1. worker[s] \in Goroutine
      BY DEF ReadInv, Typed
    <3>2. Range(worker[s].todo) \subseteq Ids
      BY <3>1 DEF Goroutine, Range
    <3> QED
      BY <3>1, <3>2 DEF Goroutine, Range, ReadInv, Remembers
  <2> QED
    BY <2>1 DEF TypeOK, ReadInv, Typed, Bounded
<1> QED
  BY <1>1, ReadInvInitially, ReadInvKept, PTL DEF Spec

-----------------------------------------------------------------------------
(***************************************************************************)
(* GetStats.  The shards counted so far, and the ids of S on shards of T.   *)
(***************************************************************************)
Counted  == {s \in Shards : worker[s].pc = "done"} \ missing
On(S, T) == {k \in S : ShardOf[k] \in T}

(***************************************************************************)
(* The inductive invariant: the sum so far lies between what was listed all *)
(* the time on the shards counted and what was listed there at some time.   *)
(***************************************************************************)
Tallied ==
  /\ ~closed /\ seen \subseteq Ids
  /\ \A s \in missing : worker[s].pc = "done"
  /\ req.shards \in {{}, Shards}
  /\ req.shards = {} => \A s \in Shards : worker[s].pc = "none"
  /\ Cardinality(On(steady, Counted)) <= total
  /\ total <= Cardinality(On(seen, Counted))

StatsInv == (Busy /\ req.call = "stats" => Tallied) /\ StatsCountListed

(***************************************************************************)
(* Larger sets of ids are not smaller in number.                            *)
(***************************************************************************)
LEMMA MoreIds ==
  ASSUME NEW S, NEW T, S \subseteq T, T \subseteq Ids
  PROVE  /\ IsFiniteSet(S) /\ IsFiniteSet(T)
         /\ Cardinality(S) \in Nat /\ Cardinality(T) \in Nat
         /\ Cardinality(S) <= Cardinality(T)
<1>1. IsFiniteSet(T)
  BY SearchAssumption, FS_Subset
<1> QED
  BY <1>1, FS_Subset, FS_CardinalityType

LEMMA OneMoreShard ==
  ASSUME NEW S, S \subseteq Ids, NEW T, NEW s, s \notin T
  PROVE  Cardinality(On(S, T \cup {s})) =
           Cardinality(On(S, T)) + Cardinality({k \in S : ShardOf[k] = s})
<1> DEFINE A == On(S, T)
           B == {k \in S : ShardOf[k] = s}
<1>1. A \subseteq Ids /\ B \subseteq Ids /\ A \cap B = {} /\ On(S, T \cup {s}) = A \cup B
  BY DEF On
<1> HIDE DEF A, B
<1>2. IsFiniteSet(A) /\ IsFiniteSet(B) /\ Cardinality(A) \in Nat /\ Cardinality(B) \in Nat
  BY <1>1, MoreIds
<1>3. Cardinality({}) = 0
  BY FS_EmptySet
<1>4. Cardinality(A \cup B) = Cardinality(A) + Cardinality(B) - Cardinality(A \cap B)
  BY <1>2, FS_Union
<1>6. Cardinality(A \cap B) = 0
  BY <1>1, <1>3
<1>5. Cardinality(A \cup B) = Cardinality(A) + Cardinality(B)
  BY <1>2, <1>4, <1>6
<1> QED
  BY <1>1, <1>5 DEF A, B

(***************************************************************************)
(* Steps that count nothing.                                                *)
(***************************************************************************)
LEMMA NothingCounted ==
  ASSUME Typed, StatsInv, Busy, req.call = "stats", req' \in Call, req'.shards \in {{}, Shards},
         req'.shards = {} => \A s \in Shards : worker'[s].pc = "none",
         UNCHANGED <<closed, total>>, Counted' = Counted,
         steady' \subseteq steady, seen \subseteq seen', seen' \subseteq Ids, steady \subseteq Ids,
         \A s \in missing' : worker'[s].pc = "done"
  PROVE  Tallied'
<1>1. Tallied
  BY DEF StatsInv
<1>2. /\ On(steady, Counted)' \subseteq On(steady, Counted) /\ On(steady, Counted) \subseteq Ids
      /\ On(seen, Counted) \subseteq On(seen, Counted)' /\ On(seen, Counted)' \subseteq Ids
  BY DEF On
<1> DEFINE a == Cardinality(On(steady, Counted))
           b == Cardinality(On(seen, Counted))
<1>3. a \in Nat /\ a' \in Nat /\ b \in Nat /\ b' \in Nat /\ a' <= a /\ b <= b'
  BY <1>2, MoreIds
<1>4. a <= total /\ total <= b /\ total \in Nat
  BY <1>1 DEF Tallied, Typed
<1>5. a' <= total' /\ total' <= b'
  <2> HIDE DEF a, b
  <2>1. total' = total
    OBVIOUS
  <2> QED
    BY <1>3, <1>4, <2>1
<1> QED
  BY <1>1, <1>5 DEF Tallied

LEMMA CountStep ==
  ASSUME Typed, Remembers, StatsInv, NEW s \in Shards, CountShard(s), req.call = "stats"
  PROVE  Tallied'
<1>1. /\ Busy /\ worker[s].pc = "count" /\ worker' = [worker EXCEPT ![s].pc = "done"]
      /\ UNCHANGED <<vec, listed, req, closed, seen, steady>>
      /\ \/ total' = total + GetVectorCount(s) /\ UNCHANGED missing
         \/ missing' = missing \cup {s} /\ UNCHANGED total
  BY DEF CountShard, At, redis
<1>2. Tallied /\ s \notin missing /\ missing \subseteq Shards
  BY <1>1 DEF StatsInv, Tallied, Typed
<1>3. worker'[s].pc = "done" /\ \A t \in Shards \ {s} : worker'[t] = worker[t]
  BY <1>1 DEF Typed, Goroutine
<1>4. steady \subseteq listed /\ listed \subseteq seen /\ seen \subseteq Ids /\ steady \subseteq Ids
  BY <1>1, <1>2 DEF Remembers, Present, Lasting, Tallied
<1>5. \A t \in missing' : worker'[t].pc = "done"
  BY <1>1, <1>2, <1>3 DEF Tallied
<1>6. req' \in Call /\ req'.shards \in {{}, Shards} /\ req'.shards # {}
  BY <1>1, <1>2 DEF Typed, Busy, Tallied
<1>7. CASE missing' = missing \cup {s} /\ UNCHANGED total
  <2>1. Counted' = Counted
    BY <1>1, <1>3, <1>7 DEF Counted
  <2> QED
    BY <1>1, <1>4, <1>5, <1>6, <1>7, <2>1, NothingCounted
<1>8. CASE total' = total + GetVectorCount(s) /\ UNCHANGED missing
  <2>1. Counted' = Counted \cup {s} /\ s \notin Counted
    BY <1>1, <1>2, <1>3, <1>8 DEF Counted
  <2> DEFINE C == Counted
             At1(S) == Cardinality({k \in S : ShardOf[k] = s})
  <2>2. /\ Cardinality(On(steady, C \cup {s})) = Cardinality(On(steady, C)) + At1(steady)
        /\ Cardinality(On(seen, C \cup {s})) = Cardinality(On(seen, C)) + At1(seen)
    BY <1>4, <2>1, OneMoreShard
  <2>3. /\ At1(steady) \in Nat /\ At1(listed) \in Nat /\ At1(seen) \in Nat
        /\ At1(steady) <= At1(listed) /\ At1(listed) <= At1(seen)
    <3> DEFINE X == {k \in steady : ShardOf[k] = s}
               Y == {k \in listed : ShardOf[k] = s}
               Z == {k \in seen : ShardOf[k] = s}
    <3>1. X \subseteq Y /\ Y \subseteq Z /\ Z \subseteq Ids /\ Y \subseteq Ids
      BY <1>4
    <3> HIDE DEF X, Y, Z
    <3>2. /\ Cardinality(X) \in Nat /\ Cardinality(Y) \in Nat /\ Cardinality(Z) \in Nat
          /\ Cardinality(X) <= Cardinality(Y) /\ Cardinality(Y) <= Cardinality(Z)
      BY <3>1, MoreIds
    <3> QED
      BY <3>2 DEF X, Y, Z
  <2>4. /\ Cardinality(On(steady, C)) \in Nat /\ Cardinality(On(seen, C)) \in Nat
    BY <1>4, MoreIds DEF On
  <2>5. total' = total + At1(listed) /\ total \in Nat
    BY <1>8 DEF GetVectorCount, Typed
  <2>6. Cardinality(On(steady, C)) <= total /\ total <= Cardinality(On(seen, C))
    BY <1>2 DEF Tallied
  <2> HIDE DEF At1, C
  <2>7. /\ Cardinality(On(steady, C \cup {s})) <= total'
        /\ total' <= Cardinality(On(seen, C \cup {s}))
    BY <2>2, <2>3, <2>4, <2>5, <2>6
  <2>8. On(steady, Counted)' = On(steady, C \cup {s}) /\ On(seen, Counted)' = On(seen, C \cup {s})
    BY <1>1, <2>1 DEF On, C
  <2> QED
    BY <1>1, <1>2, <1>5, <1>6, <2>7, <2>8 DEF Tallied
<1> QED
  BY <1>1, <1>7, <1>8

LEMMA TalliedKept ==
  ASSUME ReadInv, StatsInv, [Next]_vars, Busy', req'.call = "stats"
  PROVE  Tallied'
<1>0. Typed /\ Remembers /\ Typed'
  BY TypedKept DEF ReadInv
<1>1. req' \in Call
  BY <1>0 DEF Typed, Busy
<1>2. ASSUME Busy, req.call = "stats"
      PROVE  /\ Tallied /\ steady \subseteq listed /\ listed \subseteq seen /\ listed \subseteq Ids
             /\ steady \subseteq Ids /\ seen \subseteq Ids /\ req.shards \in {{}, Shards}
             /\ \A s \in missing : worker[s].pc = "done"
  BY <1>0, <1>2 DEF StatsInv, Tallied, Remembers, Present, Lasting, Typed
<1>3. ASSUME NEW call, Request(call) PROVE Tallied'
  <2>1. /\ req'.shards = {} /\ req'.call = call /\ worker' = Idle /\ ~closed' /\ total' = 0
        /\ missing' = {} /\ seen' = Present(call) /\ steady' = Lasting(call)
    BY <1>3 DEF Request
  <2>2. seen' = listed /\ steady' = listed
    BY <2>1 DEF Present, Lasting
  <2>3. Counted' = {} /\ On(steady, Counted)' = {} /\ On(seen, Counted)' = {}
    BY <2>1 DEF Counted, On, Idle
  <2>4. Cardinality({}) = 0
    BY FS_EmptySet
  <2>5. seen' \subseteq Ids /\ \A s \in Shards : worker'[s].pc = "none"
    BY <1>0, <2>1, <2>2 DEF Typed, Idle
  <2>6. Cardinality(On(steady, Counted))' = 0 /\ Cardinality(On(seen, Counted))' = 0
    BY <2>3, <2>4
  <2>7. /\ Cardinality(On(steady, Counted))' <= total'
        /\ total' <= Cardinality(On(seen, Counted))'
    BY <2>1, <2>6
  <2> QED
    BY <2>1, <2>5, <2>7 DEF Tallied
<1>4. ASSUME Busy, req.call = "stats", UNCHANGED <<req, worker, closed, total, missing>>,
             steady' \subseteq steady, seen \subseteq seen', seen' \subseteq Ids
      PROVE  Tallied'
  <2>1. Counted' = Counted
    BY <1>4 DEF Counted
  <2>2. req'.shards = {} => \A s \in Shards : worker'[s].pc = "none"
    BY <1>2, <1>4 DEF Tallied
  <2> QED
    BY <1>0, <1>1, <1>2, <1>4, <2>1, <2>2, NothingCounted
<1>5. ASSUME NEW b \in BOOLEAN, StartStats(b) PROVE Tallied'
  <2>1. /\ Busy /\ req.call = "stats" /\ req.shards = {}
        /\ UNCHANGED <<closed, total, seen, steady, missing>>
    BY <1>5 DEF StartStats, tally, history
  <2>2. CASE UNCHANGED <<req, worker>>
    BY <1>2, <1>4, <2>1, <2>2
  <2>3. CASE /\ req' = [req EXCEPT !.shards = Shards]
             /\ worker' = [s \in Shards |-> [Idle[s] EXCEPT !.pc = "adapter"]]
    <3>1. req'.shards = Shards
      BY <1>0, <2>1, <2>3 DEF Typed, Call, Busy
    <3>2. \A s \in Shards : worker[s].pc = "none" /\ worker'[s].pc = "adapter"
      BY <1>2, <2>1, <2>3 DEF Tallied, Idle
    <3>3. Counted = {} /\ Counted' = {} /\ missing = {}
      BY <1>0, <1>2, <2>1, <3>2 DEF Counted, Typed
    <3> QED
      BY <1>0, <1>1, <1>2, <2>1, <3>1, <3>2, <3>3, NothingCounted
  <2> QED
    BY <1>5, <2>2, <2>3 DEF StartStats
<1>6. ASSUME NEW s \in Shards, StatsAdapter(s) PROVE Tallied'
  <2>1. /\ Busy /\ req.call = "stats" /\ worker[s].pc = "adapter"
        /\ UNCHANGED <<req, closed, total, seen, steady>>
        /\ \/ worker' = [worker EXCEPT ![s].pc = "count"] /\ UNCHANGED missing
           \/ worker' = [worker EXCEPT ![s].pc = "done"] /\ missing' = missing \cup {s}
    BY <1>6 DEF StatsAdapter, At, WorkerOnly, tally
  <2>2. /\ \A t \in Shards \ {s} : worker'[t] = worker[t]
        /\ \/ worker'[s].pc = "count" /\ UNCHANGED missing
           \/ worker'[s].pc = "done" /\ missing' = missing \cup {s}
    BY <1>0, <2>1 DEF Typed, Goroutine
  <2>3. Counted' = Counted /\ \A t \in missing' : worker'[t].pc = "done"
    BY <1>0, <1>2, <2>1, <2>2 DEF Counted, Typed
  <2>4. req'.shards # {} /\ req'.shards \in {{}, Shards}
    BY <1>2, <2>1 DEF Tallied
  <2> QED
    BY <1>0, <1>1, <1>2, <2>1, <2>3, <2>4, NothingCounted
<1>7. ASSUME NEW s \in Shards, CountShard(s) PROVE Tallied'
  <2>1. UNCHANGED req
    BY <1>7 DEF CountShard
  <2> QED
    BY <1>0, <1>7, <2>1, CountStep
<1>8. ASSUME NEW k \in Ids, Command(k) PROVE Tallied'
  <2>1. Busy /\ UNCHANGED <<req, worker, closed, total, missing>>
    BY <1>8 DEF Command, Busy, tally
  <2>2. /\ seen' = seen \cup Present(req.call)' /\ steady' = steady \cap Lasting(req.call)'
        /\ req.call = "stats"
    BY <1>8, <2>1 DEF Command
  <2>3. Present(req.call)' = listed' /\ listed' \subseteq Ids
    BY <1>0, <2>1, <2>2 DEF Present, Typed
  <2> QED
    BY <1>2, <1>4, <2>1, <2>2, <2>3
<1>9. CASE ReplyStats \/ Merge \/ (\E s \in Shards : HealthFlip(s)) \/ UNCHANGED vars
  <2>1. UNCHANGED <<req, worker, closed, total, missing, steady, seen>>
    BY <1>9 DEF ReplyStats, Merge, HealthFlip, vars, tally, history
  <2>2. Busy
    BY <1>9 DEF ReplyStats, Merge, HealthFlip, vars, Busy
  <2> QED
    BY <1>2, <1>4, <2>1, <2>2
<1>10. CASE CloseChannels \/ Reply \/ StreamSearch \/ (\E b \in BOOLEAN : StartSearch(b))
  <2>1. CASE Reply
    BY <1>2, <2>1 DEF Reply, Tallied
  <2>2. CASE \E b \in BOOLEAN : StartSearch(b)
    BY <1>0, <2>2 DEF StartSearch, Typed, Call, Busy
  <2> QED
    BY <1>10, <2>1, <2>2 DEF CloseChannels, StreamSearch
<1>11. ASSUME NEW s \in Shards, WorkerStep(s) PROVE Tallied'
  BY <1>0, <1>11, ReadersSearch
<1> QED
  BY <1>3, <1>5, <1>6, <1>7, <1>8, <1>9, <1>10, <1>11 DEF Next

(***************************************************************************)
(* An answer stays right: the history of a call ends with it.               *)
(***************************************************************************)
LEMMA AnswersStay ==
  ASSUME Typed, Remembers, [Next]_vars
  PROVE  \/ reply' \in {None, Refused, Ended}
         \/ Reply /\ Busy
         \/ ReplyStats /\ Busy
         \/ UNCHANGED <<req, reply, seen, steady, missing>>
<1>1. ASSUME NEW k \in Ids, Command(k)
      PROVE  reply' = None \/ UNCHANGED <<req, reply, seen, steady, missing>>
  <2>1. UNCHANGED <<req, reply, missing>>
    BY <1>1 DEF Command
  <2> QED
    BY <1>1, <2>1 DEF Command, Busy
<1>2. ASSUME NEW s \in Shards, WorkerStep(s) \/ StatsAdapter(s) \/ CountShard(s)
      PROVE  reply' = None
  <2>1. CASE WorkerStep(s)
    BY <2>1, ReadersSearch DEF Busy
  <2>2. CASE StatsAdapter(s) \/ CountShard(s)
    BY <2>2 DEF StatsAdapter, CountShard, At, WorkerOnly, Busy
  <2> QED
    BY <1>2, <2>1, <2>2
<1>3. ASSUME NEW b \in BOOLEAN, StartSearch(b) \/ StartStats(b) PROVE reply' \in {None, Refused}
  BY <1>3 DEF StartSearch, StartStats, Busy
<1>4. CASE CloseChannels \/ Merge \/ StreamSearch
  BY <1>4 DEF CloseChannels, Merge, StreamSearch, Busy
<1>5. CASE UNCHANGED vars \/ \E s \in Shards : HealthFlip(s)
  BY <1>5 DEF vars, HealthFlip, history
<1>6. ASSUME NEW call, Request(call) PROVE reply' = None
  BY <1>6 DEF Request
<1>7. CASE Reply \/ ReplyStats
  BY <1>7 DEF Reply, ReplyStats
<1> QED
  BY <1>1, <1>2, <1>3, <1>4, <1>5, <1>6, <1>7 DEF Next

LEMMA CountKept ==
  ASSUME ReadInv, StatsInv, [Next]_vars
  PROVE  StatsCountListed'
<1>0. Typed /\ Remembers
  BY DEF ReadInv
<1>1. CASE reply' \in {None, Refused, Ended}
  BY <1>1 DEF StatsCountListed, Replies
<1>2. CASE UNCHANGED <<req, reply, seen, steady, missing>>
  BY <1>2 DEF StatsInv, StatsCountListed, Replies
<1>3. CASE Reply /\ Busy
  <2>1. req.call # "stats" /\ req' = req
    BY <1>3 DEF StatsInv, Tallied, Reply
  <2> QED
    BY <2>1 DEF StatsCountListed, Replies
<1>4. CASE ReplyStats /\ Busy
  <2>1. /\ req.call = "stats" /\ req.shards # {} /\ AllDone /\ reply' = total
        /\ UNCHANGED <<req, seen, steady, missing>>
    BY <1>4 DEF ReplyStats, history
  <2>2. Tallied /\ steady \subseteq Ids /\ seen \subseteq Ids
    BY <1>0, <1>4, <2>1 DEF StatsInv, Remembers, Lasting, Tallied, Typed
  <2>3. Counted = Shards \ missing
    BY <2>1, <2>2 DEF Tallied, AllDone, Counted
  <2>4. \A k \in Ids : ShardOf[k] \in Shards
    BY SearchAssumption
  <2>5. /\ On(steady, Counted) = {k \in steady : ShardOf[k] \notin missing}
        /\ On(seen, Counted) = {k \in seen : ShardOf[k] \notin missing}
    BY <2>2, <2>3, <2>4 DEF On
  <2>6. /\ Cardinality({k \in steady : ShardOf[k] \notin missing}) <= total
        /\ total <= Cardinality({k \in seen : ShardOf[k] \notin missing})
    BY <2>2, <2>5 DEF Tallied
  <2>7. /\ Cardinality({k \in steady : ShardOf[k] \notin missing}) \in Nat /\ total \in Nat
    BY <1>0, <2>2, MoreIds DEF Typed
  <2>8. total >= Cardinality({k \in steady : ShardOf[k] \notin missing})
    BY <2>6, <2>7
  <2> QED
    BY <2>1, <2>6, <2>8 DEF StatsCountListed
<1> QED
  BY <1>0, <1>1, <1>2, <1>3, <1>4, AnswersStay

(***************************************************************************)
(* What GetStats reports is between what was listed all the time and what   *)
(* was listed at some time, on the shards that answered (StatsCountListed). *)
(***************************************************************************)
THEOREM CountsAlwaysListed == Spec => []StatsCountListed
<1>1. Init => ReadInv /\ StatsInv
  BY ReadInvInitially DEF Init, StatsInv, Busy, StatsCountListed, Replies
<1>2. ReadInv /\ StatsInv /\ [Next]_vars => (ReadInv /\ StatsInv)'
  BY ReadInvKept, TalliedKept, CountKept DEF StatsInv
<1>3. StatsInv => StatsCountListed
  BY DEF StatsInv
<1> QED
  BY <1>1, <1>2, <1>3, PTL DEF Spec

-----------------------------------------------------------------------------
(***************************************************************************)
(* What the handler has received, m, and what waits in resultsChan, rs.     *)
(***************************************************************************)
Part(m, rs, i) == IF i = 0 THEN m ELSE rs[i]
Pooled(x, m, rs) == \E i \in 0 .. Len(rs) : Among(x, Part(m, rs, i))

(***************************************************************************)
(* No id occurs twice in it.                                                *)
(***************************************************************************)
Apart(m, rs) ==
  \A i, j \in 0 .. Len(rs) : \A a \in DOMAIN Part(m, rs, i) : \A b \in DOMAIN Part(m, rs, j) :
     Part(m, rs, i)[a].id = Part(m, rs, j)[b].id => i = j /\ a = b

LEMMA PoolAppend ==
  ASSUME NEW m \in Seq(Scored), NEW rs \in Seq(Seq(Scored)), NEW b \in Seq(Scored)
  PROVE  /\ \A x : Pooled(x, m, Append(rs, b)) <=> Pooled(x, m, rs) \/ Among(x, b)
         /\ /\ Apart(m, rs) /\ Distinct(b)
            /\ \A x : Pooled(x, m, rs) => \A a \in DOMAIN b : b[a].id # x.id
            => Apart(m, Append(rs, b))
<1> DEFINE n == Len(rs)
           r2 == Append(rs, b)
<1>1. /\ n \in Nat /\ Len(r2) = n + 1 /\ r2[n + 1] = b
      /\ \A i \in 1 .. n : r2[i] = rs[i]
  OBVIOUS
<1> HIDE DEF r2, n
<1>2. /\ \A i \in 0 .. n : Part(m, r2, i) = Part(m, rs, i)
      /\ Part(m, r2, n + 1) = b
      /\ \A i \in 0 .. Len(r2) : i \in 0 .. n \/ i = n + 1
      /\ \A i \in 0 .. n : i \in 0 .. Len(r2) /\ i # n + 1
      /\ n + 1 \in 0 .. Len(r2)
  BY <1>1 DEF Part
<1>3. ASSUME NEW x PROVE Pooled(x, m, r2) <=> Pooled(x, m, rs) \/ Among(x, b)
  <2>1. ASSUME Pooled(x, m, r2) PROVE Pooled(x, m, rs) \/ Among(x, b)
    <3>1. PICK i \in 0 .. Len(r2) : Among(x, Part(m, r2, i))
      BY <2>1 DEF Pooled
    <3>2. CASE i \in 0 .. n
      BY <1>2, <3>1, <3>2 DEF Pooled, n
    <3>3. CASE i = n + 1
      BY <1>2, <3>1, <3>3
    <3> QED
      BY <1>2, <3>2, <3>3
  <2>2. ASSUME Pooled(x, m, rs) PROVE Pooled(x, m, r2)
    <3>1. PICK i \in 0 .. n : Among(x, Part(m, rs, i))
      BY <2>2 DEF Pooled, n
    <3> QED
      BY <1>2, <3>1 DEF Pooled
  <2>3. ASSUME Among(x, b) PROVE Pooled(x, m, r2)
    BY <1>2, <2>3 DEF Pooled
  <2> QED
    BY <2>1, <2>2, <2>3
<1>4. ASSUME Apart(m, rs), Distinct(b),
             \A x : Pooled(x, m, rs) => \A a \in DOMAIN b : b[a].id # x.id
      PROVE  Apart(m, r2)
  <2>1. ASSUME NEW i \in 0 .. n, NEW a \in DOMAIN Part(m, rs, i), NEW c \in DOMAIN b
        PROVE  Part(m, rs, i)[a].id # b[c].id
    <3>1. Pooled(Part(m, rs, i)[a], m, rs)
      BY DEF Pooled, Among, n
    <3> QED
      BY <1>4, <3>1
  <2> SUFFICES ASSUME NEW i \in 0 .. Len(r2), NEW j \in 0 .. Len(r2),
                      NEW a \in DOMAIN Part(m, r2, i), NEW c \in DOMAIN Part(m, r2, j),
                      Part(m, r2, i)[a].id = Part(m, r2, j)[c].id
               PROVE  i = j /\ a = c
    BY DEF Apart
  <2>2. CASE i \in 0 .. n /\ j \in 0 .. n
    BY <1>2, <1>4, <2>2 DEF Apart, n
  <2>3. CASE i \in 0 .. n /\ j = n + 1
    BY <1>2, <2>1, <2>3
  <2>4. CASE i = n + 1 /\ j \in 0 .. n
    BY <1>2, <2>1, <2>4
  <2>5. CASE i = n + 1 /\ j = n + 1
    BY <1>2, <1>4, <2>5 DEF Distinct
  <2> QED
    BY <1>2, <2>2, <2>3, <2>4, <2>5
<1> QED
  BY <1>3, <1>4 DEF r2

LEMMA PoolMerge ==
  ASSUME NEW m \in Seq(Scored), NEW rs \in Seq(Seq(Scored)), rs # <<>>
  PROVE  /\ \A x : Pooled(x, m \o Head(rs), Tail(rs)) <=> Pooled(x, m, rs)
         /\ Apart(m, rs) => Apart(m \o Head(rs), Tail(rs))
<1> DEFINE n == Len(rs)
           h == Head(rs)
           r2 == Tail(rs)
           m2 == m \o h
           u == Len(m)
           v == Len(h)
<1>1. /\ n \in Nat /\ n >= 1 /\ h = rs[1] /\ Len(r2) = n - 1
      /\ \A i \in 1 .. n - 1 : r2[i] = rs[i + 1]
  OBVIOUS
<1>2. h \in Seq(Scored)
  BY <1>1
<1>3. /\ u \in Nat /\ v \in Nat /\ DOMAIN m = 1 .. u /\ DOMAIN h = 1 .. v
      /\ DOMAIN m2 = 1 .. u + v
      /\ \A a \in 1 .. u + v : m2[a] = IF a <= u THEN m[a] ELSE h[a - u]
  BY <1>2
<1> HIDE DEF n, h, r2, m2, u, v
<1>4. /\ Part(m2, r2, 0) = m2 /\ Part(m, rs, 0) = m /\ Part(m, rs, 1) = h
      /\ \A i \in 1 .. n - 1 : Part(m2, r2, i) = Part(m, rs, i + 1)
  BY <1>1 DEF Part
<1>5. ASSUME NEW x PROVE Among(x, m2) <=> Among(x, m) \/ Among(x, h)
  <2>1. ASSUME NEW a \in 1 .. u + v, m2[a] = x PROVE Among(x, m) \/ Among(x, h)
    <3>1. CASE a <= u
      <4>1. a \in 1 .. u /\ m[a] = x
        BY <1>3, <2>1, <3>1
      <4> QED
        BY <1>3, <4>1 DEF Among
    <3>2. CASE ~(a <= u)
      <4>1. a - u \in 1 .. v /\ h[a - u] = x
        BY <1>3, <2>1, <3>2
      <4> QED
        BY <1>3, <4>1 DEF Among
    <3> QED
      BY <3>1, <3>2
  <2>2. ASSUME NEW a \in 1 .. u, m[a] = x PROVE Among(x, m2)
    <3>1. a \in 1 .. u + v /\ m2[a] = x
      BY <1>3, <2>2
    <3> QED
      BY <1>3, <3>1 DEF Among
  <2>3. ASSUME NEW a \in 1 .. v, h[a] = x PROVE Among(x, m2)
    <3>1. u + a \in 1 .. u + v /\ ~(u + a <= u) /\ (u + a) - u = a
      BY <1>3
    <3>2. m2[u + a] = x
      BY <1>3, <2>3, <3>1
    <3> QED
      BY <1>3, <3>1, <3>2 DEF Among
  <2> QED
    BY <1>3, <2>1, <2>2, <2>3 DEF Among
<1>6. ASSUME NEW x PROVE Pooled(x, m2, r2) <=> Pooled(x, m, rs)
  <2>1. ASSUME NEW i \in 0 .. n - 1, Among(x, Part(m2, r2, i))
        PROVE  \E j \in 0 .. n : Among(x, Part(m, rs, j))
    <3>1. CASE i = 0
      <4>1. 0 \in 0 .. n /\ 1 \in 0 .. n
        BY <1>1
      <4> QED
        BY <1>4, <1>5, <2>1, <3>1, <4>1
    <3>2. CASE i # 0
      <4>1. i \in 1 .. n - 1 /\ i + 1 \in 0 .. n
        BY <1>1, <3>2
      <4> QED
        BY <1>4, <2>1, <4>1
    <3> QED
      BY <3>1, <3>2
  <2>2. ASSUME NEW j \in 0 .. n, Among(x, Part(m, rs, j))
        PROVE  \E i \in 0 .. n - 1 : Among(x, Part(m2, r2, i))
    <3>1. CASE j \in {0, 1}
      <4>1. 0 \in 0 .. n - 1
        BY <1>1
      <4> QED
        BY <1>4, <1>5, <2>2, <3>1, <4>1
    <3>2. CASE j \notin {0, 1}
      <4>1. j - 1 \in 1 .. n - 1 /\ j - 1 \in 0 .. n - 1 /\ (j - 1) + 1 = j
        BY <1>1, <3>2
      <4> QED
        BY <1>4, <2>2, <4>1
    <3> QED
      BY <3>1, <3>2
  <2> QED
    BY <1>1, <2>1, <2>2 DEF Pooled, n
<1>7. ASSUME Apart(m, rs) PROVE Apart(m2, r2)
  <2> DEFINE p(i, a) == IF i # 0 THEN i + 1 ELSE IF a <= u THEN 0 ELSE 1
             q(i, a) == IF i # 0 THEN a ELSE IF a <= u THEN a ELSE a - u
  <2>1. ASSUME NEW i \in 0 .. n - 1, NEW a \in DOMAIN Part(m2, r2, i)
        PROVE  /\ p(i, a) \in 0 .. n /\ q(i, a) \in DOMAIN Part(m, rs, p(i, a))
               /\ Part(m2, r2, i)[a] = Part(m, rs, p(i, a))[q(i, a)]
               /\ i = 0 => a \in Nat
    <3>1. CASE i = 0
      <4>1. a \in 1 .. u + v /\ Part(m2, r2, i) = m2
        BY <1>3, <1>4, <3>1
      <4>2. CASE a <= u
        <5>1. p(i, a) = 0 /\ q(i, a) = a /\ a \in 1 .. u /\ 0 \in 0 .. n
          BY <1>1, <1>3, <3>1, <4>1, <4>2
        <5> HIDE DEF p, q
        <5> QED
          BY <1>3, <1>4, <4>1, <4>2, <5>1
      <4>3. CASE ~(a <= u)
        <5>1. p(i, a) = 1 /\ q(i, a) = a - u /\ a - u \in 1 .. v /\ 1 \in 0 .. n
          BY <1>1, <1>3, <3>1, <4>1, <4>3
        <5> HIDE DEF p, q
        <5> QED
          BY <1>3, <1>4, <4>1, <4>3, <5>1
      <4> QED
        BY <4>2, <4>3
    <3>2. CASE i # 0
      <4>1. i \in 1 .. n - 1 /\ i + 1 \in 0 .. n /\ p(i, a) = i + 1 /\ q(i, a) = a
        BY <1>1, <3>2
      <4> HIDE DEF p, q
      <4> QED
        BY <1>4, <3>2, <4>1
    <3> QED
      BY <3>1, <3>2
  <2>2. ASSUME NEW i \in 0 .. n - 1, NEW j \in 0 .. n - 1,
               NEW a \in DOMAIN Part(m2, r2, i), NEW c \in DOMAIN Part(m2, r2, j),
               Part(m2, r2, i)[a].id = Part(m2, r2, j)[c].id
        PROVE  i = j /\ a = c
    <3>1. p(i, a) = p(j, c) /\ q(i, a) = q(j, c)
      <4> HIDE DEF p, q
      <4> QED
        BY <1>7, <2>1, <2>2 DEF Apart, n
    <3>2. i \in Nat /\ j \in Nat /\ (i = 0 => a \in Nat) /\ (j = 0 => c \in Nat) /\ u \in Nat
      BY <1>3, <2>1
    <3>3. CASE i = 0 /\ j = 0
      BY <3>1, <3>2, <3>3
    <3>4. CASE i # 0 /\ j # 0
      BY <3>1, <3>2, <3>4
    <3>5. CASE i = 0 /\ j # 0
      BY <3>1, <3>2, <3>5
    <3>6. CASE i # 0 /\ j = 0
      BY <3>1, <3>2, <3>6
    <3> QED
      BY <3>3, <3>4, <3>5, <3>6
  <2> QED
    BY <1>1, <2>2 DEF Apart
<1> QED
  BY <1>6, <1>7 DEF m2, r2, h

(***************************************************************************)
(* A goroutine that reads: what it has found was there and is on its shard, *)
(* it comes to every id once, and every vector that was there all the time  *)
(* has been found or is still to be read.                                   *)
(***************************************************************************)
Fits(r) == r.score \in req.filter

Reading(s) ==
  LET f == worker[s].found
      t == worker[s].todo
  IN  /\ worker[s].pc \in {"adapter", "ids"} => f = <<>>
      /\ worker[s].pc = "vectors" =>
           /\ \A i \in 1 .. Len(f) : f[i] \in seen /\ Fits(f[i]) /\ ShardOf[f[i].id] = s
           /\ \A i \in 1 .. Len(t) : ShardOf[t[i]] = s
           /\ Distinct(f)
           /\ \A i, j \in 1 .. Len(t) : t[i] = t[j] => i = j
           /\ \A i \in 1 .. Len(f) : \A j \in 1 .. Len(t) : f[i].id # t[j]
           /\ \A r \in steady : Fits(r) /\ ShardOf[r.id] = s /\ s \notin missing
                => Among(r, f) \/ Among(r.id, t)

(***************************************************************************)
(* What was sent: vectors that were there, of goroutines that are done, no  *)
(* id twice; and a vector that was there all the time was sent by its       *)
(* shard, or k others that beat it were.                                    *)
(***************************************************************************)
Done(s) == worker[s].pc = "done"

Sound ==
  \A x : Pooled(x, merged, results) => x \in seen /\ Fits(x) /\ Done(ShardOf[x.id])

Claimed(r) ==
  \/ Pooled(r, merged, results)
  \/ \E d : Beating(d, req.k, r.score) /\ \A i \in 1 .. req.k : Pooled(d[i], merged, results)

Claims ==
  \A r \in steady : Fits(r) /\ ShardOf[r.id] \notin missing /\ Done(ShardOf[r.id]) => Claimed(r)

Covered ==
  /\ req.shards = {} => missing = {} /\ \A s \in Shards : worker[s].pc = "none"
  /\ req.shards # {} => Shards \ req.shards \subseteq missing

Collected == Sound /\ Apart(merged, results) /\ Claims

InSearch == Busy /\ req.call = "search"
Held     == Collected /\ Covered /\ \A s \in Shards : Reading(s)

SelectInv ==
  /\ InSearch => Held
  /\ ReplyIsTopK /\ ReplyWasStored

LEMMA SteadyScored ==
  ASSUME Typed, Remembers, InSearch
  PROVE  /\ steady \subseteq Scored
         /\ \A r \in steady :
              r.id \in listed /\ vec[r.id] = r.score /\ r = Result(r.id, vec[r.id])
                              /\ r.score \in Nat /\ r.id \in Ids /\ vec[r.id] # Absent
         /\ \A k \in Ids :
              vec[k] # Absent => Result(k, vec[k]) \in seen /\ Result(k, vec[k]) \in Scored
<1>1. steady \subseteq Findable /\ Stored \subseteq seen
  BY DEF Remembers, InSearch, Lasting, Present
<1>2. ASSUME NEW r \in steady
      PROVE  /\ r \in Scored /\ r.id \in listed /\ vec[r.id] = r.score
             /\ r = Result(r.id, vec[r.id]) /\ r.id \in Ids /\ vec[r.id] # Absent
  <2>1. r \in Stored /\ r.id \in listed
    BY <1>1 DEF Findable
  <2>2. PICK i \in Ids : vec[i] # Absent /\ r = Result(i, vec[i])
    BY <2>1 DEF Stored
  <2>3. r.id = i /\ r.score = vec[i] /\ vec[i] \in Scores /\ r = [id |-> i, score |-> vec[i]]
    BY <2>2 DEF Result, Typed
  <2> QED
    BY <2>1, <2>2, <2>3 DEF Scored
<1>3. \A r \in Scored : r.score \in Nat
  BY SearchAssumption DEF Scored
<1>4. ASSUME NEW k \in Ids, vec[k] # Absent
      PROVE  Result(k, vec[k]) \in seen /\ Result(k, vec[k]) \in Scored
  BY <1>1, <1>4 DEF Stored, Result, Scored, Typed
<1> QED
  BY <1>2, <1>3, <1>4

(***************************************************************************)
(* Nothing is sent: the claims stay as long as no goroutine ends that is    *)
(* not known to be missing.                                                 *)
(***************************************************************************)
LEMMA CollectedQuietly ==
  ASSUME Typed, Remembers, InSearch, Collected,
         UNCHANGED <<results, merged>>, req'.k = req.k, req'.filter = req.filter,
         seen \subseteq seen', steady' \subseteq steady, missing \subseteq missing',
         \A s \in Shards : (Done(s) => Done(s)') /\ (Done(s)' => Done(s) \/ s \in missing')
  PROVE  Collected'
<1>1. \A x : Pooled(x, merged, results)' <=> Pooled(x, merged, results)
  BY DEF Pooled
<1>2. \A r : Fits(r)' <=> Fits(r)
  BY DEF Fits
<1>3. \A r \in steady : ShardOf[r.id] \in Shards
  BY SteadyScored, SearchAssumption
<1>4. Sound'
  <2> SUFFICES ASSUME NEW x, Pooled(x, merged', results')
               PROVE  x \in seen' /\ Fits(x)' /\ Done(ShardOf[x.id])'
    BY DEF Sound
  <2>1. x \in seen /\ Fits(x) /\ Done(ShardOf[x.id])
    BY <1>1 DEF Collected, Sound
  <2>2. ShardOf[x.id] \in Shards
    <3>1. x \in Scored
      BY DEF Pooled, Among, Part, Typed
    <3> QED
      BY <3>1, SearchAssumption DEF Scored
  <2> QED
    BY <1>2, <2>1, <2>2
<1>5. Apart(merged, results)'
  BY DEF Collected
<1>6. Claims'
  <2> SUFFICES ASSUME NEW r \in steady', Fits(r)', ShardOf[r.id] \notin missing',
                      Done(ShardOf[r.id])'
               PROVE  Claimed(r)'
    BY DEF Claims
  <2>1. Claimed(r)
    BY <1>2, <1>3 DEF Collected, Claims
  <2> QED
    BY <2>1 DEF Claimed
<1> QED
  BY <1>4, <1>5, <1>6 DEF Collected

LEMMA ReadingQuietly ==
  ASSUME InSearch, NEW s \in Shards, Reading(s), req'.filter = req.filter,
         seen \subseteq seen', steady' \subseteq steady, missing \subseteq missing',
         \/ worker'[s] = worker[s]
         \/ worker'[s].found = worker[s].found /\ worker[s].pc = "adapter"
                                               /\ worker'[s].pc # "vectors"
         \/ worker'[s].pc \notin {"adapter", "ids", "vectors"}
  PROVE  Reading(s)'
<1>1. \A r : Fits(r)' <=> Fits(r)
  BY DEF Fits
<1>2. CASE worker'[s] = worker[s]
  BY <1>1, <1>2 DEF Reading
<1>3. CASE /\ worker'[s].found = worker[s].found
           /\ worker[s].pc = "adapter" /\ worker'[s].pc # "vectors"
  BY <1>3 DEF Reading
<1>4. CASE worker'[s].pc \notin {"adapter", "ids", "vectors"}
  BY <1>4 DEF Reading
<1> QED
  BY <1>2, <1>3, <1>4

LEMMA ReadingFrom ==
  ASSUME NEW s, NEW e, NEW o,
         worker'[s].found = e, worker'[s].todo = o, worker'[s].pc = "vectors",
         \A i \in 1 .. Len(e) : e[i] \in seen' /\ Fits(e[i])' /\ ShardOf[e[i].id] = s,
         \A i \in 1 .. Len(o) : ShardOf[o[i]] = s,
         Distinct(e),
         \A i, j \in 1 .. Len(o) : o[i] = o[j] => i = j,
         \A i \in 1 .. Len(e) : \A j \in 1 .. Len(o) : e[i].id # o[j],
         \A r \in steady' : Fits(r)' /\ ShardOf[r.id] = s /\ s \notin missing'
           => Among(r, e) \/ Among(r.id, o)
  PROVE  Reading(s)'
BY DEF Reading, Fits

(***************************************************************************)
(* The goroutine of s lists the ids: those of all vectors that were there   *)
(* all the time are among them.                                             *)
(***************************************************************************)
LEMMA ListReads ==
  ASSUME Typed, Remembers, InSearch, NEW s \in Shards, Reading(s), worker[s].pc = "ids",
         NEW o \in SetToSeqs({k \in listed : ShardOf[k] = s}),
         worker' = [worker EXCEPT ![s].pc = "vectors", ![s].todo = o],
         UNCHANGED <<req, seen, steady, missing>>
  PROVE  Reading(s)'
<1> DEFINE S == {k \in listed : ShardOf[k] = s}
<1>1. IsFiniteSet(S)
  BY SearchAssumption, FS_Subset DEF Typed
<1>2. /\ o \in Seq(S) /\ \A i, j \in 1 .. Len(o) : o[i] = o[j] => i = j
      /\ \A k \in S : \E i \in 1 .. Len(o) : o[i] = k
  <2>1. o \in SetToSeqs(S)
    OBVIOUS
  <2> HIDE DEF S
  <2> QED
    BY <1>1, <2>1, OrdersHoldAll
<1>3. worker'[s].found = <<>> /\ worker'[s].todo = o /\ worker'[s].pc = "vectors"
  <2>1. worker[s].found = <<>>
    BY DEF Reading
  <2> QED
    BY <2>1 DEF Typed, Goroutine
<1>4. \A i \in 1 .. Len(o) : ShardOf[o[i]] = s
  BY <1>2
<1>5. ASSUME NEW r \in steady, ShardOf[r.id] = s PROVE Among(r.id, o)
  <2>1. r.id \in S
    BY <1>5, SteadyScored
  <2>2. DOMAIN o = 1 .. Len(o)
    BY <1>2
  <2> QED
    BY <1>2, <2>1, <2>2 DEF Among
<1>6. Distinct(<<>>) /\ 1 .. Len(<<>>) = {}
  BY DEF Distinct
<1> HIDE DEF S
<1>7. PICK e : e = <<>> /\ worker'[s].found = e /\ Distinct(e) /\ 1 .. Len(e) = {}
  BY <1>3, <1>6
<1>8. /\ \A i, j \in 1 .. Len(o) : o[i] = o[j] => i = j
      /\ \A i \in 1 .. Len(e) : FALSE
      /\ \A r \in steady' : ShardOf[r.id] = s => Among(r.id, o)
  BY <1>2, <1>5, <1>7
<1>9. \A i \in 1 .. Len(e) : e[i] \in seen' /\ Fits(e[i])' /\ ShardOf[e[i].id] = s
  BY <1>8
<1>10. \A i \in 1 .. Len(e) : \A j \in 1 .. Len(o) : e[i].id # o[j]
  BY <1>8
<1>11. \A r \in steady' : Fits(r)' /\ ShardOf[r.id] = s /\ s \notin missing'
         => Among(r, e) \/ Among(r.id, o)
  BY <1>8
<1>12. worker'[s].found = e /\ worker'[s].todo = o /\ worker'[s].pc = "vectors"
  BY <1>3, <1>7
<1> QED
  <2>1. /\ Distinct(e) /\ \A i \in 1 .. Len(o) : ShardOf[o[i]] = s
        /\ \A i, j \in 1 .. Len(o) : o[i] = o[j] => i = j
    BY <1>4, <1>7, <1>8
  <2> QED
    BY <2>1, <1>9, <1>10, <1>11, <1>12, ReadingFrom

(***************************************************************************)
(* It reads one vector, or fails to.                                        *)
(***************************************************************************)
LEMMA VectorReads ==
  ASSUME Typed, Remembers, InSearch, NEW s \in Shards, Reading(s), GetVector(s)
  PROVE  Reading(s)'
<1> DEFINE f == worker[s].found
           t == worker[s].todo
           k == Head(t)
           x == Result(k, vec[k])
           u == Tail(t)
<1>1. /\ worker[s].pc = "vectors" /\ worker[s] \in Goroutine /\ t # <<>>
      /\ UNCHANGED <<req, seen, steady>>
  BY DEF GetVector, At, WorkerOnly, Typed
<1>2. f \in Seq(Scored) /\ t \in Seq(Ids)
  BY <1>1 DEF Goroutine
<1>3. /\ Len(t) \in Nat /\ Len(t) >= 1 /\ k = t[1] /\ k \in Ids /\ u \in Seq(Ids)
      /\ Len(u) = Len(t) - 1 /\ \A i \in 1 .. Len(u) : i + 1 \in 1 .. Len(t) /\ u[i] = t[i + 1]
      /\ DOMAIN u = 1 .. Len(u) /\ DOMAIN t = 1 .. Len(t) /\ DOMAIN f = 1 .. Len(f)
      /\ 1 \in 1 .. Len(t) /\ Len(f) \in Nat
  BY <1>1, <1>2
<1>4. /\ \A i \in 1 .. Len(f) : f[i] \in seen /\ Fits(f[i]) /\ ShardOf[f[i].id] = s
      /\ \A i \in 1 .. Len(t) : ShardOf[t[i]] = s
      /\ Distinct(f)
      /\ \A i, j \in 1 .. Len(t) : t[i] = t[j] => i = j
      /\ \A i \in 1 .. Len(f) : \A j \in 1 .. Len(t) : f[i].id # t[j]
      /\ \A r \in steady : Fits(r) /\ ShardOf[r.id] = s /\ s \notin missing
           => Among(r, f) \/ Among(r.id, t)
  BY <1>1 DEF Reading
<1>5. x.id = k /\ x.score = vec[k]
  BY DEF Result
<1>6. /\ worker'[s].pc = "vectors" /\ worker'[s].todo = u
      /\ \/ worker'[s].found = Accept(f, k) /\ UNCHANGED missing
         \/ worker'[s].found = f /\ s \in missing'
  BY <1>1 DEF GetVector, Typed, Goroutine
<1>7. \/ Accept(f, k) = Append(f, x) /\ vec[k] # Absent /\ vec[k] \in req.filter
      \/ Accept(f, k) = f /\ ~(vec[k] # Absent /\ vec[k] \in req.filter)
  BY DEF Accept
<1>8. \A r \in steady : r.id = k => r = x /\ vec[k] # Absent
  BY SteadyScored
<1>9. vec[k] # Absent => x \in seen /\ x \in Scored
  BY <1>3, SteadyScored
<1> HIDE DEF f, t, k, x, u
<1>10. /\ \A i \in 1 .. Len(u) : ShardOf[u[i]] = s
       /\ \A i, j \in 1 .. Len(u) : u[i] = u[j] => i = j
       /\ \A i \in 1 .. Len(f) : \A j \in 1 .. Len(u) : f[i].id # u[j]
       /\ \A j \in 1 .. Len(u) : u[j] # k
  <2>1. \A i \in 1 .. Len(u) : i + 1 # 1 /\ i \in Nat
    BY <1>3
  <2>2. \A i \in 1 .. Len(u) : ShardOf[u[i]] = s
    BY <1>3, <1>4
  <2>3. ASSUME NEW i \in 1 .. Len(u), NEW j \in 1 .. Len(u), u[i] = u[j] PROVE i = j
    <3>1. i + 1 = j + 1
      BY <1>3, <1>4, <2>3
    <3> QED
      BY <3>1, <2>1
  <2>4. \A i \in 1 .. Len(f) : \A j \in 1 .. Len(u) : f[i].id # u[j]
    BY <1>3, <1>4
  <2>5. \A j \in 1 .. Len(u) : u[j] # k
    BY <1>3, <1>4, <2>1
  <2> QED
    BY <2>2, <2>3, <2>4, <2>5
<1>11. ASSUME NEW r \in steady, Among(r.id, t) PROVE r.id = k \/ Among(r.id, u)
  <2>1. PICK i \in 1 .. Len(t) : t[i] = r.id
    BY <1>3, <1>11 DEF Among
  <2>2. CASE i = 1
    BY <1>3, <2>1, <2>2
  <2>3. CASE i # 1
    <3>1. i - 1 \in 1 .. Len(u) /\ (i - 1) + 1 = i
      BY <1>3, <2>3
    <3> QED
      BY <1>3, <2>1, <3>1 DEF Among
  <2> QED
    BY <2>2, <2>3
<1>12. CASE worker'[s].found = f
  <2>1. ASSUME NEW r \in steady, Fits(r), ShardOf[r.id] = s, s \notin missing'
        PROVE  Among(r, f) \/ Among(r.id, u)
    <3>1. UNCHANGED missing /\ Accept(f, k) = f
      BY <1>6, <1>12, <2>1
    <3>2. Among(r, f) \/ Among(r.id, t)
      BY <1>4, <2>1, <3>1
    <3>3. r.id # k
      <4>1. ASSUME r.id = k PROVE FALSE
        <5>1. vec[k] # Absent /\ vec[k] \in req.filter
          BY <1>5, <1>8, <2>1, <4>1 DEF Fits
        <5>2. Append(f, x) = f
          BY <1>7, <3>1, <5>1
        <5>3. Len(Append(f, x)) = Len(f) + 1
          BY <1>2, <1>9, <5>1
        <5> QED
          BY <1>3, <5>2, <5>3
      <4> QED
        BY <4>1
    <3> QED
      BY <1>11, <3>2, <3>3
  <2> QED
    BY <1>1, <1>4, <1>6, <1>10, <1>12, <2>1 DEF Reading, Fits
<1>13. CASE worker'[s].found = Append(f, x) /\ vec[k] # Absent /\ vec[k] \in req.filter
  <2> DEFINE g == Append(f, x)
  <2>1. /\ Len(g) = Len(f) + 1 /\ DOMAIN g = 1 .. Len(g) /\ g[Len(f) + 1] = x
        /\ \A i \in 1 .. Len(f) : g[i] = f[i]
        /\ \A i \in 1 .. Len(g) : i \in 1 .. Len(f) \/ i = Len(f) + 1
        /\ \A i \in 1 .. Len(f) : i \in 1 .. Len(g)
        /\ Len(f) + 1 \in 1 .. Len(g)
    BY <1>2, <1>3, <1>9, <1>13
  <2> HIDE DEF g
  <2>2. x \in seen /\ Fits(x) /\ ShardOf[x.id] = s
    BY <1>3, <1>4, <1>5, <1>9, <1>13 DEF Fits
  <2>3. \A i \in 1 .. Len(g) : g[i] \in seen /\ Fits(g[i]) /\ ShardOf[g[i].id] = s
    BY <1>4, <2>1, <2>2
  <2>4. Distinct(g)
    <3>1. \A i \in 1 .. Len(f) : f[i].id # x.id
      BY <1>3, <1>4, <1>5
    <3> QED
      BY <1>3, <1>4, <2>1, <3>1 DEF Distinct
  <2>5. \A i \in 1 .. Len(g) : \A j \in 1 .. Len(u) : g[i].id # u[j]
    BY <1>5, <1>10, <2>1
  <2>6. ASSUME NEW r \in steady, Fits(r), ShardOf[r.id] = s, s \notin missing'
        PROVE  Among(r, g) \/ Among(r.id, u)
    <3>0. s \notin missing
      BY <2>6 DEF GetVector
    <3>1. Among(r, f) \/ Among(r.id, t)
      BY <1>4, <2>6, <3>0
    <3>2. Among(r, f) => Among(r, g)
      BY <1>3, <2>1 DEF Among
    <3>3. r.id = k => Among(r, g)
      BY <1>8, <2>1 DEF Among
    <3> QED
      BY <1>11, <3>1, <3>2, <3>3
  <2> QED
    BY <1>1, <1>6, <1>10, <1>13, <2>3, <2>4, <2>5, <2>6 DEF Reading, Fits, g
<1> QED
  BY <1>6, <1>7, <1>12, <1>13

(***************************************************************************)
(* What was claimed stays claimed when more is sent.                        *)
(***************************************************************************)
LEMMA ClaimedStays ==
  ASSUME req' = req, \A x : Pooled(x, merged, results) => Pooled(x, merged', results'),
         NEW r, Claimed(r)
  PROVE  Claimed(r)'
BY DEF Claimed

(***************************************************************************)
(* The goroutine of s sends the best of what it has found.                  *)
(***************************************************************************)
LEMMA SendCollects ==
  ASSUME Typed, Remembers, InSearch, Collected, NEW s \in Shards, Reading(s), SendResults(s)
  PROVE  Collected'
<1> DEFINE f == worker[s].found
           b == Best(f, req.k)
           k == req.k
<1>1. /\ worker[s].pc = "vectors" /\ worker[s] \in Goroutine /\ worker[s].todo = <<>>
      /\ results' = Append(results, b) /\ UNCHANGED <<req, merged, seen, steady, missing>>
      /\ worker' = [worker EXCEPT ![s].pc = "done", ![s].found = <<>>]
  BY DEF SendResults, At, Typed, tally, history
<1>2. f \in Seq(Scored) /\ k \in Nat
  BY <1>1 DEF Goroutine, Typed, Call, InSearch, Busy
<1>3. TopOf(b, f, k)
  <2> HIDE DEF f, k
  <2> QED
    BY <1>2, BestIsTop DEF b, k
<1>4. /\ \A i \in 1 .. Len(f) : f[i] \in seen /\ Fits(f[i]) /\ ShardOf[f[i].id] = s
      /\ Distinct(f)
      /\ \A r \in steady : Fits(r) /\ ShardOf[r.id] = s /\ s \notin missing => Among(r, f)
  BY <1>1 DEF Reading, Among
<1>5. Done(s)' /\ ~Done(s) /\ \A t \in Shards \ {s} : Done(t)' <=> Done(t)
  BY <1>1 DEF Done, Typed, Goroutine
<1> HIDE DEF b, f, k
<1>6. /\ b \in Seq(Scored) /\ DOMAIN f = 1 .. Len(f) /\ DOMAIN b = 1 .. Len(b)
      /\ \A i \in 1 .. Len(b) : Among(b[i], f)
      /\ Distinct(b)
      /\ \A j \in 1 .. Len(f) :
           Among(f[j], b) \/ (Len(b) = k /\ \A i \in 1 .. Len(b) : b[i].score >= f[j].score)
  BY <1>2, <1>3, <1>4 DEF TopOf
<1>7. \A x : Among(x, b) => x \in seen /\ Fits(x) /\ ShardOf[x.id] = s
  BY <1>4, <1>6 DEF Among
<1>8. /\ \A x : Pooled(x, merged', results') <=> Pooled(x, merged, results) \/ Among(x, b)
      /\ /\ Apart(merged, results) /\ Distinct(b)
         /\ \A x : Pooled(x, merged, results) => \A a \in DOMAIN b : b[a].id # x.id
         => Apart(merged', results')
  <2>1. merged \in Seq(Scored) /\ results \in Seq(Seq(Scored))
    BY DEF Typed
  <2> QED
    BY <1>1, <1>6, <2>1, PoolAppend
<1>9. \A x : Pooled(x, merged, results) => x \in seen /\ Fits(x) /\ Done(ShardOf[x.id])
  BY DEF Collected, Sound
<1>10. Sound'
  <2> SUFFICES ASSUME NEW x, Pooled(x, merged', results')
               PROVE  x \in seen' /\ Fits(x)' /\ Done(ShardOf[x.id])'
    BY DEF Sound
  <2>1. Fits(x)' <=> Fits(x)
    BY <1>1 DEF Fits
  <2>2. CASE Among(x, b)
    BY <1>1, <1>5, <1>7, <2>1, <2>2
  <2>3. CASE Pooled(x, merged, results)
    <3>1. x \in Scored
      BY <2>3 DEF Pooled, Among, Part, Typed
    <3>2. ShardOf[x.id] \in Shards
      BY <3>1, SearchAssumption DEF Scored
    <3>3. Done(ShardOf[x.id]) /\ ShardOf[x.id] # s
      BY <1>5, <1>9, <2>3
    <3> QED
      BY <1>1, <1>5, <1>9, <2>1, <2>3, <3>2, <3>3
  <2> QED
    BY <1>8, <2>2, <2>3
<1>11. Apart(merged, results)'
  <2>1. ASSUME NEW x, Pooled(x, merged, results), NEW a \in DOMAIN b PROVE b[a].id # x.id
    <3>1. Among(b[a], b)
      BY DEF Among
    <3>2. ShardOf[b[a].id] = s
      BY <1>7, <3>1
    <3> QED
      BY <1>5, <1>9, <2>1, <3>2
  <2>2. Apart(merged, results)
    BY DEF Collected
  <2> QED
    BY <1>6, <1>8, <2>1, <2>2
<1>12. Claims'
  <2> SUFFICES ASSUME NEW r \in steady', Fits(r)', ShardOf[r.id] \notin missing',
                      Done(ShardOf[r.id])'
               PROVE  Claimed(r)'
    BY DEF Claims
  <2>1. r \in steady /\ Fits(r) /\ ShardOf[r.id] \notin missing /\ ShardOf[r.id] \in Shards
    BY <1>1, SteadyScored, SearchAssumption DEF Fits
  <2>2. CASE ShardOf[r.id] # s
    <3>1. Claimed(r)
      BY <1>5, <2>1, <2>2 DEF Collected, Claims
    <3> QED
      BY <1>1, <1>8, <3>1, ClaimedStays
  <2>3. CASE ShardOf[r.id] = s
    <3>1. PICK j \in 1 .. Len(f) : f[j] = r
      BY <1>4, <1>6, <2>1, <2>3 DEF Among
    <3>2. CASE Among(r, b)
      BY <1>8, <3>2 DEF Claimed
    <3>3. CASE Len(b) = k /\ \A i \in 1 .. Len(b) : b[i].score >= f[j].score
      <4>1. Beating(b, k, r.score)
        BY <1>6, <3>1, <3>3 DEF Beating
      <4>2. \A i \in 1 .. k : Pooled(b[i], merged', results')
        <5>1. \A i \in 1 .. k : Among(b[i], b)
          BY <1>6, <3>3 DEF Among
        <5> QED
          BY <1>8, <5>1
      <4>3. req'.k = k
        BY <1>1 DEF k
      <4> QED
        BY <4>1, <4>2, <4>3 DEF Claimed
    <3> QED
      BY <1>6, <3>1, <3>2, <3>3
  <2> QED
    BY <2>2, <2>3
<1> QED
  BY <1>10, <1>11, <1>12 DEF Collected

(***************************************************************************)
(* The handler receives.                                                    *)
(***************************************************************************)
LEMMA MergeCollects ==
  ASSUME Typed, InSearch, Collected, Merge
  PROVE  Collected'
<1>1. /\ results # <<>> /\ merged' = merged \o Head(results) /\ results' = Tail(results)
      /\ UNCHANGED <<req, worker, seen, steady, missing>>
      /\ merged \in Seq(Scored) /\ results \in Seq(Seq(Scored))
  BY DEF Merge, history, Typed
<1>2. /\ \A x : Pooled(x, merged', results') <=> Pooled(x, merged, results)
      /\ Apart(merged, results) => Apart(merged', results')
  BY <1>1, PoolMerge
<1>3. Sound'
  BY <1>1, <1>2 DEF Collected, Sound, Fits, Done
<1>4. Claims'
  <2> SUFFICES ASSUME NEW r \in steady', Fits(r)', ShardOf[r.id] \notin missing',
                      Done(ShardOf[r.id])'
               PROVE  Claimed(r)'
    BY DEF Claims
  <2>1. Claimed(r)
    BY <1>1 DEF Collected, Claims, Fits, Done
  <2> QED
    BY <1>1, <1>2, <2>1, ClaimedStays
<1> QED
  BY <1>2, <1>3, <1>4 DEF Collected

(***************************************************************************)
(* What is pooled when nothing waits in the channel is what was merged.     *)
(***************************************************************************)
LEMMA PoolReceived ==
  ASSUME Apart(merged, results), merged \in Seq(Scored), results = <<>>
  PROVE  /\ \A x : Pooled(x, merged, results) <=> Among(x, merged)
         /\ Distinct(merged)
<1>1. Len(results) = 0 /\ 0 .. Len(results) = {0}
  OBVIOUS
<1>2. Part(merged, results, 0) = merged
  BY DEF Part
<1>3. Distinct(merged)
  BY <1>1, <1>2 DEF Apart, Distinct
<1> QED
  BY <1>1, <1>2, <1>3 DEF Pooled

(***************************************************************************)
(* The answer q, taken from the best b of what was merged, m, holds a       *)
(* wanted vector, or k others that beat it.                                 *)
(***************************************************************************)
LEMMA WantedShown ==
  ASSUME NEW m \in Seq(Scored), NEW k \in Nat, NEW b, TopOf(b, m, k),
         NEW min, NEW q, Above(q, b, min),
         NEW r, r.score \in Nat, min \in Nat, r.score >= min,
         \/ Among(r, m)
         \/ \E d : Beating(d, k, r.score) /\ \A i \in 1 .. k : Among(d[i], m)
  PROVE  Among(r, q) \/ (Len(q) = k /\ \A i \in 1 .. Len(q) : q[i].score >= r.score)
<1>1. /\ b \in Seq(Scored) /\ DOMAIN m = 1 .. Len(m) /\ DOMAIN b = 1 .. Len(b)
      /\ \A j \in 1 .. Len(m) :
           Among(m[j], b) \/ (Len(b) = k /\ \A i \in 1 .. Len(b) : b[i].score >= m[j].score)
  BY DEF TopOf
<1>2. /\ q \in Seq(Scored)
      /\ \A i \in 1 .. Len(q) : Among(q[i], b)
      /\ \A i \in 1 .. Len(b) : b[i].score >= min => Among(b[i], q)
      /\ (\A i \in 1 .. Len(b) : b[i].score >= min) => Len(q) = Len(b)
  BY DEF Above
<1>3. \A i \in 1 .. Len(b) : b[i].score \in Nat
  <2>1. b \in Seq(Scored)
    BY <1>1
  <2>2. \A i \in 1 .. Len(b) : b[i] \in Scored
    BY <2>1
  <2> QED
    BY <2>2, SearchAssumption DEF Scored
<1>4. ASSUME Len(b) = k, \A i \in 1 .. Len(b) : b[i].score >= r.score
      PROVE  Len(q) = k /\ \A i \in 1 .. Len(q) : q[i].score >= r.score
  <2>1. \A i \in 1 .. Len(b) : b[i].score >= min
    BY <1>3, <1>4
  <2>2. \A i \in 1 .. Len(q) : q[i].score >= r.score
    BY <1>1, <1>2, <1>4 DEF Among
  <2> QED
    BY <1>2, <1>4, <2>1, <2>2
<1>5. CASE Among(r, m)
  <2>1. PICK j \in 1 .. Len(m) : m[j] = r
    BY <1>1, <1>5 DEF Among
  <2>2. CASE Among(r, b)
    BY <1>1, <1>2, <2>2 DEF Among
  <2> QED
    BY <1>1, <1>4, <2>1, <2>2
<1>6. CASE \E d : Beating(d, k, r.score) /\ \A i \in 1 .. k : Among(d[i], m)
  <2>1. PICK d : Beating(d, k, r.score) /\ \A i \in 1 .. k : Among(d[i], m)
    BY <1>6
  <2>2. Len(b) = k /\ \A i \in 1 .. k : b[i].score >= r.score
    BY <2>1, TopBeats
  <2> QED
    BY <1>4, <2>2
<1> QED
  BY <1>5, <1>6

(***************************************************************************)
(* When every goroutine of the search is done, each wanted vector is        *)
(* claimed.                                                                 *)
(***************************************************************************)
LEMMA WantedClaimed ==
  ASSUME Typed, Remembers, InSearch, Collected, Covered, req.shards # {}, AllDone,
         NEW r \in steady, Wanted(r)
  PROVE  Claimed(r)
<1>1. ShardOf[r.id] \in Shards
  BY SteadyScored, SearchAssumption
<1>2. ShardOf[r.id] \in req.shards
  BY <1>1 DEF Covered, Wanted
<1> QED
  BY <1>2 DEF Collected, Claims, Wanted, Fits, Done, AllDone

LEMMA ReplyStep ==
  ASSUME Typed, Remembers, SendInv, SelectInv, InSearch, Reply
  PROVE  ReplyIsTopK' /\ ReplyWasStored'
<1> DEFINE k == req.k
           min == req.min
           m == merged
           b == Best(m, k)
           q == Shown(b)
<1>1. /\ closed /\ results = <<>> /\ reply' = q /\ UNCHANGED <<req, seen, steady, missing>>
      /\ req.call = "search"
  BY DEF Reply, history, InSearch
<1>2. k \in Nat /\ min \in Nat /\ m \in Seq(Scored)
  BY DEF Typed, InSearch, Busy, Call
<1>3. Collected /\ Covered /\ req.shards # {} /\ AllDone
  BY <1>1 DEF SelectInv, Held, SendInv, Searching, InSearch
<1>4. (\A x : Pooled(x, m, results) <=> Among(x, m)) /\ Distinct(m)
  BY <1>1, <1>2, <1>3, PoolReceived DEF Collected
<1>5. TopOf(b, m, k)
  <2> HIDE DEF k, m
  <2> QED
    BY <1>2, BestIsTop
<1> HIDE DEF b
<1>6. b \in Seq(Scored)
  BY <1>5 DEF TopOf
<1>7. Above(q, b, min)
  BY <1>6, ShownIsAbove
<1> HIDE DEF q
<1>8. /\ Len(b) <= k /\ DOMAIN b = 1 .. Len(b)
      /\ \A i \in 1 .. Len(b) : Among(b[i], m)
      /\ \A i, j \in 1 .. Len(b) : i < j => b[i].score >= b[j].score
      /\ Distinct(b)
  BY <1>4, <1>5, <1>6 DEF TopOf
<1>9. /\ q \in Seq(Scored) /\ Len(q) <= Len(b) /\ DOMAIN q = 1 .. Len(q)
      /\ \A i \in 1 .. Len(q) : Among(q[i], b) /\ q[i].score >= min
      /\ \A i, j \in 1 .. Len(q) : i < j => q[i].score >= q[j].score
      /\ Distinct(q)
  BY <1>7, <1>8 DEF Above
<1>10. \A i \in 1 .. Len(q) : q[i] \in seen /\ q[i].score \in req.filter
  BY <1>3, <1>4, <1>8, <1>9 DEF Collected, Sound, Fits, Among
<1>11. ASSUME NEW r \in steady, Wanted(r)
       PROVE  Among(r, q) \/ (Len(q) = k /\ \A i \in 1 .. Len(q) : q[i].score >= r.score)
  <2>1. Claimed(r) /\ r.score \in Nat /\ r.score >= min
    BY <1>3, <1>11, WantedClaimed, SteadyScored DEF Wanted
  <2>2. \/ Among(r, m)
        \/ \E d : Beating(d, k, r.score) /\ \A i \in 1 .. k : Among(d[i], m)
    BY <1>4, <2>1 DEF Claimed
  <2> HIDE DEF k, m, min
  <2> QED
    BY <1>2, <1>5, <1>7, <2>1, <2>2, WantedShown
<1>12. Replied' = {q[i] : i \in 1 .. Len(q)}
  BY <1>1, <1>9 DEF Replied
<1>13. ReplyIsTopK'
  <2>1. Len(q) <= k /\ \A i, j \in 1 .. Len(q) : i < j => q[i].score >= q[j].score
    <3>1. Len(q) \in Nat /\ Len(b) \in Nat
      BY <1>6, <1>9
    <3> QED
      BY <1>2, <1>8, <1>9, <3>1
  <2>2. ASSUME NEW r \in steady, Wanted(r)
        PROVE  \/ r \in {q[i] : i \in 1 .. Len(q)}
               \/ Len(q) = k /\ \A x \in {q[i] : i \in 1 .. Len(q)} : x.score >= r.score
    BY <1>9, <1>11, <2>2 DEF Among
  <2>3. \A r : Wanted(r)' <=> Wanted(r)
    BY <1>1 DEF Wanted
  <2> QED
    BY <1>1, <1>9, <1>12, <2>1, <2>2, <2>3 DEF ReplyIsTopK
<1>14. ReplyWasStored'
  <2>1. \A i, j \in 1 .. Len(q) : q[i].id = q[j].id => i = j
    BY <1>9 DEF Distinct
  <2>2. \A x \in {q[i] : i \in 1 .. Len(q)} :
          x \in seen /\ x.score \in req.filter /\ x.score >= min
    BY <1>9, <1>10
  <2> QED
    BY <1>1, <1>9, <1>12, <2>1, <2>2 DEF ReplyWasStored
<1> QED
  BY <1>13, <1>14

-----------------------------------------------------------------------------
(***************************************************************************)
(* Steps of others.                                                         *)
(***************************************************************************)
LEMMA HeldQuietly ==
  ASSUME Typed, Remembers, InSearch, Held,
         UNCHANGED <<results, merged, req, worker, missing>>,
         seen \subseteq seen', steady' \subseteq steady
  PROVE  Held'
<1>1. Collected'
  <2>1. \A s \in Shards : (Done(s) => Done(s)') /\ (Done(s)' => Done(s) \/ s \in missing')
    BY DEF Done
  <2> QED
    BY <2>1, CollectedQuietly DEF Held
<1>2. \A s \in Shards : Reading(s)'
  BY ReadingQuietly DEF Held
<1>3. Covered'
  BY DEF Held, Covered
<1> QED
  BY <1>1, <1>2, <1>3 DEF Held

(***************************************************************************)
(* The goroutine of s takes a step that sends nothing; if it ends, s is     *)
(* missing.                                                                 *)
(***************************************************************************)
LEMMA HeldByReader ==
  ASSUME Typed, Remembers, InSearch, Held, NEW s \in Shards,
         worker[s].pc \notin {"none", "done"},
         UNCHANGED <<results, merged, req, seen, steady>>, missing \subseteq missing',
         \A t \in Shards \ {s} : worker'[t] = worker[t],
         Reading(s)', Done(s)' => s \in missing'
  PROVE  Held'
<1>1. Collected'
  <2>1. \A t \in Shards : (Done(t) => Done(t)') /\ (Done(t)' => Done(t) \/ t \in missing')
    BY DEF Done
  <2> QED
    BY <2>1, CollectedQuietly DEF Held
<1>2. ASSUME NEW t \in Shards \ {s} PROVE Reading(t)'
  BY ReadingQuietly DEF Held
<1>3. Covered'
  BY DEF Held, Covered
<1> QED
  BY <1>1, <1>2, <1>3 DEF Held

LEMMA HeldByFail ==
  ASSUME Typed, Remembers, InSearch, Held, NEW s \in Shards,
         worker[s].pc \notin {"none", "done"}, Fail(s)
  PROVE  Held'
<1>1. /\ UNCHANGED <<req, results, merged, seen, steady>>
      /\ worker' = [worker EXCEPT ![s].pc = "done"] /\ missing' = missing \cup {s}
  BY DEF Fail, tally
<1>2. worker'[s].pc = "done" /\ \A t \in Shards \ {s} : worker'[t] = worker[t]
  BY <1>1 DEF Typed, Goroutine
<1>3. Reading(s)'
  BY <1>1, <1>2, ReadingQuietly DEF Held
<1> QED
  BY <1>1, <1>2, <1>3, HeldByReader

LEMMA HeldByWorker ==
  ASSUME Typed, Remembers, InSearch, Held, NEW s \in Shards, WorkerStep(s)
  PROVE  Held'
<1>0. Reading(s)
  BY DEF Held
<1>1. CASE GetAdapter(s)
  <2>1. worker[s].pc = "adapter"
    BY <1>1 DEF GetAdapter, At
  <2>2. CASE Fail(s)
    BY <2>1, <2>2, HeldByFail
  <2>3. CASE worker' = [worker EXCEPT ![s].pc = "ids"] /\ WorkerOnly /\ UNCHANGED missing
    <3>1. UNCHANGED <<req, results, merged, seen, steady, missing>>
      BY <2>3 DEF WorkerOnly, tally
    <3>2. /\ worker'[s].pc = "ids" /\ worker'[s].found = worker[s].found
          /\ \A t \in Shards \ {s} : worker'[t] = worker[t]
      BY <2>3 DEF Typed, Goroutine
    <3>3. Reading(s)'
      BY <1>0, <2>1, <3>1, <3>2, ReadingQuietly
    <3>4. ~Done(s)'
      BY <3>2 DEF Done
    <3> QED
      BY <2>1, <3>1, <3>2, <3>3, <3>4, HeldByReader
  <2> QED
    BY <1>1, <2>2, <2>3 DEF GetAdapter
<1>2. CASE GetAllVectorIDs(s)
  <2>1. worker[s].pc = "ids"
    BY <1>2 DEF GetAllVectorIDs, At
  <2>2. CASE Fail(s)
    BY <2>1, <2>2, HeldByFail
  <2>3. CASE /\ \E o \in SetToSeqs({k \in listed : ShardOf[k] = s}) :
                  worker' = [worker EXCEPT ![s].pc = "vectors", ![s].todo = o]
             /\ WorkerOnly /\ UNCHANGED missing
    <3>1. UNCHANGED <<req, results, merged, seen, steady, missing>>
      BY <2>3 DEF WorkerOnly, tally
    <3>2. PICK o \in SetToSeqs({k \in listed : ShardOf[k] = s}) :
                  worker' = [worker EXCEPT ![s].pc = "vectors", ![s].todo = o]
      BY <2>3
    <3>3. Reading(s)'
      BY <1>0, <2>1, <3>1, <3>2, ListReads
    <3>4. worker'[s].pc = "vectors" /\ \A t \in Shards \ {s} : worker'[t] = worker[t]
      BY <3>2 DEF Typed, Goroutine
    <3>5. ~Done(s)'
      BY <3>4 DEF Done
    <3> QED
      BY <2>1, <3>1, <3>3, <3>4, <3>5, HeldByReader
  <2> QED
    BY <1>2, <2>2, <2>3 DEF GetAllVectorIDs
<1>3. CASE GetVector(s)
  <2>1. /\ worker[s].pc = "vectors" /\ worker[s] \in Goroutine
        /\ UNCHANGED <<req, results, merged, seen, steady>> /\ missing \subseteq missing'
    BY <1>3 DEF GetVector, At, WorkerOnly, tally, Typed
  <2>2. worker'[s].pc = "vectors" /\ \A t \in Shards \ {s} : worker'[t] = worker[t]
    BY <1>3, <2>1 DEF GetVector, Typed, Goroutine
  <2>3. Reading(s)'
    BY <1>0, <1>3, VectorReads
  <2>4. ~Done(s)'
    BY <2>2 DEF Done
  <2> QED
    BY <2>1, <2>2, <2>3, <2>4, HeldByReader
<1>4. CASE SendResults(s)
  <2>1. Collected'
    BY <1>0, <1>4, SendCollects DEF Held
  <2>2. /\ worker[s].pc = "vectors" /\ UNCHANGED <<req, seen, steady, missing>>
        /\ worker' = [worker EXCEPT ![s].pc = "done", ![s].found = <<>>]
    BY <1>4 DEF SendResults, At, history
  <2>3. worker'[s].pc = "done" /\ \A t \in Shards \ {s} : worker'[t] = worker[t]
    BY <2>2 DEF Typed, Goroutine
  <2>4. ASSUME NEW t \in Shards PROVE Reading(t)'
    BY <2>2, <2>3, ReadingQuietly DEF Held
  <2>5. Covered'
    BY <2>2 DEF Held, Covered
  <2> QED
    BY <2>1, <2>4, <2>5 DEF Held
<1> QED
  BY <1>1, <1>2, <1>3, <1>4 DEF WorkerStep

(***************************************************************************)
(* The call begins, and starts its goroutines.                              *)
(***************************************************************************)
LEMMA HeldByRequest ==
  ASSUME Typed, NEW call, Request(call), call = "search"
  PROVE  Held'
<1>1. /\ worker' = Idle /\ results' = <<>> /\ merged' = <<>> /\ missing' = {}
      /\ req'.shards = {} /\ steady' = Findable
  BY DEF Request, Lasting
<1>2. \A s \in Shards : worker'[s].pc = "none"
  BY <1>1 DEF Idle
<1>3. \A x : ~Pooled(x, merged', results')
  <2>1. Len(results') = 0 /\ DOMAIN merged' = {}
    BY <1>1
  <2> QED
    BY <2>1 DEF Pooled, Part, Among
<1>4. Apart(merged, results)'
  <2>1. Len(results') = 0 /\ DOMAIN merged' = {} /\ 0 .. Len(results') = {0}
    BY <1>1
  <2> QED
    BY <2>1 DEF Apart, Part
<1>5. \A r \in steady' : ShardOf[r.id] \in Shards
  BY <1>1, SearchAssumption DEF Findable, Stored, Result
<1>6. Collected'
  BY <1>2, <1>3, <1>4, <1>5 DEF Collected, Sound, Claims, Done
<1>7. \A s \in Shards : Reading(s)'
  BY <1>2 DEF Reading
<1> QED
  BY <1>1, <1>2, <1>6, <1>7 DEF Held, Covered

LEMMA HeldByStart ==
  ASSUME Typed, Remembers, InSearch, Held, NEW fits \in BOOLEAN, StartSearch(fits)
  PROVE  Held'
<1>1. UNCHANGED <<results, merged, seen, steady>> /\ req.shards = {}
  BY DEF StartSearch, tally
<1>2. CASE UNCHANGED <<req, worker, missing>>
  BY <1>1, <1>2, HeldQuietly
<1>3. CASE /\ req' = [req EXCEPT !.shards = active] /\ missing' = Shards \ active /\ active # {}
           /\ worker' = [s \in Shards |->
                           IF s \in active THEN [Idle[s] EXCEPT !.pc = "adapter"] ELSE Idle[s]]
  <2>1. req'.shards = active /\ req'.k = req.k /\ req'.filter = req.filter
    BY <1>3 DEF Typed, Call, InSearch, Busy
  <2>2. missing = {} /\ \A s \in Shards : worker[s].pc = "none"
    BY <1>1 DEF Held, Covered
  <2>3. \A s \in Shards : worker'[s].pc \in {"none", "adapter"} /\ worker'[s].found = <<>>
    BY <1>3 DEF Idle
  <2>4. Collected'
    <3>1. \A s \in Shards : (Done(s) => Done(s)') /\ (Done(s)' => Done(s) \/ s \in missing')
      BY <2>2, <2>3 DEF Done
    <3> QED
      BY <1>1, <2>1, <2>2, <3>1, CollectedQuietly DEF Held
  <2>5. \A s \in Shards : Reading(s)'
    BY <2>3 DEF Reading
  <2>6. Covered'
    BY <1>3, <2>1 DEF Covered
  <2> QED
    BY <2>4, <2>5, <2>6 DEF Held
<1> QED
  BY <1>2, <1>3 DEF StartSearch

(***************************************************************************)
(* An answer ends the call.                                                 *)
(***************************************************************************)
LEMMA ReplyEnds ==
  ASSUME Typed, InSearch, Reply
  PROVE  ~Busy'
<1>1. merged \in Seq(Scored) /\ req.k \in Nat
  BY DEF Typed, InSearch, Busy, Call
<1>2. PICK b : b = Best(merged, req.k) /\ b \in Seq(Scored)
  BY <1>1, BestIsTop DEF TopOf
<1>3. Shown(b) \in Seq(Scored)
  BY <1>2, ShownIsAbove DEF Above
<1>4. reply' = Shown(b)
  BY <1>2 DEF Reply
<1> QED
  BY <1>3, <1>4, SearchAssumption DEF Busy, Scored

LEMMA HeldKept ==
  ASSUME ReadInv, SelectInv, [Next]_vars, InSearch'
  PROVE  Held'
<1>0. Typed /\ Remembers /\ SendInv
  BY DEF ReadInv
<1>1. ASSUME UNCHANGED <<req, reply>> PROVE InSearch /\ Held
  BY <1>1 DEF InSearch, Busy, SelectInv
<1>2. ASSUME NEW call, Request(call) PROVE Held'
  <2>1. call = "search"
    BY <1>2 DEF Request, InSearch
  <2> QED
    BY <1>0, <1>2, <2>1, HeldByRequest
<1>3. ASSUME NEW fits \in BOOLEAN, StartSearch(fits) PROVE Held'
  <2>1. InSearch
    BY <1>3 DEF StartSearch, InSearch
  <2> QED
    BY <1>0, <1>3, <2>1, HeldByStart DEF SelectInv
<1>4. ASSUME NEW exists \in BOOLEAN, StartStats(exists) PROVE Held'
  <2>1. req.call = "stats" /\ req \in Call
    BY <1>0, <1>4 DEF StartStats, Busy, Typed
  <2>2. req'.call = "stats"
    BY <1>4, <2>1 DEF StartStats, Call
  <2> QED
    BY <2>2 DEF InSearch
<1>5. CASE StreamSearch \/ ReplyStats
  BY <1>5 DEF StreamSearch, ReplyStats, InSearch
<1>6. ASSUME NEW s \in Shards, WorkerStep(s) PROVE Held'
  <2>1. InSearch
    BY <1>0, <1>6, ReadersSearch DEF InSearch
  <2> QED
    BY <1>0, <1>6, <2>1, HeldByWorker DEF SelectInv
<1>7. ASSUME NEW s \in Shards, StatsAdapter(s) PROVE Held'
  BY <1>7 DEF StatsAdapter, WorkerOnly, InSearch
<1>8. ASSUME NEW s \in Shards, CountShard(s) PROVE Held'
  <2>1. UNCHANGED <<req, reply>> /\ worker[s].pc = "count"
    BY <1>8 DEF CountShard, At
  <2>2. InSearch
    BY <1>1, <2>1
  <2> QED
    BY <1>0, <2>1, <2>2 DEF SendInv, Searching, InSearch
<1>9. CASE Merge
  <2>1. UNCHANGED <<req, reply, worker, missing, seen, steady>>
    BY <1>9 DEF Merge, history
  <2>2. InSearch /\ Held
    BY <1>1, <2>1
  <2>3. Collected'
    BY <1>0, <1>9, <2>2, MergeCollects DEF Held
  <2>4. \A s \in Shards : Reading(s)'
    BY <2>1, <2>2, ReadingQuietly DEF Held
  <2> QED
    BY <2>1, <2>2, <2>3, <2>4 DEF Held, Covered
<1>10. CASE Reply
  <2>1. InSearch
    BY <1>10 DEF Reply, InSearch
  <2> QED
    BY <1>0, <1>10, <2>1, ReplyEnds DEF InSearch
<1>11. ASSUME UNCHANGED <<results, merged, req, reply, worker, missing>>,
              seen \subseteq seen', steady' \subseteq steady
       PROVE  Held'
  BY <1>0, <1>1, <1>11, HeldQuietly
<1>12. CASE CloseChannels \/ UNCHANGED vars \/ \E s \in Shards : HealthFlip(s)
  BY <1>11, <1>12 DEF CloseChannels, vars, HealthFlip, tally, history
<1>13. ASSUME NEW k \in Ids, Command(k) PROVE Held'
  <2>1. /\ UNCHANGED <<results, merged, req, reply, worker, missing>>
        /\ seen \subseteq seen' /\ steady' \subseteq steady
    BY <1>13 DEF Command, tally
  <2> QED
    BY <1>11, <2>1
<1> QED
  BY <1>2, <1>3, <1>4, <1>5, <1>6, <1>7, <1>8, <1>9, <1>10, <1>12, <1>13 DEF Next

LEMMA SelectInvKept ==
  ASSUME ReadInv, SelectInv, [Next]_vars
  PROVE  SelectInv'
<1>0. Typed /\ Remembers /\ SendInv
  BY DEF ReadInv
<1>1. InSearch' => Held'
  BY HeldKept
<1>2. CASE reply' \in {None, Refused, Ended}
  BY <1>1, <1>2 DEF SelectInv, ReplyIsTopK, ReplyWasStored, Answered, Replies
<1>3. CASE UNCHANGED <<req, reply, seen, steady, missing>>
  BY <1>1, <1>3
     DEF SelectInv, ReplyIsTopK, ReplyWasStored, Answered, Replies, Replied, Wanted
<1>4. CASE Reply /\ Busy
  <2>1. CASE InSearch
    BY <1>0, <1>1, <1>4, <2>1, ReplyStep DEF SelectInv
  <2>2. CASE ~InSearch
    <3>1. req' = req /\ req.call # "search"
      BY <1>4, <2>2 DEF Reply, InSearch
    <3> QED
      BY <1>1, <3>1 DEF SelectInv, ReplyIsTopK, ReplyWasStored, Answered, Replies
  <2> QED
    BY <2>1, <2>2
<1>5. CASE ReplyStats /\ Busy
  <2>1. req' = req /\ req.call = "stats"
    BY <1>5 DEF ReplyStats
  <2> QED
    BY <1>1, <2>1 DEF SelectInv, ReplyIsTopK, ReplyWasStored, Answered, Replies
<1> QED
  BY <1>0, <1>2, <1>3, <1>4, <1>5, AnswersStay

LEMMA SelectInvInitially == Init => SelectInv
BY DEF Init, SelectInv, InSearch, Busy, ReplyIsTopK, ReplyWasStored, Answered, Replies

(***************************************************************************)
(* Whatever the shards, the vectors and their scores, and whatever is       *)
(* written or fails while the goroutines read: the answer of Search is in   *)
(* order, not longer than asked for, and a vector that was there all the    *)
(* time on a shard that answered is in it or beaten by a full answer        *)
(* (QuickSelectResults and SortResultsByScore, on a shard and on all).      *)
(***************************************************************************)
THEOREM RepliesAreTopK == Spec => []ReplyIsTopK
<1>1. Init => ReadInv /\ SelectInv
  BY ReadInvInitially, SelectInvInitially
<1>2. ReadInv /\ SelectInv /\ [Next]_vars => (ReadInv /\ SelectInv)'
  BY ReadInvKept, SelectInvKept
<1>3. SelectInv => ReplyIsTopK
  BY DEF SelectInv
<1> QED
  BY <1>1, <1>2, <1>3, PTL DEF Spec

(***************************************************************************)
(* And every result is a vector that the filter and min_score accept and    *)
(* that was stored with that score at some time during the search, none     *)
(* twice (SearchVectors' ids and GETs, and the merge of the shards).       *)
(***************************************************************************)
THEOREM RepliesWereStored == Spec => []ReplyWasStored
<1>1. Init => ReadInv /\ SelectInv
  BY ReadInvInitially, SelectInvInitially
<1>2. ReadInv /\ SelectInv /\ [Next]_vars => (ReadInv /\ SelectInv)'
  BY ReadInvKept, SelectInvKept
<1>3. SelectInv => ReplyWasStored
  BY DEF SelectInv
<1> QED
  BY <1>1, <1>2, <1>3, PTL DEF Spec
=============================================================================
