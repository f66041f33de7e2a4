----------------------- MODULE ReplicationLog_proofs -----------------------
(***************************************************************************)
(* The replication log keeps exactly the most recent entries, for every     *)
(* capacity and every cut up to the capacity plus one.                      *)
(***************************************************************************)
EXTENDS ReplicationLog, SequenceTheorems, TLAPS

(***************************************************************************)
(* Appending the next entry and cutting keeps the log the suffix of         *)
(* everything logged (logReplication).                                      *)
(***************************************************************************)
LEMMA AppendAndCut ==
  ASSUME RecentEntriesKept, logReplication
  PROVE  RecentEntriesKept'
<1> DEFINE e == Append(entries, logged + 1)
<1>1. /\ entries \in Seq(Nat) /\ logged \in Nat /\ logged' = logged + 1
      /\ Len(entries) <= LogCap /\ Len(entries) <= logged
      /\ Len(entries) = logged \/ Len(entries) >= LogCap + 1 - LogTrim
      /\ LogCap \in Nat /\ LogTrim \in 1 .. LogCap + 1
  BY LogAssumption DEF RecentEntriesKept, logReplication
<1>2. /\ e \in Seq(Nat) /\ Len(e) = Len(entries) + 1
      /\ \A i \in 1 .. Len(e) : e[i] = logged' - Len(e) + i
  BY <1>1 DEF RecentEntriesKept
<1>3. entries' = Cut(e)
  BY DEF logReplication
<1> HIDE DEF e
<1>4. CASE Len(e) > LogCap
  <2>1. Len(e) = LogCap + 1 /\ LogTrim + 1 <= Len(e) + 1
    BY <1>1, <1>2, <1>4
  <2>2. entries' = SubSeq(e, LogTrim + 1, Len(e))
    BY <1>3, <1>4 DEF Cut
  <2> DEFINE m == LogTrim + 1
             n == Len(e)
  <2>3. m \in Int /\ n \in Int /\ m <= n + 1 /\ m >= 1 /\ n - m + 1 = n - LogTrim
    BY <1>1, <2>1
  <2>4. \A i \in m .. n : e[i] \in Nat
    <3> TAKE i \in m .. n
    <3>1. i \in 1 .. Len(e)
      BY <2>3
    <3> QED
      BY <1>2, <3>1
  <2>5. /\ SubSeq(e, m, n) \in Seq(Nat) /\ Len(SubSeq(e, m, n)) = n - LogTrim
        /\ \A i \in 1 .. n - LogTrim : SubSeq(e, m, n)[i] = e[m + i - 1]
    <3> HIDE DEF m, n
    <3>1. /\ SubSeq(e, m, n) \in Seq(Nat)
          /\ Len(SubSeq(e, m, n)) = IF m <= n THEN n - m + 1 ELSE 0
          /\ \A i \in 1 .. n - m + 1 : SubSeq(e, m, n)[i] = e[m + i - 1]
      BY <2>3, <2>4, SubSeqProperties
    <3> QED
      BY <1>1, <2>3, <3>1
  <2>6. entries' \in Seq(Nat) /\ Len(entries') = Len(e) - LogTrim
    BY <2>2, <2>5
  <2>7. \A i \in 1 .. Len(entries') : entries'[i] = e[LogTrim + i]
    <3> TAKE i \in 1 .. Len(entries')
    <3>1. LogTrim + i = m + i - 1
      BY <1>1, <1>2, <2>6
    <3>2. entries' = SubSeq(e, m, n) /\ i \in 1 .. n - LogTrim
      BY <2>2, <2>6
    <3> HIDE DEF m, n
    <3> QED
      BY <2>5, <3>1, <3>2
  <2> HIDE DEF m, n
  <2>8. \A i \in 1 .. Len(entries') : entries'[i] = logged' - Len(entries') + i
    <3> TAKE i \in 1 .. Len(entries')
    <3>1. LogTrim + i \in 1 .. Len(e) /\ i \in Int /\ LogTrim \in Int
      BY <1>1, <1>2, <2>1, <2>6
    <3>2. e[LogTrim + i] = logged' - Len(e) + (LogTrim + i)
      BY <1>2, <3>1
    <3> QED
      BY <1>1, <1>2, <2>6, <2>7, <3>1, <3>2
  <2> QED
    BY <1>1, <1>2, <2>1, <2>6, <2>8 DEF RecentEntriesKept
<1>5. CASE ~(Len(e) > LogCap)
  <2>1. entries' = e
    BY <1>3, <1>5 DEF Cut
  <2> QED
    <3>1. Len(e) <= LogCap /\ Len(e) <= logged'
      BY <1>1, <1>2, <1>5
    <3>2. Len(e) = logged' \/ Len(e) >= LogCap + 1 - LogTrim
      BY <1>1, <1>2
    <3>3. logged' \in Nat
      BY <1>1
    <3> QED
      BY <1>2, <2>1, <3>1, <3>2, <3>3 DEF RecentEntriesKept
<1> QED
  BY <1>4, <1>5

(***************************************************************************)
(* RecentEntriesKept is an invariant of the log.                            *)
(***************************************************************************)
THEOREM LogKeepsRecent == Spec => []RecentEntriesKept
<1>1. Init => RecentEntriesKept
  BY LogAssumption DEF Init, RecentEntriesKept
<1>2. RecentEntriesKept /\ [Next]_vars => RecentEntriesKept'
  <2> SUFFICES ASSUME RecentEntriesKept, [Next]_vars PROVE RecentEntriesKept'
    OBVIOUS
  <2>1. CASE logReplication
    BY <2>1, AppendAndCut
  <2>2. ASSUME NEW limit \in Limits, GetReplicationLog(limit) PROVE RecentEntriesKept'
    BY <2>2 DEF GetReplicationLog, RecentEntriesKept
  <2>3. CASE UNCHANGED vars
    BY <2>3 DEF vars, RecentEntriesKept
  <2> QED
    BY <2>1, <2>2, <2>3 DEF Next
<1> QED
  BY <1>1, <1>2, PTL DEF Spec

(***************************************************************************)
(* The last entries of a log that is a suffix of everything logged are the  *)
(* latest ones (GetReplicationLog).                                         *)
(***************************************************************************)
LEMMA ReadLatest ==
  ASSUME RecentEntriesKept, NEW limit \in Limits, GetReplicationLog(limit)
  PROVE  ReplyIsLatest'
<1> DEFINE m == Len(entries) - Effective(limit) + 1
           n == Len(entries)
           r == SubSeq(entries, m, n)
<1>1. /\ entries \in Seq(Nat) /\ logged \in Nat /\ n \in Nat
      /\ n <= LogCap /\ n <= logged /\ (n = logged \/ n >= LogCap + 1 - LogTrim)
      /\ \A i \in 1 .. n : entries[i] = logged - n + i
      /\ LogCap \in Nat /\ LogTrim \in 1 .. LogCap + 1 /\ limit \in Int
  BY LogAssumption DEF RecentEntriesKept
<1>2. /\ Effective(limit) \in 0 .. n
      /\ limit > 0 => Effective(limit) <= limit
      /\ n > 0 => Effective(limit) > 0
  BY <1>1 DEF Effective
<1>3. m \in Int /\ n \in Int /\ m >= 1 /\ m <= n + 1 /\ n - m + 1 = Effective(limit)
  BY <1>1, <1>2
<1>4. reply' = [limit |-> limit, at |-> logged, result |-> r]
  BY DEF GetReplicationLog
<1>5. Len(r) = Effective(limit) /\ \A i \in 1 .. Len(r) : r[i] = entries[m + i - 1]
  <2>1. \A i \in m .. n : i \in 1 .. n
    BY <1>1, <1>3
  <2>2. \A i \in m .. n : entries[i] \in Nat
    BY <1>1, <2>1
  <2> HIDE DEF m, n
  <2>3. /\ Len(SubSeq(entries, m, n)) = IF m <= n THEN n - m + 1 ELSE 0
        /\ \A i \in 1 .. n - m + 1 : SubSeq(entries, m, n)[i] = entries[m + i - 1]
    BY <1>3, <2>2, SubSeqProperties
  <2>4. Len(SubSeq(entries, m, n)) = n - m + 1
    BY <1>3, <2>3
  <2> QED
    BY <1>3, <2>3, <2>4
<1> HIDE DEF m, n, r
<1>6. \A i \in 1 .. Len(r) : r[i] = logged - Len(r) + i
  <2> TAKE i \in 1 .. Len(r)
  <2>1. i \in Int /\ i >= 1 /\ i <= Len(r) /\ Len(r) \in 0 .. n
    BY <1>1, <1>2, <1>5
  <2>2. m + i - 1 \in 1 .. n /\ m + i - 1 = n - Len(r) + i
    BY <1>3, <1>5, <2>1
  <2>3. r[i] = entries[m + i - 1]
    BY <1>5
  <2>4. entries[m + i - 1] = logged - n + (m + i - 1)
    BY <1>1, <2>2
  <2> QED
    BY <1>1, <2>1, <2>2, <2>3, <2>4
<1>7. logged > 0 /\ LogTrim <= LogCap => Len(r) > 0
  BY <1>1, <1>2, <1>5
<1> QED
  <2>1. Len(r) <= LogCap /\ (limit > 0 => Len(r) <= limit)
    BY <1>1, <1>2, <1>5
  <2> QED
    BY <1>4, <1>6, <1>7, <2>1 DEF ReplyIsLatest

(***************************************************************************)
(* Readers get the latest entries, consecutive and no more than they asked  *)
(* for (GetReplicationLog).                                                 *)
(***************************************************************************)
THEOREM RepliesAreLatest == Spec => []ReplyIsLatest
<1>1. Init => ReplyIsLatest
  BY LogAssumption DEF Init, NoReply, ReplyIsLatest
<1>2. RecentEntriesKept /\ ReplyIsLatest /\ [Next]_vars => ReplyIsLatest'
  <2> SUFFICES ASSUME RecentEntriesKept, ReplyIsLatest, [Next]_vars PROVE ReplyIsLatest'
    OBVIOUS
  <2>1. CASE logReplication \/ UNCHANGED vars
    <3>1. reply' = reply
      BY <2>1 DEF logReplication, vars
    <3> QED
      BY <3>1 DEF ReplyIsLatest
  <2>2. ASSUME NEW limit \in Limits, GetReplicationLog(limit) PROVE ReplyIsLatest'
    BY <2>2, ReadLatest
  <2> QED
    BY <2>1, <2>2 DEF Next
<1> QED
  BY <1>1, <1>2, LogKeepsRecent, PTL DEF Spec
=============================================================================
