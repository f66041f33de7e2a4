--------------------------- MODULE ReplicationLog ---------------------------
(***************************************************************************)
(* The replication log of internal/replication/manager.go: a slice that is  *)
(* appended to under its own mutex, cut from the front when it outgrows     *)
(* LogCap, and read by GetReplicationLog.  ReplicationManager keeps only    *)
(* its length; here an entry is the ordinal number of the logReplication    *)
(* call that made it, so that which entries survive can be told.            *)
(***************************************************************************)
EXTENDS Integers, Sequences

CONSTANTS
  LogCap,     \* 10000 in the code
  LogTrim,    \* 5000 in the code
  MaxLogged,  \* bound on the number of entries ever logged
  Limits      \* the limits readers ask for

ASSUME LogAssumption ==
  /\ LogCap \in Nat /\ LogTrim \in 1 .. LogCap + 1
  /\ MaxLogged \in Nat /\ Limits \subseteq Int

VARIABLES
  entries,  \* m.replicationLog.entries
  logged,   \* number of logReplication calls so far
  reply     \* the slice the last GetReplicationLog returned, with its limit

vars == <<entries, logged, reply>>

NoReply == [limit |-> 0, at |-> 0, result |-> <<>>]

Init == entries = <<>> /\ logged = 0 /\ reply = NoReply

(***************************************************************************)
(* entries[5000:], when there are more than 10000.                          *)
(***************************************************************************)
Cut_TheTail(s) == IF Len(s) > LogCap THEN SubSeq(s, 1, Len(s) - LogTrim) ELSE s
Cut(s) == IF Len(s) > LogCap THEN SubSeq(s, LogTrim + 1, Len(s)) ELSE s

logReplication ==
  /\ logged < MaxLogged
  /\ logged' = logged + 1
  /\ entries' = Cut(Append(entries, logged + 1))
  /\ UNCHANGED reply

(***************************************************************************)
(* The last limit entries; all of them for a limit that is not positive or  *)
(* too large.                                                               *)
(***************************************************************************)
Effective_ZeroIsNone(limit) == IF limit > Len(entries) THEN Len(entries) ELSE limit
Effective(limit) ==
  IF limit <= 0 \/ limit > Len(entries) THEN Len(entries) ELSE limit

GetReplicationLog(limit) ==
  LET n     == Effective(limit)
      start == Len(entries) - n
  IN  /\ reply' = [limit |-> limit, at |-> logged,
                   result |-> SubSeq(entries, start + 1, Len(entries))]
      /\ UNCHANGED <<entries, logged>>

Next == logReplication \/ \E limit \in Limits : GetReplicationLog(limit)

Spec == Init /\ [][Next]_vars

-----------------------------------------------------------------------------
(***************************************************************************)
(* The log holds the most recent entries, all of them and in order, and     *)
(* nothing is lost but what the cut is meant to lose: never fewer than      *)
(* LogCap + 1 - LogTrim entries once that many were logged, never more than *)
(* LogCap (logReplication).                                                 *)
(***************************************************************************)
RecentEntriesKept ==
  /\ entries \in Seq(Nat) /\ logged \in Nat
  /\ Len(entries) <= LogCap /\ Len(entries) <= logged
  /\ \/ Len(entries) = logged
     \/ Len(entries) >= LogCap + 1 - LogTrim
  /\ \A i \in 1 .. Len(entries) : entries[i] = logged - Len(entries) + i

(***************************************************************************)
(* A reply of GetReplicationLog ends with the entry that was the latest     *)
(* when it was read, is consecutive, and has at most the length asked for   *)
(* when the limit is positive.                                              *)
(***************************************************************************)
ReplyIsLatest ==
  LET r == reply.result
  IN  /\ reply.limit > 0 => Len(r) <= reply.limit
      /\ Len(r) <= LogCap
      /\ reply.at > 0 /\ LogTrim <= LogCap => Len(r) > 0
      /\ \A i \in 1 .. Len(r) : r[i] = reply.at - Len(r) + i
=============================================================================
