----------------------------- MODULE SeqFilter -----------------------------
(***************************************************************************)
(* The loop that appends what passes a test to a new slice: RemoveNode,     *)
(* BatchStoreVectors and Search (the test of min_score) each contain one.   *)
(***************************************************************************)
EXTENDS Naturals, Sequences

(***************************************************************************)
(* The elements of s that belong to S, in their order.                      *)
(***************************************************************************)
Filter(s, S) ==
  LET kept[n \in 0 .. Len(s)] ==
        IF n = 0 THEN <<>>
        ELSE IF s[n] \in S THEN Append(kept[n - 1], s[n]) ELSE kept[n - 1]
  IN  kept[Len(s)]
=============================================================================
