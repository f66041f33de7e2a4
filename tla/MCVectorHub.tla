---------------------------- MODULE MCVectorHub ----------------------------
(***************************************************************************)
(* Two shards, one of them flaky, and calls of every kind.                  *)
(***************************************************************************)
EXTENDS VectorHub

CONSTANTS s1, s2, c1, c2

AnyKind == [c \in Calls |-> Kinds]
=============================================================================
