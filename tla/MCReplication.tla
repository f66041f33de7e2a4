--------------------------- MODULE MCReplication ---------------------------
(***************************************************************************)
(* Small instances of ReplicationManager.                                   *)
(***************************************************************************)
EXTENDS ReplicationManager, FiniteSets, TLC

CONSTANTS a1, a2

TwoReplicas == <<a1, a2>>
Repeated    == <<a1, a2, a1>>

OneShard == [k \in Keys |-> 0]

CallerSymmetry == Permutations(Callers)
=============================================================================
