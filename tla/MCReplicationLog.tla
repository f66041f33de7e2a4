-------------------------- MODULE MCReplicationLog --------------------------
(***************************************************************************)
(* A log of six entries that is cut by three, and limits below zero, zero,  *)
(* within the log, at its capacity and beyond it.                           *)
(***************************************************************************)
EXTENDS ReplicationLog

mcLimits == {-1, 0, 1, 3, 6, 7}
=============================================================================
