------------------------------- MODULE MCSPB -------------------------------
(***************************************************************************)
(* SPB on small committees.  The nodes that are neither the proposer nor  *)
(* in Retry do the same things and may be exchanged.                      *)
(***************************************************************************)
EXTENDS SPB, TLC

Replicas == Permutations(Active \ ({Proposer} \cup Retry))

=============================================================================
