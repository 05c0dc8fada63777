------------------------- MODULE MC_DepositPipeline -------------------------
(* Instances of DepositPipeline for TLC. *)
EXTENDS DepositPipeline, TLC

MCNonces == 0..3
Symmetric == Permutations(Deposits)
=============================================================================
