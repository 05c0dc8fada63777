----------------------------- MODULE MC_Headroom -----------------------------
(* Instances of Headroom for TLC. *)
EXTENDS Headroom, TLC

Symmetric == Permutations(Deposits) \cup Permutations(Burns) \cup Permutations(Issuances)
=============================================================================
