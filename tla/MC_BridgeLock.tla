---------------------------- MODULE MC_BridgeLock ----------------------------
(* Instances of BridgeLock for TLC. *)
EXTENDS BridgeLock, TLC

MCNonces == {}
Symmetric == Permutations(Deposits) \cup Permutations(Burns) \cup Permutations(Stamps)
=============================================================================
