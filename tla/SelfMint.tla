------------------------------- MODULE SelfMint -------------------------------
(***************************************************************************)
(* Minting, by either covenant: the vault's coins are locked with one of   *)
(* them.  Nothing else happens while a node decides a spend.               *)
(***************************************************************************)
EXTENDS MintCovenant, OracleMint

vars == <<mintVars, oracleVars, machineVars>>

Init == MachineInit /\ MintInit /\ OracleInit

Next ==
    \/ verdict = "idle" /\ MintNext /\ UNCHANGED oracleVars
    \/ verdict = "idle" /\ OracleNext /\ UNCHANGED mintVars
    \/ runCovenant /\ UNCHANGED <<mintVars, oracleVars>>

\* A node that is given a spend decides it.
Spec == Init /\ [][Next]_vars /\ WF_vars(runCovenant /\ UNCHANGED <<mintVars, oracleVars>>)
=============================================================================
