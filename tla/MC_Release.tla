------------------------------ MODULE MC_Release ------------------------------
(***************************************************************************)
(* Withdrawal and Inclusion, one instance for TLC: the burn that release() *)
(* pays for, and the proof that it was mined.  They share no variable; one *)
(* moves while the other has not begun, which loses no state of either.    *)
(***************************************************************************)
EXTENDS MC_Withdrawal, Inclusion

MCHeaders == [exponent : 0..6, mantissa : 0..7, hash : {0, 1, 2, 5, 6, 12}]
MCPlainHeader == [exponent |-> 3, mantissa |-> 3, hash |-> 1]

MCInit == Init /\ InclusionInit
MCSpec ==
    /\ MCInit
    /\ [][\/ txs = << >> /\ Next /\ UNCHANGED inclusionVars
          \/ claims = [c \in Coins |-> None] /\ InclusionNext /\ UNCHANGED vars
         ]_<<vars, inclusionVars>>
=============================================================================
