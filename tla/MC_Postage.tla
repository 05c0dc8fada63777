----------------------------- MODULE MC_Postage -----------------------------
(* Instances of Postage for TLC. *)
EXTENDS Postage

\* Every burn passes the static checks; a spent coin is refused all the same.
MCGenuine == BurnCoins
=============================================================================
