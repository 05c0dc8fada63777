----------------------------- MODULE BridgedBurns -----------------------------
(***************************************************************************)
(* What the bridge promises about a withdrawal (docs/SPEC.md IV), with    *)
(* nothing of its signatures and checks: a coin of wrapped tokens is held  *)
(* for one burn, and for a coin that is held its owner is paid on the      *)
(* other chain, at most once and for no more than the coin was worth.      *)
(***************************************************************************)
EXTENDS Naturals

CONSTANTS Coins, Owner, Worth, None

VARIABLES
    held,      \* the coins a burn was accepted of
    payment    \* coin -> whom its burn paid, and for how much, None before

burnVars == <<held, payment>>

Init == held = {} /\ payment = [c \in Coins |-> None]

Hold(c) ==
    /\ c \notin held
    /\ held' = held \cup {c}
    /\ UNCHANGED payment

Pay(c) ==
    /\ c \in held /\ payment[c] = None
    /\ \E quantity \in 0..Worth[c] :
          payment' = [payment EXCEPT ![c] = [to |-> Owner[c], quantity |-> quantity]]
    /\ UNCHANGED held

Next == \E c \in Coins : Hold(c) \/ Pay(c)

Spec == Init /\ [][Next]_burnVars
=============================================================================
