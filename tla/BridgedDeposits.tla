--------------------------- MODULE BridgedDeposits ---------------------------
(***************************************************************************)
(* What the bridge promises about a deposit (docs/SPEC.md III.7), with     *)
(* nothing of how the authorizer keeps the promise: the locked coins go    *)
(* back, or, irrevocably confirmed, they are minted on eCash once.  No     *)
(* deposit is ever both refunded and mintable.                             *)
(***************************************************************************)
CONSTANT Deposits

VARIABLE stage  \* deposit -> how far it got

Stages == {"unknown", "pending", "refunded", "confirmed", "mintable", "minted"}

TypeOK == stage \in [Deposits -> Stages]

Init == stage = [d \in Deposits |-> "unknown"]

Move(d, from, to) == stage[d] = from /\ stage' = [stage EXCEPT ![d] = to]

Lock(d)    == Move(d, "unknown", "pending")
Refund(d)  == Move(d, "pending", "refunded")
Confirm(d) == Move(d, "pending", "confirmed")
Fund(d)    == Move(d, "confirmed", "mintable")
Mint(d)    == Move(d, "mintable", "minted")

Next == \E d \in Deposits : Lock(d) \/ Refund(d) \/ Confirm(d) \/ Fund(d) \/ Mint(d)

Spec == Init /\ [][Next]_stage
=============================================================================
