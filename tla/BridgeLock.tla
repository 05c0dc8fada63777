------------------------------ MODULE BridgeLock ------------------------------
(***************************************************************************)
(* The amounts of BridgeLock.sol: what it takes in, mints an authorization *)
(* for, pays back and pays out, between a token and a wrapped token of     *)
(* different precision.  Module Ledgers has the life of a deposit; here    *)
(* every one of its contract actions also moves the amounts.               *)
(*                                                                         *)
(* The signatures are whatever the authorizer key ever signed, several for *)
(* one deposit or outpoint included; a burn may be stamped more than once. *)
(* What release() cannot check it takes on trust, and so does this module: *)
(* wrapped tokens are minted for confirmed deposits only (DepositPipeline, *)
(* MintBacked) and stamps are given to burns of wrapped tokens only.       *)
(***************************************************************************)
EXTENDS Ledgers, Functions

CONSTANTS
    Received,      \* the amounts deposit() may receive
    FeeAmount,     \* feeAmount, in token units
    Scale,         \* scale
    XecHasMorePrecision,
    Uint64Max,     \* 2^64 - 1
    Uint96Max,     \* 2^96 - 1
    Burns,         \* the burnt coins: release()'s input 0
    Stamps         \* the postage coins: release()'s input 1

FeeAmountXec == IF XecHasMorePrecision THEN FeeAmount * Scale ELSE FeeAmount \div Scale

\* What the constructor checks of its parameters.
ASSUME BridgeLockAssumption ==
    /\ IsFiniteSet(Deposits) /\ IsFiniteSet(Burns)   \* ids are 32-byte hashes
    /\ Received \subseteq Nat
    /\ FeeAmount \in Nat /\ Scale \in Nat \ {0} /\ Uint64Max \in Nat /\ Uint96Max \in Nat
    /\ XecHasMorePrecision \in BOOLEAN
    /\ FeeAmount > 0 => FeeAmountXec > 0
    /\ FeeAmountXec < Uint64Max
    /\ None \notin Burns /\ None \notin Stamps

VARIABLES
    netAmount,        \* deposit -> Deposit.netAmount
    balance,          \* token.balanceOf(the contract)
    pendingXecDust,
    collectedDust,
    stampConsumedBy,  \* stampUtxoConsumedBy: stamp -> the burn released with it
    burnConsumedBy,   \* burnUtxoConsumedBy: burn -> the stamp it was released with
    burnt,            \* eCash: burn -> the quantity it burnt, 0 before
    stamped           \* the <<burn, stamp>> pairs the authorizer signed

amountVars   == <<netAmount, balance, pendingXecDust, collectedDust>>
withdrawVars == <<stampConsumedBy, burnConsumedBy>>
burnVars     == <<burnt, stamped>>
vars         == <<ledgerVars, amountVars, withdrawVars, burnVars>>

XecAmount(net) == IF XecHasMorePrecision THEN net * Scale ELSE net \div Scale

TypeOK ==
    /\ LedgersTypeOK
    /\ netAmount \in [Deposits -> Nat]
    /\ balance \in Nat /\ pendingXecDust \in Nat /\ collectedDust \in Nat
    /\ stampConsumedBy \in [Stamps -> Burns \cup {None}]
    /\ burnConsumedBy \in [Burns -> Stamps \cup {None}]
    /\ burnt \in [Burns -> Nat]
    /\ stamped \subseteq Burns \X Stamps

Init ==
    /\ LedgersInit
    /\ netAmount = [d \in Deposits |-> 0]
    /\ balance = 0 /\ pendingXecDust = 0 /\ collectedDust = 0
    /\ stampConsumedBy = [s \in Stamps |-> None]
    /\ burnConsumedBy = [b \in Burns |-> None]
    /\ burnt = [b \in Burns |-> 0]
    /\ stamped = {}

-----------------------------------------------------------------------------
(* Deposits *)

\* A token that takes a fee on transfers is received short; the fee is kept out of net.
Deposit(d, received) ==
    /\ received > FeeAmount
    /\ received - FeeAmount <= Uint96Max
    /\ Lock(d)
    /\ netAmount' = [netAmount EXCEPT ![d] = received - FeeAmount]
    /\ balance' = balance + received
    /\ UNCHANGED <<xecVars, pendingXecDust, collectedDust, withdrawVars, burnVars>>

RefundWithoutFee(d) == netAmount[d]   \* faulty
RefundAmount(d) == netAmount[d] + FeeAmount

RefundDeposit(d) ==
    /\ Refund(d)
    /\ balance >= RefundAmount(d)
    /\ balance' = balance - RefundAmount(d)
    /\ UNCHANGED <<xecVars, netAmount, pendingXecDust, collectedDust, withdrawVars, burnVars>>

\* The rest of confirmDeposit()'s division is the contract's from here on.
DepositDust(net) == IF XecHasMorePrecision THEN 0 ELSE net % Scale

ConfirmDeposit(d, o) ==
    /\ XecAmount(netAmount[d]) \in 1..Uint64Max
    /\ ConfirmByAnyone(d, o)
    /\ collectedDust' = collectedDust + DepositDust(netAmount[d])
    /\ UNCHANGED <<xecVars, netAmount, balance, pendingXecDust, withdrawVars, burnVars>>

RefundSignal(d) ==
    /\ RequestRefund(d) \/ CancelRefundRequest(d)
    /\ UNCHANGED <<xecVars, amountVars, withdrawVars, burnVars>>

-----------------------------------------------------------------------------
(* Withdrawals *)

ReleaseWithFee(q) == IF XecHasMorePrecision THEN q \div Scale ELSE q * Scale   \* faulty

\* What release() pays for a burn, and the rest it banks, in wrapped units.
ReleaseAmount(q) ==
    IF XecHasMorePrecision THEN (q - FeeAmountXec) \div Scale ELSE (q - FeeAmountXec) * Scale

ReleaseDust(q) == IF XecHasMorePrecision THEN (q - FeeAmountXec) % Scale ELSE 0

\* The token units that banked dust adds up to.
WholeDust(dust) == IF dust >= Scale THEN dust \div Scale ELSE 0

\* Neither half of the pair was used before.
UnreleasedStamp(b, s) == stampConsumedBy[s] = None   \* faulty
Unreleased(b, s) == stampConsumedBy[s] = None /\ burnConsumedBy[b] = None

\* A zero payout and a payout the balance does not cover revert the whole call.
Release(b, s) ==
    LET dust == pendingXecDust + ReleaseDust(burnt[b]) IN
    /\ <<b, s>> \in stamped
    /\ Unreleased(b, s)
    /\ burnt[b] > FeeAmountXec
    /\ ReleaseAmount(burnt[b]) # 0
    /\ balance >= ReleaseAmount(burnt[b])
    /\ NewBlock
    /\ stampConsumedBy' = [stampConsumedBy EXCEPT ![s] = b]
    /\ burnConsumedBy' = [burnConsumedBy EXCEPT ![b] = s]
    /\ balance' = balance - ReleaseAmount(burnt[b])
    /\ pendingXecDust' = dust - WholeDust(dust) * Scale
    /\ collectedDust' = collectedDust + WholeDust(dust)
    /\ UNCHANGED <<contractVars, txs, published, xecVars, netAmount, burnVars>>

-----------------------------------------------------------------------------
(* The authorizer's key and eCash *)

Sign(d, o) ==
    /\ published' = published \cup {<<d, o>>}
    /\ UNCHANGED <<height, contractVars, txs, xecVars, amountVars, withdrawVars, burnVars>>

MintWrapped(d, o) ==
    /\ consumedBy[o] = d
    /\ \A m \in minted : m[2] # o
    /\ minted' = minted \cup {<<d, o>>}
    /\ UNCHANGED <<ethVars, vaults, amountVars, withdrawVars, burnVars>>

Supply == SumFunction([m \in minted |-> XecAmount(netAmount[m[1]])]) - SumFunction(burnt)

Burn(b, s, q) ==
    /\ burnt[b] = 0
    /\ q <= Supply
    /\ burnt' = [burnt EXCEPT ![b] = q]
    /\ stamped' = stamped \cup {<<b, s>>}
    /\ UNCHANGED <<ledgerVars, amountVars, withdrawVars>>

\* A second stamp for the same burn: a retry, or a race of two requests.
Restamp(b, s) ==
    /\ burnt[b] # 0
    /\ stamped' = stamped \cup {<<b, s>>}
    /\ UNCHANGED <<ledgerVars, amountVars, withdrawVars, burnt>>

Next ==
    \/ \E d \in Deposits : \/ \E r \in Received : Deposit(d, r)
                           \/ RefundSignal(d) \/ RefundDeposit(d)
                           \/ \E o \in Outpoints : ConfirmDeposit(d, o) \/ Sign(d, o) \/ MintWrapped(d, o)
    \/ \E b \in Burns, s \in Stamps :
          Release(b, s) \/ Restamp(b, s) \/ \E q \in 1..Uint64Max : Burn(b, s, q)

Spec == Init /\ [][Next]_vars

-----------------------------------------------------------------------------
(* Where the balance belongs, in the units of the more precise side *)

TokenUnit == IF XecHasMorePrecision THEN Scale ELSE 1
XecUnit   == IF XecHasMorePrecision THEN 1 ELSE Scale

\* Held against a deposit: all of it until it is resolved, then what backs its
\* wrapped tokens, and the fee.
Held(d) ==
    CASE status[d] = "pending"   -> (netAmount[d] + FeeAmount) * TokenUnit
      [] status[d] = "confirmed" -> XecAmount(netAmount[d]) * XecUnit + FeeAmount * TokenUnit
      [] OTHER                   -> 0

\* Given up for a burn, once it is released: the fee stays.
Redeemed(b) == IF burnConsumedBy[b] = None THEN 0 ELSE (burnt[b] - FeeAmountXec) * XecUnit

Dust == collectedDust * TokenUnit + pendingXecDust

\* SPEC.md VI, "Dust is conserved, not confiscated": to the last unit, the balance is
\* what is held for the deposits less what was redeemed, and the dust.
Conservation ==
    balance * TokenUnit =
        SumFunction([d \in Deposits |-> Held(d)]) - SumFunction([b \in Burns |-> Redeemed(b)]) + Dust

\* What a refund and a release still to come would take.
Owed(d) == IF status[d] = "pending" THEN netAmount[d] + FeeAmount ELSE 0
Due(b) == IF burnConsumedBy[b] = None /\ burnt[b] > FeeAmountXec THEN ReleaseAmount(burnt[b]) ELSE 0

\* Whatever was refunded and released before, the balance covers every refund and every
\* stamped burn still to come, at once.
Payable ==
    balance >= SumFunction([d \in Deposits |-> Owed(d)]) + SumFunction([b \in Burns |-> Due(b)])

\* BridgeLock.sol, burnUtxoConsumedBy: however many stamps a burn obtained, and however
\* it is resubmitted, a burn and a stamp back one release, each other's.
OneRelease ==
    /\ \A b \in Burns : burnConsumedBy[b] # None => stampConsumedBy[burnConsumedBy[b]] = b
    /\ \A s \in Stamps : stampConsumedBy[s] # None => burnConsumedBy[stampConsumedBy[s]] = s

\* Dust that makes up a whole token unit is counted as revenue at once, never banked.
DustBelowUnit == pendingXecDust < TokenUnit

\* BridgeLock.sol, confirmDeposit: whatever outpoints the authorizer key signed for a
\* deposit, and whoever submits them, one of them at most mints its wrapped tokens.
OneAuthorization ==
    \A o, p \in Outpoints : consumedBy[o] # None /\ consumedBy[o] = consumedBy[p] => o = p

\* Every step moves the claim of one deposit or of one burn at most, and what it adds to
\* the balance, less what it makes dust, is just the change of that claim.
OnlyMoves(ds, bs) ==
    /\ \A d \in Deposits \ ds : Held(d)' = Held(d)
    /\ \A b \in Burns \ bs : Redeemed(b)' = Redeemed(b)
Change == (balance' - balance) * TokenUnit - (Dust' - Dust)
StepBalances ==
    \/ Change = 0 /\ OnlyMoves({}, {})
    \/ \E d \in Deposits : Change = Held(d)' - Held(d) /\ OnlyMoves({d}, {})
    \/ \E b \in Burns : Change = Redeemed(b) - Redeemed(b)' /\ OnlyMoves({}, {b})
Balances == [][StepBalances]_vars

-----------------------------------------------------------------------------
(* The strengthening that every step preserves. *)

\* A request in force is the last event of its deposit.
RequestInv ==
    /\ \A e \in log : e.block <= height
    /\ \A d \in Deposits : status[d] = "unknown" => requestedAt[d] = 0
    /\ \A d \in Deposits : status[d] = "pending" /\ requestedAt[d] # 0 =>
          /\ \E r \in log : r.type = "RefundRequested" /\ r.dep = d /\ r.block = requestedAt[d]
          /\ \A x \in log : x.dep = d => x.block <= requestedAt[d]

LockInv ==
    /\ TypeOK /\ RequestInv /\ NoticeBeforeRefund
    /\ \A o \in Outpoints : consumedBy[o] # None => status[consumedBy[o]] = "confirmed"
    /\ OneAuthorization
    /\ \A b \in Burns : burnConsumedBy[b] # None => burnt[b] # 0
    /\ OneRelease /\ DustBelowUnit

\* Wrapped tokens are minted for the deposit that consumed the outpoint, and no more is
\* burnt than was minted.
SupplyInv ==
    /\ \A m \in minted : consumedBy[m[2]] = m[1]
    /\ Supply >= 0

ClaimsInv == LockInv /\ SupplyInv /\ Conservation
=============================================================================
