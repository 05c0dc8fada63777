------------------------------- MODULE Headroom -------------------------------
(***************************************************************************)
(* Issuance headroom (packages/authorizer/src/issuance/headroom.ts): the   *)
(* only bound on wrapped tokens signed for without a deposit.  The durable *)
(* balance is decremented atomically before signing; a scheduled reconcile *)
(* overwrites it with a figure read from both chains and the store, one    *)
(* read after the other.                                                   *)
(*                                                                         *)
(* Both chains are reduced to their totals, for a deployment without a     *)
(* fee: a fee stays in the contract and only adds to the collateral.       *)
(* Anything may happen while a reconcile runs.                             *)
(***************************************************************************)
EXTENDS Integers, FiniteSets, Functions

CONSTANTS
    Deposits,
    Burns,         \* withdrawal burns
    Issuances,     \* issuance ids
    Amounts,       \* quantities a deposit, burn or issuance may have
    Scale,         \* 10^|tokenDecimals - xecDecimals|
    XecHasMorePrecision,
    MaxReconciles  \* bound

ASSUME HeadroomAssumption ==
    /\ IsFiniteSet(Deposits) /\ IsFiniteSet(Burns) /\ IsFiniteSet(Issuances)
    \* a depositId, an outpoint and an issuance id are never each other
    /\ Deposits \cap Burns = {} /\ Deposits \cap Issuances = {} /\ Burns \cap Issuances = {}
    /\ Amounts \subseteq Nat \ {0}
    /\ Scale \in Nat \ {0}
    /\ XecHasMorePrecision \in BOOLEAN
    /\ MaxReconciles \in Nat

VARIABLES
    stage,       \* deposit -> how far it got
    net,         \* deposit -> its net amount, in token units
    balance,     \* getLockedCollateral(), in token units
    burnt,       \* burn -> its quantity, 0 before
    released,    \* the burns release() paid
    rawBurnt,    \* the quantity destroyed without a bridge burn
    quantity,    \* issuance -> the quantity reserved for it, 0 before
    issued,      \* the issuances whose mint happened
    headroom,    \* the store's durable balance
    step,        \* where reconcileHeadroom() is
    toRead,      \* the reads of its Promise.all that have not answered
    read,        \* what the others answered
    reconciles,  \* reconciles so far, bounded by MaxReconciles
    exposed      \* history: the deposits that were not minted while a reconcile ran, and the
                 \* burns and issuances that moved while one did

chainVars     == <<stage, net, balance, burnt, released, rawBurnt>>
issueVars     == <<quantity, issued>>
reconcileVars == <<step, toRead, read, reconciles>>
vars          == <<chainVars, issueVars, headroom, reconcileVars, exposed>>

collateralToXecUnits(c) == IF XecHasMorePrecision THEN c * Scale ELSE c \div Scale
\* release(): the other way round, the rest is kept.
TokenAmount(q) == IF XecHasMorePrecision THEN q \div Scale ELSE q * Scale

\* What confirming a deposit authorizes.
minting == [d \in Deposits |-> collateralToXecUnits(net[d])]
Minted  == {d \in Deposits : stage[d] = "minted"}

Supply      == SumFunctionOnSet(minting, Minted) + SumFunctionOnSet(quantity, issued)
                   - SumFunctionOnSet(burnt, Burns) - rawBurnt
Unreleased  == SumFunctionOnSet(burnt, Burns \ released)
Outstanding == SumFunctionOnSet(quantity, Issuances \ issued)

Reads == {"collateral", "supply", "unreleased", "outstanding"}

Init ==
    /\ stage = [d \in Deposits |-> "unknown"]
    /\ net = [d \in Deposits |-> 0]
    /\ balance = 0
    /\ burnt = [b \in Burns |-> 0]
    /\ released = {}
    /\ rawBurnt = 0
    /\ quantity = [i \in Issuances |-> 0]
    /\ issued = {}
    /\ headroom = 0
    /\ step = "idle" /\ toRead = {} /\ read = [x \in Reads |-> 0]
    /\ reconciles = 0
    /\ exposed = {}

Expose(x) == exposed' = IF step = "idle" THEN exposed ELSE exposed \cup {x}

-----------------------------------------------------------------------------
(* The two chains *)

Underway == {d \in Deposits : stage[d] \in {"pending", "confirmed"}}

Lock(d, a) ==
    /\ Expose(d)
    /\ stage[d] = "unknown" /\ collateralToXecUnits(a) > 0
    /\ stage' = [stage EXCEPT ![d] = "pending"]
    /\ net' = [net EXCEPT ![d] = a]
    /\ balance' = balance + a
    /\ UNCHANGED <<burnt, released, rawBurnt, issueVars, headroom, reconcileVars>>

Refund(d) ==
    /\ stage[d] = "pending" /\ balance >= net[d]
    /\ stage' = [stage EXCEPT ![d] = "refunded"]
    /\ balance' = balance - net[d]
    /\ UNCHANGED <<net, burnt, released, rawBurnt, issueVars, headroom, reconcileVars, exposed>>

ConfirmAndMint(d) ==
    /\ \/ stage[d] = "pending" /\ stage' = [stage EXCEPT ![d] = "confirmed"]
       \/ stage[d] = "confirmed" /\ stage' = [stage EXCEPT ![d] = "minted"]
    /\ UNCHANGED <<net, balance, burnt, released, rawBurnt, issueVars, headroom, reconcileVars, exposed>>

Burn(b, q) ==
    /\ Expose(b)
    /\ burnt[b] = 0 /\ q <= Supply
    /\ burnt' = [burnt EXCEPT ![b] = q]
    /\ UNCHANGED <<stage, net, balance, released, rawBurnt, issueVars, headroom, reconcileVars>>

RawBurn(q) ==
    /\ q <= Supply
    /\ rawBurnt' = rawBurnt + q
    /\ UNCHANGED <<stage, net, balance, burnt, released, issueVars, headroom, reconcileVars, exposed>>

Release(b) ==
    /\ Expose(b)
    /\ burnt[b] # 0 /\ b \notin released
    /\ TokenAmount(burnt[b]) \in 1..balance
    /\ balance' = balance - TokenAmount(burnt[b])
    /\ released' = released \cup {b}
    /\ UNCHANGED <<stage, net, burnt, rawBurnt, issueVars, headroom, reconcileVars>>

-----------------------------------------------------------------------------
(* Issuance *)

\* reserveIssuance(): one atomic compare-and-decrement, before anything is signed.
Reserve(i, q) ==
    /\ Expose(i)
    /\ quantity[i] = 0 /\ q <= headroom
    /\ quantity' = [quantity EXCEPT ![i] = q]
    /\ headroom' = headroom - q
    /\ UNCHANGED <<chainVars, issued, reconcileVars>>

\* The authorization is signed for good: anyone mints it, at any time.
MintIssuance(i) ==
    /\ Expose(i)
    /\ quantity[i] # 0 /\ i \notin issued
    /\ issued' = issued \cup {i}
    /\ UNCHANGED <<chainVars, quantity, headroom, reconcileVars>>

-----------------------------------------------------------------------------
(* reconcileHeadroom() *)

ReconcileStart ==
    /\ step = "idle" /\ reconciles < MaxReconciles
    /\ exposed' = exposed \cup Underway
    /\ step' = "read" /\ toRead' = Reads \ {"outstanding"}
    /\ reconciles' = reconciles + 1
    /\ UNCHANGED <<chainVars, issueVars, headroom, read>>

\* The three reads are concurrent: each answers at its own moment.
Answer(x) ==
    /\ step = "read" /\ x \in toRead
    /\ toRead' = toRead \ {x}
    /\ read' = [read EXCEPT ![x] = CASE x = "collateral" -> collateralToXecUnits(balance)
                                     [] x = "supply"     -> Supply
                                     [] OTHER            -> Unreleased]
    /\ UNCHANGED <<chainVars, issueVars, headroom, step, reconciles, exposed>>

Bound == read["collateral"] - read["supply"] - read["unreleased"]

\* assertHeadroomSolvent() throws on a negative bound, and nothing is written.
Judge ==
    /\ step = "read" /\ toRead = {}
    /\ step' = IF Bound < 0 THEN "idle" ELSE "reserved"
    /\ UNCHANGED <<chainVars, issueVars, headroom, toRead, read, reconciles, exposed>>

OutstandingForgotten ==   \* faulty
    /\ step = "reserved"
    /\ step' = "write"
    /\ UNCHANGED <<chainVars, issueVars, headroom, toRead, read, reconciles, exposed>>

ReadOutstanding ==
    /\ step = "reserved"
    /\ read' = [read EXCEPT !["outstanding"] = Outstanding]
    /\ step' = "write"
    /\ UNCHANGED <<chainVars, issueVars, headroom, toRead, reconciles, exposed>>

Write ==
    /\ step = "write"
    /\ headroom' = IF Bound - read["outstanding"] > 0 THEN Bound - read["outstanding"] ELSE 0
    /\ step' = "idle" /\ read' = [x \in Reads |-> 0]
    /\ UNCHANGED <<chainVars, issueVars, toRead, reconciles, exposed>>

-----------------------------------------------------------------------------

Chains ==
    \/ \E d \in Deposits : Refund(d) \/ ConfirmAndMint(d) \/ \E a \in Amounts : Lock(d, a)
    \/ \E b \in Burns : Release(b) \/ \E q \in Amounts : Burn(b, q)
    \/ \E q \in Amounts : RawBurn(q)

Issue == \E i \in Issuances : MintIssuance(i) \/ \E q \in Amounts : Reserve(i, q)

Reconcile == ReconcileStart \/ (\E x \in Reads : Answer(x)) \/ Judge \/ ReadOutstanding \/ Write

Next == Chains \/ Issue \/ Reconcile

Spec == Init /\ [][Next]_vars

-----------------------------------------------------------------------------

Refundable == SumFunctionOnSet(net, Underway)

\* What a reconcile may have missed or counted twice: no more than what it ran across.
blur == [d \in Deposits |-> minting[d] + 1]
Blurred == SumFunctionOnSet(blur, exposed \cap Deposits) + SumFunctionOnSet(burnt, exposed \cap Burns)
               + SumFunctionOnSet(quantity, exposed \cap Issuances)

\* authorizer-spec.md 6.1: the collateral pays at once every wrapped token there is, every
\* one that is or may yet be signed for, every burn and every refund still to come.  The
\* three figures of computeHeadroom are read one by one, and the write follows later: what
\* moves meanwhile may be missed, for its own amount and no more, however many reconciles
\* there are.  headroom.ts, computeHeadroom: a burn released late "cancels the transient
\* exactly".
Claimed == Supply + Unreleased + Outstanding
Backed ==
    /\ headroom \in Nat
    /\ collateralToXecUnits(balance - Refundable) + Blurred >= Claimed + headroom

-----------------------------------------------------------------------------
(* The strengthening that every step preserves. *)

TypeOK ==
    /\ stage \in [Deposits -> {"unknown", "pending", "confirmed", "minted", "refunded"}]
    /\ net \in [Deposits -> Nat]
    /\ balance \in Nat /\ rawBurnt \in Nat /\ headroom \in Nat
    /\ burnt \in [Burns -> Nat] /\ released \subseteq Burns
    /\ quantity \in [Issuances -> Nat] /\ issued \subseteq Issuances
    /\ step \in {"idle", "read", "reserved", "write"}
    /\ toRead \subseteq Reads \ {"outstanding"} /\ (step # "read" => toRead = {})
    /\ read \in [Reads -> Int]
    /\ reconciles \in Nat

\* A quantity is set before it is released or minted, and kept; a reconcile runs across no
\* deposit before it is made.
Ordered ==
    /\ \A d \in Deposits : stage[d] = "unknown" => net[d] = 0 /\ d \notin exposed
    /\ \A b \in released : burnt[b] # 0
    /\ \A i \in issued : quantity[i] # 0

\* The figure a running reconcile would write if all it has not read answered now.
Pending(x) == IF x = "outstanding" THEN step # "write" ELSE x \in toRead
Figure(x, now) == IF Pending(x) THEN now ELSE read[x]
Estimate == Figure("collateral", collateralToXecUnits(balance)) - Figure("supply", Supply)
                - Figure("unreleased", Unreleased) - Figure("outstanding", Outstanding)

\* What of it may be wrong so far: a deposit that was not minted, a burn that was released
\* or that came after the burns were read, and an issuance likewise.
LateBurns     == {b \in Burns : b \in released \/ ~Pending("unreleased")}
LateIssuances == {i \in Issuances : i \in issued \/ ~Pending("outstanding")}
Missed == SumFunctionOnSet(blur, exposed \cap Deposits)
              + SumFunctionOnSet(burnt, exposed \cap LateBurns)
              + SumFunctionOnSet(quantity, exposed \cap LateIssuances)

Estimated == step # "idle" => Estimate <= collateralToXecUnits(balance - Refundable) - Claimed + Missed

HeadroomInv == TypeOK /\ Ordered /\ Backed /\ Estimated
=============================================================================
