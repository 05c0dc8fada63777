------------------------------ MODULE GasPolicy ------------------------------
(***************************************************************************)
(* What a confirmation is sent at, and replaced at when it stalls          *)
(* (deposit/gasPolicy.ts, and the two functions of pipeline.ts that use    *)
(* it): one deposit's nonce, the node's pool and the base fee.  The rest   *)
(* of the pipeline around it is DepositPipeline's; there a price is left   *)
(* out, and every replacement is accepted or meets the ceiling.            *)
(***************************************************************************)
EXTENDS Integers

CONSTANTS
    BumpAfter,     \* confirmBumpAfterBlocks
    BumpPercent,   \* confirmBumpPercent
    Horizon,       \* confirmFeeHorizonBlocks
    Cap,           \* confirmMaxFeeCapWei
    NodeMargin,    \* the node's price-bump requirement, percent
    Tips,          \* the priority fees a node may suggest
    None,          \* no price
    MaxBase,       \* bound: the base fee
    MaxFaults      \* bound: crashes, and transactions dropped from the pool

\* config.ts, validateConfig().
validateConfig ==
    /\ BumpPercent \in Nat /\ BumpPercent > 10
    /\ BumpAfter \in Nat /\ BumpAfter >= 1
    /\ Horizon \in Nat /\ Horizon >= 1
    /\ Cap \in Nat /\ Cap > 0

\* It checks the percentage against go-ethereum's default, and cannot see the node's.  A
\* node that suggests no priority fee at all has none that could be raised.
ASSUME GasAssumption ==
    /\ validateConfig
    /\ NodeMargin \in Nat /\ NodeMargin <= 10
    /\ Tips \subseteq Nat \ {0}
    /\ MaxBase \in Nat \ {0} /\ MaxFaults \in Nat
    /\ None \notin [maxFee : Nat, tip : Nat, age : Nat]

VARIABLES
    state,      \* the record's
    recorded,   \* the record's price, [maxFee, tip, age], None before the first
    step,       \* "idle", "send" or "persist": the call the service is at
    pending,    \* the price of the transaction in the node's pool, None when there is none
    mined,      \* the nonce is used
    base,       \* the base fee at the head
    faults

vars == <<state, recorded, step, pending, mined, base, faults>>

-----------------------------------------------------------------------------
(* Prices; a price's age is the blocks since it was recorded *)

Higher(a, b) == IF a > b THEN a ELSE b

\* Faulty: rounded down.
TruncatedBump(value, percent) == (value * (100 + percent)) \div 100

bumpBy(value, percent) == (value * (100 + percent) + 99) \div 100

\* Faulty: rounded down.
TruncatedGrowth(from, blocks) ==
    LET grown[n \in Nat] == IF n = 0 THEN from ELSE (grown[n - 1] * 9) \div 8
    IN  grown[blocks]

worstCaseBaseFee(from, blocks) ==
    LET grown[n \in Nat] == IF n = 0 THEN from ELSE (grown[n - 1] * 9 + 7) \div 8
    IN  grown[blocks]

Price(maxFee, tip) == [maxFee |-> maxFee, tip |-> tip, age |-> 0]

\* Of the node's suggestion.
initialConfirmGas(suggested) ==
    Price(Higher(worstCaseBaseFee(base, Horizon) + suggested, suggested), suggested)

\* Faulty: the price stops at the ceiling instead of halting there.
CappedBump(suggested) ==
    LET tip    == Higher(bumpBy(recorded.tip, BumpPercent), suggested)
        market == worstCaseBaseFee(base, Horizon) + suggested
        maxFee == Higher(Higher(bumpBy(recorded.maxFee, BumpPercent), market), tip)
    IN  Price(IF maxFee > Cap THEN Cap ELSE maxFee, IF tip > Cap THEN Cap ELSE tip)

\* The higher of what the node's pool and what the chain asks for.
confirmGasPolicy(suggested) ==
    LET tip    == Higher(bumpBy(recorded.tip, BumpPercent), suggested)
        market == worstCaseBaseFee(base, Horizon) + suggested
    IN  Price(Higher(Higher(bumpBy(recorded.maxFee, BumpPercent), market), tip), tip)

-----------------------------------------------------------------------------
(* The node *)

\* A transaction at an occupied nonce must beat both fees, by the margin.
Replaces(new, old) ==
    /\ new.maxFee > old.maxFee /\ new.tip > old.tip
    /\ new.maxFee >= (old.maxFee * (100 + NodeMargin)) \div 100
    /\ new.tip >= (old.tip * (100 + NodeMargin)) \div 100

Accepts(new) == ~mined /\ (pending = None \/ Replaces(new, pending))

\* The base fee moves by at most an eighth, and by one at least when it rises.
BaseFees == {b \in 1..MaxBase : b >= base - base \div 8 /\ b <= base + Higher(base \div 8, 1)}

\* An age beyond every number it is compared with is not counted on.
Older(price) ==
    IF price = None THEN None
    ELSE [price EXCEPT !.age = IF @ > Higher(BumpAfter, Horizon) THEN @ ELSE @ + 1]

-----------------------------------------------------------------------------

Prices == [maxFee : 0..Cap, tip : Nat \ {0}, age : Nat]

TypeOK ==
    /\ state \in {"AUTHORIZED", "CONFIRM_SENT", "CONFIRMED", "HALTED"}
    /\ step \in {"idle", "send", "persist"}
    /\ recorded \in Prices \cup {None} /\ pending \in Prices \cup {None}
    /\ recorded # None => recorded.tip <= recorded.maxFee
    /\ pending # None => pending.tip <= pending.maxFee
    /\ mined \in BOOLEAN
    /\ base \in 1..MaxBase
    /\ faults \in 0..MaxFaults

Init ==
    /\ state = "AUTHORIZED" /\ recorded = None /\ step = "idle"
    /\ pending = None /\ mined = FALSE
    /\ base \in 1..MaxBase
    /\ faults = 0

\* The price is saved before the send.
Record(price) ==
    /\ recorded' = price
    /\ step' = "send"
    /\ UNCHANGED <<state, pending, mined, base, faults>>

\* advanceAuthorized(), at the first attempt, at a retry and after the transaction was
\* dropped.  Above the ceiling it throws, and the next tick tries again.
PriceFirst ==
    /\ state = "AUTHORIZED" /\ step = "idle"
    /\ \E suggested \in Tips :
          LET price == initialConfirmGas(suggested)
          IN  price.maxFee <= Cap /\ Record(price)

\* sendConfirmDeposit(): a refusal is an error, and the record stays as saved.
Send ==
    /\ step = "send"
    /\ IF Accepts(recorded)
         THEN pending' = recorded /\ step' = "persist"
         ELSE step' = "idle" /\ UNCHANGED pending
    /\ UNCHANGED <<state, recorded, mined, base, faults>>

\* The hash is recorded; of a first attempt, the transition with it.
Persist ==
    /\ step = "persist"
    /\ state' = "CONFIRM_SENT" /\ step' = "idle"
    /\ UNCHANGED <<recorded, pending, mined, base, faults>>

\* advanceConfirmSent(): the nonce is resolved.
Resolve ==
    /\ state = "CONFIRM_SENT" /\ step = "idle"
    /\ \/ mined /\ state' = "CONFIRMED"
       \/ ~mined /\ pending = None /\ state' = "AUTHORIZED"
    /\ UNCHANGED <<recorded, step, pending, mined, base, faults>>

\* maybeBumpConfirmation(): it waits, replaces, or halts.
Stalled ==
    /\ state = "CONFIRM_SENT" /\ step = "idle"
    /\ ~mined /\ pending # None
    /\ recorded.age >= BumpAfter

Bump ==
    /\ Stalled
    /\ \E suggested \in Tips :
          LET price == confirmGasPolicy(suggested)
          IN  price.maxFee <= Cap /\ Record(price)

HaltAtCeiling ==
    /\ Stalled
    /\ \E suggested \in Tips : confirmGasPolicy(suggested).maxFee > Cap
    /\ state' = "HALTED"
    /\ UNCHANGED <<recorded, step, pending, mined, base, faults>>

Crash ==
    /\ step # "idle" /\ faults < MaxFaults
    /\ step' = "idle" /\ faults' = faults + 1
    /\ UNCHANGED <<state, recorded, pending, mined, base>>

Evict ==
    /\ pending # None /\ faults < MaxFaults
    /\ pending' = None /\ faults' = faults + 1
    /\ UNCHANGED <<state, recorded, step, mined, base>>

\* A block without the transaction.
Block ==
    /\ base' \in BaseFees
    /\ recorded' = Older(recorded) /\ pending' = Older(pending)
    /\ UNCHANGED <<state, step, mined, faults>>

Mine ==
    /\ pending # None /\ base <= pending.maxFee
    /\ mined' = TRUE /\ pending' = None
    /\ recorded' = Older(recorded)
    /\ UNCHANGED <<state, step, base, faults>>

Service == PriceFirst \/ Send \/ Persist \/ Resolve \/ Bump \/ HaltAtCeiling

Next == Service \/ Crash \/ Evict \/ Block \/ Mine

\* The service is polled, blocks are made, and a transaction that stays payable is mined.
Spec == Init /\ [][Next]_vars
FairSpec == Spec /\ WF_vars(Service) /\ WF_vars(Block) /\ WF_vars(Mine)

-----------------------------------------------------------------------------
(* Correctness *)

\* gasPolicy.ts, REPLACEMENT floor: no replacement that is sent is refused for its price,
\* also when an earlier one was recorded and then not sent.
BumpsAccepted ==
    step = "send" /\ state = "CONFIRM_SENT" /\ pending # None => Replaces(recorded, pending)

\* gasPolicy.ts, worstCaseBaseFee(): whatever the base fee does, a transaction stays
\* payable for as many blocks as it was priced for, counted from when it was priced.
OutlastsHorizon ==
    pending # None /\ pending.age <= Horizon => base <= pending.maxFee

\* authorizer-spec 9.1: a confirmation that is sent does not wait for ever: it is mined,
\* the deposit halts for a human, or the pool drops it and it is sent anew.
StallEnds == state = "CONFIRM_SENT" ~> state # "CONFIRM_SENT"

-----------------------------------------------------------------------------
(* The inductive invariant: what is recorded covers what is pending once the *)
(* confirmation is recorded as sent, and beats it while a replacement is out *)

Covers(new, old) == new.maxFee >= old.maxFee /\ new.tip >= old.tip

PriceInv ==
    /\ TypeOK
    /\ state # "AUTHORIZED" => recorded # None
    /\ step # "idle" => recorded # None /\ state \in {"AUTHORIZED", "CONFIRM_SENT"}
    /\ state = "CONFIRM_SENT" /\ pending # None => Covers(recorded, pending)
    /\ step = "persist" /\ pending # None => Covers(recorded, pending)
    /\ BumpsAccepted

\* What is left of the horizon, at the worst, a price still pays for; what is only recorded
\* may be sent at any time.
PaysAhead(price) ==
    price # None /\ price.age <= Horizon => worstCaseBaseFee(base, Horizon - price.age) <= price.maxFee

HorizonInv == PriceInv /\ PaysAhead(recorded) /\ PaysAhead(pending)
=============================================================================
