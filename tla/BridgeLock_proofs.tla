-------------------------- MODULE BridgeLock_proofs --------------------------
(***************************************************************************)
(* Proofs about the lock contract, for every value of the constants: every *)
(* step preserves LockInv, and every step balances to the last unit of the *)
(* more precise side, whichever side that is.                              *)
(***************************************************************************)
EXTENDS BridgeLock, SumTheorems

USE LedgersAssumption, BridgeLockAssumption

\* The parts of LockInv about the life of the deposits, and about the amounts.
ConfirmedConsumers == \A o \in Outpoints : consumedBy[o] # None => status[consumedBy[o]] = "confirmed"
LifeInv   == LedgersTypeOK /\ RequestInv /\ NoticeBeforeRefund /\ ConfirmedConsumers /\ OneAuthorization
AmountOK  ==
    /\ netAmount \in [Deposits -> Nat]
    /\ balance \in Nat /\ pendingXecDust \in Nat /\ collectedDust \in Nat
    /\ stampConsumedBy \in [Stamps -> Burns \cup {None}]
    /\ burnConsumedBy \in [Burns -> Stamps \cup {None}]
    /\ burnt \in [Burns -> Nat]
    /\ stamped \subseteq Burns \X Stamps
BurntFirst == \A b \in Burns : burnConsumedBy[b] # None => burnt[b] # 0
AmountInv == AmountOK /\ BurntFirst /\ OneRelease /\ DustBelowUnit

LEMMA LockInvParts == LockInv <=> LifeInv /\ AmountInv
BY DEF LockInv, LifeInv, AmountInv, TypeOK, AmountOK, ConfirmedConsumers, BurntFirst

-----------------------------------------------------------------------------
(* The life of a deposit *)

\* The event a contract action emits, in the block it executes in.
LEMMA Emitted ==
    ASSUME LedgersTypeOK, NEW d \in Deposits, NEW t \in EventTypes, Emit(t, d)
    PROVE  log' \subseteq Events
BY DEF Emit, LedgersTypeOK, Events

\* The log's past stays in the past.
LEMMA LogBelow ==
    ASSUME LedgersTypeOK, RequestInv, NewBlock, NEW d \in Deposits, NEW t \in EventTypes, Emit(t, d)
    PROVE  \A e \in log' : e.block <= height'
BY DEF NewBlock, Emit, LedgersTypeOK, RequestInv, Events

\* A notice stands whatever is emitted after the refund.
LEMMA NoticeStands ==
    ASSUME LedgersTypeOK, RequestInv, NoticeBeforeRefund,
           NEW d \in Deposits, NEW t \in EventTypes, Emit(t, d), t # "DepositRefunded"
    PROVE  NoticeBeforeRefund'
<1>1. \A x \in log' : x \in log \/ (x.block = height + 1 /\ x.type = t /\ x.dep = d)
  BY DEF Emit
<1>2. \A x \in log : x \in log' /\ x.block \in Nat /\ x.block <= height
  BY DEF Emit, RequestInv, LedgersTypeOK, Events
<1>3. height \in Nat
  BY DEF LedgersTypeOK
<1> SUFFICES ASSUME NEW e \in log', e.type = "DepositRefunded"
    PROVE  \E r \in log' :
              /\ r.type = "RefundRequested" /\ r.dep = e.dep /\ r.block + RefundDelay <= e.block
              /\ \A x \in log' : x.dep = e.dep => x.block <= r.block \/ x.block >= e.block
  BY DEF NoticeBeforeRefund
<1>4. e \in log
  BY <1>1
<1>5. PICK r \in log :
          /\ r.type = "RefundRequested" /\ r.dep = e.dep /\ r.block + RefundDelay <= e.block
          /\ \A x \in log : x.dep = e.dep => x.block <= r.block \/ x.block >= e.block
  BY <1>4 DEF NoticeBeforeRefund
<1>6. \A x \in log' : x.dep = e.dep => x.block <= r.block \/ x.block >= e.block
  BY <1>1, <1>2, <1>3, <1>4, <1>5
<1> QED
  BY <1>2, <1>5, <1>6

\* An action on d leaves the request of every other deposit alone, and d is left with
\* none or with one made just now.
LEMMA RequestStands ==
    ASSUME LedgersTypeOK, RequestInv, NewBlock, LedgersTypeOK',
           NEW d \in Deposits, NEW t \in EventTypes, Emit(t, d),
           \A e \in Deposits \ {d} : status'[e] = status[e] /\ requestedAt'[e] = requestedAt[e],
           status'[d] # "unknown",
           status'[d] = "pending" /\ requestedAt'[d] # 0 => t = "RefundRequested" /\ requestedAt'[d] = height + 1
    PROVE  RequestInv'
<1>1. \A e \in log' : e.block <= height'
  BY LogBelow
<1>2. \A e \in Deposits : status'[e] = "unknown" => requestedAt'[e] = 0
  BY DEF RequestInv
<1>3. ASSUME NEW e \in Deposits, status'[e] = "pending", requestedAt'[e] # 0
      PROVE  /\ \E r \in log' : r.type = "RefundRequested" /\ r.dep = e /\ r.block = requestedAt'[e]
             /\ \A x \in log' : x.dep = e => x.block <= requestedAt'[e]
  <2>1. CASE e = d
    <3>1. [block |-> height + 1, type |-> t, dep |-> d] \in log'
      BY DEF Emit
    <3>2. height' = height + 1
      BY DEF NewBlock
    <3> QED
      BY <1>1, <1>3, <2>1, <3>1, <3>2
  <2>2. CASE e # d
    <3>1. \A x \in log' : x.dep = e => x \in log
      BY <2>2 DEF Emit
    <3>2. \A x \in log : x \in log'
      BY DEF Emit
    <3>3. status[e] = "pending" /\ requestedAt[e] # 0 /\ requestedAt'[e] = requestedAt[e]
      BY <1>3, <2>2
    <3> QED
      BY <3>1, <3>2, <3>3 DEF RequestInv
  <2> QED
    BY <2>1, <2>2
<1> QED
  BY <1>1, <1>2, <1>3 DEF RequestInv

LEMMA LockLife ==
    ASSUME LifeInv, NEW d \in Deposits, Lock(d), UNCHANGED xecVars
    PROVE  LifeInv'
<1> USE DEF LifeInv
<1>1. LedgersTypeOK'
  BY Emitted DEF Lock, NewBlock, LedgersTypeOK, xecVars, Statuses, EventTypes
<1>2. NoticeBeforeRefund'
  BY NoticeStands DEF Lock, EventTypes
<1>3. RequestInv'
  <2>1. requestedAt[d] = 0 /\ requestedAt' = requestedAt
    BY DEF Lock, RequestInv
  <2>2. status'[d] = "pending" /\ \A e \in Deposits \ {d} : status'[e] = status[e]
    BY DEF Lock, LedgersTypeOK
  <2> QED
    BY <1>1, <2>1, <2>2, RequestStands DEF Lock, EventTypes
<1>4. ConfirmedConsumers' /\ OneAuthorization'
  BY DEF Lock, ConfirmedConsumers, OneAuthorization, LedgersTypeOK
<1> QED
  BY <1>1, <1>2, <1>3, <1>4

LEMMA RequestLife ==
    ASSUME LifeInv, NEW d \in Deposits, RequestRefund(d) \/ CancelRefundRequest(d), UNCHANGED xecVars
    PROVE  LifeInv'
<1> USE DEF LifeInv
<1>1. LedgersTypeOK'
  BY Emitted DEF RequestRefund, CancelRefundRequest, NewBlock, LedgersTypeOK, xecVars, EventTypes
<1>2. NoticeBeforeRefund'
  BY NoticeStands DEF RequestRefund, CancelRefundRequest, EventTypes
<1>3. RequestInv'
  <2>1. status' = status /\ \A e \in Deposits \ {d} : requestedAt'[e] = requestedAt[e]
    BY DEF RequestRefund, CancelRefundRequest, LedgersTypeOK
  <2>2. CASE RequestRefund(d)
    <3>1. requestedAt'[d] = height + 1 /\ status[d] = "pending"
      BY <2>2 DEF RequestRefund, LedgersTypeOK
    <3> QED
      BY <1>1, <2>1, <2>2, <3>1, RequestStands DEF RequestRefund, EventTypes
  <2>3. CASE CancelRefundRequest(d)
    <3>1. requestedAt'[d] = 0 /\ status[d] # "unknown"
      BY <2>3 DEF CancelRefundRequest, LedgersTypeOK, RequestInv
    <3> QED
      BY <1>1, <2>1, <2>3, <3>1, RequestStands DEF CancelRefundRequest, EventTypes
  <2> QED
    BY <2>2, <2>3
<1>4. ConfirmedConsumers' /\ OneAuthorization'
  BY DEF RequestRefund, CancelRefundRequest, ConfirmedConsumers, OneAuthorization
<1> QED
  BY <1>1, <1>2, <1>3, <1>4

LEMMA RefundLife ==
    ASSUME LifeInv, NEW d \in Deposits, Refund(d), UNCHANGED xecVars
    PROVE  LifeInv'
<1> USE DEF LifeInv
<1>1. LedgersTypeOK'
  BY Emitted DEF Refund, NewBlock, LedgersTypeOK, xecVars, Statuses, EventTypes
<1>2. status'[d] = "refunded" /\ \A e \in Deposits \ {d} : status'[e] = status[e]
  BY DEF Refund, LedgersTypeOK
<1>3. RequestInv'
  BY <1>1, <1>2, RequestStands DEF Refund, EventTypes
<1>4. NoticeBeforeRefund'
  <2>1. ASSUME NEW e \in log', e.type = "DepositRefunded"
        PROVE  \E r \in log' :
                  /\ r.type = "RefundRequested" /\ r.dep = e.dep /\ r.block + RefundDelay <= e.block
                  /\ \A x \in log' : x.dep = e.dep => x.block <= r.block \/ x.block >= e.block
    <3>1. log' = log \cup {[block |-> height + 1, type |-> "DepositRefunded", dep |-> d]}
      BY DEF Refund, Emit
    <3>2. \A x \in log : x.block \in Nat /\ x.block <= height
      BY DEF RequestInv, LedgersTypeOK, Events
    <3>3. height \in Nat
      BY DEF LedgersTypeOK
    <3>4. CASE e \in log
      <4>1. PICK r \in log :
              /\ r.type = "RefundRequested" /\ r.dep = e.dep /\ r.block + RefundDelay <= e.block
              /\ \A x \in log : x.dep = e.dep => x.block <= r.block \/ x.block >= e.block
        BY <2>1, <3>4 DEF NoticeBeforeRefund
      <4>2. \A x \in log' : x.dep = e.dep => x.block <= r.block \/ x.block >= e.block
        BY <3>1, <3>2, <3>3, <3>4, <4>1
      <4> QED
        BY <3>1, <4>1, <4>2
    <3>5. CASE e = [block |-> height + 1, type |-> "DepositRefunded", dep |-> d]
      <4>1. status[d] = "pending" /\ requestedAt[d] # 0 /\ height + 1 >= requestedAt[d] + RefundDelay
        BY DEF Refund
      <4>2. PICK r \in log : r.type = "RefundRequested" /\ r.dep = d /\ r.block = requestedAt[d]
        BY <4>1 DEF RequestInv
      <4>3. \A x \in log : x.dep = d => x.block <= r.block
        BY <4>1, <4>2 DEF RequestInv
      <4>4. \A x \in log' : x.dep = e.dep => x.block <= r.block \/ x.block >= e.block
        BY <3>1, <3>3, <3>5, <4>3
      <4>5. r.block + RefundDelay <= e.block /\ r.dep = e.dep
        BY <3>5, <4>1, <4>2
      <4> QED
        BY <3>1, <4>2, <4>4, <4>5
    <3> QED
      BY <2>1, <3>1, <3>4, <3>5
  <2> QED
    BY <2>1 DEF NoticeBeforeRefund
<1>5. ConfirmedConsumers' /\ OneAuthorization'
  BY DEF Refund, ConfirmedConsumers, OneAuthorization, LedgersTypeOK
<1> QED
  BY <1>1, <1>3, <1>4, <1>5

LEMMA ConfirmLife ==
    ASSUME LifeInv, NEW d \in Deposits, NEW o \in Outpoints, ConfirmByAnyone(d, o), UNCHANGED xecVars
    PROVE  LifeInv'
<1> USE DEF LifeInv
<1>1. LedgersTypeOK'
  BY Emitted DEF ConfirmByAnyone, Confirm, NewBlock, LedgersTypeOK, xecVars, Statuses, EventTypes
<1>2. status[d] = "pending" /\ status'[d] = "confirmed" /\ \A e \in Deposits \ {d} : status'[e] = status[e]
  BY DEF ConfirmByAnyone, ConfirmSucceeds, Confirm, LedgersTypeOK
<1>3. RequestInv'
  BY <1>1, <1>2, RequestStands DEF ConfirmByAnyone, Confirm, EventTypes
<1>4. NoticeBeforeRefund'
  BY NoticeStands DEF ConfirmByAnyone, Confirm, EventTypes
<1>5. consumedBy'[o] = d /\ \A p \in Outpoints \ {o} : consumedBy'[p] = consumedBy[p]
  BY DEF ConfirmByAnyone, Confirm, LedgersTypeOK
<1>6. \A p \in Outpoints : consumedBy[p] # d
  BY <1>2 DEF ConfirmedConsumers
<1>7. \A p \in Outpoints : consumedBy[p] # None => consumedBy[p] \in Deposits
  BY DEF LedgersTypeOK
<1>8. ConfirmedConsumers'
  BY <1>2, <1>5, <1>7 DEF ConfirmedConsumers
<1>9. OneAuthorization'
  BY <1>5, <1>6 DEF OneAuthorization
<1> QED
  BY <1>1, <1>3, <1>4, <1>8, <1>9

-----------------------------------------------------------------------------
(* Arithmetic *)

LEMMA DivMod ==
    ASSUME NEW a \in Nat, NEW s \in Nat \ {0}
    PROVE  a \div s \in Nat /\ a % s \in Nat /\ a % s < s /\ a % s = a - (a \div s) * s
<1>1. a \div s \in Nat /\ a % s \in Nat /\ a % s < s
  BY SMT
<1>2. a % s = a - (a \div s) * s
  BY SMT
<1> QED
  BY <1>1, <1>2

LEMMA Units ==
    /\ TokenUnit \in Nat \ {0} /\ XecUnit \in Nat \ {0} /\ FeeAmountXec \in Nat
    /\ XecHasMorePrecision => TokenUnit = Scale /\ XecUnit = 1
    /\ ~XecHasMorePrecision => TokenUnit = 1 /\ XecUnit = Scale
<1>1. FeeAmount * Scale \in Nat
  OBVIOUS
<1>2. FeeAmount \div Scale \in Nat
  BY DivMod
<1> QED
  BY <1>1, <1>2 DEF TokenUnit, XecUnit, FeeAmountXec

\* What confirmDeposit() authorizes and what it makes dust are the whole net amount.
LEMMA ConfirmSplits ==
    ASSUME NEW n \in Nat
    PROVE  /\ XecAmount(n) \in Nat /\ DepositDust(n) \in Nat
           /\ XecAmount(n) * XecUnit + DepositDust(n) * TokenUnit = n * TokenUnit
<1>1. CASE XecHasMorePrecision
  <2>1. n * Scale \in Nat
    OBVIOUS
  <2> QED
    BY <1>1, <2>1, Units DEF XecAmount, DepositDust
<1>2. CASE ~XecHasMorePrecision
  <2>1. n \div Scale \in Nat /\ n % Scale \in Nat /\ n % Scale = n - (n \div Scale) * Scale
    BY DivMod
  <2>2. (n \div Scale) * Scale \in Nat /\ n * 1 = n /\ (n % Scale) * 1 = n % Scale
    BY <2>1
  <2>3. XecAmount(n) = n \div Scale /\ DepositDust(n) = n % Scale /\ XecUnit = Scale /\ TokenUnit = 1
    BY <1>2, Units DEF XecAmount, DepositDust
  <2> QED
    BY <2>1, <2>2, <2>3
<1> QED
  BY <1>1, <1>2

\* What release() pays for a burn and what it banks are the whole quantity but the fee.
LEMMA ReleaseSplits ==
    ASSUME NEW q \in Nat, q > FeeAmountXec
    PROVE  /\ ReleaseAmount(q) \in Nat /\ ReleaseDust(q) \in Nat
           /\ ReleaseAmount(q) * TokenUnit + ReleaseDust(q) = (q - FeeAmountXec) * XecUnit
           /\ ~XecHasMorePrecision => ReleaseDust(q) = 0
<1>1. q - FeeAmountXec \in Nat
  BY Units
<1>2. CASE XecHasMorePrecision
  BY <1>1, <1>2, DivMod, Units DEF ReleaseAmount, ReleaseDust
<1>3. CASE ~XecHasMorePrecision
  <2>1. (q - FeeAmountXec) * Scale \in Nat
    BY <1>1
  <2> QED
    BY <1>1, <1>3, <2>1, Units DEF ReleaseAmount, ReleaseDust
<1> QED
  BY <1>2, <1>3

\* Banked dust below a unit, and a burn's rest, turn into whole units and dust below one.
LEMMA WholeUnits ==
    ASSUME NEW dust \in Nat, ~XecHasMorePrecision => dust = 0
    PROVE  /\ WholeDust(dust) \in Nat
           /\ dust - WholeDust(dust) * Scale \in Nat
           /\ dust - WholeDust(dust) * Scale < TokenUnit
           /\ WholeDust(dust) * TokenUnit = WholeDust(dust) * Scale
<1>1. CASE dust < Scale
  BY <1>1, Units DEF WholeDust
<1>2. CASE dust >= Scale
  <2>1. XecHasMorePrecision /\ TokenUnit = Scale
    BY <1>2, Units
  <2>2. WholeDust(dust) = dust \div Scale
    BY <1>2 DEF WholeDust
  <2>3. dust % Scale = dust - WholeDust(dust) * Scale
    BY <2>2, DivMod
  <2> QED
    BY <2>1, <2>2, <2>3, DivMod
<1> QED
  BY <1>1, <1>2

-----------------------------------------------------------------------------
(* The amounts, one lemma per action: it preserves AmountInv, and it balances *)

\* The claims depend on these alone.
LEMMA SameClaims ==
    ASSUME NEW D \in SUBSET Deposits, NEW B \in SUBSET Burns,
           \A d \in Deposits \ D : status'[d] = status[d] /\ netAmount'[d] = netAmount[d],
           \A b \in Burns \ B : burnConsumedBy'[b] = burnConsumedBy[b]
                                 /\ (burnConsumedBy[b] # None => burnt'[b] = burnt[b])
    PROVE  OnlyMoves(D, B)
BY DEF OnlyMoves, Held, Redeemed

LEMMA DustIsInt ==
    ASSUME AmountOK
    PROVE  Dust \in Int /\ Dust = collectedDust * TokenUnit + pendingXecDust
<1>1. collectedDust * TokenUnit \in Nat
  BY Units DEF AmountOK
<1> QED
  BY <1>1 DEF Dust, AmountOK

\* An action that leaves the amounts and the resolved deposits alone.
LEMMA AloneStep ==
    ASSUME LockInv, UNCHANGED <<status, amountVars, withdrawVars, burnVars>>
    PROVE  AmountInv' /\ StepBalances
<1>1. AmountInv'
  BY LockInvParts DEF AmountInv, AmountOK, BurntFirst, OneRelease, DustBelowUnit, amountVars, withdrawVars, burnVars,
     TokenUnit
<1>2. OnlyMoves({}, {})
  BY SameClaims DEF amountVars, withdrawVars, burnVars
<1>3. balance' = balance /\ Dust' = Dust /\ balance \in Nat /\ Dust \in Int
  BY LockInvParts, DustIsInt DEF amountVars, Dust, AmountInv, AmountOK, TokenUnit
<1>4. Change = 0
  <2>1. 0 * TokenUnit = 0
    BY Units
  <2> QED
    BY <1>3, <2>1 DEF Change
<1> QED
  BY <1>1, <1>2, <1>4 DEF StepBalances

LEMMA DepositStep ==
    ASSUME LockInv, NEW d \in Deposits, NEW r \in Received, Deposit(d, r)
    PROVE  AmountInv' /\ StepBalances
<1>1. r \in Nat /\ r - FeeAmount \in Nat
  BY DEF Deposit
<1>2. AmountInv'
  BY <1>1, LockInvParts DEF Deposit, AmountInv, AmountOK, BurntFirst, OneRelease, DustBelowUnit, withdrawVars, burnVars,
     TokenUnit
<1>3. status[d] = "unknown" /\ status'[d] = "pending" /\ \A e \in Deposits \ {d} : status'[e] = status[e]
  BY LockInvParts DEF Deposit, Lock, LifeInv, LedgersTypeOK
<1>4. netAmount'[d] = r - FeeAmount /\ \A e \in Deposits \ {d} : netAmount'[e] = netAmount[e]
  BY LockInvParts DEF Deposit, AmountInv, AmountOK
<1>5. OnlyMoves({d}, {})
  BY <1>3, <1>4, SameClaims DEF Deposit, withdrawVars, burnVars
<1>6. Held(d) = 0 /\ Held(d)' = r * TokenUnit
  <2>1. netAmount'[d] + FeeAmount = r
    BY <1>1, <1>4
  <2> QED
    BY <1>3, <2>1 DEF Held, TokenUnit
<1>7. balance' - balance = r /\ Dust' = Dust /\ Dust \in Int
  BY <1>1, LockInvParts, DustIsInt DEF Deposit, Dust, AmountInv, AmountOK, TokenUnit
<1>8. Change = Held(d)' - Held(d)
  <2>1. r * TokenUnit \in Int
    BY <1>1, Units
  <2> QED
    BY <1>6, <1>7, <2>1 DEF Change
<1> QED
  BY <1>2, <1>5, <1>8 DEF StepBalances

LEMMA RefundStep ==
    ASSUME LockInv, NEW d \in Deposits, RefundDeposit(d)
    PROVE  AmountInv' /\ StepBalances
<1>1. RefundAmount(d) \in Nat /\ RefundAmount(d) = netAmount[d] + FeeAmount
  BY LockInvParts DEF RefundAmount, AmountInv, AmountOK
<1>2. AmountInv'
  BY <1>1, LockInvParts DEF RefundDeposit, AmountInv, AmountOK, BurntFirst, OneRelease, DustBelowUnit, withdrawVars,
     burnVars, TokenUnit
<1>3. status[d] = "pending" /\ status'[d] = "refunded" /\ \A e \in Deposits \ {d} : status'[e] = status[e]
  BY LockInvParts DEF RefundDeposit, Refund, LifeInv, LedgersTypeOK
<1>4. OnlyMoves({d}, {})
  BY <1>3, SameClaims DEF RefundDeposit, withdrawVars, burnVars
<1>5. Held(d)' = 0 /\ Held(d) = RefundAmount(d) * TokenUnit
  BY <1>1, <1>3 DEF Held
<1>6. balance' - balance = -RefundAmount(d) /\ Dust' = Dust /\ Dust \in Int
  BY <1>1, LockInvParts, DustIsInt DEF RefundDeposit, Dust, AmountInv, AmountOK, TokenUnit
<1>7. Change = Held(d)' - Held(d)
  <2>1. RefundAmount(d) * TokenUnit \in Int /\ (-RefundAmount(d)) * TokenUnit = -(RefundAmount(d) * TokenUnit)
    BY <1>1, Units
  <2> QED
    BY <1>5, <1>6, <2>1 DEF Change
<1> QED
  BY <1>2, <1>4, <1>7 DEF StepBalances

LEMMA ConfirmStep ==
    ASSUME LockInv, NEW d \in Deposits, NEW o \in Outpoints, ConfirmDeposit(d, o)
    PROVE  AmountInv' /\ StepBalances
<1> DEFINE net == netAmount[d]
<1>1. net \in Nat
  BY LockInvParts DEF AmountInv, AmountOK
<1>2. /\ XecAmount(net) \in Nat /\ DepositDust(net) \in Nat
      /\ XecAmount(net) * XecUnit + DepositDust(net) * TokenUnit = net * TokenUnit
  BY <1>1, ConfirmSplits
<1>3. AmountInv'
  BY <1>2, LockInvParts DEF ConfirmDeposit, AmountInv, AmountOK, BurntFirst, OneRelease, DustBelowUnit,
     withdrawVars, burnVars, TokenUnit
<1>4. status[d] = "pending" /\ status'[d] = "confirmed" /\ \A e \in Deposits \ {d} : status'[e] = status[e]
  BY LockInvParts DEF ConfirmDeposit, ConfirmByAnyone, ConfirmSucceeds, Confirm, LifeInv, LedgersTypeOK
<1>5. OnlyMoves({d}, {})
  BY <1>4, SameClaims DEF ConfirmDeposit, withdrawVars, burnVars
<1>6. /\ Held(d) = (net + FeeAmount) * TokenUnit
      /\ Held(d)' = XecAmount(net) * XecUnit + FeeAmount * TokenUnit
  BY <1>4 DEF ConfirmDeposit, Held, XecAmount, XecUnit, TokenUnit
<1>7. Held(d)' - Held(d) = -(DepositDust(net) * TokenUnit)
  <2>1. (net + FeeAmount) * TokenUnit = net * TokenUnit + FeeAmount * TokenUnit
    BY <1>1, Units
  <2>2. /\ net * TokenUnit \in Int /\ FeeAmount * TokenUnit \in Int
        /\ DepositDust(net) * TokenUnit \in Int /\ XecAmount(net) * XecUnit \in Int
    BY <1>1, <1>2, Units
  <2> QED
    BY <1>2, <1>6, <2>1, <2>2
<1>8. balance' - balance = 0 /\ Dust' = (collectedDust + DepositDust(net)) * TokenUnit + pendingXecDust
  BY LockInvParts DEF ConfirmDeposit, Dust, AmountInv, AmountOK, TokenUnit
<1>9. Dust' - Dust = DepositDust(net) * TokenUnit
  <2>1. collectedDust \in Nat /\ pendingXecDust \in Nat
    BY LockInvParts DEF AmountInv, AmountOK
  <2>2. (collectedDust + DepositDust(net)) * TokenUnit = collectedDust * TokenUnit + DepositDust(net) * TokenUnit
    BY <1>2, <2>1, Units
  <2>3. collectedDust * TokenUnit \in Int /\ DepositDust(net) * TokenUnit \in Int
    BY <1>2, <2>1, Units
  <2> QED
    BY <1>8, <2>1, <2>2, <2>3 DEF Dust
<1>10. Change = Held(d)' - Held(d)
  <2>1. 0 * TokenUnit = 0 /\ DepositDust(net) * TokenUnit \in Int
    BY <1>2, Units
  <2> QED
    BY <1>7, <1>8, <1>9, <2>1 DEF Change
<1> QED
  BY <1>3, <1>5, <1>10 DEF StepBalances

LEMMA ReleaseStep ==
    ASSUME LockInv, NEW b \in Burns, NEW s \in Stamps, Release(b, s)
    PROVE  AmountInv' /\ StepBalances
<1> DEFINE q    == burnt[b]
           paid == ReleaseAmount(q)
           dust == pendingXecDust + ReleaseDust(q)
           w    == WholeDust(dust)
<1>1. /\ AmountInv /\ q \in Nat /\ q > FeeAmountXec /\ balance \in Nat
      /\ pendingXecDust \in Nat /\ collectedDust \in Nat
  BY LockInvParts DEF Release, AmountInv, AmountOK
<1>2. /\ paid \in Nat /\ ReleaseDust(q) \in Nat
      /\ paid * TokenUnit + ReleaseDust(q) = (q - FeeAmountXec) * XecUnit
      /\ ~XecHasMorePrecision => ReleaseDust(q) = 0
  BY <1>1, ReleaseSplits
<1>3. dust \in Nat /\ (~XecHasMorePrecision => dust = 0)
  BY <1>1, <1>2, Units DEF AmountInv, DustBelowUnit
<1>4. w \in Nat /\ dust - w * Scale \in Nat /\ dust - w * Scale < TokenUnit /\ w * TokenUnit = w * Scale
  <2> HIDE DEF dust
  <2> QED
    BY <1>3, WholeUnits
<1>5. /\ balance' = balance - paid /\ balance >= paid
      /\ pendingXecDust' = dust - w * Scale /\ collectedDust' = collectedDust + w
      /\ stampConsumedBy[s] = None /\ burnConsumedBy[b] = None
      /\ stampConsumedBy' = [stampConsumedBy EXCEPT ![s] = b]
      /\ burnConsumedBy' = [burnConsumedBy EXCEPT ![b] = s]
      /\ UNCHANGED <<status, netAmount, burnt, stamped>>
  BY DEF Release, Unreleased, contractVars, burnVars
<1> HIDE DEF q, paid, dust, w
<1>6. AmountOK'
  BY <1>1, <1>2, <1>4, <1>5 DEF AmountInv, AmountOK
<1>7. /\ burnConsumedBy'[b] = s /\ \A c \in Burns \ {b} : burnConsumedBy'[c] = burnConsumedBy[c]
      /\ stampConsumedBy'[s] = b /\ \A t \in Stamps \ {s} : stampConsumedBy'[t] = stampConsumedBy[t]
  BY <1>1, <1>5 DEF AmountInv, AmountOK
<1>8. q # 0
  BY <1>1, Units
<1>9. BurntFirst'
  BY <1>1, <1>5, <1>7, <1>8 DEF AmountInv, BurntFirst, q
<1>10. OneRelease'
  <2>1. \A c \in Burns : burnConsumedBy[c] # None => burnConsumedBy[c] \in Stamps
    BY <1>1 DEF AmountInv, AmountOK
  <2>2. \A t \in Stamps : stampConsumedBy[t] # None => stampConsumedBy[t] \in Burns
    BY <1>1 DEF AmountInv, AmountOK
  <2>3. \A c \in Burns : burnConsumedBy[c] # s
    BY <1>1, <1>5 DEF AmountInv, OneRelease
  <2>4. \A t \in Stamps : stampConsumedBy[t] # b
    BY <1>1, <1>5 DEF AmountInv, OneRelease
  <2> QED
    BY <1>1, <1>7, <2>1, <2>2, <2>3, <2>4 DEF AmountInv, OneRelease
<1>11. DustBelowUnit'
  BY <1>4, <1>5 DEF DustBelowUnit, TokenUnit
<1>12. OnlyMoves({}, {b})
  BY <1>5, <1>7, SameClaims
<1>13. Redeemed(b) = 0 /\ Redeemed(b)' = (q - FeeAmountXec) * XecUnit
  BY <1>5, <1>7 DEF Redeemed, q, XecUnit
<1>14. Dust' - Dust = ReleaseDust(q)
  <2>1. Dust' = (collectedDust + w) * TokenUnit + (dust - w * Scale)
    BY <1>5 DEF Dust, TokenUnit
  <2>2. (collectedDust + w) * TokenUnit = collectedDust * TokenUnit + w * TokenUnit
    BY <1>1, <1>4, Units
  <2>3. collectedDust * TokenUnit \in Int /\ w * Scale \in Int
    BY <1>1, <1>4, Units
  <2>4. Dust' = collectedDust * TokenUnit + dust
    BY <1>3, <1>4, <2>1, <2>2, <2>3
  <2>5. Dust' - Dust = dust - pendingXecDust
    BY <1>1, <1>3, <2>3, <2>4 DEF Dust
  <2> QED
    BY <1>1, <1>2, <2>5 DEF dust
<1>15. Change = Redeemed(b) - Redeemed(b)'
  <2>1. balance' - balance = -paid
    BY <1>1, <1>2, <1>5
  <2>2. (-paid) * TokenUnit = -(paid * TokenUnit) /\ paid * TokenUnit \in Int
    BY <1>2, Units
  <2>3. (q - FeeAmountXec) * XecUnit \in Int
    BY <1>1, Units
  <2> QED
    BY <1>2, <1>13, <1>14, <2>1, <2>2, <2>3 DEF Change
<1> QED
  BY <1>6, <1>9, <1>10, <1>11, <1>12, <1>15 DEF AmountInv, StepBalances

\* Burns and stamps move no claim: a burn counts when it is released.
LEMMA BurnStep ==
    ASSUME LockInv, NEW b \in Burns, NEW s \in Stamps,
           Restamp(b, s) \/ \E q \in 1..Uint64Max : Burn(b, s, q)
    PROVE  AmountInv' /\ StepBalances
<1>1. /\ burnt' \in [Burns -> Nat] /\ stamped' \subseteq Burns \X Stamps
      /\ \A c \in Burns : burnt[c] # 0 => burnt'[c] = burnt[c]
      /\ UNCHANGED <<status, amountVars, withdrawVars>>
  BY LockInvParts DEF Restamp, Burn, AmountInv, AmountOK, ledgerVars, ethVars, contractVars
<1>2. AmountInv'
  BY <1>1, LockInvParts DEF AmountInv, AmountOK, BurntFirst, OneRelease, DustBelowUnit, amountVars, withdrawVars,
     TokenUnit
<1>3. \A c \in Burns : burnConsumedBy[c] # None => burnt'[c] = burnt[c]
  BY <1>1, LockInvParts DEF AmountInv, BurntFirst
<1>4. OnlyMoves({}, {})
  BY <1>1, <1>3, SameClaims DEF amountVars, withdrawVars
<1>5. balance' = balance /\ Dust' = Dust /\ balance \in Nat /\ Dust \in Int
  BY <1>1, LockInvParts, DustIsInt DEF amountVars, Dust, AmountInv, AmountOK, TokenUnit
<1>6. Change = 0
  <2>1. 0 * TokenUnit = 0
    BY Units
  <2> QED
    BY <1>5, <2>1 DEF Change
<1> QED
  BY <1>2, <1>4, <1>6 DEF StepBalances

-----------------------------------------------------------------------------
(* The sums of the claims *)

LEMMA HeldAndRedeemed ==
    LockInv => /\ balance * TokenUnit \in Int /\ balance \in Nat /\ Dust \in Nat
               /\ \A d \in Deposits : Held(d) \in Int
               /\ \A b \in Burns : Redeemed(b) \in Int
<1> SUFFICES ASSUME AmountOK, LedgersTypeOK
             PROVE  /\ balance * TokenUnit \in Int /\ balance \in Nat /\ Dust \in Nat
                    /\ \A d \in Deposits : Held(d) \in Int
                    /\ \A b \in Burns : Redeemed(b) \in Int
  BY LockInvParts DEF LifeInv, AmountInv
<1>1. balance * TokenUnit \in Int /\ balance \in Nat
  BY Units DEF AmountOK
<1>2. Dust \in Nat
  <2>1. collectedDust * TokenUnit \in Nat
    BY Units DEF AmountOK
  <2> QED
    BY <2>1 DEF Dust, AmountOK
<1>3. ASSUME NEW d \in Deposits PROVE Held(d) \in Int
  <2>1. netAmount[d] \in Nat /\ XecAmount(netAmount[d]) \in Nat
    BY ConfirmSplits DEF AmountOK
  <2>2. (netAmount[d] + FeeAmount) * TokenUnit \in Int
    BY <2>1, Units
  <2>3. XecAmount(netAmount[d]) * XecUnit \in Int /\ FeeAmount * TokenUnit \in Int
    BY <2>1, Units
  <2> QED
    BY <2>2, <2>3 DEF Held
<1>4. ASSUME NEW b \in Burns PROVE Redeemed(b) \in Int
  <2>1. (burnt[b] - FeeAmountXec) * XecUnit \in Int
    BY Units DEF AmountOK
  <2> QED
    BY <2>1 DEF Redeemed
<1> QED
  BY <1>1, <1>2, <1>3, <1>4

\* A step that balances keeps the sum of all the claims with the balance.
LEMMA ConservationKept ==
    ASSUME LockInv, LockInv', Conservation, StepBalances
    PROVE  Conservation'
<1> DEFINE held  == [d \in Deposits |-> Held(d)]
           heldN == [d \in Deposits |-> Held(d)']
           red   == [b \in Burns |-> Redeemed(b)]
           redN  == [b \in Burns |-> Redeemed(b)']
           H == SumFunctionOnSet(held, Deposits)
           N == SumFunctionOnSet(heldN, Deposits)
           R == SumFunctionOnSet(red, Burns)
           M == SumFunctionOnSet(redN, Burns)
<1>1. /\ balance \in Nat /\ Dust \in Nat /\ balance * TokenUnit \in Int
      /\ \A d \in Deposits : held[d] \in Int
      /\ \A b \in Burns : red[b] \in Int
  BY HeldAndRedeemed
<1>2. /\ balance' \in Nat /\ Dust' \in Nat /\ balance' * TokenUnit \in Int
      /\ \A d \in Deposits : heldN[d] \in Int
      /\ \A b \in Burns : redN[b] \in Int
  <2>1. LockInv' => /\ (balance * TokenUnit \in Int)' /\ (balance \in Nat)' /\ (Dust \in Nat)'
                    /\ (\A d \in Deposits : Held(d) \in Int)'
                    /\ (\A b \in Burns : Redeemed(b) \in Int)'
    BY HeldAndRedeemed, PTL
  <2> QED
    BY <2>1 DEF TokenUnit
<1>3. balance * TokenUnit = H - R + Dust
  BY DEF Conservation, SumFunction
<1>4. SUFFICES balance' * TokenUnit = N - M + Dust'
  BY DEF Conservation, SumFunction, TokenUnit
<1>5. (balance' - balance) * TokenUnit = balance' * TokenUnit - balance * TokenUnit
  BY <1>1, <1>2, Units
<1> SUFFICES Change = (N - H) - (M - R)
  <2>1. H \in Int /\ N \in Int /\ R \in Int /\ M \in Int
    <3> HIDE DEF held, heldN, red, redN
    <3> QED
      BY <1>1, <1>2, SumType
  <2> DEFINE was == balance * TokenUnit
             is  == balance' * TokenUnit
             claims  == H - R
             claimsN == N - M
             dust  == Dust
             dustN == Dust'
  <2>2. claims \in Int /\ claimsN \in Int /\ Change = claimsN - claims
    <3> HIDE DEF H, N, R, M
    <3> QED
      BY <2>1
  <2>3. was \in Int /\ is \in Int /\ was = claims + dust /\ Change = (is - was) - (dustN - dust)
    BY <1>1, <1>2, <1>3, <1>5 DEF Change
  <2>4. dust \in Int /\ dustN \in Int
    BY <1>1, <1>2
  <2> HIDE DEF was, is, claims, claimsN, dust, dustN
  <2>5. is = claimsN + dustN
    BY <2>2, <2>3, <2>4
  <2> QED
    BY <2>5 DEF is, claimsN, dustN
<1>6. ASSUME \A d \in Deposits : Held(d)' = Held(d) PROVE N = H
  BY <1>6, SumSame
<1>7. ASSUME \A b \in Burns : Redeemed(b)' = Redeemed(b) PROVE M = R
  BY <1>7, SumSame
<1>8. H \in Int /\ R \in Int
  <2> HIDE DEF held, red
  <2> QED
    BY <1>1, SumType
<1>9. CASE Change = 0 /\ OnlyMoves({}, {})
  BY <1>6, <1>7, <1>8, <1>9 DEF OnlyMoves
<1>10. CASE \E d \in Deposits : Change = Held(d)' - Held(d) /\ OnlyMoves({d}, {})
  <2>1. PICK d \in Deposits : Change = Held(d)' - Held(d) /\ OnlyMoves({d}, {})
    BY <1>10
  <2>2. M = R
    BY <1>7, <2>1 DEF OnlyMoves
  <2>3. held[d] = Held(d) /\ heldN[d] = Held(d)' /\ \A e \in Deposits \ {d} : held[e] = heldN[e]
    BY <2>1 DEF OnlyMoves
  <2>4. N = H + (heldN[d] - held[d])
    <3> HIDE DEF held, heldN
    <3> QED
      BY <1>1, <1>2, <2>3, SumChange
  <2> HIDE DEF H, N, R, M, held, heldN
  <2> QED
    BY <1>1, <1>2, <1>8, <2>1, <2>2, <2>3, <2>4
<1>11. CASE \E b \in Burns : Change = Redeemed(b) - Redeemed(b)' /\ OnlyMoves({}, {b})
  <2>1. PICK b \in Burns : Change = Redeemed(b) - Redeemed(b)' /\ OnlyMoves({}, {b})
    BY <1>11
  <2>2. N = H
    BY <1>6, <2>1 DEF OnlyMoves
  <2>3. red[b] = Redeemed(b) /\ redN[b] = Redeemed(b)' /\ \A c \in Burns \ {b} : red[c] = redN[c]
    BY <2>1 DEF OnlyMoves
  <2>4. M = R + (redN[b] - red[b])
    <3> HIDE DEF red, redN
    <3> QED
      BY <1>1, <1>2, <2>3, SumChange
  <2> HIDE DEF H, N, R, M, red, redN
  <2> QED
    BY <1>1, <1>2, <1>8, <2>1, <2>2, <2>3, <2>4
<1> QED
  BY <1>9, <1>10, <1>11 DEF StepBalances

LEMMA InitConservation == Init => Conservation
<1> SUFFICES ASSUME Init PROVE Conservation
  OBVIOUS
<1>1. \A d \in Deposits : [e \in Deposits |-> Held(e)][d] = 0
  BY DEF Init, LedgersInit, Held
<1>2. \A b \in Burns : [c \in Burns |-> Redeemed(c)][b] = 0
  BY DEF Init, Redeemed
<1>3. SumFunctionOnSet([d \in Deposits |-> Held(d)], Deposits) = 0
  BY <1>1, SumZero
<1>4. SumFunctionOnSet([b \in Burns |-> Redeemed(b)], Burns) = 0
  BY <1>2, SumZero
<1>5. balance * TokenUnit = 0 /\ Dust = 0
  BY Units DEF Init, Dust
<1> QED
  BY <1>3, <1>4, <1>5 DEF Conservation, SumFunction

-----------------------------------------------------------------------------
(* What is minted and what is burnt *)

MintedAmount == [m \in minted |-> XecAmount(netAmount[m[1]])]

\* A deposit consumes one outpoint and its wrapped tokens are minted there: so they are
\* minted once, for a confirmed deposit.
LEMMA MintedOnce ==
    ASSUME LockInv, SupplyInv
    PROVE  /\ IsFiniteSet(minted)
           /\ \A m \in minted : /\ m[1] \in Deposits /\ m[2] \in Outpoints
                                /\ status[m[1]] = "confirmed" /\ consumedBy[m[2]] # None
           /\ \A m, n \in minted : m[1] = n[1] => m = n
           /\ \A m \in minted : MintedAmount[m] \in Nat
           /\ \A b \in Burns : burnt[b] \in Nat
           /\ Supply = SumFunctionOnSet(MintedAmount, minted) - SumFunctionOnSet(burnt, Burns)
           /\ SumFunctionOnSet(MintedAmount, minted) \in Int /\ SumFunctionOnSet(burnt, Burns) \in Int
<1>1. LifeInv /\ AmountInv
  BY LockInvParts
<1>2. \A m \in minted : /\ m[1] \in Deposits /\ m[2] \in Outpoints /\ m = <<m[1], m[2]>>
                        /\ consumedBy[m[2]] = m[1] /\ m[1] # None
  BY <1>1 DEF LifeInv, LedgersTypeOK, SupplyInv
<1>3. \A m \in minted : status[m[1]] = "confirmed" /\ consumedBy[m[2]] # None
  BY <1>1, <1>2 DEF LifeInv, ConfirmedConsumers
<1>4. \A m, n \in minted : m[1] = n[1] => m = n
  BY <1>1, <1>2 DEF LifeInv, OneAuthorization
<1>5. IsFiniteSet(minted)
  <2> DEFINE at == [m \in minted |-> m[1]]
  <2>1. at \in Injection(minted, Deposits)
    BY <1>2, <1>4 DEF Injection, IsInjective
  <2> HIDE DEF at
  <2> QED
    BY <2>1, FS_Injection
<1>6. \A m \in minted : MintedAmount[m] \in Nat
  BY <1>1, <1>2, ConfirmSplits DEF MintedAmount, AmountInv, AmountOK
<1>7. \A b \in Burns : burnt[b] \in Nat
  BY <1>1 DEF AmountInv, AmountOK
<1>8. Supply = SumFunctionOnSet(MintedAmount, minted) - SumFunctionOnSet(burnt, Burns)
  BY <1>1 DEF Supply, SumFunction, MintedAmount, AmountInv, AmountOK
<1>9. SumFunctionOnSet(MintedAmount, minted) \in Int /\ SumFunctionOnSet(burnt, Burns) \in Int
  BY <1>5, <1>6, <1>7, SumType
<1> QED
  BY <1>2, <1>3, <1>4, <1>5, <1>6, <1>7, <1>8, <1>9

\* A step that neither mints nor burns leaves the supply alone: what backs it is resolved.
LEMMA SupplyAlone ==
    ASSUME LockInv, SupplyInv, minted' = minted, burnt' = burnt,
           \A o \in Outpoints : consumedBy[o] # None => consumedBy'[o] = consumedBy[o],
           \A d \in Deposits : status[d] = "confirmed" => netAmount'[d] = netAmount[d]
    PROVE  SupplyInv'
<1>1. \A m \in minted : consumedBy'[m[2]] = consumedBy[m[2]] /\ netAmount'[m[1]] = netAmount[m[1]]
  BY MintedOnce
<1>2. [m \in minted |-> XecAmount(netAmount[m[1]])]' = [m \in minted |-> XecAmount(netAmount[m[1]])]
  BY <1>1 DEF XecAmount
<1>3. Supply' = Supply
  BY <1>2 DEF Supply
<1> QED
  BY <1>1, <1>3 DEF SupplyInv

LEMMA MintSupply ==
    ASSUME LockInv, SupplyInv, NEW d \in Deposits, NEW o \in Outpoints, MintWrapped(d, o)
    PROVE  SupplyInv'
<1> DEFINE m == <<d, o>>
           f == [n \in minted \cup {m} |-> XecAmount(netAmount[n[1]])]
<1>1. /\ m \notin minted /\ minted' = minted \cup {m} /\ consumedBy[o] = d
      /\ UNCHANGED <<netAmount, consumedBy, burnt>>
  BY DEF MintWrapped, ethVars, contractVars, amountVars, burnVars
<1>2. XecAmount(netAmount[d]) \in Nat
  BY LockInvParts, ConfirmSplits DEF AmountInv, AmountOK
<1>3. f[m] = XecAmount(netAmount[d]) /\ \A n \in minted : f[n] = MintedAmount[n]
  BY DEF MintedAmount
<1>4. SumFunctionOnSet(f, minted \cup {m}) = f[m] + SumFunctionOnSet(f, minted)
  <2> HIDE DEF f, m
  <2> QED
    BY <1>1, <1>2, <1>3, MintedOnce, SumAdd
<1>5. SumFunctionOnSet(f, minted) = SumFunctionOnSet(MintedAmount, minted)
  <2> HIDE DEF f
  <2> QED
    BY <1>3, MintedOnce, SumSame
<1>6. Supply' = SumFunctionOnSet(f, minted \cup {m}) - SumFunctionOnSet(burnt, Burns)
  <2>1. [n \in minted |-> XecAmount(netAmount[n[1]])]' = f
    BY <1>1 DEF XecAmount
  <2>2. DOMAIN f = minted \cup {m} /\ DOMAIN burnt = Burns
    BY LockInvParts DEF AmountInv, AmountOK
  <2> HIDE DEF f
  <2> QED
    BY <1>1, <2>1, <2>2 DEF Supply, SumFunction
<1>7. Supply' = Supply + XecAmount(netAmount[d])
  <2> HIDE DEF f, m
  <2> QED
    BY <1>2, <1>3, <1>4, <1>5, <1>6, MintedOnce
<1>8. Supply \in Int /\ Supply >= 0
  BY MintedOnce DEF SupplyInv
<1>9. Supply' >= 0
  BY <1>2, <1>7, <1>8
<1>10. \A n \in minted' : consumedBy'[n[2]] = n[1]
  BY <1>1 DEF SupplyInv
<1> QED
  BY <1>9, <1>10 DEF SupplyInv

LEMMA BurnSupply ==
    ASSUME LockInv, SupplyInv, NEW b \in Burns, NEW s \in Stamps, NEW q \in 1..Uint64Max, Burn(b, s, q)
    PROVE  SupplyInv'
<1>1. /\ burnt[b] = 0 /\ q <= Supply /\ burnt' = [burnt EXCEPT ![b] = q]
      /\ UNCHANGED <<minted, netAmount, consumedBy>>
  BY DEF Burn, ledgerVars, ethVars, contractVars, xecVars, amountVars
<1>2. /\ \A c \in Burns : burnt[c] \in Int /\ burnt'[c] \in Int
      /\ burnt'[b] = q /\ \A c \in Burns \ {b} : burnt[c] = burnt'[c]
      /\ DOMAIN burnt' = Burns
  BY <1>1, LockInvParts DEF AmountInv, AmountOK
<1>3. SumFunctionOnSet(burnt', Burns) = SumFunctionOnSet(burnt, Burns) + (burnt'[b] - burnt[b])
  BY <1>2, SumChange
<1>4. Supply' = SumFunctionOnSet(MintedAmount, minted) - SumFunctionOnSet(burnt', Burns)
  BY <1>1, <1>2 DEF Supply, SumFunction, MintedAmount, XecAmount
<1>5. Supply' = Supply - q /\ Supply \in Int
  BY <1>1, <1>2, <1>3, <1>4, MintedOnce
<1>6. Supply' >= 0
  BY <1>1, <1>5
<1> QED
  BY <1>1, <1>6 DEF SupplyInv

LEMMA SupplyKept ==
    ASSUME LockInv, SupplyInv, [Next]_vars
    PROVE  SupplyInv'
<1>1. ASSUME NEW d \in Deposits, NEW r \in Received, Deposit(d, r) PROVE SupplyInv'
  <2>1. /\ status[d] = "unknown" /\ netAmount' = [netAmount EXCEPT ![d] = r - FeeAmount]
        /\ UNCHANGED <<minted, burnt, consumedBy>>
    BY <1>1 DEF Deposit, Lock, xecVars, burnVars
  <2>2. \A e \in Deposits : status[e] = "confirmed" => netAmount'[e] = netAmount[e]
    BY <2>1
  <2> QED
    BY <2>1, <2>2, SupplyAlone
<1>2. ASSUME NEW d \in Deposits, RefundSignal(d) \/ RefundDeposit(d) PROVE SupplyInv'
  <2>1. UNCHANGED <<minted, burnt, consumedBy, netAmount>>
    BY <1>2 DEF RefundSignal, RequestRefund, CancelRefundRequest, RefundDeposit, Refund,
       xecVars, amountVars, burnVars
  <2> QED
    BY <2>1, SupplyAlone
<1>3. ASSUME NEW d \in Deposits, NEW o \in Outpoints, ConfirmDeposit(d, o) PROVE SupplyInv'
  <2>1. /\ consumedBy[o] = None /\ consumedBy' = [consumedBy EXCEPT ![o] = d]
        /\ UNCHANGED <<minted, burnt, netAmount>>
    BY <1>3 DEF ConfirmDeposit, ConfirmByAnyone, ConfirmSucceeds, Confirm, xecVars, burnVars
  <2>2. \A p \in Outpoints : consumedBy[p] # None => consumedBy'[p] = consumedBy[p]
    BY <2>1
  <2> QED
    BY <2>1, <2>2, SupplyAlone
<1>4. ASSUME NEW d \in Deposits, NEW o \in Outpoints, Sign(d, o) PROVE SupplyInv'
  <2>1. UNCHANGED <<minted, burnt, consumedBy, netAmount>>
    BY <1>4 DEF Sign, contractVars, xecVars, amountVars, burnVars
  <2> QED
    BY <2>1, SupplyAlone
<1>5. ASSUME NEW b \in Burns, NEW s \in Stamps, Release(b, s) \/ Restamp(b, s) PROVE SupplyInv'
  <2>1. UNCHANGED <<minted, burnt, consumedBy, netAmount>>
    BY <1>5 DEF Release, Restamp, ledgerVars, ethVars, contractVars, xecVars, amountVars, burnVars
  <2> QED
    BY <2>1, SupplyAlone
<1>6. CASE UNCHANGED vars
  <2>1. UNCHANGED <<minted, burnt, consumedBy, netAmount>>
    BY <1>6 DEF vars, ledgerVars, ethVars, contractVars, xecVars, amountVars, burnVars
  <2> QED
    BY <2>1, SupplyAlone
<1> QED
  BY <1>1, <1>2, <1>3, <1>4, <1>5, <1>6, MintSupply, BurnSupply DEF Next

LEMMA InitSupply == Init => SupplyInv
<1> SUFFICES ASSUME Init PROVE SupplyInv
  OBVIOUS
<1> DEFINE f == [m \in minted |-> XecAmount(netAmount[m[1]])]
<1>1. minted = {} /\ DOMAIN f = {} /\ DOMAIN burnt = Burns /\ \A b \in Burns : burnt[b] = 0
  BY DEF Init, LedgersInit
<1>2. SumFunctionOnSet(f, {}) = 0
  BY SumEmpty
<1>3. SumFunctionOnSet(burnt, Burns) = 0
  BY <1>1, SumZero
<1>4. Supply = 0 - 0
  <2> HIDE DEF f
  <2> QED
    BY <1>1, <1>2, <1>3 DEF Supply, SumFunction, f
<1> QED
  BY <1>1, <1>4 DEF SupplyInv

-----------------------------------------------------------------------------
(* What the balance covers *)

\* What backs the wrapped tokens minted for a deposit.
Backing(d) == IF \E m \in minted : m[1] = d THEN XecAmount(netAmount[d]) ELSE 0

LEMMA MintedIsBacking ==
    ASSUME LockInv, SupplyInv
    PROVE  SumFunctionOnSet(MintedAmount, minted) = SumFunctionOnSet([d \in Deposits |-> Backing(d)], Deposits)
<1> DEFINE g  == [d \in Deposits |-> Backing(d)]
           at == [m \in minted |-> m[1]]
<1>1. at \in [minted -> Deposits] /\ \A m, n \in minted : at[m] = at[n] => m = n
  BY MintedOnce
<1>2. \A m \in minted : MintedAmount[m] \in Int /\ g[at[m]] = MintedAmount[m]
  BY MintedOnce DEF MintedAmount, Backing
<1>3. \A d \in Deposits : (\A m \in minted : at[m] # d) => g[d] = 0
  BY DEF Backing
<1> HIDE DEF g, at
<1>4. SumFunctionOnSet(MintedAmount, minted) = SumFunctionOnSet(g, Deposits)
  BY <1>1, <1>2, <1>3, MintedOnce, SumReindex
<1> QED
  BY <1>4 DEF g

\* The claim of a deposit covers its refund, or else what backs its wrapped tokens.
LEMMA HeldCovers ==
    ASSUME LockInv, SupplyInv, NEW d \in Deposits
    PROVE  /\ Owed(d) \in Nat /\ Backing(d) \in Nat /\ Held(d) \in Int
           /\ TokenUnit * Owed(d) + XecUnit * Backing(d) <= 1 * Held(d)
<1>1. netAmount[d] \in Nat /\ XecAmount(netAmount[d]) \in Nat
  BY LockInvParts, ConfirmSplits DEF AmountInv, AmountOK
<1>2. Owed(d) \in Nat /\ Backing(d) \in Nat /\ Held(d) \in Int
  BY <1>1, HeldAndRedeemed DEF Owed, Backing
<1>3. status[d] # "confirmed" => Backing(d) = 0
  BY MintedOnce DEF Backing
<1>4. XecUnit * 0 = 0 /\ TokenUnit * 0 = 0
  BY Units
<1>5. CASE status[d] = "pending"
  <2>1. Held(d) = (netAmount[d] + FeeAmount) * TokenUnit
    BY <1>5, Zenon DEF Held
  <2>2. Owed(d) = netAmount[d] + FeeAmount
    BY <1>5 DEF Owed
  <2>3. TokenUnit * Owed(d) = Owed(d) * TokenUnit /\ TokenUnit * Owed(d) \in Int
    BY <1>2, Units
  <2> QED
    BY <1>2, <1>3, <1>4, <1>5, <2>1, <2>2, <2>3
<1>6. CASE status[d] = "confirmed"
  <2>1. Held(d) = XecAmount(netAmount[d]) * XecUnit + FeeAmount * TokenUnit
    BY <1>6, Zenon DEF Held
  <2>2. Owed(d) = 0
    BY <1>6 DEF Owed
  <2>3. Backing(d) = XecAmount(netAmount[d]) \/ Backing(d) = 0
    BY DEF Backing
  <2> DEFINE a   == XecAmount(netAmount[d]) * XecUnit
             fee == FeeAmount * TokenUnit
  <2>4. a \in Nat /\ fee \in Nat
    BY <1>1, Units
  <2>5. XecUnit * XecAmount(netAmount[d]) = a
    BY <1>1, Units
  <2> HIDE DEF a, fee
  <2>6. XecUnit * Backing(d) <= a /\ XecUnit * Backing(d) \in Int
    BY <1>4, <2>3, <2>4, <2>5
  <2>7. Held(d) = a + fee
    BY <2>1 DEF a, fee
  <2>8. TokenUnit * Owed(d) = 0 /\ 1 * Held(d) = Held(d)
    BY <1>2, <1>4, <2>2
  <2>9. XecUnit * Backing(d) <= Held(d)
    BY <2>4, <2>6, <2>7
  <2> QED
    BY <1>2, <2>6, <2>8, <2>9
<1>7. CASE status[d] # "pending" /\ status[d] # "confirmed"
  <2>1. Held(d) = 0 /\ Owed(d) = 0 /\ Backing(d) = 0
    BY <1>3, <1>7, Zenon DEF Held, Owed
  <2> QED
    BY <1>4, <2>1
<1> QED
  BY <1>2, <1>5, <1>6, <1>7

LEMMA Distribute ==
    ASSUME NEW m \in Int, NEW n \in Int, NEW k \in Int
    PROVE  (m - n) * k = k * m - k * n
OBVIOUS

\* What was redeemed for a burn, or else what is due for it, is within what it burnt.
LEMMA BurntCovers ==
    ASSUME LockInv, NEW b \in Burns
    PROVE  /\ Due(b) \in Nat /\ burnt[b] \in Nat /\ Redeemed(b) \in Int
           /\ 1 * Redeemed(b) + TokenUnit * Due(b) <= XecUnit * burnt[b]
<1> DEFINE q == burnt[b]
<1>1. q \in Nat
  BY LockInvParts DEF AmountInv, AmountOK
<1>2. Due(b) \in Nat /\ Redeemed(b) \in Int
  BY <1>1, HeldAndRedeemed, ReleaseSplits DEF Due
<1>3. /\ (q - FeeAmountXec) * XecUnit = XecUnit * q - XecUnit * FeeAmountXec
      /\ XecUnit * q \in Nat /\ XecUnit * FeeAmountXec \in Nat
  <2> HIDE DEF q
  <2>1. q \in Int /\ FeeAmountXec \in Int /\ XecUnit \in Int
    BY <1>1, Units
  <2>2. (q - FeeAmountXec) * XecUnit = XecUnit * q - XecUnit * FeeAmountXec
    BY <2>1, Distribute
  <2> QED
    BY <1>1, <2>2, Units
<1> SUFFICES Redeemed(b) + TokenUnit * Due(b) <= XecUnit * q
  BY <1>1, <1>2
<1>4. TokenUnit * 0 = 0
  BY Units
<1>5. CASE burnConsumedBy[b] # None
  <2>1. Redeemed(b) = (q - FeeAmountXec) * XecUnit /\ Due(b) = 0
    BY <1>5 DEF Redeemed, Due
  <2> HIDE DEF q
  <2>2. Redeemed(b) <= XecUnit * q
    BY <1>2, <1>3, <2>1
  <2> QED
    BY <1>2, <1>4, <2>1, <2>2 DEF q
<1>6. CASE burnConsumedBy[b] = None /\ q > FeeAmountXec
  <2>1. Redeemed(b) = 0 /\ Due(b) = ReleaseAmount(q)
    BY <1>6 DEF Redeemed, Due
  <2> HIDE DEF q
  <2>2. /\ ReleaseAmount(q) \in Nat /\ ReleaseDust(q) \in Nat
        /\ ReleaseAmount(q) * TokenUnit + ReleaseDust(q) = (q - FeeAmountXec) * XecUnit
    BY <1>1, <1>6, ReleaseSplits
  <2>3. TokenUnit * Due(b) = ReleaseAmount(q) * TokenUnit /\ TokenUnit * Due(b) \in Int
    BY <2>1, <2>2, Units
  <2>4. TokenUnit * Due(b) + ReleaseDust(q) = XecUnit * q - XecUnit * FeeAmountXec
    BY <1>3, <2>2, <2>3
  <2>5. TokenUnit * Due(b) <= XecUnit * q
    BY <1>3, <2>2, <2>3, <2>4
  <2> QED
    BY <1>2, <2>1, <2>3, <2>5 DEF q
<1>7. CASE burnConsumedBy[b] = None /\ ~(q > FeeAmountXec)
  <2>1. Redeemed(b) = 0 /\ Due(b) = 0
    BY <1>7 DEF Redeemed, Due
  <2> HIDE DEF q
  <2> QED
    BY <1>3, <1>4, <2>1
<1> QED
  BY <1>1, <1>2, <1>5, <1>6, <1>7

\* The claims add up to the balance and the supply is not negative: so it covers them.
LEMMA ClaimsArePayable == ClaimsInv => Payable
<1> SUFFICES ASSUME LockInv, SupplyInv, Conservation PROVE Payable
  BY DEF ClaimsInv
<1> DEFINE held == [d \in Deposits |-> Held(d)]
           owed == [d \in Deposits |-> Owed(d)]
           back == [d \in Deposits |-> Backing(d)]
           red  == [b \in Burns |-> Redeemed(b)]
           due  == [b \in Burns |-> Due(b)]
           H == SumFunctionOnSet(held, Deposits)
           O == SumFunctionOnSet(owed, Deposits)
           B == SumFunctionOnSet(back, Deposits)
           R == SumFunctionOnSet(red, Burns)
           U == SumFunctionOnSet(due, Burns)
           Q == SumFunctionOnSet(burnt, Burns)
<1>1. /\ \A d \in Deposits : owed[d] \in Int /\ back[d] \in Int /\ held[d] \in Int
      /\ \A d \in Deposits : TokenUnit * owed[d] + XecUnit * back[d] <= 1 * held[d]
  BY HeldCovers
<1>2. /\ \A b \in Burns : red[b] \in Int /\ due[b] \in Int /\ burnt[b] \in Int
      /\ \A b \in Burns : 1 * red[b] + TokenUnit * due[b] <= XecUnit * burnt[b]
  BY BurntCovers
<1>3. TokenUnit \in Int /\ TokenUnit > 0 /\ XecUnit \in Int /\ XecUnit > 0 /\ 1 \in Int
  BY Units
<1>4. balance \in Nat /\ Dust \in Nat /\ balance * TokenUnit \in Int /\ balance * TokenUnit = H - R + Dust
  BY HeldAndRedeemed DEF Conservation, SumFunction
<1>5. B >= Q
  BY MintedOnce, MintedIsBacking DEF SupplyInv
<1>6. SUFFICES balance >= O + U
  BY DEF Payable, SumFunction
<1> HIDE DEF held, owed, back, red, due
<1>7. H \in Int /\ O \in Int /\ B \in Int /\ R \in Int /\ U \in Int /\ Q \in Int
  BY <1>1, <1>2, SumType
<1>8. TokenUnit * O + XecUnit * B <= 1 * H
  BY <1>1, <1>3, SumLinear
<1>9. 1 * R + TokenUnit * U <= XecUnit * Q
  BY <1>2, <1>3, SumLinear
<1> DEFINE dust == Dust
<1> HIDE DEF H, O, B, R, U, Q, dust
<1>10. XecUnit * B >= XecUnit * Q /\ XecUnit * B \in Int /\ XecUnit * Q \in Int
  BY <1>3, <1>5, <1>7
<1>11. TokenUnit * O \in Int /\ TokenUnit * U \in Int /\ TokenUnit * (O + U) = TokenUnit * O + TokenUnit * U
  BY <1>3, <1>7
<1>12. TokenUnit * O + TokenUnit * U <= H - R
  BY <1>7, <1>8, <1>9, <1>10, <1>11
<1>13. TokenUnit * (O + U) <= balance * TokenUnit
  BY <1>4, <1>7, <1>11, <1>12
<1> QED
  BY <1>3, <1>4, <1>7, <1>13

-----------------------------------------------------------------------------
(* The theorems *)

LEMMA LifeKept ==
    ASSUME LockInv, LedgersTypeOK', height <= height', UNCHANGED contractVars
    PROVE  LifeInv'
<1>1. \A e \in log : e.block \in Nat
  BY LockInvParts DEF LifeInv, LedgersTypeOK, Events
<1>2. height \in Nat /\ height' \in Nat
  BY LockInvParts DEF LifeInv, LedgersTypeOK
<1>3. RequestInv'
  BY <1>1, <1>2, LockInvParts DEF LifeInv, RequestInv, contractVars
<1>4. NoticeBeforeRefund' /\ ConfirmedConsumers' /\ OneAuthorization'
  BY LockInvParts DEF LifeInv, NoticeBeforeRefund, ConfirmedConsumers, OneAuthorization, contractVars
<1> QED
  BY <1>3, <1>4 DEF LifeInv

LEMMA InitLockInv == Init => LockInv
<1> SUFFICES ASSUME Init PROVE LifeInv /\ AmountInv
  BY LockInvParts
<1>1. LedgersTypeOK
  BY DEF Init, LedgersInit, LedgersTypeOK, Statuses
<1>2. RequestInv /\ NoticeBeforeRefund /\ ConfirmedConsumers /\ OneAuthorization
  BY DEF Init, LedgersInit, RequestInv, NoticeBeforeRefund, ConfirmedConsumers, OneAuthorization
<1>3. AmountOK /\ BurntFirst /\ OneRelease
  BY DEF Init, AmountOK, BurntFirst, OneRelease
<1>4. DustBelowUnit
  BY Units DEF Init, DustBelowUnit
<1> QED
  BY <1>1, <1>2, <1>3, <1>4 DEF LifeInv, AmountInv

LEMMA NextLockInv ==
    ASSUME LockInv, [Next]_vars
    PROVE  LockInv' /\ StepBalances
<1> SUFFICES LifeInv' /\ AmountInv' /\ StepBalances
  BY LockInvParts, PTL
<1> USE LockInvParts
<1>1. ASSUME NEW d \in Deposits, NEW r \in Received, Deposit(d, r)
      PROVE  LifeInv' /\ AmountInv' /\ StepBalances
  BY <1>1, LockLife, DepositStep DEF Deposit
<1>2. ASSUME NEW d \in Deposits, RefundSignal(d)
      PROVE  LifeInv' /\ AmountInv' /\ StepBalances
  <2>1. status' = status /\ UNCHANGED <<xecVars, amountVars, withdrawVars, burnVars>>
    BY <1>2 DEF RefundSignal, RequestRefund, CancelRefundRequest
  <2> QED
    BY <1>2, <2>1, RequestLife, AloneStep DEF RefundSignal
<1>3. ASSUME NEW d \in Deposits, RefundDeposit(d)
      PROVE  LifeInv' /\ AmountInv' /\ StepBalances
  BY <1>3, RefundLife, RefundStep DEF RefundDeposit
<1>4. ASSUME NEW d \in Deposits, NEW o \in Outpoints, ConfirmDeposit(d, o)
      PROVE  LifeInv' /\ AmountInv' /\ StepBalances
  BY <1>4, ConfirmLife, ConfirmStep DEF ConfirmDeposit
<1>5. ASSUME NEW d \in Deposits, NEW o \in Outpoints, Sign(d, o) \/ MintWrapped(d, o)
      PROVE  LifeInv' /\ AmountInv' /\ StepBalances
  <2>1. /\ UNCHANGED <<height, contractVars, amountVars, withdrawVars, burnVars>>
        /\ LedgersTypeOK'
    BY <1>5 DEF Sign, MintWrapped, ethVars, contractVars, xecVars, LifeInv, LedgersTypeOK
  <2>2. height <= height'
    BY <2>1 DEF LifeInv, LedgersTypeOK
  <2>3. status' = status
    BY <2>1 DEF contractVars
  <2> QED
    BY <2>1, <2>2, <2>3, LifeKept, AloneStep
<1>6. ASSUME NEW b \in Burns, NEW s \in Stamps, Release(b, s)
      PROVE  LifeInv' /\ AmountInv' /\ StepBalances
  <2>1. UNCHANGED contractVars /\ height <= height' /\ LedgersTypeOK'
    BY <1>6 DEF Release, NewBlock, contractVars, xecVars, LifeInv, LedgersTypeOK
  <2> QED
    BY <1>6, <2>1, LifeKept, ReleaseStep
<1>7. ASSUME NEW b \in Burns, NEW s \in Stamps, Restamp(b, s) \/ \E q \in 1..Uint64Max : Burn(b, s, q)
      PROVE  LifeInv' /\ AmountInv' /\ StepBalances
  <2>1. UNCHANGED ledgerVars
    BY <1>7 DEF Restamp, Burn
  <2>2. UNCHANGED contractVars /\ height <= height' /\ LedgersTypeOK'
    BY <2>1 DEF ledgerVars, ethVars, contractVars, xecVars, LifeInv, LedgersTypeOK
  <2> QED
    BY <1>7, <2>2, LifeKept, BurnStep
<1>8. CASE UNCHANGED vars
  <2>1. /\ UNCHANGED <<height, contractVars, amountVars, withdrawVars, burnVars>> /\ status' = status
        /\ LedgersTypeOK'
    BY <1>8 DEF vars, ledgerVars, ethVars, contractVars, xecVars, LifeInv, LedgersTypeOK
  <2>2. height <= height'
    BY <2>1 DEF LifeInv, LedgersTypeOK
  <2> QED
    BY <2>1, <2>2, LifeKept, AloneStep
<1> QED
  BY <1>1, <1>2, <1>3, <1>4, <1>5, <1>6, <1>7, <1>8 DEF Next

\* Every reachable state satisfies the inductive invariant.
THEOREM LockInvariance == Spec => []LockInv
<1>1. Init => LockInv
  BY InitLockInv
<1>2. LockInv /\ [Next]_vars => LockInv'
  BY NextLockInv
<1> QED
  BY <1>1, <1>2, PTL DEF Spec

\* The state keeps its types; in particular no amount goes below zero.
THEOREM LockTypeCorrect == Spec => []TypeOK
<1>1. LockInv => TypeOK
  BY DEF LockInv
<1> QED
  BY <1>1, LockInvariance, PTL

\* BridgeLock.sol, refund(): a refund ends a whole refundDelay that a request opened and
\* nothing interrupted.
THEOREM NoticeHolds == Spec => []NoticeBeforeRefund
<1>1. LockInv => NoticeBeforeRefund
  BY DEF LockInv
<1> QED
  BY <1>1, LockInvariance, PTL

\* BridgeLock.sol, confirmDeposit(): of all the signatures of a deposit, one confirms it.
THEOREM OneAuthorizationHolds == Spec => []OneAuthorization
<1>1. LockInv => OneAuthorization
  BY DEF LockInv
<1> QED
  BY <1>1, LockInvariance, PTL

\* BridgeLock.sol, release(): a burn and a stamp back one release, each other's.
THEOREM OneReleaseHolds == Spec => []OneRelease
<1>1. LockInv => OneRelease
  BY DEF LockInv
<1> QED
  BY <1>1, LockInvariance, PTL

\* BridgeLock.sol, release(): the dust banked never makes up a token unit.
THEOREM DustBelowUnitHolds == Spec => []DustBelowUnit
<1>1. LockInv => DustBelowUnit
  BY DEF LockInv
<1> QED
  BY <1>1, LockInvariance, PTL

\* SPEC.md VI: every step moves one claim and balances to the last unit, for every
\* scale, every fee and either direction of the precision.
THEOREM BalancesHold == Spec => Balances
<1>1. LockInv /\ [Next]_vars => StepBalances
  BY NextLockInv
<1>2. LockInv /\ [Next]_vars => [StepBalances]_vars
  BY <1>1
<1> QED
  BY <1>2, LockInvariance, PTL DEF Spec, Balances

\* The claims keep adding up: what each step moves is what the balance gains, and no more
\* is burnt than was minted.
THEOREM ClaimsInvariance == Spec => []ClaimsInv
<1>1. Init => ClaimsInv
  BY InitLockInv, InitSupply, InitConservation DEF ClaimsInv
<1>2. ClaimsInv /\ [Next]_vars => ClaimsInv'
  <2> SUFFICES ASSUME LockInv, SupplyInv, Conservation, [Next]_vars
               PROVE  LockInv' /\ SupplyInv' /\ Conservation'
    BY DEF ClaimsInv
  <2>1. LockInv' /\ StepBalances
    BY NextLockInv
  <2>2. Conservation'
    BY <2>1, ConservationKept
  <2> QED
    BY <2>1, <2>2, SupplyKept
<1> QED
  BY <1>1, <1>2, PTL DEF Spec

\* SPEC.md VI, "Dust is conserved, not confiscated": for every number of deposits and of
\* burns, every scale, every fee and either direction of the precision, the balance is
\* what is held for the deposits, less what was redeemed, and the dust.
THEOREM ConservationHolds == Spec => []Conservation
<1>1. ClaimsInv => Conservation
  BY DEF ClaimsInv
<1> QED
  BY <1>1, ClaimsInvariance, PTL

\* The contract is never short: its balance covers every refund and every stamped burn
\* still to come, all at once.
THEOREM PayableHolds == Spec => []Payable
<1> QED
  BY ClaimsArePayable, ClaimsInvariance, PTL
=============================================================================
