------------------------------- MODULE Ledgers -------------------------------
(***************************************************************************)
(* The two ledgers the authorizer acts between, as its ports see them:     *)
(*                                                                         *)
(*   - Ethereum: the height, the lock contract's per-deposit state         *)
(*     (BridgeLock.sol, amounts left to module BridgeLock), its event log, *)
(*     and the confirmDeposit() transactions sent at the service's nonces; *)
(*   - eCash: the vault outputs that exist and the mints that spent them.  *)
(*                                                                         *)
(* Each Ethereum action executes in a block of its own, at height + 1, so  *)
(* an event is identified by its block and getLogs(from, to) never sees    *)
(* half a block.  Reorganisations are not modelled: the code has no        *)
(* handling of them.                                                       *)
(***************************************************************************)
EXTENDS Integers, FiniteSets

CONSTANTS
    Deposits,            \* the deposits that may be locked
    Coins,               \* the reserve pool's coins
    None,                \* absence: no deposit, coin, transaction or event
    Nonces,              \* the Ethereum nonces the service may use, 0..N
    RefundDelay,         \* BridgeLock.refundDelay, in blocks
    MinConfirmations,    \* BridgeLock.minConfirmations
    DeterministicFunding,\* does the funding txid depend on the coin alone?
    MaxHeight            \* bound: the last block of a behaviour

(***************************************************************************)
(* A funding transaction spends one reserve coin into one vault output, so *)
(* the coin, and for a wallet that varies its transactions the deposit,    *)
(* identify the output.                                                    *)
(***************************************************************************)
Outpoints == [coin : Coins, for : Deposits \cup {None}]
FundingOutpoint(c, d) == [coin |-> c, for |-> IF DeterministicFunding THEN None ELSE d]

ASSUME LedgersAssumption ==
    /\ RefundDelay \in Nat \ {0}
    /\ MinConfirmations \in Nat
    /\ MaxHeight \in Nat
    /\ Nonces \subseteq Nat
    /\ DeterministicFunding \in BOOLEAN
    /\ None \notin Deposits /\ None \notin Coins /\ None \notin Nonces
    /\ None \notin Outpoints

VARIABLES
    height,       \* the newest block
    status,       \* deposit -> what getDeposit() reports of it
    lockedAt,     \* deposit -> Deposit.blockNumber
    requestedAt,  \* deposit -> refundRequestedAt, 0 when there is no request
    consumedBy,   \* outpoint -> utxoConsumedBy
    log,          \* the events emitted so far
    txs,          \* nonce -> the confirmDeposit() transaction sent at it
    published,    \* the <<deposit, outpoint>> authorizations anyone can read
    vaults,       \* the vault outpoints created on eCash
    minted        \* the <<deposit, outpoint>> mints that spent one

contractVars == <<status, lockedAt, requestedAt, consumedBy, log>>
ethVars      == <<height, contractVars, txs, published>>
xecVars      == <<vaults, minted>>
ledgerVars   == <<ethVars, xecVars>>

Statuses   == {"unknown", "pending", "confirmed", "refunded"}
EventTypes == {"DepositLocked", "RefundRequested", "RefundRequestCancelled",
               "DepositRefunded", "DepositConfirmed"}
Events     == [block : Nat, type : EventTypes, dep : Deposits]
Txs        == [dep : Deposits, utxo : Outpoints, mined : Nat]   \* mined = 0: pending

LedgersTypeOK ==
    /\ height \in Nat
    /\ status \in [Deposits -> Statuses]
    /\ lockedAt \in [Deposits -> Nat]
    /\ requestedAt \in [Deposits -> Nat]
    /\ consumedBy \in [Outpoints -> Deposits \cup {None}]
    /\ log \subseteq Events
    /\ txs \in [Nonces -> Txs \cup {None}]
    /\ published \subseteq Deposits \X Outpoints
    /\ vaults \subseteq Outpoints
    /\ minted \subseteq Deposits \X Outpoints

LedgersInit ==
    /\ height = 0
    /\ status = [d \in Deposits |-> "unknown"]
    /\ lockedAt = [d \in Deposits |-> 0]
    /\ requestedAt = [d \in Deposits |-> 0]
    /\ consumedBy = [o \in Outpoints |-> None]
    /\ log = {}
    /\ txs = [n \in Nonces |-> None]
    /\ published = {}
    /\ vaults = {}
    /\ minted = {}

-----------------------------------------------------------------------------
(* Ethereum *)

NewBlock == height < MaxHeight /\ height' = height + 1

Emit(type, d) == log' = log \cup {[block |-> height + 1, type |-> type, dep |-> d]}

\* deposit(): a fresh depositId, because _depositNonce enters its hash.
Lock(d) ==
    /\ NewBlock
    /\ status[d] = "unknown"
    /\ status' = [status EXCEPT ![d] = "pending"]
    /\ lockedAt' = [lockedAt EXCEPT ![d] = height + 1]
    /\ Emit("DepositLocked", d)
    /\ UNCHANGED <<requestedAt, consumedBy, txs, published>>

\* Faulty: a repeated request keeps the first one's delay.
RequestRefundOnce(d) ==
    /\ NewBlock
    /\ status[d] = "pending"
    /\ requestedAt' = [requestedAt EXCEPT ![d] = IF @ = 0 THEN height + 1 ELSE @]
    /\ Emit("RefundRequested", d)
    /\ UNCHANGED <<status, lockedAt, consumedBy, txs, published>>

\* requestRefund(): calling it again restarts the delay.
RequestRefund(d) ==
    /\ NewBlock
    /\ status[d] = "pending"
    /\ requestedAt' = [requestedAt EXCEPT ![d] = height + 1]
    /\ Emit("RefundRequested", d)
    /\ UNCHANGED <<status, lockedAt, consumedBy, txs, published>>

\* cancelRefundRequest(): guarded by the request alone, so also after refund().
CancelRefundRequest(d) ==
    /\ NewBlock
    /\ requestedAt[d] # 0
    /\ requestedAt' = [requestedAt EXCEPT ![d] = 0]
    /\ Emit("RefundRequestCancelled", d)
    /\ UNCHANGED <<status, lockedAt, consumedBy, txs, published>>

\* Faulty: refund() guarded by the request alone, as cancelRefundRequest() is.
RefundAgain(d) ==
    /\ NewBlock
    /\ requestedAt[d] # 0
    /\ height + 1 >= requestedAt[d] + RefundDelay
    /\ status' = [status EXCEPT ![d] = "refunded"]
    /\ Emit("DepositRefunded", d)
    /\ UNCHANGED <<lockedAt, requestedAt, consumedBy, txs, published>>

\* refund(): leaves refundRequestedAt as it is.
Refund(d) ==
    /\ NewBlock
    /\ status[d] = "pending"
    /\ requestedAt[d] # 0
    /\ height + 1 >= requestedAt[d] + RefundDelay
    /\ status' = [status EXCEPT ![d] = "refunded"]
    /\ Emit("DepositRefunded", d)
    /\ UNCHANGED <<lockedAt, requestedAt, consumedBy, txs, published>>

\* Faulty: the deposit's status is not checked, only the outpoint's.
ConfirmsAgain(d, o) ==
    /\ requestedAt[d] = 0
    /\ height + 1 >= lockedAt[d] + MinConfirmations
    /\ consumedBy[o] = None

\* The checks of confirmDeposit() executed in the next block.
ConfirmSucceeds(d, o) ==
    /\ status[d] = "pending"
    /\ requestedAt[d] = 0
    /\ height + 1 >= lockedAt[d] + MinConfirmations
    /\ consumedBy[o] = None

Confirm(d, o) ==
    /\ status' = [status EXCEPT ![d] = "confirmed"]
    /\ consumedBy' = [consumedBy EXCEPT ![o] = d]
    /\ Emit("DepositConfirmed", d)

\* The service's confirmation at nonce n is mined, in nonce order; it may revert.
MineConfirmation(n) ==
    /\ NewBlock
    /\ txs[n] # None
    /\ txs[n].mined = 0
    /\ \A m \in Nonces : m < n => txs[m] # None /\ txs[m].mined # 0
    /\ txs' = [txs EXCEPT ![n].mined = height + 1]
    /\ \/ /\ ConfirmSucceeds(txs[n].dep, txs[n].utxo)
          /\ Confirm(txs[n].dep, txs[n].utxo)
       \/ /\ ~ConfirmSucceeds(txs[n].dep, txs[n].utxo)
          /\ UNCHANGED <<status, consumedBy, log>>
    /\ UNCHANGED <<lockedAt, requestedAt, published>>

\* confirmDeposit() takes any caller: whoever read the signature may submit it.
ConfirmByAnyone(d, o) ==
    /\ NewBlock
    /\ <<d, o>> \in published
    /\ ConfirmSucceeds(d, o)
    /\ Confirm(d, o)
    /\ UNCHANGED <<lockedAt, requestedAt, txs, published>>

\* A pending transaction the pool evicts is gone, but its signature is not.
EvictConfirmation(n) ==
    /\ txs[n] # None
    /\ txs[n].mined = 0
    /\ txs' = [txs EXCEPT ![n] = None]
    /\ UNCHANGED <<height, contractVars, published>>

EmptyBlock ==
    /\ NewBlock
    /\ UNCHANGED <<contractVars, txs, published>>

(***************************************************************************)
(* What the node does with sendConfirmDeposit(): nothing is accepted at a  *)
(* nonce already mined; at a pending one the new transaction replaces the  *)
(* old, which carries the same call.                                       *)
(***************************************************************************)
NonceMined(n) == txs[n] # None /\ txs[n].mined # 0

AcceptConfirmation(n, d, o) ==
    /\ ~NonceMined(n)
    /\ txs' = [txs EXCEPT ![n] = [dep |-> d, utxo |-> o, mined |-> 0]]
    /\ published' = published \cup {<<d, o>>}
    /\ UNCHANGED <<height, contractVars>>

-----------------------------------------------------------------------------
(* eCash *)

\* A coin is spent once: a second, different transaction spending it is refused.
Broadcastable(o) == \A p \in vaults : p.coin = o.coin => p = o

AcceptFunding(o) ==
    /\ Broadcastable(o)
    /\ vaults' = vaults \cup {o}
    /\ UNCHANGED minted

\* The covenant lets anyone spend the vault output an authorization names, once.
Mintable(d, o) ==
    /\ <<d, o>> \in published
    /\ o \in vaults
    /\ \A m \in minted : m[2] # o

Mint(d, o) ==
    /\ Mintable(d, o)
    /\ minted' = minted \cup {<<d, o>>}
    /\ UNCHANGED vaults

-----------------------------------------------------------------------------
(***************************************************************************)
(* BridgeLock.sol, refund(): money leaves only on notice.  A refund ends a *)
(* whole refundDelay without any other event of the deposit, opened by a   *)
(* request: a cancelled, a restarted or a raced request never counts.      *)
(***************************************************************************)
NoticeBeforeRefund ==
    \A e \in log : e.type = "DepositRefunded" =>
        \E r \in log :
            /\ r.type = "RefundRequested" /\ r.dep = e.dep
            /\ r.block + RefundDelay <= e.block
            /\ \A x \in log : x.dep = e.dep => x.block <= r.block \/ x.block >= e.block

=============================================================================
