------------------------ MODULE DepositPipeline_proofs ------------------------
(***************************************************************************)
(* Proofs about the deposit pipeline, for every value of the constants:    *)
(* every step preserves IInv, so the safety properties always hold; and    *)
(* the pipeline implements BridgedDeposits.                                *)
(***************************************************************************)
EXTENDS DepositPipeline, TLAPS

USE LedgersAssumption, PipelineAssumption

-----------------------------------------------------------------------------
(* What a save does to the records *)

LEMMA RecordFields ==
    ASSUME NEW r \in Records
    PROVE  /\ r.state \in States \cup {"NONE"} /\ r.lockedAt \in Nat
           /\ r.refundRequested \in BOOLEAN /\ r.utxo \in Outpoints \cup {None}
           /\ r.nonce \in Nonces \cup {None} /\ r.sentAt \in Nat
BY DEF Records

LEMMA SaveEffect ==
    ASSUME records \in [Deposits -> Records], NEW d \in Deposits, NEW r \in Records, Save(d, r)
    PROVE  /\ records' \in [Deposits -> Records]
           /\ records'[d] = r
           /\ \A e \in Deposits \ {d} : records'[e] = records[e]
BY DEF Save

\* The record of d moves to state s and keeps what the invariants read of it.
Moves(d, s) ==
    /\ records' \in [Deposits -> Records]
    /\ records'[d].state = s
    /\ records'[d].utxo = records[d].utxo
    /\ records'[d].nonce = records[d].nonce
    /\ \A e \in Deposits \ {d} : records'[e] = records[e]

LEMMA TransitionMoves ==
    ASSUME records \in [Deposits -> Records], NEW d \in Deposits, NEW s \in States, Transition(d, s)
    PROVE  Moves(d, s) /\ Legal(records[d].state, s)
<1>1. records[d] \in Records
  OBVIOUS
<1>2. [records[d] EXCEPT !.state = s] \in Records
  BY <1>1 DEF Records
<1> QED
  BY <1>1, <1>2, SaveEffect DEF Transition, Moves, Records

LEMMA SaveMoves ==
    ASSUME records \in [Deposits -> Records], NEW d \in Deposits, NEW r \in Records, Save(d, r),
           r.utxo = records[d].utxo, r.nonce = records[d].nonce
    PROVE  Moves(d, r.state)
BY SaveEffect DEF Moves

-----------------------------------------------------------------------------
(* A step of the ledgers *)

\* What Ethereum never undoes.
Settled ==
    /\ height <= height'
    /\ \A d \in Deposits : status[d] \in {"confirmed", "refunded"} => status'[d] = status[d]
    /\ \A o \in Outpoints : consumedBy[o] # None => consumedBy'[o] = consumedBy[o]
    /\ \A n \in Nonces : NonceMined(n) => txs'[n] = txs[n]
    /\ \A n \in Nonces : txs'[n] # None =>
          txs[n] # None /\ txs'[n].dep = txs[n].dep /\ txs'[n].utxo = txs[n].utxo

LEMMA SettledTick ==
    ASSUME ServiceTypeOK, TickInv, Settled, UNCHANGED <<tickVars, records, coinOf, vaults>>
    PROVE  TickInv'
BY DEF TickInv, ServiceTypeOK, Settled, tickVars, LoopState

LEMMA SettledPublished ==
    ASSUME PublishedInv, UNCHANGED <<published, records>>
    PROVE  PublishedInv'
BY DEF PublishedInv

LEMMA SettledCoin ==
    ASSUME CoinInv, Settled, UNCHANGED <<records, coinOf>>
    PROVE  CoinInv'
BY DEF CoinInv, Settled, FundingOutpoint

LEMMA SettledNonce ==
    ASSUME NonceInv, Settled, UNCHANGED <<records, nextNonce, step, at>>
    PROVE  NonceInv'
BY DEF NonceInv, Settled

\* A record in one of the final states has the recorded nonce and outpoint.
LEMMA FinalRecord ==
    ASSUME ServiceTypeOK, PublishedInv, NonceInv, NEW d \in Deposits, RefundForeclosed(records[d].state)
    PROVE  records[d].nonce \in Nonces /\ records[d].utxo \in Outpoints
<1>1. records[d] \in Records
  BY DEF ServiceTypeOK
<1>2. records[d].state \in {"CONFIRMED_FINAL", "FUNDING_BROADCAST", "MINTED"}
  BY DEF RefundForeclosed, VaultUtxoMayExist
<1> QED
  BY <1>1, <1>2 DEF Records, PublishedInv, NonceInv, States

LEMMA MinedStays ==
    ASSUME LedgersTypeOK, LedgersTypeOK', Settled, NEW n \in Nonces, NonceMined(n), NEW k \in Nat,
           height - txs[n].mined >= k
    PROVE  NonceMined(n)' /\ txs'[n] = txs[n] /\ height' - txs'[n].mined >= k
<1>1. txs[n] \in Txs
  BY DEF NonceMined, LedgersTypeOK
<1>2. txs'[n] = txs[n]
  BY DEF Settled
<1> QED
  BY <1>1, <1>2 DEF NonceMined, Settled, Txs, LedgersTypeOK

LEMMA SettledFinal ==
    ASSUME IInv, Settled, LedgersTypeOK',
           UNCHANGED <<head, cursor, records, minted, published, vaults>>
    PROVE  FinalInv'
<1>1. head' <= height' /\ cursor' <= height'
  BY DEF IInv, FinalInv, Settled, TypeOK, ServiceTypeOK, LedgersTypeOK
<1>2. ASSUME NEW d \in Deposits, RefundForeclosed(records[d].state)
      PROVE  NonceMined(records[d].nonce)' /\ height' - txs'[records[d].nonce].mined >= FinalityDepth
  <2>1. records[d].nonce \in Nonces
    BY <1>2, FinalRecord DEF IInv, TypeOK
  <2>2. NonceMined(records[d].nonce) /\ height - txs[records[d].nonce].mined >= FinalityDepth
    BY <1>2 DEF IInv, FinalInv
  <2> QED
    BY <2>1, <2>2, MinedStays DEF IInv, TypeOK, NonceMined
<1>3. \A a \in minted' : a \in published' /\ a[2] \in vaults'
  BY DEF IInv, FinalInv
<1> QED
  BY <1>1, <1>2, <1>3 DEF FinalInv, NonceMined, RefundForeclosed, VaultUtxoMayExist

LEMMA SettledSafety ==
    ASSUME IInv, Settled, LedgersTypeOK', UNCHANGED <<records, vaults>>
    PROVE  Quarantine' /\ RecordsTruthful' /\ FinalityGate'
<1>1. Quarantine'
  BY DEF IInv, Quarantine, Settled, TypeOK, LedgersTypeOK
<1>2. RecordsTruthful'
  <2> SUFFICES ASSUME NEW d \in Deposits
               PROVE  /\ RefundForeclosed(records[d].state) =>
                            status'[d] = "confirmed" /\ consumedBy'[records[d].utxo] = d
                      /\ records[d].state = "ABANDONED_REFUNDED" => status'[d] = "refunded"
    BY DEF RecordsTruthful, RefundForeclosed, VaultUtxoMayExist
  <2>1. RefundForeclosed(records[d].state) => records[d].utxo \in Outpoints
    BY FinalRecord DEF IInv, TypeOK
  <2>2. d # None
    BY LedgersAssumption
  <2> QED
    BY <2>1, <2>2 DEF IInv, RecordsTruthful, Settled
<1>3. FinalityGate'
  <2> SUFFICES ASSUME NEW o \in vaults
               PROVE  \E n \in Nonces : /\ NonceMined(n)' /\ txs'[n].utxo = o
                                        /\ height' - txs'[n].mined >= FinalityDepth
    BY DEF FinalityGate, NonceMined
  <2>1. PICK n \in Nonces : /\ NonceMined(n) /\ txs[n].utxo = o
                            /\ height - txs[n].mined >= FinalityDepth
    BY DEF IInv, FinalityGate
  <2> QED
    BY <2>1, MinedStays DEF IInv, TypeOK
<1> QED
  BY <1>1, <1>2, <1>3

LEMMA SettledStep ==
    ASSUME IInv, Settled, LedgersTypeOK', ContractInv', faults' \in Nat,
           UNCHANGED <<published, xecVars, storeVars, nextNonce, tickVars>>
    PROVE  IInv'
<1> USE DEF storeVars, tickVars, xecVars
<1>1. TypeOK'
  BY DEF IInv, TypeOK, ServiceTypeOK
<1>2. TickInv' /\ PublishedInv' /\ CoinInv' /\ NonceInv'
  BY SettledTick, SettledPublished, SettledCoin, SettledNonce DEF IInv, TypeOK
<1> QED
  BY <1>1, <1>2, SettledFinal, SettledSafety DEF IInv

-----------------------------------------------------------------------------
(* The actions of Ethereum *)

\* The parts of ContractInv a step of Ethereum has to keep.
LEMMA QuietContract ==
    ASSUME ContractInv, Settled, UNCHANGED <<consumedBy, published>>,
           \A d \in Deposits : status'[d] = "confirmed" => status[d] = "confirmed",
           \A e \in log' : e.type = "DepositRefunded" => e \in log \/ status'[e.dep] = "refunded",
           LedgersTypeOK, LedgersTypeOK'
    PROVE  ContractInv'
<1>1. \A o \in Outpoints : consumedBy'[o] # None =>
          status'[consumedBy'[o]] = "confirmed" /\ <<consumedBy'[o], o>> \in published'
  BY DEF ContractInv, Settled, LedgersTypeOK
<1>2. \A d \in Deposits : status'[d] = "confirmed" => \E o \in Outpoints : consumedBy'[o] = d
  BY DEF ContractInv
<1>3. \A e \in log' : e.type = "DepositRefunded" => status'[e.dep] = "refunded"
  BY DEF ContractInv, Settled, LedgersTypeOK, Events
<1>4. \A n \in Nonces : txs'[n] # None => <<txs'[n].dep, txs'[n].utxo>> \in published'
  BY DEF ContractInv, Settled
<1> QED
  BY <1>1, <1>2, <1>3, <1>4 DEF ContractInv

LEMMA EmitType ==
    ASSUME LedgersTypeOK, NewBlock, NEW t \in EventTypes, NEW d \in Deposits, Emit(t, d)
    PROVE  /\ height' \in Nat /\ height <= height' /\ height' = height + 1
           /\ log' \subseteq Events
           /\ \A e \in log' : e \in log \/ (e.type = t /\ e.dep = d)
BY DEF LedgersTypeOK, NewBlock, Emit, Events

LEMMA LockStep ==
    ASSUME IInv, NEW d \in Deposits, Lock(d), UNCHANGED <<xecVars, serviceVars>>
    PROVE  IInv'
<1> USE DEF Lock
<1>1. /\ height' \in Nat /\ height <= height' /\ height' = height + 1 /\ log' \subseteq Events
      /\ \A e \in log' : e \in log \/ (e.type = "DepositLocked" /\ e.dep = d)
  BY EmitType DEF IInv, TypeOK, EventTypes
<1>2. LedgersTypeOK'
  BY <1>1 DEF IInv, TypeOK, LedgersTypeOK, xecVars, Statuses
<1>3. Settled
  BY <1>1 DEF Settled, IInv, TypeOK, LedgersTypeOK
<1>4. ContractInv'
  BY <1>1, <1>2, <1>3, QuietContract DEF IInv, TypeOK, LedgersTypeOK
<1> QED
  BY <1>2, <1>3, <1>4, SettledStep DEF serviceVars, IInv, TypeOK, ServiceTypeOK

LEMMA RequestRefundStep ==
    ASSUME IInv, NEW d \in Deposits, RequestRefund(d), UNCHANGED <<xecVars, serviceVars>>
    PROVE  IInv'
<1> USE DEF RequestRefund
<1>1. /\ height' \in Nat /\ height <= height' /\ height' = height + 1 /\ log' \subseteq Events
      /\ \A e \in log' : e \in log \/ (e.type = "RefundRequested" /\ e.dep = d)
  BY EmitType DEF IInv, TypeOK, EventTypes
<1>2. LedgersTypeOK'
  BY <1>1 DEF IInv, TypeOK, LedgersTypeOK, xecVars
<1>3. Settled
  BY <1>1 DEF Settled
<1>4. ContractInv'
  BY <1>1, <1>2, <1>3, QuietContract DEF IInv, TypeOK
<1> QED
  BY <1>2, <1>3, <1>4, SettledStep DEF serviceVars, IInv, TypeOK, ServiceTypeOK

LEMMA CancelRefundRequestStep ==
    ASSUME IInv, NEW d \in Deposits, CancelRefundRequest(d), UNCHANGED <<xecVars, serviceVars>>
    PROVE  IInv'
<1> USE DEF CancelRefundRequest
<1>1. /\ height' \in Nat /\ height <= height' /\ height' = height + 1 /\ log' \subseteq Events
      /\ \A e \in log' : e \in log \/ (e.type = "RefundRequestCancelled" /\ e.dep = d)
  BY EmitType DEF IInv, TypeOK, EventTypes
<1>2. LedgersTypeOK'
  BY <1>1 DEF IInv, TypeOK, LedgersTypeOK, xecVars
<1>3. Settled
  BY <1>1 DEF Settled
<1>4. ContractInv'
  BY <1>1, <1>2, <1>3, QuietContract DEF IInv, TypeOK
<1> QED
  BY <1>2, <1>3, <1>4, SettledStep DEF serviceVars, IInv, TypeOK, ServiceTypeOK

LEMMA RefundStep ==
    ASSUME IInv, NEW d \in Deposits, Refund(d), UNCHANGED <<xecVars, serviceVars>>
    PROVE  IInv'
<1> USE DEF Refund
<1>1. /\ height' \in Nat /\ height <= height' /\ height' = height + 1 /\ log' \subseteq Events
      /\ \A e \in log' : e \in log \/ (e.type = "DepositRefunded" /\ e.dep = d)
  BY EmitType DEF IInv, TypeOK, EventTypes
<1>2. LedgersTypeOK'
  BY <1>1 DEF IInv, TypeOK, LedgersTypeOK, xecVars, Statuses
<1>3. Settled
  BY <1>1 DEF Settled, IInv, TypeOK, LedgersTypeOK
<1>4. ContractInv'
  BY <1>1, <1>2, <1>3, QuietContract DEF IInv, TypeOK, LedgersTypeOK
<1> QED
  BY <1>2, <1>3, <1>4, SettledStep DEF serviceVars, IInv, TypeOK, ServiceTypeOK

LEMMA EmptyBlockStep ==
    ASSUME IInv, EmptyBlock, UNCHANGED <<xecVars, serviceVars>>
    PROVE  IInv'
<1> USE DEF EmptyBlock, NewBlock, contractVars
<1>1. LedgersTypeOK' /\ Settled
  BY DEF IInv, TypeOK, LedgersTypeOK, xecVars, Settled
<1>2. ContractInv'
  BY <1>1, QuietContract DEF IInv, TypeOK
<1> QED
  BY <1>1, <1>2, SettledStep DEF serviceVars, IInv, TypeOK, ServiceTypeOK

\* A confirmation that succeeds, whoever sends it, names a published authorization.
LEMMA ConfirmContract ==
    ASSUME IInv, NEW d \in Deposits, NEW o \in Outpoints, <<d, o>> \in published,
           ConfirmSucceeds(d, o), Confirm(d, o), UNCHANGED published, Settled,
           LedgersTypeOK'
    PROVE  ContractInv'
<1> USE DEF Confirm, IInv
<1>1. ContractInv /\ LedgersTypeOK /\ d # None
  BY LedgersAssumption DEF TypeOK
<1>2. \A p \in Outpoints : consumedBy'[p] # None =>
          status'[consumedBy'[p]] = "confirmed" /\ <<consumedBy'[p], p>> \in published'
  BY <1>1 DEF ContractInv, LedgersTypeOK
<1>3. \A e \in Deposits : status'[e] = "confirmed" => \E p \in Outpoints : consumedBy'[p] = e
  <2> TAKE e \in Deposits
  <2>1. CASE e = d
    BY <2>1, <1>1 DEF LedgersTypeOK
  <2>2. CASE e # d
    BY <2>2, <1>1 DEF ContractInv, LedgersTypeOK, Settled
  <2> QED BY <2>1, <2>2
<1>4. \A e \in log' : e.type = "DepositRefunded" => status'[e.dep] = "refunded"
  BY <1>1 DEF ContractInv, Emit, ConfirmSucceeds, LedgersTypeOK
<1>5. \A n \in Nonces : txs'[n] # None => <<txs'[n].dep, txs'[n].utxo>> \in published'
  BY <1>1 DEF ContractInv, Settled
<1> QED
  BY <1>2, <1>3, <1>4, <1>5 DEF ContractInv

LEMMA ConfirmTypes ==
    ASSUME LedgersTypeOK, NewBlock, NEW d \in Deposits, NEW o \in Outpoints,
           ConfirmSucceeds(d, o), Confirm(d, o), UNCHANGED <<lockedAt, requestedAt, published, xecVars>>,
           txs' \in [Nonces -> Txs \cup {None}]
    PROVE  /\ LedgersTypeOK' /\ height <= height'
           /\ \A e \in Deposits : status[e] \in {"confirmed", "refunded"} => status'[e] = status[e]
           /\ \A p \in Outpoints : consumedBy[p] # None => consumedBy'[p] = consumedBy[p]
<1>1. height' \in Nat /\ height <= height' /\ log' \subseteq Events
  BY EmitType DEF Confirm, EventTypes
<1> QED
  BY <1>1 DEF LedgersTypeOK, Confirm, ConfirmSucceeds, Statuses, xecVars

LEMMA ConfirmByAnyoneStep ==
    ASSUME IInv, NEW d \in Deposits, NEW o \in Outpoints, ConfirmByAnyone(d, o),
           UNCHANGED <<xecVars, serviceVars>>
    PROVE  IInv'
<1> USE DEF ConfirmByAnyone
<1>1. LedgersTypeOK' /\ Settled
  BY ConfirmTypes DEF IInv, TypeOK, LedgersTypeOK, Settled
<1>2. ContractInv'
  BY <1>1, ConfirmContract
<1> QED
  BY <1>1, <1>2, SettledStep DEF serviceVars, IInv, TypeOK, ServiceTypeOK

LEMMA MineTxs ==
    ASSUME LedgersTypeOK, NEW n \in Nonces, txs[n] # None, txs[n].mined = 0, NewBlock,
           txs' = [txs EXCEPT ![n].mined = height + 1]
    PROVE  /\ txs' \in [Nonces -> Txs \cup {None}] /\ height' \in Nat /\ height <= height'
           /\ \A m \in Nonces : NonceMined(m) => txs'[m] = txs[m]
           /\ \A m \in Nonces : txs'[m] # None =>
                 txs[m] # None /\ txs'[m].dep = txs[m].dep /\ txs'[m].utxo = txs[m].utxo
           /\ txs[n].dep \in Deposits /\ txs[n].utxo \in Outpoints
<1>1. txs[n] \in Txs
  BY DEF LedgersTypeOK
<1>2. [txs[n] EXCEPT !.mined = height + 1] \in Txs
  BY <1>1 DEF Txs, LedgersTypeOK
<1> QED
  BY <1>1, <1>2 DEF LedgersTypeOK, NonceMined, NewBlock, Txs

LEMMA MineConfirmationStep ==
    ASSUME IInv, NEW n \in Nonces, MineConfirmation(n), UNCHANGED <<xecVars, serviceVars>>
    PROVE  IInv'
<1> USE DEF MineConfirmation
<1>1. /\ txs' \in [Nonces -> Txs \cup {None}] /\ height' \in Nat /\ height <= height'
      /\ \A m \in Nonces : NonceMined(m) => txs'[m] = txs[m]
      /\ \A m \in Nonces : txs'[m] # None =>
            txs[m] # None /\ txs'[m].dep = txs[m].dep /\ txs'[m].utxo = txs[m].utxo
      /\ txs[n].dep \in Deposits /\ txs[n].utxo \in Outpoints
  BY MineTxs DEF IInv, TypeOK
<1>2. CASE ConfirmSucceeds(txs[n].dep, txs[n].utxo) /\ Confirm(txs[n].dep, txs[n].utxo)
  <2>1. LedgersTypeOK' /\ Settled
    BY <1>1, <1>2, ConfirmTypes DEF IInv, TypeOK, Settled
  <2>2. <<txs[n].dep, txs[n].utxo>> \in published
    BY DEF IInv, ContractInv
  <2>3. ContractInv'
    BY <1>1, <1>2, <2>1, <2>2, ConfirmContract
  <2> QED
    BY <2>1, <2>3, SettledStep DEF serviceVars, IInv, TypeOK, ServiceTypeOK
<1>3. CASE UNCHANGED <<status, consumedBy, log>>
  <2>1. LedgersTypeOK' /\ Settled
    BY <1>1, <1>3 DEF IInv, TypeOK, LedgersTypeOK, xecVars, Settled
  <2>2. ContractInv'
    BY <1>3, <2>1, QuietContract DEF IInv, TypeOK
  <2> QED
    BY <2>1, <2>2, SettledStep DEF serviceVars, IInv, TypeOK, ServiceTypeOK
<1> QED
  BY <1>2, <1>3

LEMMA EvictionStep ==
    ASSUME IInv, Eviction
    PROVE  IInv'
<1>1. PICK n \in Nonces : EvictConfirmation(n)
  BY DEF Eviction
<1>2. UNCHANGED <<height, contractVars, published, xecVars, storeVars, nextNonce, tickVars>>
  BY <1>1 DEF Eviction, EvictConfirmation
<1>3. LedgersTypeOK' /\ Settled
  BY <1>1, <1>2 DEF EvictConfirmation, IInv, TypeOK, LedgersTypeOK, Settled, contractVars, xecVars, NonceMined
<1>4. ContractInv'
  BY <1>2, <1>3, QuietContract DEF IInv, TypeOK, contractVars
<1>5. faults' \in Nat
  BY DEF Eviction, Fault, IInv, TypeOK, ServiceTypeOK
<1> QED
  BY <1>2, <1>3, <1>4, <1>5, SettledStep

-----------------------------------------------------------------------------
(* Steps of the service that leave the ledgers, the records and the coins alone *)

LEMMA FrameSafety ==
    ASSUME IInv, UNCHANGED <<ledgerVars, records>>
    PROVE  ContractInv' /\ PublishedInv' /\ Quarantine' /\ RecordsTruthful' /\ FinalityGate'
<1> USE DEF ledgerVars, ethVars, xecVars, contractVars
<1>1. ContractInv' /\ PublishedInv' /\ Quarantine'
  BY DEF IInv, ContractInv, PublishedInv, Quarantine
<1>2. RecordsTruthful' /\ FinalityGate'
  BY DEF IInv, RecordsTruthful, FinalityGate, NonceMined
<1> QED
  BY <1>1, <1>2

\* A recorded nonce has been handed out.
LEMMA RecordedNonce ==
    ASSUME ServiceTypeOK, NonceInv, NEW d \in Deposits, records[d].nonce # None
    PROVE  records[d].nonce \in Nat /\ records[d].nonce < nextNonce
<1> DEFINE k == records[d].nonce
           b == IF step = "price" /\ records[at].nonce = None THEN nextNonce - 1 ELSE nextNonce
<1>1. k \in Nat
  BY RecordFields, LedgersAssumption DEF ServiceTypeOK
<1>2. k < b
  BY DEF NonceInv
<1>3. b \in Int /\ b <= nextNonce /\ nextNonce \in Nat
  BY DEF ServiceTypeOK
<1> HIDE DEF k, b
<1>4. k \in Nat /\ k < nextNonce
  BY <1>1, <1>2, <1>3
<1> QED
  BY <1>4 DEF k

LEMMA QuietNonce ==
    ASSUME ServiceTypeOK, NonceInv, UNCHANGED <<records, nextNonce, txs>>,
           step' # "price", step' \in {"send", "persist"} => records[at'].nonce # None
    PROVE  NonceInv'
BY RecordedNonce DEF NonceInv

LEMMA QuietStep ==
    ASSUME IInv, UNCHANGED <<ledgerVars, records, coinOf, nextNonce>>, ServiceTypeOK', TickInv',
           step' \notin {"price", "send", "persist"}, head' <= height, cursor' <= height
    PROVE  IInv'
<1> USE DEF ledgerVars, ethVars, xecVars, contractVars
<1>1. TypeOK'
  BY DEF IInv, TypeOK, LedgersTypeOK
<1>2. NonceInv' /\ CoinInv'
  BY QuietNonce DEF IInv, TypeOK, CoinInv
<1>3. FinalInv'
  BY DEF IInv, FinalInv, NonceMined
<1> QED
  BY <1>1, <1>2, <1>3, FrameSafety DEF IInv

\* The types of what the shapes of a tick leave.
LEMMA AbortTypes ==
    ASSUME Abort
    PROVE  /\ loop' \in Loops /\ step' \in Steps /\ todo' \subseteq Deposits /\ at' \in Deposits \cup {None}
           /\ head' = 0 /\ pos' \in Nat /\ seen' \in Statuses /\ step' = "next"
BY DEF Abort, Loops, Steps, Statuses

LEMMA DoneTypes ==
    ASSUME ServiceTypeOK, NEW d \in Deposits, Done(d)
    PROVE  /\ loop' \in Loops /\ step' \in Steps /\ todo' \subseteq Deposits /\ at' \in Deposits \cup {None}
           /\ head' = head /\ pos' \in Nat /\ seen' \in Statuses /\ step' = "next"
BY DEF Done, ServiceTypeOK, Steps, Statuses

LEMMA AbortTick == ASSUME Abort PROVE TickInv'
BY DEF Abort, TickInv

LEMMA DoneTick ==
    ASSUME ServiceTypeOK, TickInv, NEW d \in Deposits, Done(d), loop \notin {"idle", "scan"},
           \A e \in Deposits \ {d} : records'[e].state = records[e].state
    PROVE  TickInv'
BY DEF TickInv, ServiceTypeOK, Done, LoopState

LEMMA InStateType == \A s : InState(s) \subseteq Deposits
BY DEF InState

LEMMA LoopAfterType ==
    ASSUME NEW l \in Loops \ {"idle", "scan"}
    PROVE  LoopAfter[l] \in Loops \ {"drain"}
BY DEF LoopAfter, Loops, States

LEMMA TickStartStep ==
    ASSUME IInv, TickStart
    PROVE  IInv'
<1> USE DEF TickStart
<1>1. step = "next"
  BY DEF IInv, TickInv, TypeOK, ServiceTypeOK, Steps, LoopState
<1>2. ServiceTypeOK'
  BY InStateType DEF IInv, TypeOK, ServiceTypeOK, Loops, storeVars
<1>3. TickInv'
  BY <1>1 DEF TickInv, InState, LoopState, storeVars
<1> QED
  BY <1>1, <1>2, <1>3, QuietStep DEF IInv, FinalInv, storeVars

LEMMA NextLoopStep ==
    ASSUME IInv, NextLoop
    PROVE  IInv'
<1> USE DEF NextLoop
<1>1. ServiceTypeOK /\ TickInv /\ head <= height /\ cursor <= height /\ height \in Nat
  BY DEF IInv, TypeOK, LedgersTypeOK, FinalInv
<1>2. CASE Abort
  <2>1. ServiceTypeOK' /\ TickInv'
    BY <1>1, <1>2, AbortTypes, AbortTick DEF ServiceTypeOK, storeVars
  <2> QED
    BY <1>1, <1>2, <2>1, AbortTypes, QuietStep DEF storeVars
<1>3. CASE /\ LoopAfter[loop] # "idle" /\ loop' = LoopAfter[loop]
           /\ todo' = IF loop' = "scan" THEN {} ELSE InState(loop')
           /\ UNCHANGED <<step, at, head, pos, seen>>
  <2>1. loop' \in Loops \ {"drain"}
    BY <1>1, <1>3, LoopAfterType DEF ServiceTypeOK
  <2>2. ServiceTypeOK'
    BY <1>1, <1>3, <2>1, InStateType DEF ServiceTypeOK, storeVars
  <2>3. TickInv'
    BY <1>3, <2>1 DEF TickInv, InState, LoopState, storeVars
  <2> QED
    BY <1>1, <1>3, <2>2, <2>3, QuietStep DEF storeVars
<1> QED
  BY <1>2, <1>3

LEMMA CrashStep ==
    ASSUME IInv, Crash
    PROVE  IInv'
<1>1. UNCHANGED <<ledgerVars, records, coinOf, cursor, nextNonce>> /\ Abort /\ faults' = faults + 1
  BY DEF Crash, Fault, storeVars
<1>2. ServiceTypeOK' /\ TickInv'
  BY <1>1, AbortTypes, AbortTick DEF IInv, TypeOK, ServiceTypeOK
<1>3. head' <= height /\ cursor' <= height
  BY <1>1, AbortTypes DEF IInv, TypeOK, LedgersTypeOK, FinalInv
<1> QED
  BY <1>1, <1>2, <1>3, AbortTypes, QuietStep

LEMMA ScanStartStep ==
    ASSUME IInv, ScanStart
    PROVE  IInv'
<1> USE DEF ScanStart, storeVars
<1>1. ServiceTypeOK'
  BY DEF IInv, TypeOK, ServiceTypeOK, LedgersTypeOK, ledgerVars, ethVars, Steps
<1>2. TickInv'
  BY DEF IInv, TickInv, LoopState
<1>3. head' <= height /\ cursor' <= height
  BY DEF IInv, FinalInv, TypeOK, LedgersTypeOK
<1> QED
  BY <1>1, <1>2, <1>3, QuietStep

LEMMA ApplyingEvent ==
    ASSUME LedgersTypeOK, NEW e \in log
    PROVE  e.dep \in Deposits /\ e.block \in Nat /\ e.type \in EventTypes
BY DEF LedgersTypeOK, Events

LEMMA ApplyConfirmedStep ==
    ASSUME IInv, NEW e \in log, ApplyConfirmed(e)
    PROVE  IInv'
<1> USE DEF ApplyConfirmed, Applying, storeVars
<1>1. ServiceTypeOK'
  BY ApplyingEvent DEF IInv, TypeOK, ServiceTypeOK
<1>2. TickInv'
  BY DEF IInv, TickInv, LoopState, ledgerVars, ethVars, xecVars, contractVars
<1> QED
  BY <1>1, <1>2, QuietStep DEF IInv, FinalInv

LEMMA ScanEndStep ==
    ASSUME IInv, ScanEnd
    PROVE  IInv'
<1> USE DEF ScanEnd
<1>1. ServiceTypeOK'
  BY InStateType DEF IInv, TypeOK, ServiceTypeOK, Loops, Steps
<1>2. TickInv'
  BY DEF TickInv, InState, LoopState
<1> QED
  BY <1>1, <1>2, QuietStep DEF IInv, FinalInv

\* A handler that leaves its record as it is.
LEMMA WaitStep ==
    ASSUME IInv, NEW d \in Deposits, Done(d), loop \notin {"idle", "scan"},
           UNCHANGED <<ledgerVars, storeVars, nextNonce, faults>>
    PROVE  IInv'
<1>1. ServiceTypeOK' /\ TickInv'
  BY DoneTypes, DoneTick DEF IInv, TypeOK, ServiceTypeOK, storeVars
<1> QED
  BY <1>1, DoneTypes, QuietStep DEF IInv, FinalInv, TypeOK, storeVars

LEMMA DepthMetWaitsStep ==
    ASSUME IInv, NEW d \in Deposits, DepthMetWaits(d)
    PROVE  IInv'
BY WaitStep DEF DepthMetWaits, Take

LEMMA SkipMintStep ==
    ASSUME IInv, NEW d \in Deposits, SkipMint(d)
    PROVE  IInv'
BY WaitStep DEF SkipMint, Take

-----------------------------------------------------------------------------
(* Steps that move a record to another state *)

LEMMA MovesPublished ==
    ASSUME ServiceTypeOK, PublishedInv, NEW d \in Deposits, NEW s \in States, Moves(d, s),
           UNCHANGED published, published \subseteq Deposits \X Outpoints,
           s \in Early => records[d].state \in Early,
           s \in {"OBSERVED", "DEPTH_MET"} => records[d].utxo = None /\ records[d].nonce = None,
           s \in {"HALTED", "ABANDONED_REFUNDED"} \/ s \in {"OBSERVED", "DEPTH_MET"} \/ records[d].utxo # None
    PROVE  PublishedInv'
BY DEF PublishedInv, Moves, Early, States

LEMMA MovesCoin ==
    ASSUME CoinInv, NEW d \in Deposits, NEW s \in States, Moves(d, s),
           \A e, f \in Deposits : coinOf'[e] # None /\ coinOf'[e] = coinOf'[f] => e = f,
           \A e \in Deposits : records[e].utxo # None => coinOf'[e] = coinOf[e] \/ status[e] = "refunded",
           UNCHANGED status
    PROVE  CoinInv'
BY DEF CoinInv, Moves, FundingOutpoint

LEMMA MovesNonce ==
    ASSUME ServiceTypeOK, NonceInv, NEW d \in Deposits, NEW s \in States, Moves(d, s),
           UNCHANGED <<nextNonce, txs>>, step' \notin {"price", "send", "persist"},
           LedgersTypeOK,
           s \in {"CONFIRM_SENT", "CONFIRMED_FINAL", "FUNDING_BROADCAST", "MINTED"} => records[d].nonce # None
    PROVE  NonceInv'
<1>1. \A e \in Deposits : records'[e].nonce = records[e].nonce
  BY DEF Moves
<1>2. \A e \in Deposits : records[e].nonce # None => records[e].nonce \in Nat /\ records[e].nonce < nextNonce
  BY RecordedNonce
<1>3. \A e \in Deposits : records'[e].state \in {"CONFIRM_SENT", "CONFIRMED_FINAL", "FUNDING_BROADCAST", "MINTED"} =>
          records'[e].nonce # None
  BY <1>1 DEF NonceInv, Moves
<1>4. \A n \in Nonces : txs'[n] # None => records'[txs'[n].dep].nonce = n
  BY <1>1 DEF NonceInv, LedgersTypeOK, Txs
<1>5. \A e, f \in Deposits : records'[e].nonce # None /\ records'[e].nonce = records'[f].nonce => e = f
  BY <1>1 DEF NonceInv
<1>6. \A e \in Deposits : records'[e].nonce # None => records'[e].nonce < nextNonce'
  BY <1>1, <1>2
<1> QED
  BY <1>3, <1>4, <1>5, <1>6 DEF NonceInv

\* What a record may claim of Ethereum once it is in state s.
Warranted(d, s) ==
    /\ RefundForeclosed(s) => /\ status[d] = "confirmed" /\ consumedBy[records[d].utxo] = d
                              /\ NonceMined(records[d].nonce)
                              /\ height - txs[records[d].nonce].mined >= FinalityDepth
    /\ s = "ABANDONED_REFUNDED" => status[d] = "refunded"

LEMMA MovesTruthful ==
    ASSUME RecordsTruthful, NEW d \in Deposits, NEW s \in States, Moves(d, s), Warranted(d, s),
           UNCHANGED <<status, consumedBy>>
    PROVE  RecordsTruthful'
BY DEF RecordsTruthful, Moves, Warranted, RefundForeclosed, VaultUtxoMayExist

LEMMA MovesFinal ==
    ASSUME FinalInv, NEW d \in Deposits, NEW s \in States, Moves(d, s), Warranted(d, s),
           UNCHANGED <<height, txs, published, vaults, minted>>, head' <= height, cursor' <= height
    PROVE  FinalInv'
BY DEF FinalInv, Moves, Warranted, RefundForeclosed, VaultUtxoMayExist, NonceMined

LEMMA MoveStep ==
    ASSUME IInv, NEW d \in Deposits, NEW s \in States, Moves(d, s), Warranted(d, s),
           UNCHANGED <<ledgerVars, nextNonce>>, ServiceTypeOK', TickInv',
           step' \notin {"price", "send", "persist"}, head' <= height, cursor' <= height,
           \A e, f \in Deposits : coinOf'[e] # None /\ coinOf'[e] = coinOf'[f] => e = f,
           \A e \in Deposits : records[e].utxo # None => coinOf'[e] = coinOf[e] \/ status[e] = "refunded",
           s \in Early => records[d].state \in Early,
           s \in {"OBSERVED", "DEPTH_MET"} => records[d].utxo = None /\ records[d].nonce = None,
           s \in {"HALTED", "ABANDONED_REFUNDED", "OBSERVED", "DEPTH_MET"} \/ records[d].utxo # None,
           s \in {"CONFIRM_SENT", "CONFIRMED_FINAL", "FUNDING_BROADCAST", "MINTED"} => records[d].nonce # None
    PROVE  IInv'
<1> USE DEF ledgerVars, ethVars, xecVars, contractVars
<1>1. TypeOK'
  BY DEF IInv, TypeOK, LedgersTypeOK
<1>2. PublishedInv'
  BY MovesPublished DEF IInv, TypeOK, LedgersTypeOK
<1>3. CoinInv' /\ NonceInv' /\ RecordsTruthful' /\ FinalInv'
  BY MovesCoin, MovesNonce, MovesTruthful, MovesFinal DEF IInv, TypeOK
<1>4. ContractInv' /\ Quarantine' /\ FinalityGate'
  BY DEF IInv, ContractInv, Quarantine, FinalityGate, NonceMined
<1> QED
  BY <1>1, <1>2, <1>3, <1>4 DEF IInv

\* The common case: the handler of d ends, and no coin moves.
LEMMA DoneStep ==
    ASSUME IInv, NEW d \in Deposits, NEW s \in States, Moves(d, s), Warranted(d, s), Done(d),
           UNCHANGED <<ledgerVars, nextNonce, coinOf, cursor>>, faults' \in Nat, loop \notin {"idle", "scan"},
           s \in Early => records[d].state \in Early,
           s \in {"OBSERVED", "DEPTH_MET"} => records[d].utxo = None /\ records[d].nonce = None,
           s \in {"HALTED", "ABANDONED_REFUNDED", "OBSERVED", "DEPTH_MET"} \/ records[d].utxo # None,
           s \in {"CONFIRM_SENT", "CONFIRMED_FINAL", "FUNDING_BROADCAST", "MINTED"} => records[d].nonce # None
    PROVE  IInv'
<1>1. ServiceTypeOK' /\ step' = "next" /\ head' = head
  BY DoneTypes DEF IInv, TypeOK, ServiceTypeOK, Moves
<1>2. TickInv'
  BY DoneTick DEF IInv, TypeOK, Moves
<1>3. head' <= height /\ cursor' <= height
  BY <1>1 DEF IInv, FinalInv
<1>4. /\ \A e, f \in Deposits : coinOf'[e] # None /\ coinOf'[e] = coinOf'[f] => e = f
      /\ \A e \in Deposits : records[e].utxo # None => coinOf'[e] = coinOf[e] \/ status[e] = "refunded"
  BY DEF IInv, CoinInv
<1> QED
  BY <1>1, <1>2, <1>3, <1>4, MoveStep

\* The record a handler of tick() works on is in the state of the loop.
LEMMA TakenRecord ==
    ASSUME IInv, NEW l, NEW d \in Deposits, Take(l, d), l \notin {"drain", "scan"}
    PROVE  loop = l /\ records[d].state = l
BY DEF IInv, TickInv, Take, LoopState

LEMMA HeldRecord ==
    ASSUME IInv, NEW l, NEW s, NEW d \in Deposits, At(l, s, d), l \notin {"drain", "scan"},
           s \notin {"next", "apply"}
    PROVE  loop = l /\ records[d].state = l
BY DEF IInv, TickInv, At, LoopState

LEMMA AdvanceObservedStep ==
    ASSUME IInv, NEW d \in Deposits, AdvanceObserved(d)
    PROVE  IInv'
<1>1. loop = "OBSERVED" /\ records[d].state = "OBSERVED"
  <2>1. Take("OBSERVED", d)
    BY DEF AdvanceObserved
  <2> QED
    BY <2>1, TakenRecord
<1> USE DEF AdvanceObserved
<1>2. CASE UNCHANGED records
  BY <1>1, <1>2, WaitStep DEF storeVars
<1>3. CASE Transition(d, "DEPTH_MET")
  <2>1. Moves(d, "DEPTH_MET")
    BY <1>3, TransitionMoves DEF IInv, TypeOK, ServiceTypeOK, States
  <2>2. records[d].utxo = None /\ records[d].nonce = None
    BY <1>1 DEF IInv, PublishedInv
  <2> QED
    BY <1>1, <2>1, <2>2, DoneStep
       DEF Warranted, RefundForeclosed, VaultUtxoMayExist, Early, States, IInv, TypeOK, ServiceTypeOK
<1> QED
  BY <1>2, <1>3

LEMMA AdvanceFundingPreparedStep ==
    ASSUME IInv, NEW d \in Deposits, AdvanceFundingPrepared(d)
    PROVE  IInv'
<1>1. loop = "FUNDING_PREPARED" /\ records[d].state = "FUNDING_PREPARED"
  <2>1. Take("FUNDING_PREPARED", d)
    BY DEF AdvanceFundingPrepared
  <2> QED
    BY <2>1, TakenRecord
<1> USE DEF AdvanceFundingPrepared
<1>2. CASE Done(d) /\ UNCHANGED records
  BY <1>1, <1>2, WaitStep DEF storeVars
<1>3. CASE Transition(d, "AUTHORIZED") /\ Done(d)
  <2>1. Moves(d, "AUTHORIZED")
    BY <1>3, TransitionMoves DEF IInv, TypeOK, ServiceTypeOK, States
  <2>2. records[d].utxo # None
    BY <1>1 DEF IInv, PublishedInv, States
  <2> QED
    BY <1>1, <1>3, <2>1, <2>2, DoneStep
       DEF Warranted, RefundForeclosed, VaultUtxoMayExist, Early, States, IInv, TypeOK, ServiceTypeOK
<1>4. CASE Abort /\ UNCHANGED records
  <2>1. ServiceTypeOK' /\ TickInv'
    BY <1>4, AbortTypes, AbortTick DEF IInv, TypeOK, ServiceTypeOK
  <2> QED
    BY <1>4, <2>1, AbortTypes, QuietStep DEF IInv, FinalInv, TypeOK, LedgersTypeOK
<1> QED
  BY <1>2, <1>3, <1>4

LEMMA AbandonStep ==
    ASSUME IInv, NEW d \in Deposits, Abandon(d)
    PROVE  IInv'
<1>1. loop = "CONFIRM_SENT" /\ records[d].state = "CONFIRM_SENT"
  <2>1. At("CONFIRM_SENT", "abandon", d)
    BY DEF Abandon
  <2> QED
    BY <2>1, HeldRecord
<1> USE DEF Abandon
<1>2. Moves(d, "ABANDONED_REFUNDED")
  BY TransitionMoves DEF IInv, TypeOK, ServiceTypeOK, States
<1>3. status[d] = "refunded"
  BY DEF IInv, TickInv, At
<1> QED
  BY <1>1, <1>2, <1>3, DoneStep
     DEF Warranted, RefundForeclosed, VaultUtxoMayExist, Early, States, IInv, TypeOK, ServiceTypeOK

\* A record past the signature has a prepared outpoint.
LEMMA SignedRecord ==
    ASSUME PublishedInv, NEW d \in Deposits,
           records[d].state \in {"FUNDING_PREPARED", "AUTHORIZED", "CONFIRM_SENT", "CONFIRMED_FINAL",
                                 "FUNDING_BROADCAST", "MINTED"}
    PROVE  records[d].utxo # None
BY DEF PublishedInv, States

LEMMA ResolveUnsentStep ==
    ASSUME IInv, NEW d \in Deposits, ResolveUnsent(d)
    PROVE  IInv'
<1>1. loop = "CONFIRM_SENT" /\ records[d].state = "CONFIRM_SENT"
  <2>1. At("CONFIRM_SENT", "resolve", d)
    BY DEF ResolveUnsent
  <2> QED
    BY <2>1, HeldRecord
<1> USE DEF ResolveUnsent
<1>2. Moves(d, "AUTHORIZED") /\ records[d].utxo # None
  BY <1>1, TransitionMoves, SignedRecord DEF IInv, TypeOK, ServiceTypeOK, States
<1> QED
  BY <1>1, <1>2, DoneStep
     DEF Warranted, RefundForeclosed, VaultUtxoMayExist, Early, States, IInv, TypeOK, ServiceTypeOK

LEMMA ConfirmedUtxo ==
    ASSUME IInv, NEW d \in Deposits, status[d] = "confirmed"
    PROVE  consumedBy[records[d].utxo] = d
<1>1. PICK o \in Outpoints : consumedBy[o] = d
  BY DEF IInv, ContractInv
<1>2. <<d, o>> \in published
  BY <1>1, LedgersAssumption DEF IInv, ContractInv
<1>3. records[d].utxo = o
  BY <1>2 DEF IInv, PublishedInv
<1> QED
  BY <1>1, <1>3

LEMMA ResolveMinedStep ==
    ASSUME IInv, NEW d \in Deposits, ResolveMined(d)
    PROVE  IInv'
<1>1. loop = "CONFIRM_SENT" /\ records[d].state = "CONFIRM_SENT"
  <2>1. At("CONFIRM_SENT", "resolve", d)
    BY DEF ResolveMined
  <2> QED
    BY <2>1, HeldRecord
<1> USE DEF ResolveMined
<1>2. records[d].utxo # None /\ records[d].nonce # None
  BY <1>1, SignedRecord DEF IInv, NonceInv
<1>3. CASE UNCHANGED records
  BY <1>1, <1>3, WaitStep DEF storeVars
<1>4. CASE Transition(d, "HALTED")
  <2>1. Moves(d, "HALTED")
    BY <1>4, TransitionMoves DEF IInv, TypeOK, ServiceTypeOK, States
  <2> QED
    BY <1>1, <2>1, DoneStep
       DEF Warranted, RefundForeclosed, VaultUtxoMayExist, Early, States, IInv, TypeOK, ServiceTypeOK
<1>5. CASE seen = "confirmed" /\ Transition(d, "CONFIRMED_FINAL") /\ Final(d)
  <2>1. Moves(d, "CONFIRMED_FINAL")
    BY <1>5, TransitionMoves DEF IInv, TypeOK, ServiceTypeOK, States
  <2>2. status[d] = "confirmed"
    BY <1>5 DEF At, IInv, TickInv
  <2>3. records[d].nonce \in Nonces
    BY <1>2, RecordFields DEF IInv, TypeOK, ServiceTypeOK
  <2>4. txs[records[d].nonce] \in Txs
    BY <2>3 DEF NonceMined, IInv, TypeOK, LedgersTypeOK
  <2>5. height - txs[records[d].nonce].mined >= FinalityDepth
    BY <1>5, <2>4 DEF Final, Txs, IInv, TypeOK, LedgersTypeOK, ServiceTypeOK, FinalInv
  <2>6. Warranted(d, "CONFIRMED_FINAL")
    BY <2>2, <2>5, ConfirmedUtxo DEF Warranted
  <2> QED
    BY <1>1, <1>2, <2>1, <2>6, DoneStep DEF Early, States, IInv, TypeOK, ServiceTypeOK
<1> QED
  BY <1>3, <1>4, <1>5

LEMMA PersistOutcomeStep ==
    ASSUME IInv, NEW d \in Deposits, PersistOutcome(d)
    PROVE  IInv'
<1> USE DEF PersistOutcome
<1>1. loop \in {"drain", "AUTHORIZED", "CONFIRMED_FINAL", "FUNDING_BROADCAST"}
  BY DEF IInv, TickInv
<1>2. records[d].state = LoopState /\ records[d].nonce # None
  BY <1>1 DEF IInv, TickInv, NonceInv
<1>3. records[d].utxo # None
  BY <1>1, <1>2, SignedRecord DEF IInv, LoopState
<1>4. CASE loop = "AUTHORIZED"
  <2>1. Moves(d, "CONFIRM_SENT")
    BY <1>4, TransitionMoves DEF IInv, TypeOK, ServiceTypeOK, States
  <2> QED
    BY <1>2, <1>3, <1>4, <2>1, DoneStep
       DEF Warranted, RefundForeclosed, VaultUtxoMayExist, Early, States, IInv, TypeOK, ServiceTypeOK
<1>5. ASSUME NEW s \in {"FUNDING_BROADCAST", "MINTED"}, Transition(d, s), loop # "AUTHORIZED"
      PROVE  IInv'
  <2>1. Moves(d, s)
    BY <1>5, TransitionMoves DEF IInv, TypeOK, ServiceTypeOK, States
  <2>2. RefundForeclosed(records[d].state)
    BY <1>1, <1>2, <1>5 DEF LoopState, RefundForeclosed, VaultUtxoMayExist
  <2>3. Warranted(d, s)
    BY <2>2, <1>5 DEF Warranted, IInv, FinalInv, RecordsTruthful
  <2> QED
    BY <1>1, <1>2, <1>3, <2>1, <2>3, DoneStep DEF Early, States, IInv, TypeOK, ServiceTypeOK
<1> QED
  BY <1>1, <1>4, <1>5

-----------------------------------------------------------------------------
(* The scan *)

\* A record that stays in its state claims what it claimed before.
LEMMA SameState ==
    ASSUME IInv, NEW d \in Deposits
    PROVE  Warranted(d, records[d].state)
BY DEF Warranted, IInv, RecordsTruthful, FinalInv

LEMMA CoinsStay ==
    ASSUME IInv, UNCHANGED coinOf
    PROVE  /\ \A e, f \in Deposits : coinOf'[e] # None /\ coinOf'[e] = coinOf'[f] => e = f
           /\ \A e \in Deposits : records[e].utxo # None => coinOf'[e] = coinOf[e] \/ status[e] = "refunded"
BY DEF IInv, CoinInv

\* While the scan applies events no record is held.
LEMMA ApplyTick ==
    ASSUME IInv, loop = "scan", step = "apply", UNCHANGED <<loop, step, todo, at, seen, ledgerVars, coinOf>>
    PROVE  TickInv'
BY DEF IInv, TickInv, LoopState

LEMMA ApplyLockedStep ==
    ASSUME IInv, NEW e \in log, ApplyLocked(e)
    PROVE  IInv'
<1> USE DEF ApplyLocked, Applying
<1>1. e.dep \in Deposits /\ e.block \in Nat
  BY ApplyingEvent DEF IInv, TypeOK
<1>2. TickInv'
  BY ApplyTick
<1>3. head' <= height /\ cursor' <= height /\ step' = "apply"
  BY DEF IInv, FinalInv
<1>4. CASE UNCHANGED records
  <2>1. ServiceTypeOK'
    BY <1>1, <1>4 DEF IInv, TypeOK, ServiceTypeOK
  <2> QED
    BY <1>2, <1>3, <1>4, <2>1, QuietStep
<1>5. CASE records[e.dep].state = "NONE" /\ Save(e.dep, [NoRecord EXCEPT !.state = "OBSERVED", !.lockedAt = e.block])
  <2> DEFINE r == [NoRecord EXCEPT !.state = "OBSERVED", !.lockedAt = e.block]
  <2>1. r \in Records /\ r.state = "OBSERVED" /\ r.utxo = None /\ r.nonce = None
    BY <1>1 DEF Records, NoRecord, States
  <2>2. records[e.dep].utxo = None /\ records[e.dep].nonce = None
    BY <1>1, <1>5 DEF IInv, PublishedInv
  <2> HIDE DEF r
  <2>3. Save(e.dep, r)
    BY <1>5 DEF r
  <2>4. Moves(e.dep, "OBSERVED")
    BY <1>1, <2>1, <2>2, <2>3, SaveMoves DEF IInv, TypeOK, ServiceTypeOK
  <2>5. Warranted(e.dep, "OBSERVED") /\ "OBSERVED" \in States /\ records[e.dep].state \in Early
    BY <1>5 DEF Warranted, RefundForeclosed, VaultUtxoMayExist, States, Early
  <2>6. ServiceTypeOK'
    BY <1>1, <2>4 DEF IInv, TypeOK, ServiceTypeOK, Moves
  <2> QED
    BY <1>1, <1>2, <1>3, <2>2, <2>4, <2>5, <2>6, CoinsStay, MoveStep
<1> QED
  BY <1>4, <1>5

LEMMA ApplyRefundSignalStep ==
    ASSUME IInv, NEW e \in log, ApplyRefundSignal(e)
    PROVE  IInv'
<1> USE DEF ApplyRefundSignal, Applying
<1>1. e.dep \in Deposits /\ e.block \in Nat
  BY ApplyingEvent DEF IInv, TypeOK
<1>2. TickInv'
  BY ApplyTick
<1>3. head' <= height /\ cursor' <= height /\ step' = "apply"
  BY DEF IInv, FinalInv
<1>4. CASE UNCHANGED records
  <2>1. ServiceTypeOK'
    BY <1>1, <1>4 DEF IInv, TypeOK, ServiceTypeOK
  <2> QED
    BY <1>2, <1>3, <1>4, <2>1, QuietStep
<1>5. CASE /\ records[e.dep].state # "NONE" /\ ~RefundForeclosed(records[e.dep].state)
           /\ Save(e.dep, [records[e.dep] EXCEPT !.refundRequested = e.type = "RefundRequested"])
  <2> DEFINE d == e.dep
             s == records[d].state
             r == [records[d] EXCEPT !.refundRequested = e.type = "RefundRequested"]
  <2>1. records[d] \in Records
    BY <1>1 DEF IInv, TypeOK, ServiceTypeOK
  <2>2. r \in Records /\ r.state = s /\ r.utxo = records[d].utxo /\ r.nonce = records[d].nonce /\ s \in States
    BY <1>5, <2>1 DEF Records
  <2>3. Save(d, r) /\ d \in Deposits
    BY <1>1, <1>5
  <2> HIDE DEF r
  <2>4. Moves(d, s)
    BY <2>2, <2>3, SaveMoves DEF IInv, TypeOK, ServiceTypeOK
  <2>5. Warranted(d, s)
    BY <1>1, SameState
  <2>6. /\ s \in {"OBSERVED", "DEPTH_MET"} => records[d].utxo = None /\ records[d].nonce = None
        /\ s \in {"HALTED", "ABANDONED_REFUNDED", "OBSERVED", "DEPTH_MET"} \/ records[d].utxo # None
        /\ s \in {"CONFIRM_SENT", "CONFIRMED_FINAL", "FUNDING_BROADCAST", "MINTED"} => records[d].nonce # None
    BY <1>1, <2>2 DEF IInv, PublishedInv, NonceInv
  <2>7. ServiceTypeOK'
    BY <1>1, <2>4 DEF IInv, TypeOK, ServiceTypeOK, Moves
  <2>8. s \in Early => records[d].state \in Early
    OBVIOUS
  <2> HIDE DEF d, s
  <2> QED
    BY <1>2, <1>3, <2>2, <2>3, <2>4, <2>5, <2>6, <2>7, <2>8, CoinsStay, MoveStep
<1> QED
  BY <1>4, <1>5

\* A coin is given or taken back while the records stay.
LEMMA CoinStep ==
    ASSUME IInv, UNCHANGED <<ledgerVars, records, nextNonce>>, ServiceTypeOK', TickInv',
           step' \notin {"price", "send", "persist"}, head' <= height, cursor' <= height,
           \A e, f \in Deposits : coinOf'[e] # None /\ coinOf'[e] = coinOf'[f] => e = f,
           \A e \in Deposits : records[e].utxo # None => coinOf'[e] = coinOf[e] \/ status[e] = "refunded"
    PROVE  IInv'
<1> USE DEF ledgerVars, ethVars, xecVars, contractVars
<1>1. TypeOK'
  BY DEF IInv, TypeOK, LedgersTypeOK
<1>2. NonceInv' /\ CoinInv'
  BY QuietNonce DEF IInv, TypeOK, CoinInv, FundingOutpoint
<1>3. FinalInv'
  BY DEF IInv, FinalInv, NonceMined
<1> QED
  BY <1>1, <1>2, <1>3, FrameSafety DEF IInv

LEMMA ReleasedCoins ==
    ASSUME IInv, NEW d \in Deposits, ReleaseCoin(d), records[d].utxo = None \/ status[d] = "refunded"
    PROVE  /\ coinOf' \in [Deposits -> Coins \cup {None}]
           /\ \A e, f \in Deposits : coinOf'[e] # None /\ coinOf'[e] = coinOf'[f] => e = f
           /\ \A e \in Deposits : records[e].utxo # None => coinOf'[e] = coinOf[e] \/ status[e] = "refunded"
BY DEF IInv, CoinInv, TypeOK, ServiceTypeOK, ReleaseCoin

LEMMA ApplyRefundedStep ==
    ASSUME IInv, NEW e \in log, ApplyRefunded(e)
    PROVE  IInv'
<1> USE DEF ApplyRefunded, Applying
<1>1. e.dep \in Deposits /\ e.block \in Nat /\ status[e.dep] = "refunded"
  BY ApplyingEvent DEF IInv, TypeOK, ContractInv
<1>2. ~RefundForeclosed(records[e.dep].state)
  BY <1>1 DEF IInv, RecordsTruthful
<1>3. ReleaseCoin(e.dep) /\ step' = "abandon" /\ at' = e.dep /\ UNCHANGED records
  BY <1>2
<1>4. ServiceTypeOK'
  BY <1>1, <1>3, ReleasedCoins DEF IInv, TypeOK, ServiceTypeOK, Steps
<1>5. TickInv'
  BY <1>1, <1>3 DEF IInv, TickInv, LoopState, ledgerVars, ethVars, contractVars
<1> QED
  BY <1>1, <1>3, <1>4, <1>5, ReleasedCoins, CoinStep DEF IInv, FinalInv

LEMMA ScanAbandonStep ==
    ASSUME IInv, NEW d \in Deposits, ScanAbandon(d)
    PROVE  IInv'
<1>1. status[d] = "refunded" /\ loop = "scan" /\ todo = {}
  BY DEF ScanAbandon, At, IInv, TickInv
<1>2. CASE /\ Transition(d, "ABANDONED_REFUNDED") /\ step' = "apply" /\ at' = None
           /\ UNCHANGED <<loop, todo, head, pos, seen>>
  <2>1. Moves(d, "ABANDONED_REFUNDED")
    BY <1>2, TransitionMoves DEF IInv, TypeOK, ServiceTypeOK, States
  <2>2. ServiceTypeOK'
    BY <1>2, <2>1 DEF ScanAbandon, IInv, TypeOK, ServiceTypeOK, Moves, Steps
  <2>3. TickInv'
    BY <1>1, <1>2 DEF TickInv
  <2>4. Warranted(d, "ABANDONED_REFUNDED")
    BY <1>1 DEF Warranted, RefundForeclosed, VaultUtxoMayExist
  <2>5. head' <= height /\ cursor' <= height /\ UNCHANGED <<ledgerVars, nextNonce, coinOf>>
    BY <1>2 DEF ScanAbandon, IInv, FinalInv
  <2>6. "ABANDONED_REFUNDED" \in States /\ "ABANDONED_REFUNDED" \notin Early
    BY DEF States, Early
  <2> QED
    BY <1>2, <2>1, <2>2, <2>3, <2>4, <2>5, <2>6, CoinsStay, MoveStep
<1>3. CASE Abort /\ UNCHANGED records
  <2>1. ServiceTypeOK' /\ TickInv'
    BY <1>3, AbortTypes, AbortTick DEF ScanAbandon, IInv, TypeOK, ServiceTypeOK
  <2> QED
    BY <1>3, <2>1, AbortTypes, QuietStep DEF ScanAbandon, IInv, FinalInv, TypeOK, LedgersTypeOK
<1> QED
  BY <1>2, <1>3 DEF ScanAbandon

-----------------------------------------------------------------------------
(* Coins and the funding transaction *)

LEMMA GotoTypes ==
    ASSUME ServiceTypeOK, NEW d \in Deposits, NEW s \in Steps, Goto(s, d)
    PROVE  /\ loop' \in Loops /\ step' \in Steps /\ todo' \subseteq Deposits /\ at' \in Deposits \cup {None}
           /\ head' = head /\ pos' \in Nat /\ seen' \in Statuses /\ step' = s /\ at' = d
           /\ loop' = loop /\ seen' = seen
BY DEF Goto, ServiceTypeOK

LEMMA ReserveCoinStep ==
    ASSUME IInv, NEW d \in Deposits, ReserveCoin(d)
    PROVE  IInv'
<1>1. loop = "DEPTH_MET" /\ records[d].state = "DEPTH_MET"
  <2>1. Take("DEPTH_MET", d)
    BY DEF ReserveCoin
  <2> QED
    BY <2>1, TakenRecord
<1> USE DEF ReserveCoin
<1>2. PICK c \in Coins : /\ coinOf' = [coinOf EXCEPT ![d] = c]
                         /\ \A e \in Deposits \ {d} : coinOf[e] # c
  <2>1. PICK c \in IF coinOf[d] # None THEN {coinOf[d]} ELSE FreeCoins : coinOf' = [coinOf EXCEPT ![d] = c]
    OBVIOUS
  <2>2. CASE coinOf[d] # None
    <3>1. c = coinOf[d] /\ c \in Coins
      BY <2>1, <2>2 DEF IInv, TypeOK, ServiceTypeOK
    <3>2. \A e \in Deposits \ {d} : coinOf[e] # c
      BY <2>2, <3>1 DEF IInv, CoinInv
    <3> QED
      BY <2>1, <3>1, <3>2
  <2>3. CASE coinOf[d] = None
    BY <2>1, <2>3 DEF FreeCoins
  <2> QED
    BY <2>2, <2>3
<1>3. /\ coinOf' \in [Deposits -> Coins \cup {None}] /\ coinOf'[d] = c
      /\ \A e, f \in Deposits : coinOf'[e] # None /\ coinOf'[e] = coinOf'[f] => e = f
  BY <1>2 DEF IInv, TypeOK, ServiceTypeOK, CoinInv
<1>4. records[d].utxo = None
  BY <1>1 DEF IInv, PublishedInv
<1>5. ServiceTypeOK' /\ step' = "build" /\ head' = head
  BY <1>3, GotoTypes DEF IInv, TypeOK, ServiceTypeOK, Steps
<1>6. TickInv'
  BY <1>1, <1>3, LedgersAssumption DEF IInv, TickInv, LoopState, Goto, Take
<1> QED
  BY <1>2, <1>3, <1>4, <1>5, <1>6, CoinStep DEF IInv, FinalInv, TypeOK, ServiceTypeOK

LEMMA BuildFailsStep ==
    ASSUME IInv, NEW d \in Deposits, BuildFails(d)
    PROVE  IInv'
<1>1. loop = "DEPTH_MET" /\ records[d].state = "DEPTH_MET"
  <2>1. At("DEPTH_MET", "build", d)
    BY DEF BuildFails
  <2> QED
    BY <2>1, HeldRecord
<1> USE DEF BuildFails, Fault
<1>2. records[d].utxo = None
  BY <1>1 DEF IInv, PublishedInv
<1>3. ServiceTypeOK' /\ TickInv'
  BY <1>2, ReleasedCoins, AbortTypes, AbortTick DEF IInv, TypeOK, ServiceTypeOK
<1> QED
  BY <1>2, <1>3, ReleasedCoins, AbortTypes, CoinStep DEF IInv, FinalInv, TypeOK, LedgersTypeOK

LEMMA PrepareFundingStep ==
    ASSUME IInv, NEW d \in Deposits, PrepareFunding(d)
    PROVE  IInv'
<1>1. loop = "DEPTH_MET" /\ records[d].state = "DEPTH_MET"
  <2>1. At("DEPTH_MET", "build", d)
    BY DEF PrepareFunding
  <2> QED
    BY <2>1, HeldRecord
<1> USE DEF PrepareFunding
<1>2. coinOf[d] \in Coins
  BY DEF At, IInv, TickInv, TypeOK, ServiceTypeOK
<1> DEFINE o == FundingOutpoint(coinOf[d], d)
           r == [records[d] EXCEPT !.state = "FUNDING_PREPARED", !.utxo = o]
<1>3. o \in Outpoints /\ o # None /\ o.coin = coinOf[d]
  BY <1>2, LedgersAssumption DEF FundingOutpoint, Outpoints
<1>4. r \in Records /\ r.state = "FUNDING_PREPARED" /\ r.utxo = o /\ r.nonce = None
  <2>1. records[d] \in Records /\ records[d].nonce = None
    BY <1>1 DEF IInv, TypeOK, ServiceTypeOK, PublishedInv
  <2> HIDE DEF o
  <2> QED
    BY <1>3, <2>1 DEF Records, States
<1>5. Save(d, r)
  OBVIOUS
<1>6. o = FundingOutpoint(o.coin, d)
  BY <1>3
<1> HIDE DEF r, o
<1>7. /\ records' \in [Deposits -> Records] /\ records'[d] = r
      /\ \A e \in Deposits \ {d} : records'[e] = records[e]
  BY <1>4, <1>5, SaveEffect DEF IInv, TypeOK, ServiceTypeOK
<1>8. \A e \in Deposits : records'[e].nonce = records[e].nonce
  BY <1>1, <1>4, <1>7 DEF IInv, PublishedInv
<1>9. UNCHANGED <<ledgerVars, coinOf, cursor, nextNonce, faults>> /\ step' = "next" /\ head' = head
  BY DEF Done
<1> USE DEF ledgerVars, ethVars, xecVars, contractVars
<1>10. TypeOK' /\ TickInv'
  <2>1. ServiceTypeOK'
    BY <1>7, DoneTypes DEF IInv, TypeOK, ServiceTypeOK
  <2>2. TickInv'
    BY <1>1, <1>7, DoneTick DEF IInv, TypeOK
  <2> QED
    BY <1>9, <2>1, <2>2 DEF IInv, TypeOK, LedgersTypeOK
<1>11. PublishedInv'
  <2>1. \A a \in published : a[1] # d
    BY <1>1 DEF IInv, PublishedInv, Early
  <2> QED
    BY <1>3, <1>4, <1>7, <1>9, <2>1 DEF IInv, PublishedInv, TypeOK, LedgersTypeOK, States
<1>12. CoinInv'
  BY <1>3, <1>4, <1>6, <1>7, <1>9 DEF IInv, CoinInv, FundingOutpoint
<1>13. NonceInv'
  <2>1. \A e \in Deposits : records[e].nonce # None => records[e].nonce < nextNonce
    BY RecordedNonce DEF IInv, TypeOK
  <2>2. \A n \in Nonces : txs'[n] # None => records'[txs'[n].dep].nonce = n
    BY <1>8, <1>9 DEF IInv, NonceInv, TypeOK, LedgersTypeOK, Txs
  <2>3. \A e \in Deposits : records'[e].state \in {"CONFIRM_SENT", "CONFIRMED_FINAL", "FUNDING_BROADCAST", "MINTED"} =>
            records'[e].nonce # None
    BY <1>4, <1>7 DEF IInv, NonceInv
  <2>4. \A e \in Deposits : records'[e].nonce # None => records'[e].nonce < nextNonce'
    BY <1>8, <1>9, <2>1
  <2>5. \A e, f \in Deposits : records'[e].nonce # None /\ records'[e].nonce = records'[f].nonce => e = f
    BY <1>8 DEF IInv, NonceInv
  <2> QED
    BY <1>9, <2>2, <2>3, <2>4, <2>5 DEF NonceInv
<1>14. ~RefundForeclosed(r.state) /\ r.state # "ABANDONED_REFUNDED"
  BY <1>4 DEF RefundForeclosed, VaultUtxoMayExist
<1>15. RecordsTruthful'
  BY <1>7, <1>9, <1>14 DEF IInv, RecordsTruthful, RefundForeclosed, VaultUtxoMayExist
<1>16. FinalInv'
  BY <1>7, <1>9, <1>14 DEF IInv, FinalInv, NonceMined, RefundForeclosed, VaultUtxoMayExist
<1>17. ContractInv' /\ Quarantine' /\ FinalityGate'
  BY <1>9 DEF IInv, ContractInv, Quarantine, FinalityGate, NonceMined
<1> QED
  BY <1>10, <1>11, <1>12, <1>13, <1>15, <1>16, <1>17 DEF IInv

-----------------------------------------------------------------------------
(* Nonces and the confirmation *)

LEMMA ReserveNonceStep ==
    ASSUME IInv, NEW d \in Deposits, ReserveNonce(d)
    PROVE  IInv'
<1>1. loop = "AUTHORIZED" /\ records[d].state = "AUTHORIZED"
  <2>1. Take("AUTHORIZED", d)
    BY DEF ReserveNonce
  <2> QED
    BY <2>1, TakenRecord
<1>2. /\ step' = "price" /\ at' = d /\ head' = head /\ loop' = loop /\ todo' = todo \ {d}
      /\ UNCHANGED <<ledgerVars, storeVars, faults, pos, seen>>
  BY DEF ReserveNonce, Goto
<1>3. \/ records[d].nonce # None /\ nextNonce' = nextNonce
      \/ records[d].nonce = None /\ nextNonce \in Nonces /\ nextNonce' = nextNonce + 1
  BY DEF ReserveNonce
<1> USE DEF storeVars
<1>4. nextNonce' \in Nat
  BY <1>3 DEF IInv, TypeOK, ServiceTypeOK
<1>5. ServiceTypeOK'
  BY <1>2, <1>4 DEF IInv, TypeOK, ServiceTypeOK, Steps
<1>6. TickInv'
  BY <1>1, <1>2 DEF IInv, TickInv, LoopState
<1>7. NonceInv'
  <2>1. \A e \in Deposits : records[e].nonce # None => records[e].nonce \in Nat /\ records[e].nonce < nextNonce
    BY RecordedNonce DEF IInv, TypeOK
  <2>2. nextNonce \in Nat /\ (records[d].nonce = None => nextNonce' - 1 = nextNonce)
    BY <1>3 DEF IInv, TypeOK, ServiceTypeOK
  <2>3. \A e \in Deposits : records'[e].nonce # None =>
            records'[e].nonce < IF step' = "price" /\ records'[at'].nonce = None THEN nextNonce' - 1 ELSE nextNonce'
    BY <1>2, <1>3, <2>1, <2>2
  <2>4. step' = "price" /\ records'[at'].nonce = None => nextNonce' - 1 \in Nonces
    BY <1>2, <1>3, <2>2
  <2> QED
    BY <1>2, <2>3, <2>4 DEF IInv, NonceInv, ledgerVars, ethVars
<1> USE DEF ledgerVars, ethVars, xecVars, contractVars
<1>8. TypeOK' /\ FinalInv' /\ CoinInv'
  BY <1>2, <1>5 DEF IInv, TypeOK, LedgersTypeOK, FinalInv, NonceMined, CoinInv
<1> QED
  BY <1>2, <1>6, <1>7, <1>8, FrameSafety DEF IInv

LEMMA RecordNonceStep ==
    ASSUME IInv, NEW d \in Deposits, RecordNonce(d)
    PROVE  IInv'
<1>1. loop = "AUTHORIZED" /\ records[d].state = "AUTHORIZED" /\ step = "price" /\ at = d
  <2>1. At("AUTHORIZED", "price", d)
    BY DEF RecordNonce
  <2> QED
    BY <2>1, HeldRecord DEF At
<1> DEFINE r == [records[d] EXCEPT !.nonce = NonceOf(d), !.sentAt = head]
<1>2. /\ step' = "send" /\ at' = d
      /\ UNCHANGED <<ledgerVars, coinOf, cursor, nextNonce, loop, todo, head, pos, seen, faults>>
      /\ Save(d, r)
  BY <1>1 DEF RecordNonce
<1>3. records[d] \in Records
  BY DEF IInv, TypeOK, ServiceTypeOK
<1>4. NonceOf(d) \in Nonces /\ NonceOf(d) # None
  <2>1. CASE records[d].nonce # None
    BY <1>3, <2>1, RecordFields DEF NonceOf
  <2>2. CASE records[d].nonce = None
    BY <1>1, <2>2, LedgersAssumption DEF NonceOf, IInv, NonceInv
  <2> QED
    BY <2>1, <2>2
<1>5. /\ r \in Records /\ r.state = records[d].state /\ r.utxo = records[d].utxo /\ r.nonce = NonceOf(d)
  <2>1. head \in Nat
    BY DEF IInv, TypeOK, ServiceTypeOK
  <2> QED
    BY <1>3, <1>4, <2>1 DEF Records
<1> HIDE DEF r
<1>6. /\ records' \in [Deposits -> Records] /\ records'[d] = r
      /\ \A e \in Deposits \ {d} : records'[e] = records[e]
  BY <1>2, <1>5, SaveEffect DEF IInv, TypeOK, ServiceTypeOK
<1>7. \A e \in Deposits : /\ records'[e].state = records[e].state /\ records'[e].utxo = records[e].utxo
                          /\ records[e].nonce # None => records'[e].nonce = records[e].nonce
  BY <1>5, <1>6 DEF NonceOf
<1> USE DEF ledgerVars, ethVars, xecVars, contractVars
<1>8. TypeOK'
  BY <1>2, <1>6 DEF IInv, TypeOK, LedgersTypeOK, ServiceTypeOK, Steps
<1>9. TickInv'
  BY <1>1, <1>2, <1>7 DEF IInv, TickInv, LoopState, TypeOK, ServiceTypeOK
<1>10. PublishedInv' /\ CoinInv'
  <2>1. PublishedInv'
    BY <1>1, <1>2, <1>6, <1>7 DEF IInv, PublishedInv, TypeOK, LedgersTypeOK
  <2>2. CoinInv'
    BY <1>2, <1>7 DEF IInv, CoinInv
  <2> QED
    BY <2>1, <2>2
<1>11. NonceInv'
  <2>1. \A e \in Deposits \ {d} : records[e].nonce # None => records[e].nonce # NonceOf(d)
    <3> SUFFICES ASSUME NEW e \in Deposits \ {d}, records[e].nonce # None
                 PROVE  records[e].nonce # NonceOf(d)
      OBVIOUS
    <3>1. CASE records[d].nonce # None
      BY <3>1 DEF IInv, NonceInv, NonceOf
    <3>2. CASE records[d].nonce = None
      <4>1. records[e].nonce < nextNonce - 1
        BY <1>1, <3>2 DEF IInv, NonceInv
      <4>2. nextNonce - 1 \in Int /\ records[e].nonce \in Nat
        BY RecordedNonce DEF IInv, TypeOK, ServiceTypeOK
      <4> QED
        BY <3>2, <4>1, <4>2 DEF NonceOf
    <3> QED
      BY <3>1, <3>2
  <2>2. \A e, f \in Deposits : records'[e].nonce # None /\ records'[e].nonce = records'[f].nonce => e = f
    BY <1>5, <1>6, <2>1 DEF IInv, NonceInv
  <2>3. \A e \in Deposits : records[e].nonce # None => records[e].nonce \in Nat /\ records[e].nonce < nextNonce
    BY RecordedNonce DEF IInv, TypeOK
  <2>4. NonceOf(d) < nextNonce
    BY <2>3 DEF NonceOf, IInv, TypeOK, ServiceTypeOK
  <2>5. \A e \in Deposits : records'[e].nonce # None => records'[e].nonce < nextNonce'
    BY <1>2, <1>5, <1>6, <2>3, <2>4
  <2>6. \A n \in Nonces : txs'[n] # None => records'[txs'[n].dep].nonce = n
    BY <1>2, <1>7, LedgersAssumption DEF IInv, NonceInv, TypeOK, LedgersTypeOK, Txs
  <2>7. \A e \in Deposits : records'[e].state \in {"CONFIRM_SENT", "CONFIRMED_FINAL", "FUNDING_BROADCAST", "MINTED"} =>
            records'[e].nonce # None
    BY <1>7 DEF IInv, NonceInv
  <2>8. records'[at'].nonce # None
    BY <1>2, <1>4, <1>5, <1>6
  <2> QED
    BY <1>2, <2>2, <2>5, <2>6, <2>7, <2>8 DEF NonceInv
<1>12. RecordsTruthful'
  BY <1>2, <1>7 DEF IInv, RecordsTruthful, RefundForeclosed, VaultUtxoMayExist
<1>13. FinalInv'
  <2>1. \A e \in Deposits : RefundForeclosed(records[e].state) => records'[e].nonce = records[e].nonce
    BY <1>7 DEF IInv, NonceInv, RefundForeclosed, VaultUtxoMayExist
  <2> QED
    BY <1>2, <1>7, <2>1 DEF IInv, FinalInv, NonceMined, RefundForeclosed, VaultUtxoMayExist
<1>14. ContractInv' /\ Quarantine' /\ FinalityGate'
  BY <1>2 DEF IInv, ContractInv, Quarantine, FinalityGate, NonceMined
<1> QED
  BY <1>8, <1>9, <1>10, <1>11, <1>12, <1>13, <1>14 DEF IInv

\* The node takes a confirmation of a record past its signature.
LEMMA AcceptStep ==
    ASSUME IInv, NEW d \in Deposits, AcceptConfirmation(records[d].nonce, d, records[d].utxo),
           records[d].state \notin Early, records[d].utxo # None, records[d].nonce # None,
           UNCHANGED <<xecVars, storeVars, nextNonce>>, ServiceTypeOK', TickInv', head' = head,
           step' # "price", step' \in {"send", "persist"} => at' = d
    PROVE  IInv'
<1> DEFINE n == records[d].nonce
           o == records[d].utxo
<1>1. n \in Nonces /\ o \in Outpoints /\ n # None
  BY RecordFields DEF IInv, TypeOK, ServiceTypeOK
<1>2. /\ ~NonceMined(n) /\ txs' = [txs EXCEPT ![n] = [dep |-> d, utxo |-> o, mined |-> 0]]
      /\ published' = published \cup {<<d, o>>}
      /\ UNCHANGED <<height, contractVars, vaults, minted, records, coinOf, cursor, nextNonce>>
  BY DEF AcceptConfirmation, xecVars, storeVars
<1> HIDE DEF n, o
<1> USE DEF contractVars
<1>3. /\ txs' \in [Nonces -> Txs \cup {None}]
      /\ \A m \in Nonces \ {n} : txs'[m] = txs[m]
      /\ txs'[n].dep = d /\ txs'[n].utxo = o
  BY <1>1, <1>2 DEF IInv, TypeOK, LedgersTypeOK, Txs
<1>4. \A m \in Nonces : NonceMined(m) => txs'[m] = txs[m] /\ NonceMined(m)'
  BY <1>2, <1>3 DEF NonceMined
<1>5. TypeOK'
  BY <1>1, <1>2, <1>3 DEF IInv, TypeOK, LedgersTypeOK
<1>6. ContractInv'
  BY <1>2, <1>3 DEF IInv, ContractInv
<1>7. PublishedInv'
  BY <1>2 DEF IInv, PublishedInv, o
<1>8. NonceInv'
  <2>1. \A m \in Nonces : txs'[m] # None => records'[txs'[m].dep].nonce = m
    BY <1>2, <1>3 DEF IInv, NonceInv, n
  <2>2. \A e \in Deposits : records'[e].nonce # None => records'[e].nonce < nextNonce'
    BY <1>2, RecordedNonce DEF IInv, TypeOK
  <2> QED
    BY <1>2, <2>1, <2>2 DEF IInv, NonceInv
<1>9. FinalInv'
  <2>1. \A e \in Deposits : RefundForeclosed(records[e].state) => records[e].nonce \in Nonces
    BY FinalRecord DEF IInv, TypeOK
  <2> QED
    BY <1>2, <1>4, <2>1 DEF IInv, FinalInv, NonceMined, RefundForeclosed, VaultUtxoMayExist
<1>10. FinalityGate'
  <2> SUFFICES ASSUME NEW p \in vaults
               PROVE  \E m \in Nonces : /\ NonceMined(m)' /\ txs'[m].utxo = p
                                        /\ height' - txs'[m].mined >= FinalityDepth
    BY <1>2 DEF FinalityGate, NonceMined
  <2>1. PICK m \in Nonces : /\ NonceMined(m) /\ txs[m].utxo = p
                            /\ height - txs[m].mined >= FinalityDepth
    BY DEF IInv, FinalityGate
  <2> QED
    BY <1>2, <1>4, <2>1
<1>11. CoinInv' /\ Quarantine' /\ RecordsTruthful'
  BY <1>2 DEF IInv, CoinInv, Quarantine, RecordsTruthful
<1> QED
  BY <1>5, <1>6, <1>7, <1>8, <1>9, <1>10, <1>11 DEF IInv

\* An exception leaves the ledgers and the store as they are.
LEMMA ThrowStep ==
    ASSUME IInv, Abort, UNCHANGED <<ledgerVars, storeVars, nextNonce, faults>>
    PROVE  IInv'
<1>1. ServiceTypeOK' /\ TickInv'
  BY AbortTypes, AbortTick DEF IInv, TypeOK, ServiceTypeOK, storeVars
<1>2. head' <= height /\ cursor' <= height
  BY AbortTypes DEF IInv, FinalInv, TypeOK, LedgersTypeOK, storeVars
<1> QED
  BY <1>1, <1>2, AbortTypes, QuietStep DEF storeVars

LEMMA SendConfirmationStep ==
    ASSUME IInv, NEW d \in Deposits, SendConfirmation(d)
    PROVE  IInv'
<1>1. loop = "AUTHORIZED" /\ records[d].state = "AUTHORIZED" /\ step = "send" /\ at = d
  <2>1. At("AUTHORIZED", "send", d)
    BY DEF SendConfirmation
  <2> QED
    BY <2>1, HeldRecord DEF At
<1>2. UNCHANGED <<xecVars, storeVars, nextNonce, faults>>
  BY DEF SendConfirmation
<1>3. CASE /\ AcceptConfirmation(records[d].nonce, d, records[d].utxo)
           /\ step' = "persist" /\ UNCHANGED <<loop, todo, at, head, pos, seen>>
  <2>1. records[d].utxo # None /\ records[d].nonce # None /\ records[d].state \notin Early
    BY <1>1, SignedRecord DEF IInv, NonceInv, Early
  <2>2. ServiceTypeOK'
    BY <1>2, <1>3 DEF IInv, TypeOK, ServiceTypeOK, Steps, storeVars
  <2>3. TickInv'
    BY <1>1, <1>2, <1>3 DEF IInv, TickInv, LoopState, storeVars
  <2> QED
    BY <1>1, <1>2, <1>3, <2>1, <2>2, <2>3, AcceptStep
<1>4. CASE Abort /\ UNCHANGED ethVars
  BY <1>2, <1>4, ThrowStep DEF ledgerVars
<1> QED
  BY <1>3, <1>4 DEF SendConfirmation

LEMMA ResendConfirmationStep ==
    ASSUME IInv, NEW d \in Deposits, ResendConfirmation(d)
    PROVE  IInv'
<1>1. loop = "CONFIRM_SENT" /\ records[d].state = "CONFIRM_SENT"
  <2>1. At("CONFIRM_SENT", "resend", d)
    BY DEF ResendConfirmation
  <2> QED
    BY <2>1, HeldRecord
<1>2. UNCHANGED <<xecVars, storeVars, nextNonce, faults>>
  BY DEF ResendConfirmation
<1>3. CASE AcceptConfirmation(records[d].nonce, d, records[d].utxo) /\ Done(d)
  <2>1. records[d].utxo # None /\ records[d].nonce # None /\ records[d].state \notin Early
    BY <1>1, SignedRecord DEF IInv, NonceInv, Early
  <2>2. ServiceTypeOK' /\ step' = "next" /\ head' = head
    BY <1>2, <1>3, DoneTypes DEF IInv, TypeOK, ServiceTypeOK, storeVars
  <2>3. TickInv'
    BY <1>1, <1>2, <1>3, DoneTick DEF IInv, TypeOK, storeVars
  <2> QED
    BY <1>2, <1>3, <2>1, <2>2, <2>3, AcceptStep
<1>4. CASE Abort /\ UNCHANGED ethVars
  BY <1>2, <1>4, ThrowStep DEF ledgerVars
<1> QED
  BY <1>3, <1>4 DEF ResendConfirmation

LEMMA ReadDepositStep ==
    ASSUME IInv, NEW d \in Deposits, ReadDeposit(d)
    PROVE  IInv'
<1>1. loop = "CONFIRM_SENT" /\ records[d].state = "CONFIRM_SENT"
  <2>1. Take("CONFIRM_SENT", d)
    BY DEF ReadDeposit
  <2> QED
    BY <2>1, TakenRecord
<1>2. /\ UNCHANGED <<ledgerVars, records, cursor, nextNonce, loop, head, pos, faults>>
      /\ seen' = status[d] /\ at' = d /\ todo' = todo \ {d}
  BY DEF ReadDeposit
<1> USE DEF ledgerVars, ethVars, xecVars, contractVars
<1>3. CASE status[d] = "refunded" /\ ReleaseCoin(d) /\ step' = "abandon"
  <2>1. ServiceTypeOK'
    BY <1>2, <1>3, ReleasedCoins DEF IInv, TypeOK, ServiceTypeOK, LedgersTypeOK, Steps
  <2>2. TickInv'
    BY <1>1, <1>2, <1>3 DEF IInv, TickInv, LoopState
  <2> QED
    BY <1>2, <1>3, <2>1, <2>2, ReleasedCoins, CoinStep DEF IInv, FinalInv
<1>4. CASE status[d] # "refunded" /\ step' = "resolve" /\ UNCHANGED coinOf
  <2>1. ServiceTypeOK'
    BY <1>2, <1>4 DEF IInv, TypeOK, ServiceTypeOK, LedgersTypeOK, Steps
  <2>2. TickInv'
    BY <1>1, <1>2, <1>4 DEF IInv, TickInv, LoopState
  <2> QED
    BY <1>2, <1>4, <2>1, <2>2, QuietStep DEF IInv, FinalInv
<1> QED
  BY <1>3, <1>4 DEF ReadDeposit

LEMMA ResolvePendingStep ==
    ASSUME IInv, NEW d \in Deposits, ResolvePending(d)
    PROVE  IInv'
<1>1. loop = "CONFIRM_SENT" /\ records[d].state = "CONFIRM_SENT" /\ at = d
  <2>1. At("CONFIRM_SENT", "resolve", d)
    BY DEF ResolvePending
  <2> QED
    BY <2>1, HeldRecord DEF At
<1>2. UNCHANGED <<ledgerVars, coinOf, cursor, nextNonce>>
  BY DEF ResolvePending
<1>3. records[d].utxo # None /\ records[d].nonce # None /\ records[d] \in Records
  BY <1>1, SignedRecord DEF IInv, NonceInv, TypeOK, ServiceTypeOK
<1>4. CASE Done(d) /\ UNCHANGED <<records, faults>>
  BY <1>1, <1>2, <1>4, WaitStep DEF storeVars
<1>5. CASE /\ Save(d, [records[d] EXCEPT !.sentAt = head]) /\ step' = "resend"
           /\ UNCHANGED <<loop, todo, at, head, pos, seen, faults>>
  <2> DEFINE r == [records[d] EXCEPT !.sentAt = head]
  <2>1. r \in Records /\ r.state = "CONFIRM_SENT" /\ r.utxo = records[d].utxo /\ r.nonce = records[d].nonce
    <3>1. head \in Nat
      BY DEF IInv, TypeOK, ServiceTypeOK
    <3> QED
      BY <1>1, <1>3, <3>1 DEF Records
  <2> HIDE DEF r
  <2>2. Save(d, r)
    BY <1>5 DEF r
  <2>3. Moves(d, "CONFIRM_SENT")
    BY <2>1, <2>2, SaveMoves DEF IInv, TypeOK, ServiceTypeOK
  <2>4. ServiceTypeOK'
    BY <1>2, <1>5, <2>3 DEF IInv, TypeOK, ServiceTypeOK, Moves, Steps
  <2>5. TickInv'
    BY <1>1, <1>2, <1>5, <2>3 DEF IInv, TickInv, LoopState, Moves, TypeOK, ServiceTypeOK
  <2>6. Warranted(d, "CONFIRM_SENT") /\ "CONFIRM_SENT" \in States /\ "CONFIRM_SENT" \notin Early
    BY DEF Warranted, RefundForeclosed, VaultUtxoMayExist, States, Early
  <2> QED
    BY <1>2, <1>3, <1>5, <2>3, <2>4, <2>5, <2>6, CoinsStay, MoveStep DEF IInv, FinalInv
<1>6. CASE Fault /\ Transition(d, "HALTED") /\ Done(d)
  <2>1. Moves(d, "HALTED")
    BY <1>6, TransitionMoves DEF IInv, TypeOK, ServiceTypeOK, States
  <2>2. Warranted(d, "HALTED") /\ "HALTED" \in States /\ "HALTED" \notin Early
    BY DEF Warranted, RefundForeclosed, VaultUtxoMayExist, States, Early
  <2>3. faults' \in Nat
    BY <1>6 DEF Fault, IInv, TypeOK, ServiceTypeOK
  <2> QED
    BY <1>1, <1>2, <1>6, <2>1, <2>2, <2>3, DoneStep
<1> QED
  BY <1>4, <1>5, <1>6 DEF ResolvePending

-----------------------------------------------------------------------------
(* The broadcast and the mint *)

\* What a broadcast may create: the outpoint a deep enough confirmation names.
LEMMA FinalEvidence ==
    ASSUME IInv, NEW d \in Deposits, records[d].state = "CONFIRMED_FINAL"
    PROVE  /\ records[d].utxo \in Outpoints /\ records[d].nonce \in Nonces
           /\ status[d] = "confirmed" /\ consumedBy[records[d].utxo] = d
           /\ NonceMined(records[d].nonce) /\ txs[records[d].nonce].utxo = records[d].utxo
           /\ height - txs[records[d].nonce].mined >= FinalityDepth
<1>1. RefundForeclosed(records[d].state)
  BY DEF RefundForeclosed
<1>2. records[d].utxo \in Outpoints /\ records[d].nonce \in Nonces
  BY <1>1, FinalRecord DEF IInv, TypeOK
<1>3. status[d] = "confirmed" /\ consumedBy[records[d].utxo] = d
  BY <1>1 DEF IInv, RecordsTruthful
<1>4. /\ NonceMined(records[d].nonce)
      /\ height - txs[records[d].nonce].mined >= FinalityDepth
  BY <1>1 DEF IInv, FinalInv
<1>5. txs[records[d].nonce].utxo = records[d].utxo
  <2> DEFINE n == records[d].nonce
  <2>1. txs[n] # None /\ txs[n] \in Txs
    BY <1>2, <1>4 DEF NonceMined, IInv, TypeOK, LedgersTypeOK
  <2>2. txs[n].dep \in Deposits /\ records[txs[n].dep].nonce = n
    BY <1>2, <2>1 DEF Txs, IInv, NonceInv
  <2>3. txs[n].dep = d
    BY <1>2, <2>2, LedgersAssumption DEF IInv, NonceInv
  <2>4. <<d, txs[n].utxo>> \in published
    BY <1>2, <2>1, <2>3 DEF IInv, ContractInv
  <2> QED
    BY <2>4 DEF IInv, PublishedInv
<1> QED
  BY <1>2, <1>3, <1>4, <1>5

LEMMA AdvanceConfirmedFinalStep ==
    ASSUME IInv, NEW l \in {"drain", "CONFIRMED_FINAL"}, NEW d \in Deposits, AdvanceConfirmedFinal(l, d)
    PROVE  IInv'
<1>1. loop = l /\ records[d].state = "CONFIRMED_FINAL"
  BY DEF AdvanceConfirmedFinal, Take, IInv, TickInv, LoopState
<1> DEFINE o == records[d].utxo
<1>2. /\ o \in Outpoints /\ o # None /\ records[d].nonce \in Nonces /\ records[d].nonce # None
      /\ status[d] = "confirmed" /\ consumedBy[o] = d
      /\ NonceMined(records[d].nonce) /\ txs[records[d].nonce].utxo = o
      /\ height - txs[records[d].nonce].mined >= FinalityDepth
  BY <1>1, FinalEvidence, LedgersAssumption
<1> HIDE DEF o
<1>3. /\ vaults' = vaults \cup {o} /\ minted' = minted
      /\ UNCHANGED <<ethVars, records, coinOf, cursor, nextNonce, faults>>
      /\ step' = "persist" /\ at' = d /\ todo' = todo \ {d} /\ UNCHANGED <<loop, head, pos, seen>>
  BY <1>2 DEF AdvanceConfirmedFinal, AcceptFunding, Goto, o
<1> USE DEF ethVars, contractVars
<1>4. TypeOK'
  BY <1>2, <1>3 DEF IInv, TypeOK, LedgersTypeOK, ServiceTypeOK, Steps
<1>5. TickInv'
  BY <1>1, <1>3 DEF IInv, TickInv, LoopState, o
<1>6. NonceInv'
  BY <1>2, <1>3, QuietNonce DEF IInv, TypeOK
<1>7. Quarantine'
  BY <1>2, <1>3, LedgersAssumption DEF IInv, Quarantine
<1>8. FinalityGate'
  BY <1>2, <1>3 DEF IInv, FinalityGate, NonceMined
<1>9. FinalInv'
  BY <1>3 DEF IInv, FinalInv, NonceMined
<1>10. ContractInv' /\ PublishedInv' /\ CoinInv' /\ RecordsTruthful'
  BY <1>3 DEF IInv, ContractInv, PublishedInv, CoinInv, RecordsTruthful
<1> QED
  BY <1>4, <1>5, <1>6, <1>7, <1>8, <1>9, <1>10 DEF IInv

LEMMA MintEffect ==
    ASSUME IInv, NEW d \in Deposits, NEW o \in Outpoints, Mint(d, o),
           UNCHANGED <<ethVars, records, coinOf, cursor, head>>, ServiceTypeOK', TickInv', NonceInv'
    PROVE  IInv'
<1> USE DEF ethVars, contractVars, Mint, Mintable
<1>1. minted' = minted \cup {<<d, o>>} /\ <<d, o>> \in published /\ o \in vaults /\ vaults' = vaults
  OBVIOUS
<1>2. TypeOK'
  BY <1>1 DEF IInv, TypeOK, LedgersTypeOK
<1>3. FinalInv'
  BY <1>1 DEF IInv, FinalInv, NonceMined
<1>4. ContractInv' /\ PublishedInv' /\ CoinInv'
  BY <1>1 DEF IInv, ContractInv, PublishedInv, CoinInv
<1>5. RecordsTruthful' /\ Quarantine' /\ FinalityGate'
  BY <1>1 DEF IInv, RecordsTruthful, Quarantine, FinalityGate, NonceMined
<1> QED
  BY <1>2, <1>3, <1>4, <1>5 DEF IInv

LEMMA MintingStep ==
    ASSUME IInv, Minting
    PROVE  IInv'
<1>1. PICK a \in published : Mint(a[1], a[2])
  BY DEF Minting
<1>2. a[1] \in Deposits /\ a[2] \in Outpoints
  BY DEF IInv, TypeOK, LedgersTypeOK
<1>3. UNCHANGED <<ethVars, serviceVars>> /\ vaults' = vaults
  BY <1>1 DEF Minting, Mint
<1> USE DEF serviceVars, storeVars, tickVars, ethVars, contractVars
<1>4. ServiceTypeOK' /\ TickInv' /\ NonceInv'
  BY <1>3 DEF IInv, TypeOK, ServiceTypeOK, TickInv, LoopState, NonceInv
<1> QED
  BY <1>1, <1>2, <1>3, <1>4, MintEffect

LEMMA ConvenienceMintStep ==
    ASSUME IInv, NEW d \in Deposits, ConvenienceMint(d)
    PROVE  IInv'
<1>1. loop = "FUNDING_BROADCAST" /\ records[d].state = "FUNDING_BROADCAST"
  <2>1. Take("FUNDING_BROADCAST", d)
    BY DEF ConvenienceMint
  <2> QED
    BY <2>1, TakenRecord
<1>2. Mint(d, records[d].utxo) /\ UNCHANGED <<ethVars, storeVars, nextNonce, faults>> /\ Goto("persist", d)
  BY DEF ConvenienceMint
<1>3. records[d].utxo \in Outpoints /\ records[d].nonce # None
  BY <1>1, FinalRecord, LedgersAssumption DEF RefundForeclosed, VaultUtxoMayExist, IInv, TypeOK
<1>4. /\ step' = "persist" /\ at' = d /\ head' = head /\ vaults' = vaults
      /\ todo' = todo \ {d} /\ UNCHANGED <<loop, pos, seen>>
  BY <1>2 DEF Goto, Mint
<1> USE DEF storeVars, ethVars, contractVars
<1>5. ServiceTypeOK'
  BY <1>2, <1>4 DEF IInv, TypeOK, ServiceTypeOK, Steps
<1>6. TickInv'
  BY <1>1, <1>2, <1>4 DEF IInv, TickInv, LoopState
<1>7. NonceInv'
  BY <1>2, <1>3, <1>4, QuietNonce DEF IInv, TypeOK
<1> QED
  BY <1>2, <1>3, <1>4, <1>5, <1>6, <1>7, MintEffect

-----------------------------------------------------------------------------
(* The invariant, and what follows from it *)

LEMMA InitInv == Init => IInv
<1> SUFFICES ASSUME Init PROVE IInv
  OBVIOUS
<1> USE DEF Init, LedgersInit
<1>1. LedgersTypeOK
  BY DEF LedgersTypeOK, Statuses
<1>2. ServiceTypeOK
  BY DEF ServiceTypeOK, Records, NoRecord, Loops, Steps, Statuses
<1>3. TickInv /\ ContractInv /\ PublishedInv
  BY LedgersAssumption DEF TickInv, ContractInv, PublishedInv, NoRecord, States
<1>4. CoinInv /\ NonceInv
  BY DEF CoinInv, NonceInv, NoRecord
<1>5. FinalInv /\ RecordsTruthful
  BY DEF FinalInv, RecordsTruthful, NoRecord, RefundForeclosed, VaultUtxoMayExist
<1>6. Quarantine /\ FinalityGate
  BY DEF Quarantine, FinalityGate
<1> QED
  BY <1>1, <1>2, <1>3, <1>4, <1>5, <1>6 DEF IInv, TypeOK

LEMMA EthereumStep ==
    ASSUME IInv, Ethereum
    PROVE  IInv'
<1>1. UNCHANGED <<xecVars, serviceVars>>
  BY DEF Ethereum
<1>2. ASSUME NEW a \in published, ConfirmByAnyone(a[1], a[2])
      PROVE  IInv'
  <2>1. a[1] \in Deposits /\ a[2] \in Outpoints
    BY DEF IInv, TypeOK, LedgersTypeOK
  <2> QED
    BY <1>1, <1>2, <2>1, ConfirmByAnyoneStep
<1> QED
  BY <1>1, <1>2, LockStep, RequestRefundStep, CancelRefundRequestStep, RefundStep,
     MineConfirmationStep, EmptyBlockStep DEF Ethereum

LEMMA ScanStep ==
    ASSUME IInv, Scan
    PROVE  IInv'
BY ScanStartStep, ApplyLockedStep, ApplyRefundSignalStep, ApplyRefundedStep, ApplyConfirmedStep,
   ScanAbandonStep, ScanEndStep DEF Scan

LEMMA AdvanceStep ==
    ASSUME IInv, NEW d \in Deposits, Advance(d)
    PROVE  IInv'
<1>1. ASSUME AdvanceConfirmedFinal("drain", d) \/ AdvanceConfirmedFinal("CONFIRMED_FINAL", d)
      PROVE  IInv'
  BY <1>1, AdvanceConfirmedFinalStep
<1>2. ASSUME \/ ReserveNonce(d) \/ RecordNonce(d) \/ SendConfirmation(d) \/ ReadDeposit(d)
             \/ Abandon(d) \/ ResolveUnsent(d) \/ ResolvePending(d)
             \/ ResendConfirmation(d) \/ ResolveMined(d)
      PROVE  IInv'
  BY <1>2, ReserveNonceStep, RecordNonceStep, SendConfirmationStep, ReadDepositStep, AbandonStep,
     ResolveUnsentStep, ResolvePendingStep, ResendConfirmationStep, ResolveMinedStep
<1> QED
  BY <1>1, <1>2, AdvanceObservedStep, DepthMetWaitsStep, ReserveCoinStep, PrepareFundingStep,
     AdvanceFundingPreparedStep, SkipMintStep, ConvenienceMintStep, PersistOutcomeStep DEF Advance

LEMMA StutterInv ==
    ASSUME IInv, UNCHANGED vars
    PROVE  IInv'
<1> USE DEF vars, serviceVars, storeVars, tickVars, ledgerVars, ethVars, contractVars, xecVars
<1>1. ServiceTypeOK' /\ TickInv' /\ head' <= height /\ cursor' <= height
  BY DEF IInv, TypeOK, ServiceTypeOK, TickInv, LoopState, FinalInv
<1>2. TypeOK' /\ NonceInv' /\ CoinInv' /\ FinalInv'
  BY <1>1 DEF IInv, TypeOK, LedgersTypeOK, NonceInv, CoinInv, FinalInv, NonceMined
<1> QED
  BY <1>1, <1>2, FrameSafety DEF IInv

\* Every step of the service, of Ethereum and of eCash keeps the inductive invariant.
LEMMA NextInv == IInv /\ [Next]_vars => IInv'
<1> SUFFICES ASSUME IInv, [Next]_vars PROVE IInv'
  OBVIOUS
<1>1. CASE Tick
  BY <1>1, TickStartStep, NextLoopStep, ScanStep, AdvanceStep DEF Tick
<1>2. CASE Crash \/ \E d \in Deposits : BuildFails(d)
  BY <1>2, CrashStep, BuildFailsStep
<1>3. CASE Ethereum \/ Eviction \/ Minting
  BY <1>3, EthereumStep, EvictionStep, MintingStep
<1>4. CASE UNCHANGED vars
  BY <1>4, StutterInv
<1> QED
  BY <1>1, <1>2, <1>3, <1>4 DEF Next

\* The inductive invariant always holds.
THEOREM Invariance == Spec => []IInv
<1>1. IInv /\ [Next]_vars => IInv'
  BY NextInv
<1> QED
  BY InitInv, <1>1, PTL DEF Spec

\* The variables always have their types: no read of the store, of a transaction or
\* of a nonce is ever undefined.
THEOREM TypeCorrect == Spec => []TypeOK
<1>1. IInv => TypeOK
  BY DEF IInv
<1> QED
  BY Invariance, <1>1, PTL

\* SPEC.md III.7, the quarantine: a vault output that exists backs a deposit whose
\* confirmation forecloses refund().
THEOREM QuarantineHolds == Spec => []Quarantine
<1>1. IInv => Quarantine
  BY DEF IInv
<1> QED
  BY Invariance, <1>1, PTL

\* The broadcast waits for a mined confirmation of the outpoint at finality depth.
THEOREM FinalityGateHolds == Spec => []FinalityGate
<1>1. IInv => FinalityGate
  BY DEF IInv
<1> QED
  BY Invariance, <1>1, PTL

\* A record never says more of its deposit than Ethereum does.
THEOREM RecordsTruthfulHolds == Spec => []RecordsTruthful
<1>1. IInv => RecordsTruthful
  BY DEF IInv
<1> QED
  BY Invariance, <1>1, PTL

\* However the confirmation is resent, bumped or interrupted, a deposit has one nonce
\* and one authorized outpoint.
THEOREM OneConfirmation == Spec => []OneConfirmationPerDeposit
<1>1. IInv => OneConfirmationPerDeposit
  <2> SUFFICES ASSUME IInv PROVE OneConfirmationPerDeposit
    OBVIOUS
  <2>1. \A m, n \in Nonces : txs[m] # None /\ txs[n] # None /\ txs[m].dep = txs[n].dep => m = n
    BY DEF IInv, NonceInv
  <2>2. \A a, b \in published : a[1] = b[1] => a[2] = b[2]
    BY DEF IInv, PublishedInv
  <2> QED
    BY <2>1, <2>2 DEF OneConfirmationPerDeposit
<1> QED
  BY Invariance, <1>1, PTL
\* An outpoint that Ethereum consumed is the recorded one of its deposit, which still
\* has the coin.
LEMMA ConsumedIsRecorded ==
    ASSUME IInv, NEW o \in Outpoints, consumedBy[o] # None
    PROVE  /\ consumedBy[o] \in Deposits /\ status[consumedBy[o]] = "confirmed"
           /\ records[consumedBy[o]].utxo = o /\ coinOf[consumedBy[o]] = o.coin
           /\ o = FundingOutpoint(o.coin, consumedBy[o])
<1> DEFINE d == consumedBy[o]
<1>1. d \in Deposits
  BY DEF IInv, TypeOK, LedgersTypeOK
<1>2. status[d] = "confirmed" /\ <<d, o>> \in published
  BY DEF IInv, ContractInv
<1>3. records[d].utxo = o
  BY <1>2 DEF IInv, PublishedInv
<1>4. o # None
  BY LedgersAssumption
<1> HIDE DEF d
<1>5. coinOf[d] = o.coin /\ o = FundingOutpoint(o.coin, d)
  BY <1>1, <1>2, <1>3, <1>4 DEF IInv, CoinInv
<1> QED
  BY <1>1, <1>2, <1>3, <1>5 DEF d

\* Once a deposit is confirmed, and so past refund(), the coin of its vault output is
\* reserved for it and spent by no other output: it can always be funded.
THEOREM ConfirmedFundable == Spec => []ConfirmedStaysFundable
<1>1. IInv => ConfirmedStaysFundable
  <2> SUFFICES ASSUME IInv, NEW o \in Outpoints, consumedBy[o] # None
               PROVE  coinOf[consumedBy[o]] = o.coin /\ \A p \in vaults : p.coin = o.coin => p = o
    BY DEF ConfirmedStaysFundable, Broadcastable
  <2> SUFFICES ASSUME NEW p \in vaults PROVE p.coin = o.coin => p = o
    BY ConsumedIsRecorded
  <2>1. p \in Outpoints /\ consumedBy[p] # None
    BY DEF IInv, TypeOK, LedgersTypeOK, Quarantine
  <2>2. p.coin = o.coin => consumedBy[p] = consumedBy[o]
    <3>1. coinOf[consumedBy[p]] = p.coin /\ coinOf[consumedBy[o]] = o.coin
      BY <2>1, ConsumedIsRecorded
    <3>2. o.coin # None
      BY LedgersAssumption DEF Outpoints
    <3>3. consumedBy[p] \in Deposits /\ consumedBy[o] \in Deposits
      BY <2>1, ConsumedIsRecorded
    <3> QED
      BY <3>1, <3>2, <3>3 DEF IInv, CoinInv
  <2> QED
    BY <2>1, <2>2, ConsumedIsRecorded
<1> QED
  BY Invariance, <1>1, PTL

\* When no two deposits can be promised the same outpoint, a mint is always backed by
\* the confirmation of the deposit it mints: an authorization that was published before
\* a refund never mints.
THEOREM MintBackedHolds == ASSUME ~DeterministicFunding PROVE Spec => []MintBacked
<1>1. IInv => MintBacked
  <2> SUFFICES ASSUME IInv, NEW m \in minted
               PROVE  status[m[1]] = "confirmed" /\ consumedBy[m[2]] = m[1]
    BY DEF MintBacked
  <2>1. m \in published /\ m[1] \in Deposits /\ m[2] \in Outpoints /\ m[2] \in vaults
    BY DEF IInv, FinalInv, TypeOK, LedgersTypeOK
  <2>2. consumedBy[m[2]] # None
    BY <2>1 DEF IInv, Quarantine
  <2> DEFINE d == consumedBy[m[2]]
  <2>3. d \in Deposits /\ status[d] = "confirmed" /\ m[2] = FundingOutpoint(m[2].coin, d)
    BY <2>1, <2>2, ConsumedIsRecorded
  <2>4. records[m[1]].utxo = m[2] /\ m[2] # None
    BY <2>1, LedgersAssumption DEF IInv, PublishedInv
  <2>5. m[2] = FundingOutpoint(m[2].coin, m[1])
    BY <2>1, <2>4 DEF IInv, CoinInv
  <2>6. m[1] = d
    <3>1. \A c, e : FundingOutpoint(c, e).for = e
      BY DEF FundingOutpoint
    <3> QED
      BY <2>3, <2>5, <3>1
  <2> QED
    BY <2>3, <2>6
<1> QED
  BY Invariance, <1>1, PTL

-----------------------------------------------------------------------------
(***************************************************************************)
(* The deposit pipeline implements BridgedDeposits, when no two deposits   *)
(* can be promised the same outpoint.  Only the ledgers show in the stage  *)
(* of a deposit, so a step of the service that touches neither ledger is a *)
(* stutter; the others are taken one by one.                               *)
(***************************************************************************)

\* What stageOf reads.
stageVars == <<status, vaults, minted, published>>

LEMMA StageStutters == UNCHANGED stageVars => UNCHANGED stageOf
BY DEF stageVars, stageOf

LEMMA StageUpdate ==
    ASSUME NEW d \in Deposits, NEW to, \A e \in Deposits : stageOf'[e] = IF e = d THEN to ELSE stageOf[e]
    PROVE  stageOf' = [stageOf EXCEPT ![d] = to]
<1> DEFINE f == stageOf
           g == stageOf'
<1>1. f = [e \in Deposits |-> f[e]] /\ g = [e \in Deposits |-> g[e]]
  BY DEF stageOf
<1>2. \A e \in Deposits : g[e] = IF e = d THEN to ELSE f[e]
  OBVIOUS
<1> HIDE DEF f, g
<1>3. g = [f EXCEPT ![d] = to]
  BY <1>1, <1>2
<1> QED
  BY <1>3 DEF f, g

\* The stage of a deposit, in terms of its own record.
LEMMA StageFacts ==
    ASSUME IInv, NEW d \in Deposits
    PROVE  /\ \A o : <<d, o>> \in published => records[d].utxo = o /\ o \in Outpoints
           /\ \A m \in minted : m[1] = d => m[2] = records[d].utxo /\ m[2] \in vaults
           /\ \A m \in minted : m = <<m[1], m[2]>> /\ m[1] \in Deposits /\ m[2] \in Outpoints
<1>1. \A o : <<d, o>> \in published => records[d].utxo = o /\ o \in Outpoints
  BY DEF IInv, PublishedInv, TypeOK, LedgersTypeOK
<1>2. \A m \in minted : m = <<m[1], m[2]>> /\ m[1] \in Deposits /\ m[2] \in Outpoints
  BY DEF IInv, TypeOK, LedgersTypeOK
<1>3. \A m \in minted : m[1] = d => m[2] = records[d].utxo /\ m[2] \in vaults
  BY DEF IInv, FinalInv, PublishedInv
<1> QED
  BY <1>1, <1>2, <1>3

\* An outpoint is authorized for one deposit.
LEMMA OneOwner ==
    ASSUME IInv, ~DeterministicFunding, NEW o \in Outpoints, NEW d \in Deposits, NEW e \in Deposits,
           records[d].utxo = o, records[e].utxo = o
    PROVE  d = e
<1>1. o # None
  BY LedgersAssumption
<1>2. o = FundingOutpoint(o.coin, d) /\ o = FundingOutpoint(o.coin, e)
  BY <1>1 DEF IInv, CoinInv
<1> QED
  BY <1>2 DEF FundingOutpoint

\* A deposit that is mintable or minted is confirmed on Ethereum.
LEMMA StageBacked ==
    ASSUME IInv, ~DeterministicFunding, NEW d \in Deposits, status[d] # "confirmed"
    PROVE  stageOf[d] = status[d]
<1>1. \A o \in vaults : <<d, o>> \notin published
  <2> SUFFICES ASSUME NEW o \in vaults, <<d, o>> \in published PROVE FALSE
    OBVIOUS
  <2>1. o \in Outpoints /\ records[d].utxo = o /\ consumedBy[o] # None
    BY DEF IInv, PublishedInv, TypeOK, LedgersTypeOK, Quarantine
  <2>2. consumedBy[o] = d
    BY <2>1, ConsumedIsRecorded, OneOwner
  <2> QED
    BY <2>2 DEF IInv, Quarantine
<1>2. \A m \in minted : m[1] # d
  <2> SUFFICES ASSUME NEW m \in minted, m[1] = d PROVE FALSE
    OBVIOUS
  <2>1. m \in published /\ m[2] \in vaults
    BY DEF IInv, FinalInv
  <2>2. m = <<d, m[2]>>
    BY StageFacts
  <2> QED
    BY <1>1, <2>1, <2>2
<1> QED
  BY <1>1, <1>2 DEF stageOf

-----------------------------------------------------------------------------
(* The steps of the ledgers *)

\* A step that moves only the status of d, from what it is to to.
LEMMA StatusMoves ==
    ASSUME IInv, ~DeterministicFunding, NEW d \in Deposits, NEW to,
           status' = [status EXCEPT ![d] = to], status[d] # "confirmed",
           UNCHANGED <<vaults, minted, published>>
    PROVE  Bridged!Move(d, status[d], to)
<1>1. stageOf[d] = status[d]
  BY StageBacked
<1>2. /\ ~ \E m \in minted : m[1] = d
      /\ ~ \E o \in vaults : <<d, o>> \in published
  <2>1. status[d] \notin {"minted", "mintable"}
    BY DEF IInv, TypeOK, LedgersTypeOK, Statuses
  <2> QED
    BY <1>1, <2>1 DEF stageOf
<1>3. stageOf' = [stageOf EXCEPT ![d] = to]
  BY <1>2 DEF stageOf, IInv, TypeOK, LedgersTypeOK
<1> QED
  BY <1>1, <1>3 DEF Bridged!Move

LEMMA EthereumRefines ==
    ASSUME IInv, ~DeterministicFunding, Ethereum
    PROVE  [Bridged!Next]_stageOf
<1>1. UNCHANGED <<vaults, minted>>
  BY DEF Ethereum, xecVars
<1>2. ASSUME NEW d \in Deposits, Lock(d) PROVE [Bridged!Next]_stageOf
  <2>1. Bridged!Lock(d)
    BY <1>1, <1>2, StatusMoves DEF Lock, Bridged!Lock
  <2> QED
    BY <2>1 DEF Bridged!Next
<1>3. ASSUME NEW d \in Deposits, Refund(d) PROVE [Bridged!Next]_stageOf
  <2>1. Bridged!Refund(d)
    BY <1>1, <1>3, StatusMoves DEF Refund, Bridged!Refund
  <2> QED
    BY <2>1 DEF Bridged!Next
<1>4. ASSUME NEW d \in Deposits, NEW o, ConfirmSucceeds(d, o), Confirm(d, o), UNCHANGED published
      PROVE  [Bridged!Next]_stageOf
  <2>1. Bridged!Confirm(d)
    BY <1>1, <1>4, StatusMoves DEF ConfirmSucceeds, Confirm, Bridged!Confirm
  <2> QED
    BY <2>1 DEF Bridged!Next
<1>5. ASSUME NEW n \in Nonces, MineConfirmation(n) PROVE [Bridged!Next]_stageOf
  <2>1. txs[n].dep \in Deposits
    BY <1>5 DEF MineConfirmation, IInv, TypeOK, LedgersTypeOK, Txs
  <2>2. CASE ConfirmSucceeds(txs[n].dep, txs[n].utxo) /\ Confirm(txs[n].dep, txs[n].utxo)
    BY <1>4, <1>5, <2>1, <2>2 DEF MineConfirmation
  <2>3. CASE UNCHANGED status
    BY <1>1, <1>5, <2>3, StageStutters DEF MineConfirmation, stageVars
  <2> QED
    BY <1>5, <2>2, <2>3 DEF MineConfirmation
<1>6. ASSUME NEW a \in published, ConfirmByAnyone(a[1], a[2]) PROVE [Bridged!Next]_stageOf
  <2>1. a[1] \in Deposits
    BY DEF IInv, TypeOK, LedgersTypeOK
  <2> QED
    BY <1>4, <1>6, <2>1 DEF ConfirmByAnyone
<1>7. ASSUME EmptyBlock \/ \E d \in Deposits : RequestRefund(d) \/ CancelRefundRequest(d)
      PROVE  [Bridged!Next]_stageOf
  BY <1>1, <1>7, StageStutters DEF EmptyBlock, RequestRefund, CancelRefundRequest, contractVars, stageVars
<1> QED
  BY <1>2, <1>3, <1>5, <1>6, <1>7 DEF Ethereum

\* A mint of a deposit that has none, from the vault output its signature names.
LEMMA MintRefines ==
    ASSUME IInv, NEW d \in Deposits, NEW o, Mint(d, o), UNCHANGED <<status, published>>
    PROVE  Bridged!Mint(d)
<1>1. <<d, o>> \in published /\ o \in vaults /\ records[d].utxo = o
  BY StageFacts DEF Mint, Mintable
<1>2. ~ \E m \in minted : m[1] = d
  BY <1>1, StageFacts DEF Mint, Mintable
<1>3. minted' = minted \cup {<<d, o>>} /\ UNCHANGED vaults
  BY DEF Mint
<1>4. stageOf[d] = "mintable"
  BY <1>1, <1>2 DEF stageOf
<1>5. stageOf' = [stageOf EXCEPT ![d] = "minted"]
  <2>1. \A e \in Deposits \ {d} : (\E m \in minted' : m[1] = e) <=> (\E m \in minted : m[1] = e)
    BY <1>3
  <2>2. \E m \in minted' : m[1] = d
    <3>1. <<d, o>> \in minted' /\ <<d, o>>[1] = d
      BY <1>3
    <3> QED
      BY <3>1
  <2>3. \A e \in Deposits \ {d} : stageOf'[e] = stageOf[e]
    BY <1>3, <2>1 DEF stageOf
  <2>4. stageOf'[d] = "minted"
    BY <2>2 DEF stageOf
  <2> QED
    BY <2>3, <2>4, StageUpdate
<1> QED
  BY <1>4, <1>5 DEF Bridged!Mint, Bridged!Move

\* The broadcast makes the deposit of the record mintable, and no other.
LEMMA FundRefines ==
    ASSUME IInv, ~DeterministicFunding, NEW d \in Deposits, records[d].state = "CONFIRMED_FINAL",
           vaults' = vaults \cup {records[d].utxo}, records[d].utxo \notin vaults,
           UNCHANGED <<status, published, minted>>
    PROVE  Bridged!Fund(d)
<1> DEFINE o == records[d].utxo
<1>1. o \in Outpoints /\ status[d] = "confirmed" /\ consumedBy[o] = d
  BY FinalEvidence
<1>2. <<d, o>> \in published
  BY <1>1, LedgersAssumption DEF IInv, ContractInv
<1>3. ~ \E m \in minted : m[1] = d
  BY StageFacts
<1>4. ~ \E p \in vaults : <<d, p>> \in published
  BY StageFacts
<1>5. \A e \in Deposits \ {d} : <<e, o>> \notin published
  BY <1>1, StageFacts, OneOwner
<1> HIDE DEF o
<1>6. vaults' = vaults \cup {o}
  BY DEF o
<1>7. stageOf[d] = "confirmed"
  BY <1>1, <1>3, <1>4 DEF stageOf
<1>8. stageOf' = [stageOf EXCEPT ![d] = "mintable"]
  <2>1. \A e \in Deposits : stageOf'[e] = IF e = d THEN "mintable" ELSE stageOf[e]
    BY <1>2, <1>3, <1>5, <1>6 DEF stageOf
  <2> QED
    BY <2>1, StageUpdate
<1> QED
  BY <1>7, <1>8 DEF Bridged!Fund, Bridged!Move

\* A confirmation the node takes publishes nothing that is mintable already.
LEMMA PublishRefines ==
    ASSUME IInv, ~DeterministicFunding, NEW d \in Deposits, records[d].utxo \in Outpoints,
           published' = published \cup {<<d, records[d].utxo>>},
           UNCHANGED <<status, vaults, minted>>
    PROVE  UNCHANGED stageOf
<1> DEFINE o == records[d].utxo
<1>1. o \in vaults => <<d, o>> \in published
  <2> SUFFICES ASSUME o \in vaults PROVE <<d, o>> \in published
    OBVIOUS
  <2>1. consumedBy[o] # None
    BY DEF IInv, Quarantine
  <2>2. consumedBy[o] = d
    BY <2>1, ConsumedIsRecorded, OneOwner
  <2> QED
    BY <2>1, <2>2 DEF IInv, ContractInv
<1> HIDE DEF o
<1>2. published' = published \cup {<<d, o>>}
  BY DEF o
<1> QED
  BY <1>1, <1>2 DEF stageOf
-----------------------------------------------------------------------------
(* The steps of the service *)

LEMMA ScanRefines == ASSUME Scan PROVE UNCHANGED stageOf
<1>1. UNCHANGED ledgerVars
  BY DEF Scan, ScanStart, ApplyLocked, ApplyRefundSignal, ApplyRefunded, ApplyConfirmed, ScanAbandon, ScanEnd
<1> QED
  BY <1>1, StageStutters DEF ledgerVars, ethVars, xecVars, contractVars, stageVars

\* The steps of a handler that touch no ledger.
LocalAdvance(d) ==
    \/ AdvanceObserved(d) \/ DepthMetWaits(d) \/ ReserveCoin(d) \/ PrepareFunding(d)
    \/ AdvanceFundingPrepared(d) \/ ReserveNonce(d) \/ RecordNonce(d)
    \/ ReadDeposit(d) \/ Abandon(d) \/ ResolveUnsent(d) \/ ResolvePending(d) \/ ResolveMined(d)
    \/ SkipMint(d) \/ PersistOutcome(d)

LEMMA LocalRefines == ASSUME NEW d \in Deposits, LocalAdvance(d) PROVE UNCHANGED stageOf
<1>1. UNCHANGED ledgerVars
  BY DEF LocalAdvance, AdvanceObserved, DepthMetWaits, ReserveCoin, PrepareFunding, AdvanceFundingPrepared,
         ReserveNonce, RecordNonce, ReadDeposit, Abandon, ResolveUnsent, ResolvePending, ResolveMined,
         SkipMint, PersistOutcome
<1> QED
  BY <1>1, StageStutters DEF ledgerVars, ethVars, xecVars, contractVars, stageVars

LEMMA SendRefines ==
    ASSUME IInv, ~DeterministicFunding, NEW d \in Deposits, SendConfirmation(d) \/ ResendConfirmation(d)
    PROVE  UNCHANGED stageOf
<1>1. UNCHANGED xecVars
  BY DEF SendConfirmation, ResendConfirmation
<1>2. CASE UNCHANGED ethVars
  BY <1>1, <1>2, StageStutters DEF ethVars, xecVars, contractVars, stageVars
<1>3. CASE AcceptConfirmation(records[d].nonce, d, records[d].utxo)
  <2>1. records[d].state \in {"AUTHORIZED", "CONFIRM_SENT"}
    <3>1. At("AUTHORIZED", "send", d) \/ At("CONFIRM_SENT", "resend", d)
      BY DEF SendConfirmation, ResendConfirmation
    <3> QED
      BY <3>1, HeldRecord
  <2>2. records[d].utxo \in Outpoints
    BY <2>1, SignedRecord, RecordFields DEF IInv, TypeOK, ServiceTypeOK
  <2> QED
    BY <1>1, <1>3, <2>2, PublishRefines DEF AcceptConfirmation, contractVars, xecVars
<1> QED
  BY <1>2, <1>3 DEF SendConfirmation, ResendConfirmation

LEMMA BroadcastRefines ==
    ASSUME IInv, ~DeterministicFunding, NEW l \in {"drain", "CONFIRMED_FINAL"}, NEW d \in Deposits,
           AdvanceConfirmedFinal(l, d)
    PROVE  [Bridged!Next]_stageOf
<1>1. records[d].state = "CONFIRMED_FINAL"
  BY DEF AdvanceConfirmedFinal, Take, IInv, TickInv, LoopState
<1>2. records[d].utxo # None
  BY <1>1, SignedRecord DEF IInv
<1>3. vaults' = vaults \cup {records[d].utxo} /\ UNCHANGED <<status, published, minted>>
  BY <1>2 DEF AdvanceConfirmedFinal, AcceptFunding, ethVars, contractVars
<1>4. CASE records[d].utxo \in vaults
  BY <1>3, <1>4, StageStutters DEF stageVars
<1>5. CASE records[d].utxo \notin vaults
  BY <1>1, <1>3, <1>5, FundRefines DEF Bridged!Next
<1> QED
  BY <1>4, <1>5

LEMMA NextRefines ==
    ASSUME IInv, ~DeterministicFunding, [Next]_vars
    PROVE  [Bridged!Next]_stageOf
<1>1. ASSUME NEW d \in Deposits, Advance(d) PROVE [Bridged!Next]_stageOf
  <2>1. CASE LocalAdvance(d)
    BY <2>1, LocalRefines
  <2>2. CASE SendConfirmation(d) \/ ResendConfirmation(d)
    BY <2>2, SendRefines
  <2>3. CASE AdvanceConfirmedFinal("drain", d) \/ AdvanceConfirmedFinal("CONFIRMED_FINAL", d)
    BY <2>3, BroadcastRefines
  <2>4. CASE ConvenienceMint(d)
    <3>1. Bridged!Mint(d)
      BY <2>4, MintRefines DEF ConvenienceMint, ethVars, contractVars
    <3> QED
      BY <3>1 DEF Bridged!Next
  <2> QED
    BY <1>1, <2>1, <2>2, <2>3, <2>4 DEF Advance, LocalAdvance
<1>2. CASE Minting
  <2>1. PICK a \in published : Mint(a[1], a[2])
    BY <1>2 DEF Minting
  <2>2. a[1] \in Deposits /\ UNCHANGED <<status, published>>
    BY <1>2 DEF IInv, TypeOK, LedgersTypeOK, Minting, ethVars, contractVars
  <2> QED
    BY <2>1, <2>2, MintRefines DEF Bridged!Next
<1>3. ASSUME UNCHANGED ledgerVars PROVE UNCHANGED stageOf
  BY <1>3, StageStutters DEF ledgerVars, ethVars, xecVars, contractVars, stageVars
<1>4. CASE TickStart \/ NextLoop \/ Crash \/ (\E d \in Deposits : BuildFails(d)) \/ UNCHANGED vars
  BY <1>3, <1>4 DEF TickStart, NextLoop, Crash, BuildFails, vars
<1>5. CASE Eviction
  <2>1. UNCHANGED stageVars
    BY <1>5 DEF Eviction, EvictConfirmation, contractVars, xecVars, stageVars
  <2> QED
    BY <2>1, StageStutters
<1> QED
  BY <1>1, <1>2, <1>4, <1>5, EthereumRefines, ScanRefines DEF Next, Tick

LEMMA InitRefines == Init => Bridged!Init
BY DEF Init, LedgersInit, stageOf, Bridged!Init

\* Whatever the service, its crashes, its users and the two ledgers do, every deposit is
\* refunded, or confirmed and minted at most once, and never both.
THEOREM Refinement == ASSUME ~DeterministicFunding PROVE Spec => ImplementsBridge
<1>1. IInv /\ [Next]_vars => [Bridged!Next]_stageOf
  BY NextRefines
<1> QED
  BY InitRefines, <1>1, Invariance, PTL DEF Spec, ImplementsBridge, Bridged!Spec
=============================================================================
