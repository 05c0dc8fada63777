--------------------------- MODULE DepositPipeline ---------------------------
(***************************************************************************)
(* The authorizer's deposit pipeline (packages/authorizer/src/deposit/     *)
(* pipeline.ts, states.ts) running against the two ledgers.                *)
(*                                                                         *)
(* One process runs ticks one after the other.  Between any two of its     *)
(* durable effects and reads of a ledger the ledgers move, and it may      *)
(* crash: the store survives, everything else is lost.  An exception that  *)
(* a step throws leaves tick() through every loop, so it loses the same.   *)
(*                                                                         *)
(* Left out, because nothing reads them back: confirmTxHash, confirmedAt-  *)
(* Block, confirmAttempts.  Fees are the environment's: a price may be     *)
(* above the ceiling at any time.                                          *)
(***************************************************************************)
EXTENDS Ledgers

CONSTANTS
    ConfirmationDepth,   \* config.confirmationDepth
    FinalityDepth,       \* config.finalityDepth
    BumpAfter,           \* config.confirmBumpAfterBlocks
    ConvenienceMinting,  \* config.convenienceMinting
    Unconvertible,       \* deposits whose amount converts to zero XEC units
    MaxFaults            \* bound: crashes and failed calls in a behaviour

ASSUME PipelineAssumption ==
    /\ ConfirmationDepth \in Nat
    /\ FinalityDepth \in Nat
    /\ BumpAfter \in Nat
    /\ ConvenienceMinting \in BOOLEAN
    /\ Unconvertible \subseteq Deposits
    /\ MaxFaults \in Nat

VARIABLES
    records,    \* the store: deposit -> its record
    coinOf,     \* the store: deposit -> the coin reserved for it
    cursor,     \* the store: the scan cursor
    nextNonce,  \* EthereumWriter: the next nonce it will hand out
    loop,       \* which loop of tick() runs
    step,       \* where in the handler of that loop: "next" between records
    todo,       \* the records the loop still has to process
    at,         \* the deposit whose record is being processed
    head,       \* tick()'s head; scan()'s too
    pos,        \* scan: the last block whose event was applied
    seen,       \* advanceConfirmSent: the status it read
    faults      \* failures so far, bounded by MaxFaults

storeVars   == <<records, coinOf, cursor>>
tickVars    == <<loop, step, todo, at, head, pos, seen>>
serviceVars == <<storeVars, nextNonce, tickVars, faults>>
vars        == <<ledgerVars, serviceVars>>

States ==
    {"OBSERVED", "DEPTH_MET", "FUNDING_PREPARED", "AUTHORIZED", "CONFIRM_SENT",
     "CONFIRMED_FINAL", "FUNDING_BROADCAST", "MINTED", "ABANDONED_REFUNDED", "HALTED"}

\* "NONE" is the state of a deposit the store has no record of.
Records == [state : States \cup {"NONE"}, lockedAt : Nat, refundRequested : BOOLEAN,
            utxo : Outpoints \cup {None}, nonce : Nonces \cup {None}, sentAt : Nat]

NoRecord == [state |-> "NONE", lockedAt |-> 0, refundRequested |-> FALSE,
             utxo |-> None, nonce |-> None, sentAt |-> 0]

Successors ==
    [s \in States |->
        CASE s = "OBSERVED"          -> {"DEPTH_MET", "ABANDONED_REFUNDED"}
          [] s = "DEPTH_MET"         -> {"FUNDING_PREPARED", "OBSERVED", "ABANDONED_REFUNDED"}
          [] s = "FUNDING_PREPARED"  -> {"AUTHORIZED", "OBSERVED", "ABANDONED_REFUNDED"}
          [] s = "AUTHORIZED"        -> {"CONFIRM_SENT", "ABANDONED_REFUNDED"}
          [] s = "CONFIRM_SENT"      -> {"CONFIRMED_FINAL", "AUTHORIZED", "ABANDONED_REFUNDED"}
          [] s = "CONFIRMED_FINAL"   -> {"FUNDING_BROADCAST"}
          [] s = "FUNDING_BROADCAST" -> {"MINTED"}
          [] OTHER                   -> {}]

Rewindable == {"DEPTH_MET", "FUNDING_PREPARED", "CONFIRM_SENT"}

VaultUtxoMayExist(s) == s \in {"FUNDING_BROADCAST", "MINTED"}
RefundForeclosed(s)  == s = "CONFIRMED_FINAL" \/ VaultUtxoMayExist(s)

CanTransition(from, to) ==
    CASE to = "HALTED"   -> from # "HALTED"
      [] to = "OBSERVED" -> from \in Rewindable
      [] OTHER           -> to \in Successors[from]

\* A transition assertTransition() does not throw on.
Legal(from, to) ==
    /\ CanTransition(from, to)
    /\ VaultUtxoMayExist(to) /\ ~VaultUtxoMayExist(from) => from = "CONFIRMED_FINAL"

FreeUntilSigned ==   \* faulty: a reservation is forgotten once the deposit is authorized
    {c \in Coins : \A d \in Deposits : coinOf[d] = c => records[d].state \notin {"DEPTH_MET", "FUNDING_PREPARED"}}
FreeCoins == {c \in Coins : \A d \in Deposits : coinOf[d] # c}
InState(s) == {d \in Deposits : records[d].state = s}

\* The order in which tick() runs its loops.
LoopAfter == [l \in {"drain", "scan"} \cup States |->
    CASE l = "drain"            -> "scan"
      [] l = "scan"             -> "OBSERVED"
      [] l = "OBSERVED"         -> "DEPTH_MET"
      [] l = "DEPTH_MET"        -> "FUNDING_PREPARED"
      [] l = "FUNDING_PREPARED" -> "AUTHORIZED"
      [] l = "AUTHORIZED"       -> "CONFIRM_SENT"
      [] l = "CONFIRM_SENT"     -> "CONFIRMED_FINAL"
      [] l = "CONFIRMED_FINAL"  -> "FUNDING_BROADCAST"
      [] OTHER                  -> "idle"]

Loops == {"idle", "drain", "scan", "OBSERVED", "DEPTH_MET", "FUNDING_PREPARED",
          "AUTHORIZED", "CONFIRM_SENT", "CONFIRMED_FINAL", "FUNDING_BROADCAST"}
Steps == {"next", "apply", "build", "price", "send", "persist", "resolve", "abandon", "resend"}

ServiceTypeOK ==
    /\ records \in [Deposits -> Records]
    /\ coinOf \in [Deposits -> Coins \cup {None}]
    /\ cursor \in Nat
    /\ nextNonce \in Nat
    /\ loop \in Loops
    /\ step \in Steps
    /\ todo \subseteq Deposits
    /\ at \in Deposits \cup {None}
    /\ head \in Nat
    /\ pos \in Nat
    /\ seen \in Statuses
    /\ faults \in Nat

TypeOK == LedgersTypeOK /\ ServiceTypeOK

Init ==
    /\ LedgersInit
    /\ records = [d \in Deposits |-> NoRecord]
    /\ coinOf = [d \in Deposits |-> None]
    /\ cursor = 0
    /\ nextNonce = 0
    /\ loop = "idle" /\ step = "next" /\ todo = {} /\ at = None
    /\ head = 0 /\ pos = 0 /\ seen = "unknown"
    /\ faults = 0

-----------------------------------------------------------------------------
(* The shape of a tick *)

\* What an exception, a crash or the end of the last loop leaves of a tick.
Abort ==
    /\ loop' = "idle" /\ step' = "next" /\ todo' = {} /\ at' = None
    /\ head' = 0 /\ pos' = 0 /\ seen' = "unknown"

\* Start processing the record of d in loop l; end the processing of a record.
Take(l, d) == loop = l /\ step = "next" /\ d \in todo
Goto(s, d) == step' = s /\ at' = d /\ todo' = todo \ {d} /\ UNCHANGED <<loop, head, pos, seen>>
Done(d) ==
    /\ step' = "next" /\ at' = None /\ todo' = todo \ {d} /\ seen' = "unknown"
    /\ UNCHANGED <<loop, head, pos>>
At(l, s, d) == loop = l /\ step = s /\ at = d

Fault == faults < MaxFaults /\ faults' = faults + 1

Save(d, r) == records' = [records EXCEPT ![d] = r]
Transition(d, to) ==
    /\ Legal(records[d].state, to)
    /\ Save(d, [records[d] EXCEPT !.state = to])

ReleaseCoin(d) == coinOf' = [coinOf EXCEPT ![d] = None]

\* Faulty: no drain before the scan.
TickStartsWithScan ==
    /\ loop = "idle"
    /\ loop' = "scan" /\ todo' = {}
    /\ UNCHANGED <<ledgerVars, storeVars, nextNonce, step, at, head, pos, seen, faults>>

TickStart ==
    /\ loop = "idle"
    /\ loop' = "drain" /\ todo' = InState("CONFIRMED_FINAL")
    /\ UNCHANGED <<ledgerVars, storeVars, nextNonce, step, at, head, pos, seen, faults>>

\* The last loop ends the tick; findDepositsByState() lists each later loop's records.
NextLoop ==
    /\ loop \notin {"idle", "scan"} /\ step = "next" /\ todo = {}
    /\ \/ /\ LoopAfter[loop] = "idle"
          /\ Abort
       \/ /\ LoopAfter[loop] # "idle"
          /\ loop' = LoopAfter[loop]
          /\ todo' = IF loop' = "scan" THEN {} ELSE InState(loop')
          /\ UNCHANGED <<step, at, head, pos, seen>>
    /\ UNCHANGED <<ledgerVars, storeVars, nextNonce, faults>>

Crash ==
    /\ loop # "idle"
    /\ Fault
    /\ Abort
    /\ UNCHANGED <<ledgerVars, storeVars, nextNonce>>

-----------------------------------------------------------------------------
(* scan() and applyEvent() *)

\* One getBlockNumber() and one getLogs() answer the whole scan.
ScanStart ==
    /\ loop = "scan" /\ step = "next"
    /\ head' = IF height <= cursor THEN cursor ELSE height
    /\ pos' = cursor
    /\ step' = "apply"
    /\ UNCHANGED <<ledgerVars, storeVars, nextNonce, loop, todo, at, seen, faults>>

Unapplied == {e \in log : pos < e.block /\ e.block <= head}

Applying(e) ==
    /\ loop = "scan" /\ step = "apply"
    /\ e \in Unapplied
    /\ \A f \in Unapplied : e.block <= f.block

ApplyLocked(e) ==
    /\ Applying(e) /\ e.type = "DepositLocked"
    /\ \/ records[e.dep].state # "NONE" /\ UNCHANGED records
       \/ /\ records[e.dep].state = "NONE"
          /\ Save(e.dep, [NoRecord EXCEPT !.state = "OBSERVED", !.lockedAt = e.block])
    /\ pos' = e.block
    /\ UNCHANGED <<ledgerVars, coinOf, cursor, nextNonce, loop, step, todo, at, head, seen, faults>>

ApplyRefundSignal(e) ==
    /\ Applying(e) /\ e.type \in {"RefundRequested", "RefundRequestCancelled"}
    /\ LET r == records[e.dep] IN
       \/ (r.state = "NONE" \/ RefundForeclosed(r.state)) /\ UNCHANGED records
       \/ /\ r.state # "NONE" /\ ~RefundForeclosed(r.state)
          /\ Save(e.dep, [r EXCEPT !.refundRequested = e.type = "RefundRequested"])
    /\ pos' = e.block
    /\ UNCHANGED <<ledgerVars, coinOf, cursor, nextNonce, loop, step, todo, at, head, seen, faults>>

\* DepositLocked precedes it in the log, so the deposit has a record.
ApplyRefunded(e) ==
    /\ Applying(e) /\ e.type = "DepositRefunded"
    /\ pos' = e.block
    /\ IF RefundForeclosed(records[e.dep].state)
         THEN Transition(e.dep, "HALTED") /\ UNCHANGED <<coinOf, step, at>>
         ELSE ReleaseCoin(e.dep) /\ step' = "abandon" /\ at' = e.dep /\ UNCHANGED records
    /\ UNCHANGED <<ledgerVars, cursor, nextNonce, loop, todo, head, seen, faults>>

\* Only confirmedAtBlock changes, which nothing reads.
ApplyConfirmed(e) ==
    /\ Applying(e) /\ e.type = "DepositConfirmed"
    /\ pos' = e.block
    /\ UNCHANGED <<ledgerVars, storeVars, nextNonce, loop, step, todo, at, head, seen, faults>>

\* The coin is released; now the transition, which assertTransition() may refuse.
ScanAbandon(d) ==
    /\ At("scan", "abandon", d)
    /\ \/ /\ Transition(d, "ABANDONED_REFUNDED")
          /\ step' = "apply" /\ at' = None
          /\ UNCHANGED <<loop, todo, head, pos, seen>>
       \/ /\ ~Legal(records[d].state, "ABANDONED_REFUNDED")
          /\ Abort
          /\ UNCHANGED records
    /\ UNCHANGED <<ledgerVars, coinOf, cursor, nextNonce, faults>>

ScanEnd ==
    /\ loop = "scan" /\ step = "apply"
    /\ Unapplied = {}
    /\ cursor' = head
    /\ loop' = "OBSERVED" /\ step' = "next" /\ todo' = InState("OBSERVED")
    /\ UNCHANGED <<ledgerVars, records, coinOf, nextNonce, at, head, pos, seen, faults>>

-----------------------------------------------------------------------------
(* The step functions.  A failed call without effect is a Crash. *)

DepthExceeded(d) == head - records[d].lockedAt > ConfirmationDepth   \* faulty
DepthMet(d) == head - records[d].lockedAt >= ConfirmationDepth

AdvanceObserved(d) ==
    /\ Take("OBSERVED", d)
    /\ IF ~records[d].refundRequested /\ DepthMet(d)
         THEN Transition(d, "DEPTH_MET")
         ELSE UNCHANGED records
    /\ Done(d)
    /\ UNCHANGED <<ledgerVars, coinOf, cursor, nextNonce, faults>>

DepthMetWaits(d) ==
    /\ Take("DEPTH_MET", d)
    /\ records[d].refundRequested \/ (coinOf[d] = None /\ FreeCoins = {})
    /\ Done(d)
    /\ UNCHANGED <<ledgerVars, storeVars, nextNonce, faults>>

\* reserveCoin() returns the coin already reserved when there is one.
ReserveCoin(d) ==
    /\ Take("DEPTH_MET", d)
    /\ ~records[d].refundRequested
    /\ \E c \in IF coinOf[d] # None THEN {coinOf[d]} ELSE FreeCoins :
          coinOf' = [coinOf EXCEPT ![d] = c]
    /\ Goto("build", d)
    /\ UNCHANGED <<ledgerVars, records, cursor, nextNonce, faults>>

PrepareFunding(d) ==
    /\ At("DEPTH_MET", "build", d)
    /\ Legal(records[d].state, "FUNDING_PREPARED")
    /\ Save(d, [records[d] EXCEPT !.state = "FUNDING_PREPARED",
                                  !.utxo = FundingOutpoint(coinOf[d], d)])
    /\ Done(d)
    /\ UNCHANGED <<ledgerVars, coinOf, cursor, nextNonce, faults>>

BuildFails(d) ==
    /\ At("DEPTH_MET", "build", d)
    /\ Fault
    /\ ReleaseCoin(d)
    /\ Abort
    /\ UNCHANGED <<ledgerVars, records, cursor, nextNonce>>

AdvanceFundingPrepared(d) ==
    /\ Take("FUNDING_PREPARED", d)
    /\ \/ /\ records[d].refundRequested
          /\ Done(d) /\ UNCHANGED records
       \/ /\ ~records[d].refundRequested /\ d \notin Unconvertible
          /\ Transition(d, "AUTHORIZED") /\ Done(d)
       \/ /\ ~records[d].refundRequested /\ d \in Unconvertible
          /\ Abort /\ UNCHANGED records
    /\ UNCHANGED <<ledgerVars, coinOf, cursor, nextNonce, faults>>

NonceAhead(d) == IF records[d].nonce # None THEN records[d].nonce ELSE nextNonce   \* faulty

\* The nonce a confirmation of d goes out at: the recorded one, or the one just reserved.
NonceOf(d) == IF records[d].nonce # None THEN records[d].nonce ELSE nextNonce - 1

\* Faulty: every attempt takes a nonce of its own.
ReserveFreshNonce(d) ==
    /\ Take("AUTHORIZED", d)
    /\ nextNonce \in Nonces
    /\ nextNonce' = nextNonce + 1
    /\ Save(d, [records[d] EXCEPT !.nonce = nextNonce])
    /\ Goto("price", d)
    /\ UNCHANGED <<ledgerVars, coinOf, cursor, faults>>

ReserveNonce(d) ==
    /\ Take("AUTHORIZED", d)
    /\ \/ records[d].nonce # None /\ UNCHANGED nextNonce
       \/ /\ records[d].nonce = None
          /\ nextNonce \in Nonces
          /\ nextNonce' = nextNonce + 1
    /\ Goto("price", d)
    /\ UNCHANGED <<ledgerVars, storeVars, faults>>

\* Above the ceiling initialConfirmGas() throws: a Crash, before the nonce is recorded.
RecordNonce(d) ==
    /\ At("AUTHORIZED", "price", d)
    /\ Save(d, [records[d] EXCEPT !.nonce = NonceOf(d), !.sentAt = head])
    /\ step' = "send"
    /\ UNCHANGED <<ledgerVars, coinOf, cursor, nextNonce, loop, todo, at, head, pos, seen, faults>>

SendConfirmation(d) ==
    /\ At("AUTHORIZED", "send", d)
    /\ \/ /\ AcceptConfirmation(records[d].nonce, d, records[d].utxo)
          /\ step' = "persist"
          /\ UNCHANGED <<loop, todo, at, head, pos, seen>>
       \/ /\ NonceMined(records[d].nonce)
          /\ Abort
          /\ UNCHANGED ethVars
    /\ UNCHANGED <<xecVars, storeVars, nextNonce, faults>>

ReadDeposit(d) ==
    /\ Take("CONFIRM_SENT", d)
    /\ seen' = status[d]
    /\ \/ /\ status[d] = "refunded"
          /\ ReleaseCoin(d) /\ step' = "abandon"
       \/ /\ status[d] # "refunded"
          /\ step' = "resolve" /\ UNCHANGED coinOf
    /\ at' = d /\ todo' = todo \ {d}
    /\ UNCHANGED <<ledgerVars, records, cursor, nextNonce, loop, head, pos, faults>>

Abandon(d) ==
    /\ At("CONFIRM_SENT", "abandon", d)
    /\ Transition(d, "ABANDONED_REFUNDED")
    /\ Done(d)
    /\ UNCHANGED <<ledgerVars, coinOf, cursor, nextNonce, faults>>

\* getTransactionByNonce() answers, and the rest of advanceConfirmSent follows.
ResolveUnsent(d) ==
    /\ At("CONFIRM_SENT", "resolve", d)
    /\ txs[records[d].nonce] = None
    /\ Transition(d, "AUTHORIZED")
    /\ Done(d)
    /\ UNCHANGED <<ledgerVars, coinOf, cursor, nextNonce, faults>>

ResolvePending(d) ==
    /\ At("CONFIRM_SENT", "resolve", d)
    /\ txs[records[d].nonce] # None /\ ~NonceMined(records[d].nonce)
    /\ LET due == head - records[d].sentAt >= BumpAfter IN
       \/ /\ ~due
          /\ Done(d) /\ UNCHANGED <<records, faults>>
       \/ /\ due /\ Save(d, [records[d] EXCEPT !.sentAt = head])
          /\ step' = "resend"
          /\ UNCHANGED <<loop, todo, at, head, pos, seen, faults>>
       \/ /\ due /\ Fault                       \* GasCeilingError
          /\ Transition(d, "HALTED") /\ Done(d)
    /\ UNCHANGED <<ledgerVars, coinOf, cursor, nextNonce>>

ResendConfirmation(d) ==
    /\ At("CONFIRM_SENT", "resend", d)
    /\ \/ /\ AcceptConfirmation(records[d].nonce, d, records[d].utxo)
          /\ Done(d)
       \/ /\ NonceMined(records[d].nonce)
          /\ Abort
          /\ UNCHANGED ethVars
    /\ UNCHANGED <<xecVars, storeVars, nextNonce, faults>>

FinalEarly(d) == head - txs[records[d].nonce].mined + 1 >= FinalityDepth   \* faulty
FinalLate(d)  == head - txs[records[d].nonce].mined > FinalityDepth        \* faulty
Final(d)      == head - txs[records[d].nonce].mined >= FinalityDepth

\* Faulty: that the transaction is mined and deep is taken for the confirmation.
ResolveByDepth(d) ==
    /\ At("CONFIRM_SENT", "resolve", d)
    /\ NonceMined(records[d].nonce)
    /\ IF Final(d) THEN Transition(d, "CONFIRMED_FINAL") ELSE UNCHANGED records
    /\ Done(d)
    /\ UNCHANGED <<ledgerVars, coinOf, cursor, nextNonce, faults>>

ResolveMined(d) ==
    /\ At("CONFIRM_SENT", "resolve", d)
    /\ NonceMined(records[d].nonce)
    /\ \/ seen # "confirmed" /\ Transition(d, "HALTED")
       \/ seen = "confirmed" /\ ~Final(d) /\ UNCHANGED records
       \/ seen = "confirmed" /\ Final(d) /\ Transition(d, "CONFIRMED_FINAL")
    /\ Done(d)
    /\ UNCHANGED <<ledgerVars, coinOf, cursor, nextNonce, faults>>

\* Faulty: the record moves on before the broadcast that may fail.
RecordThenBroadcast(l, d) ==
    /\ Take(l, d)
    /\ Transition(d, "FUNDING_BROADCAST")
    /\ \/ AcceptFunding(records[d].utxo) /\ Done(d) /\ UNCHANGED faults
       \/ Fault /\ Abort /\ UNCHANGED xecVars
    /\ UNCHANGED <<ethVars, coinOf, cursor, nextNonce>>

\* The drain before the scan and the loop after it run the same function.
AdvanceConfirmedFinal(l, d) ==
    /\ Take(l, d)
    /\ IF records[d].utxo = None
         THEN Transition(d, "HALTED") /\ Done(d) /\ UNCHANGED xecVars
         ELSE AcceptFunding(records[d].utxo) /\ Goto("persist", d) /\ UNCHANGED records
    /\ UNCHANGED <<ethVars, coinOf, cursor, nextNonce, faults>>

\* A mint that fails is logged and forgotten.
SkipMint(d) ==
    /\ Take("FUNDING_BROADCAST", d)
    /\ Done(d)
    /\ UNCHANGED <<ledgerVars, storeVars, nextNonce, faults>>

ConvenienceMint(d) ==
    /\ ConvenienceMinting
    /\ Take("FUNDING_BROADCAST", d)
    /\ Mint(d, records[d].utxo)
    /\ Goto("persist", d)
    /\ UNCHANGED <<ethVars, storeVars, nextNonce, faults>>

\* The call had its effect; the transition records it.
PersistOutcome(d) ==
    /\ step = "persist" /\ at = d
    /\ Transition(d, CASE loop = "AUTHORIZED"        -> "CONFIRM_SENT"
                       [] loop = "FUNDING_BROADCAST" -> "MINTED"
                       [] OTHER                      -> "FUNDING_BROADCAST")
    /\ Done(d)
    /\ UNCHANGED <<ledgerVars, coinOf, cursor, nextNonce, faults>>

-----------------------------------------------------------------------------

Ethereum ==
    /\ \/ \E d \in Deposits : Lock(d) \/ RequestRefund(d) \/ CancelRefundRequest(d) \/ Refund(d)
       \/ \E n \in Nonces : MineConfirmation(n)
       \/ \E a \in published : ConfirmByAnyone(a[1], a[2])
       \/ EmptyBlock
    /\ UNCHANGED <<xecVars, serviceVars>>

Eviction ==
    /\ Fault
    /\ \E n \in Nonces : EvictConfirmation(n)
    /\ UNCHANGED <<xecVars, storeVars, nextNonce, tickVars>>

Minting ==
    /\ \E a \in published : Mint(a[1], a[2])
    /\ UNCHANGED <<ethVars, serviceVars>>

Scan ==
    \/ ScanStart
    \/ \E e \in log : ApplyLocked(e) \/ ApplyRefundSignal(e) \/ ApplyRefunded(e) \/ ApplyConfirmed(e)
    \/ \E d \in Deposits : ScanAbandon(d)
    \/ ScanEnd

Advance(d) ==
    \/ AdvanceObserved(d)
    \/ DepthMetWaits(d) \/ ReserveCoin(d) \/ PrepareFunding(d)
    \/ AdvanceFundingPrepared(d)
    \/ ReserveNonce(d) \/ RecordNonce(d) \/ SendConfirmation(d)
    \/ ReadDeposit(d) \/ Abandon(d) \/ ResolveUnsent(d) \/ ResolvePending(d)
    \/ ResendConfirmation(d) \/ ResolveMined(d)
    \/ AdvanceConfirmedFinal("drain", d) \/ AdvanceConfirmedFinal("CONFIRMED_FINAL", d)
    \/ SkipMint(d) \/ ConvenienceMint(d)
    \/ PersistOutcome(d)

Tick == TickStart \/ NextLoop \/ Scan \/ \E d \in Deposits : Advance(d)

Next ==
    \/ Tick
    \/ Crash \/ \E d \in Deposits : BuildFails(d)
    \/ Ethereum \/ Eviction \/ Minting

Spec == Init /\ [][Next]_vars

-----------------------------------------------------------------------------
(* Safety *)

\* SPEC.md III.7: a vault output exists only when a confirmation naming it is on
\* Ethereum, so no authorization is usable before refund() is foreclosed.
Quarantine ==
    \A o \in vaults :
        /\ consumedBy[o] # None
        /\ status[consumedBy[o]] = "confirmed"

\* A mint happens only for the deposit whose confirmation the vault output backs: a
\* refunded deposit's permanently valid signature never mints, whatever became of
\* the coin it names.
MintBacked ==
    \A m \in minted : status[m[1]] = "confirmed" /\ consumedBy[m[2]] = m[1]

\* A confirmation forecloses refund(), so from then on the coin its vault output
\* needs is that output's: spent by it, or still reserved for the deposit and
\* spent by nothing (authorizer-spec.md 4.1).
ConfirmedStaysFundable ==
    \A o \in Outpoints : consumedBy[o] # None =>
        o \in vaults \/ (coinOf[consumedBy[o]] = o.coin /\ Broadcastable(o))

\* However often a confirmation is resent, bumped or interrupted by a crash, a
\* deposit has one nonce and one authorized outpoint (authorizer-spec.md 4.3).
OneConfirmationPerDeposit ==
    /\ \A m, n \in Nonces : txs[m] # None /\ txs[n] # None /\ txs[m].dep = txs[n].dep => m = n
    /\ \A a, b \in published : a[1] = b[1] => a[2] = b[2]

\* What the store says of a deposit is never ahead of Ethereum: final means
\* confirmed under the recorded outpoint, abandoned means refunded.
RecordsTruthful ==
    \A d \in Deposits : LET r == records[d] IN
        /\ RefundForeclosed(r.state) => status[d] = "confirmed" /\ consumedBy[r.utxo] = d
        /\ r.state = "ABANDONED_REFUNDED" => status[d] = "refunded"

\* The broadcast waits for the service's own confirmation to be FinalityDepth deep.
FinalityGate ==
    \A o \in vaults : \E n \in Nonces :
        /\ NonceMined(n) /\ txs[n].utxo = o
        /\ height - txs[n].mined >= FinalityDepth

-----------------------------------------------------------------------------
(* The strengthening of the safety properties that every step preserves. *)

Early == {"NONE", "OBSERVED", "DEPTH_MET", "FUNDING_PREPARED"}

\* The state a record in a loop is in: the loop's own, the drain's being the final one.
LoopState == IF loop = "drain" THEN "CONFIRMED_FINAL" ELSE loop

\* A handler runs in its loop, and the records a tick holds are still in the state it
\* found them in.
TickInv ==
    /\ step = "apply" => loop = "scan"
    /\ step = "build" => loop = "DEPTH_MET" /\ coinOf[at] # None
    /\ step \in {"price", "send"} => loop = "AUTHORIZED"
    /\ step \in {"resolve", "resend"} => loop = "CONFIRM_SENT"
    /\ step = "abandon" => loop \in {"scan", "CONFIRM_SENT"} /\ status[at] = "refunded"
    /\ step = "persist" =>
          \/ loop \in {"AUTHORIZED", "FUNDING_BROADCAST"}
          \/ loop \in {"drain", "CONFIRMED_FINAL"} /\ records[at].utxo \in vaults
    /\ step = "resolve" /\ seen = "confirmed" => status[at] = "confirmed"
    /\ step \notin {"next", "apply"} =>
          at \in Deposits /\ (loop = "scan" \/ records[at].state = LoopState)
    /\ loop \in {"idle", "scan"} => todo = {}
    /\ \A d \in todo : records[d].state = LoopState

ContractInv ==
    /\ \A o \in Outpoints : consumedBy[o] # None =>
          status[consumedBy[o]] = "confirmed" /\ <<consumedBy[o], o>> \in published
    /\ \A d \in Deposits : status[d] = "confirmed" => \E o \in Outpoints : consumedBy[o] = d
    /\ \A e \in log : e.type = "DepositRefunded" => status[e.dep] = "refunded"
    /\ \A n \in Nonces : txs[n] # None => <<txs[n].dep, txs[n].utxo>> \in published

\* Only the recorded outpoint of a signed deposit is ever published.
PublishedInv ==
    /\ \A a \in published : records[a[1]].utxo = a[2] /\ records[a[1]].state \notin Early
    /\ \A d \in Deposits : records[d].state \in {"NONE", "OBSERVED", "DEPTH_MET"} =>
          records[d].utxo = None /\ records[d].nonce = None
    /\ \A d \in Deposits : records[d].state \in States \ {"OBSERVED", "DEPTH_MET", "ABANDONED_REFUNDED", "HALTED"} =>
          records[d].utxo # None

\* A coin belongs to one deposit, and to the one that signed for it until refunded.
CoinInv ==
    /\ \A d, e \in Deposits : coinOf[d] # None /\ coinOf[d] = coinOf[e] => d = e
    /\ \A d \in Deposits : records[d].utxo # None =>
          /\ coinOf[d] = records[d].utxo.coin \/ status[d] = "refunded"
          /\ records[d].utxo = FundingOutpoint(records[d].utxo.coin, d)

\* A nonce belongs to one deposit, and the one just reserved to none yet.
NonceInv ==
    /\ \A d, e \in Deposits : records[d].nonce # None /\ records[d].nonce = records[e].nonce => d = e
    /\ \A d \in Deposits : records[d].nonce # None =>
          records[d].nonce < (IF step = "price" /\ records[at].nonce = None THEN nextNonce - 1 ELSE nextNonce)
    /\ step = "price" /\ records[at].nonce = None => nextNonce - 1 \in Nonces
    /\ step \in {"send", "persist"} => records[at].nonce # None
    /\ \A d \in Deposits : records[d].state \in {"CONFIRM_SENT", "CONFIRMED_FINAL", "FUNDING_BROADCAST", "MINTED"} =>
          records[d].nonce # None
    /\ \A n \in Nonces : txs[n] # None => records[txs[n].dep].nonce = n

FinalInv ==
    /\ head <= height /\ cursor <= height
    /\ \A d \in Deposits : RefundForeclosed(records[d].state) =>
          /\ NonceMined(records[d].nonce)
          /\ height - txs[records[d].nonce].mined >= FinalityDepth
    /\ \A a \in minted : a \in published /\ a[2] \in vaults

IInv ==
    /\ TypeOK /\ TickInv /\ ContractInv /\ PublishedInv /\ CoinInv /\ NonceInv /\ FinalInv
    /\ Quarantine /\ RecordsTruthful /\ FinalityGate

-----------------------------------------------------------------------------
(* What the bridge promises, as the two ledgers show it. *)

\* A deposit is mintable once the outpoint of a published signature of it exists.
stageOf == [d \in Deposits |->
    IF \E m \in minted : m[1] = d THEN "minted"
    ELSE IF \E o \in vaults : <<d, o>> \in published THEN "mintable"
    ELSE status[d]]

Bridged == INSTANCE BridgedDeposits WITH stage <- stageOf

\* Whatever the service, its crashes, its users and the two ledgers do, every deposit
\* is refunded, or confirmed and minted at most once, and never both.
ImplementsBridge == Bridged!Spec

-----------------------------------------------------------------------------
(* What the documents say and the code does not keep. *)

\* pipeline.ts, advanceConfirmSent: a record halted on a mined confirmation is one
\* whose "call reverted": that transaction did not confirm the deposit.  Not so: the
\* transaction may be mined between the two reads of ReadDeposit and ResolveMined.
HaltedMeansReverted ==
    \A d \in Deposits : records[d].state = "HALTED" =>
        ~ \E e \in log : /\ e.type = "DepositConfirmed" /\ e.dep = d
                         /\ e.block = txs[records[d].nonce].mined

-----------------------------------------------------------------------------
(* Liveness.  The host calls tick() again and again, and blocks keep coming. *)

BlockPasses == EmptyBlock /\ UNCHANGED <<xecVars, serviceVars>>

FairSpec == Spec /\ WF_vars(Tick) /\ WF_vars(BlockPasses)

\* The one edge whose failure cannot be undone is retried until it succeeds.
FinalIsBroadcast ==
    \A d \in Deposits :
        (records[d].state = "CONFIRMED_FINAL") ~> (records[d].utxo \in vaults)

\* A deposit the service's own transaction confirmed gets its vault output, unless the
\* record halts for an operator.
ConfirmedByService(d) ==
    /\ status[d] = "confirmed"
    /\ \E n \in Nonces : NonceMined(n) /\ txs[n].dep = d /\ txs[n].mined <= MaxHeight - FinalityDepth
FundedOrHalted(d) == records[d].utxo \in vaults \/ records[d].state = "HALTED"
ConfirmedIsFunded == \A d \in Deposits : ConfirmedByService(d) ~> FundedOrHalted(d)

\* The two things that may keep the service from it for ever: a failure at the wrong
\* moment (pipeline.ts:228), and a deposit whose step throws on every tick (pipeline.ts:166).
Disturbed == faults > 0 \/ \E d \in Unconvertible : status[d] # "unknown"

\* Undisturbed, the service funds what it confirmed: nothing a user, another sender or
\* the node does can keep it from that.
ConfirmedIsFundedUndisturbed ==
    \A d \in Deposits : ConfirmedByService(d) ~> (FundedOrHalted(d) \/ Disturbed)

\* Undisturbed, a deposit nobody asks to refund gets its authorization to Ethereum.
UnrefundedIsAuthorized ==
    \A d \in Deposits :
        (status[d] = "pending" /\ lockedAt[d] + ConfirmationDepth <= MaxHeight)
            ~> (requestedAt[d] # 0 \/ (\E a \in published : a[1] = d) \/ Disturbed)

\* Every block is scanned in the end: "advances the durable cursor" (pipeline.ts, scan).
ScanAdvances == \A h \in 1..MaxHeight : (height = h) ~> (cursor >= h)
=============================================================================
