-------------------------------- MODULE Postage --------------------------------
(***************************************************************************)
(* coSignPostage() of packages/authorizer/src/withdrawal/postage.ts: the   *)
(* service checks a burn, claims its outpoint, appends a stamp to it,      *)
(* signs and broadcasts.                                                   *)
(*                                                                         *)
(* Calls run concurrently and interleave at every await.  A crash ends all *)
(* of them; the store's claims and the stamps handed out survive it.  The  *)
(* holder of a burn's coin may spend it elsewhere at any time, and the     *)
(* node may evict a transaction it accepted.                               *)
(***************************************************************************)
EXTENDS Naturals

CONSTANTS
    Calls,      \* the calls of coSignPostage(); a retry is a call of its own
    BurnCoins,  \* the outpoints that burns spend as their input 0
    Genuine,    \* the burns that pass every check but that of the coin
    Stamps,     \* the stamp coins
    NoCoin,     \* neither a burn nor a stamp
    MaxFaults   \* bound: crashes, exceptions, lost answers and evictions

ASSUME PostageAssumption ==
    /\ Genuine \subseteq BurnCoins
    /\ NoCoin \notin BurnCoins /\ NoCoin \notin Stamps
    /\ BurnCoins \cap Stamps = {}
    /\ MaxFaults \in Nat

VARIABLES
    progress,  \* call -> where it is, or what it answered
    burnOf,    \* call -> the outpoint of the burn it was given
    stampOf,   \* call -> the stamp it fetched
    claimed,   \* the store: the outpoints claimed
    pool,      \* StampSource: the stamps it may hand out
    spentOn,   \* eCash: the coins spent in the mempool or the chain
    signed,    \* the calls a stamp signature may exist of
    relayed,   \* the calls whose stamped transaction left the service
    faults     \* failures so far, bounded by MaxFaults

chainVars   == <<spentOn, relayed>>
postageVars == <<progress, burnOf, stampOf, claimed, pool, chainVars, signed, faults>>

Answers == {"txid", "REFUSED", "ALREADY_STAMPED", "ERROR"}
Steps   == {"idle", "check", "claim", "fetch", "sign", "broadcast", "return", "drop", "unclaim"}

PostageTypeOK ==
    /\ progress \in [Calls -> Steps \cup Answers]
    /\ burnOf \in [Calls -> BurnCoins \cup {NoCoin}]
    /\ stampOf \in [Calls -> Stamps \cup {NoCoin}]
    /\ claimed \subseteq BurnCoins
    /\ pool \subseteq Stamps
    /\ spentOn \subseteq BurnCoins \cup Stamps
    /\ signed \subseteq Calls
    /\ relayed \subseteq Calls
    /\ faults \in Nat

PostageInit ==
    /\ progress = [r \in Calls |-> "idle"]
    /\ burnOf = [r \in Calls |-> NoCoin]
    /\ stampOf = [r \in Calls |-> NoCoin]
    /\ claimed = {}
    /\ pool \in SUBSET Stamps   \* the pool is as full as the operator keeps it
    /\ spentOn = {}
    /\ signed = {}
    /\ relayed = {}
    /\ faults = 0

-----------------------------------------------------------------------------
(* The steps of a call, from one await to the next *)

Goes(r, from, to) == progress[r] = from /\ progress' = [progress EXCEPT ![r] = to]
Fault == faults < MaxFaults /\ faults' = faults + 1

Inputs(r) == {burnOf[r], stampOf[r]}

Submit(r, b) ==
    /\ Goes(r, "idle", "check")
    /\ burnOf' = [burnOf EXCEPT ![r] = b]
    /\ UNCHANGED <<stampOf, claimed, pool, chainVars, signed, faults>>

\* Everything before the claim: getOutput() answers null for a spent coin.
Check(r) ==
    /\ IF burnOf[r] \in Genuine \ spentOn
         THEN Goes(r, "check", "claim")
         ELSE Goes(r, "check", "REFUSED")
    /\ UNCHANGED <<burnOf, stampOf, claimed, pool, chainVars, signed, faults>>

\* claimBurnDeclaration(): an atomic test-and-set.
ClaimBurn(r) ==
    /\ IF burnOf[r] \in claimed
         THEN Goes(r, "claim", "ALREADY_STAMPED")
         ELSE Goes(r, "claim", "fetch")
    /\ claimed' = claimed \cup {burnOf[r]}
    /\ UNCHANGED <<burnOf, stampOf, pool, chainVars, signed, faults>>

\* Faulty: the stamp stays in the pool.
FetchShared(r) ==
    /\ Goes(r, "fetch", "sign")
    /\ \E s \in pool : stampOf' = [stampOf EXCEPT ![r] = s]
    /\ UNCHANGED <<burnOf, claimed, pool, chainVars, signed, faults>>

FetchStamp(r) ==
    /\ Goes(r, "fetch", "sign")
    /\ \E s \in pool : pool' = pool \ {s} /\ stampOf' = [stampOf EXCEPT ![r] = s]
    /\ UNCHANGED <<burnOf, claimed, chainVars, signed, faults>>

\* Faulty: without a stamp the call just answers.
NoStampKeepsClaim(r) ==
    /\ pool = {}
    /\ Goes(r, "fetch", "REFUSED")
    /\ UNCHANGED <<burnOf, stampOf, claimed, pool, chainVars, signed, faults>>

NoStamp(r) ==
    /\ pool = {}
    /\ Goes(r, "fetch", "unclaim")
    /\ UNCHANGED <<burnOf, stampOf, claimed, pool, chainVars, signed, faults>>

\* Only null releases the claim; an exception does not.
FetchFails(r) ==
    /\ Fault
    /\ Goes(r, "fetch", "ERROR")
    /\ UNCHANGED <<burnOf, stampOf, claimed, pool, chainVars, signed>>

AppendAndSign(r) ==
    /\ Goes(r, "sign", "broadcast")
    /\ signed' = signed \cup {r}
    /\ UNCHANGED <<burnOf, stampOf, claimed, pool, chainVars, faults>>

\* A signature may exist even so; the stamp goes back, the claim stays.
SignFails(r) ==
    /\ Fault
    /\ Goes(r, "sign", "return")
    /\ signed' = signed \cup {r}
    /\ UNCHANGED <<burnOf, stampOf, claimed, pool, chainVars>>

ReturnStamp(r) ==
    /\ Goes(r, "return", "ERROR")
    /\ pool' = pool \cup {stampOf[r]}
    /\ UNCHANGED <<burnOf, stampOf, claimed, chainVars, signed, faults>>

\* A transaction with a missing input is an orphan: relayed, and answered with success.
Broadcast(r) ==
    /\ Goes(r, "broadcast", "txid")
    /\ relayed' = relayed \cup {r}
    /\ spentOn' = IF Inputs(r) \cap spentOn = {} THEN spentOn \cup Inputs(r) ELSE spentOn
    /\ UNCHANGED <<burnOf, stampOf, claimed, pool, signed, faults>>

\* A definite refusal: a conflict, or the node's policy.  Nothing is relayed.
BroadcastRejected(r) ==
    /\ Goes(r, "broadcast", "drop")
    /\ UNCHANGED <<burnOf, stampOf, claimed, pool, chainVars, signed, faults>>

\* Faulty: any failure is taken for a refusal.
UnknownReleasesClaim(r) ==
    /\ Fault
    /\ Goes(r, "broadcast", "unclaim")
    /\ relayed' = relayed \cup {r}
    /\ UNCHANGED <<burnOf, stampOf, claimed, pool, spentOn, signed>>

\* A lost answer, or a lost request: nothing is released.
BroadcastUnknown(r) ==
    /\ Fault
    /\ Goes(r, "broadcast", "ERROR")
    /\ \/ UNCHANGED chainVars
       \/ /\ relayed' = relayed \cup {r}
          /\ spentOn' = IF Inputs(r) \cap spentOn = {} THEN spentOn \cup Inputs(r) ELSE spentOn
    /\ UNCHANGED <<burnOf, stampOf, claimed, pool, signed>>

\* Faulty: a refused transaction's stamp is not returned.
KeepStamp(r) ==
    /\ Goes(r, "drop", "unclaim")
    /\ UNCHANGED <<burnOf, stampOf, claimed, pool, chainVars, signed, faults>>

DropStamp(r) ==
    /\ Goes(r, "drop", "unclaim")
    /\ pool' = pool \cup {stampOf[r]}
    /\ UNCHANGED <<burnOf, stampOf, claimed, chainVars, signed, faults>>

Unclaim(r) ==
    /\ Goes(r, "unclaim", "REFUSED")
    /\ claimed' = claimed \ {burnOf[r]}
    /\ UNCHANGED <<burnOf, stampOf, pool, chainVars, signed, faults>>

-----------------------------------------------------------------------------

\* The process dies: what was running is over, what was stored stays.
Crash ==
    /\ Fault
    /\ progress' = [r \in Calls |-> IF progress[r] \in Steps \ {"idle"} THEN "ERROR" ELSE progress[r]]
    /\ UNCHANGED <<burnOf, stampOf, claimed, pool, chainVars, signed>>

SpendElsewhere(b) ==
    /\ b \notin spentOn
    /\ spentOn' = spentOn \cup {b}
    /\ UNCHANGED <<progress, burnOf, stampOf, claimed, pool, signed, relayed, faults>>

\* The coins of an evicted transaction are unspent again; its signatures stay valid.
Evict(r) ==
    /\ Fault
    /\ r \in relayed
    /\ spentOn' = spentOn \ Inputs(r)
    /\ UNCHANGED <<progress, burnOf, stampOf, claimed, pool, signed, relayed>>

Proceed(r) ==
    \/ Check(r) \/ ClaimBurn(r) \/ FetchStamp(r) \/ NoStamp(r) \/ AppendAndSign(r)
    \/ ReturnStamp(r) \/ Broadcast(r) \/ BroadcastRejected(r) \/ DropStamp(r) \/ Unclaim(r)

Fails(r) == FetchFails(r) \/ SignFails(r) \/ BroadcastUnknown(r)

PostageNext ==
    \/ \E r \in Calls : Proceed(r) \/ Fails(r) \/ Evict(r) \/ \E b \in BurnCoins : Submit(r, b)
    \/ \E b \in BurnCoins : SpendElsewhere(b)
    \/ Crash

PostageSpec == PostageInit /\ [][PostageNext]_postageVars

\* The runtime resumes every call whose await has answered.
FairSpec == PostageSpec /\ \A r \in Calls : WF_postageVars(Proceed(r))

-----------------------------------------------------------------------------
(* Safety *)

\* SPEC.md IV.6: two stamped transactions of one burn are enough for two releases.
\* However calls interleave, fail and are retried, and whatever the node forgets, one
\* stamped transaction of a burn at most ever leaves the service.
OneStampPerBurn == \A p, q \in relayed : burnOf[p] = burnOf[q] => p = q

\* No two transactions that left the service spend the same stamp coin.
OneBurnPerStamp == \A p, q \in relayed : stampOf[p] = stampOf[q] => p = q

\* postage.ts, broadcastOrRelease: the pool never hands out a stamp that a transaction
\* which may be out there spends; so a conflict at the node is over the burn alone.
StampsAreFresh ==
    /\ pool \cap spentOn = {}
    /\ \A r \in Calls : progress[r] \in {"sign", "broadcast"} => stampOf[r] \notin spentOn

(* The strengthening that every step preserves. *)

Holding == {"fetch", "sign", "broadcast", "return", "drop", "unclaim"}
Using   == {"sign", "broadcast", "return", "drop"}

\* A burn has one owner at a time: the call that runs with its claim, or the one whose
\* transaction left.
ClaimInv ==
    /\ \A r \in Calls : progress[r] \in Holding \/ r \in relayed => burnOf[r] \in claimed
    /\ \A p, q \in Calls :
          /\ progress[p] \in Holding \/ p \in relayed
          /\ progress[q] \in Holding \/ q \in relayed
          /\ burnOf[p] = burnOf[q]
          => p = q
    /\ \A r \in relayed : progress[r] \notin Holding \cup {"idle", "check", "claim"}
    /\ \A r \in Calls : progress[r] = "idle" => burnOf[r] = NoCoin /\ stampOf[r] = NoCoin
    /\ \A r \in Calls : progress[r] \in Steps \ {"idle"} => burnOf[r] \in BurnCoins

\* So has a stamp: the pool, a call, or a transaction.
StampInv ==
    /\ \A r \in Calls : progress[r] \in Using \/ r \in relayed => stampOf[r] \in Stamps \ pool
    /\ \A p, q \in Calls :
          /\ progress[p] \in Using \/ p \in relayed
          /\ progress[q] \in Using \/ q \in relayed
          /\ stampOf[p] = stampOf[q]
          => p = q
    /\ \A s \in Stamps \cap spentOn : \E r \in relayed : stampOf[r] = s

PostageInv == PostageTypeOK /\ ClaimInv /\ StampInv

-----------------------------------------------------------------------------
(* Liveness.  A failure may lose an answer, so both promises end at the first one. *)

\* coSignPostage: a claim ends.  Its burn is on its way, or may be submitted again.
ClaimSettles ==
    \A b \in BurnCoins :
        (b \in claimed) ~> (b \notin claimed \/ faults > 0 \/ \E r \in relayed : burnOf[r] = b)

\* coSignPostage: a stamp handed out is used or comes back.
StampSettles ==
    \A s \in Stamps :
        (\E r \in Calls : stampOf[r] = s)
            ~> (s \in pool \/ faults > 0 \/ \E r \in relayed : stampOf[r] = s)
=============================================================================
