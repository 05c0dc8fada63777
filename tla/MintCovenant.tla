----------------------------- MODULE MintCovenant -----------------------------
(***************************************************************************)
(* An authorization from its signature to the mint it allows.              *)
(*                                                                         *)
(* The authorizer writes the message and signs it (authorization.ts,       *)
(* script.ts), the contract writes the same message anew and compares      *)
(* (BridgeLock.sol), and whoever mints presents it to the covenant         *)
(* mintCovenantV2, which ScriptMachine executes.  The contract and the     *)
(* service are configured alike: chain, token, decimals.                   *)
(***************************************************************************)
EXTENDS Decimals, ScriptMachine

CONSTANTS
    Deposits,     \* the deposits
    NetAmounts,   \* deposit -> the netAmounts it may be made with
    Recipient,    \* deposit -> its xecRecipient
    Vault,        \* deposit -> the output of its funding transaction, [txid, index]
    Spends        \* the spends of a vault output that are tried, see SpendRecord

\* A deposit has an amount and a funding output of its own.
ASSUME MintAssumption ==
    /\ NetAmounts \in [Deposits -> SUBSET (Nat \ {0})]
    /\ \A d \in Deposits : IsOutpoint(Vault[d])
    /\ \A d, e \in Deposits : Vault[d] = Vault[e] => d = e
    /\ AuthKey \in Keys
    /\ \A s \in Spends :
          /\ IsSigning(s.real) /\ IsSigning(s.over) /\ IsSigning(s.shown)
          /\ s.key \in Keys /\ s.auth.dep \in Deposits

VARIABLES
    net,        \* deposit -> Deposit.netAmount, 0 before the deposit
    signed,     \* deposit -> the message the authorizer signed, << >> before
    confirmed   \* the deposits confirmDeposit() confirmed

mintVars == <<net, signed, confirmed>>

buildMintV2TxOutputs(token, quantity, recipient) ==
    Serialize(0, buildMintOpReturnV2(token, quantity)) \o Serialize(SLP_DUST_SATS, P2PKH(recipient))

\* Faulty: the txid stays in the order it is displayed in.
TxidAsDisplayed(t) == Txid(t, "display")
txidToInternal(t)  == Txid(t, "internal")

buildAuthorizationMessage(d, txid, index, quantity) ==
    Piece("depositId", d, 32) \o Piece("chainId", 0, 32) \o txid \o LE(index, 4)
        \o buildMintV2TxOutputs(TokenId(Token), quantity, Recipient[d])

buildAuthorization(d) ==
    buildAuthorizationMessage(d, txidToInternal(Vault[d].txid), Vault[d].index, SignedAmount(net[d]))

-----------------------------------------------------------------------------
(* The contract *)

_buildMintTxOutputs(amount, recipient) ==
    LE(0, 8) \o Byte(55)
        \o Byte(106) \o Byte(4) \o Piece("ascii", "SLP", 4) \o Byte(1) \o Byte(2)
        \o Byte(4) \o Piece("ascii", "MINT", 4) \o Byte(32) \o TokenId(Token) \o Byte(8) \o BE(amount, 8)
    \o LE(SLP_DUST_SATS, 8) \o Byte(25)
        \o Byte(118) \o Byte(169) \o Byte(20) \o Piece("hash160", recipient, 20) \o Byte(136) \o Byte(172)

\* The message of the digest, for the outpoint the caller names.
_authorizationDigest(d, txid, index) ==
    HASH256(Piece("depositId", d, 32) \o Piece("chainId", 0, 32) \o txid \o LE(index, 4)
                \o _buildMintTxOutputs(xecAmount(net[d]), Recipient[d]))

-----------------------------------------------------------------------------

MintInit ==
    /\ net = [d \in Deposits |-> 0]
    /\ signed = [d \in Deposits |-> << >>]
    /\ confirmed = {}

\* deposit(), of a lock whose tokens are minted through this covenant.
Deposit(d) ==
    /\ script = "mintCovenantV2" /\ net[d] = 0
    /\ \E n \in NetAmounts[d] : net' = [net EXCEPT ![d] = n]
    /\ UNCHANGED <<signed, confirmed, machineVars>>

\* advanceFundingPrepared(): the vault outpoint is known, the output does not exist yet.
Authorize(d) ==
    /\ net[d] > 0 /\ signed[d] = << >>
    /\ Signable(net[d])
    /\ signed' = [signed EXCEPT ![d] = buildAuthorization(d)]
    /\ UNCHANGED <<net, confirmed, machineVars>>

\* The service passes the txid of its message (authorization.ts, utxoTxid).
ConfirmDeposit(d) ==
    /\ signed[d] # << >> /\ d \notin confirmed
    /\ Confirmable(net[d])
    /\ HASH256(signed[d]) = _authorizationDigest(d, txidToInternal(Vault[d].txid), Vault[d].index)
    /\ confirmed' = confirmed \cup {d}
    /\ UNCHANGED <<net, signed, machineVars>>

\* Funding is broadcast once its deposit is confirmed (DepositPipeline, Quarantine).
Funded(u) == (\E d \in Deposits : Vault[d] = u) => \E d \in confirmed : Vault[d] = u

\* A spend with the message of deposit s.auth.dep, signed by s.auth.by.
Submit(s) ==
    /\ script = "mintCovenantV2"
    /\ \A i \in DOMAIN s.real.tx.ins : Funded(s.real.tx.ins[i])
    /\ LET message == signed[s.auth.dep]
       IN  message # << >> /\ Load(s, <<Signature(s.auth.by, HASH256(message)), message>>)
    /\ UNCHANGED mintVars

MintNext ==
    \/ \E d \in Deposits : Deposit(d) \/ Authorize(d) \/ ConfirmDeposit(d)
    \/ \E s \in Spends : Submit(s)

-----------------------------------------------------------------------------
(* Correctness *)

\* The outputs a confirmed deposit was authorized to mint to, and nothing else.
MintOutputs(d) == <<Mint(xecAmount(net[d])), Pay(Recipient[d], SLP_DUST_SATS)>>

\* script.ts, mintCovenantV2Ops: whatever is signed over, presented or broadcast, with
\* any hash type, a spend that the covenant accepts takes the vault output that a
\* confirmed deposit's authorization names, pays exactly what it authorizes, and is what
\* was signed and shown, over all of its outputs.
AcceptsOnlyAuthorized ==
    verdict = "accepted" /\ script = "mintCovenantV2" =>
        /\ \E d \in confirmed :
              /\ spend.real.tx.ins[spend.real.index] = Vault[d]
              /\ spend.real.tx.outs = MintOutputs(d)
        /\ spend.real.type.outputs = "ALL"
        /\ SignsAlike(spend.real, spend.shown) /\ SignsAlike(spend.real, spend.over)
        /\ spend.pubkey = spend.key

\* What an authorization is for: once a deposit is confirmed, whoever spends its vault
\* output with its message and pays what was authorized is never refused, with other
\* inputs beside it and another key's signature over all outputs or not.
HonestSpend(s) ==
    /\ s.over = s.real /\ s.shown = s.real /\ s.key = s.pubkey /\ s.auth.by = AuthKey
    /\ s.real.tx.ins[s.real.index] = Vault[s.auth.dep]
    /\ s.real.tx.outs = MintOutputs(s.auth.dep)
    /\ s.real.type.outputs = "ALL"
AuthorizedIsAccepted ==
    verdict = "rejected" /\ script = "mintCovenantV2" => ~HonestSpend(spend)

\* authorization.ts: the service reproduces, byte for byte, the message the contract
\* digests, for amounts that a JavaScript number holds exactly.
AuthorizationsAgree ==
    \A d \in Deposits : signed[d] # << >> /\ xecAmount(net[d]) <= SafeInteger =>
        HASH256(signed[d]) = _authorizationDigest(d, txidToInternal(Vault[d].txid), Vault[d].index)
=============================================================================
