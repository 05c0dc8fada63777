------------------------------ MODULE Withdrawal ------------------------------
(***************************************************************************)
(* A withdrawal through both of its verifiers: the service, which stamps a *)
(* burn (authorizer/src/withdrawal), and release(), which pays for it      *)
(* (BridgeLock.sol with EcashTx.sol and Sighash.sol).  They read the same  *)
(* bytes with parsers written twice, and each relies on the other for what *)
(* it cannot check itself.                                                 *)
(*                                                                         *)
(* A transaction is the burn, which every signature commits to, and the    *)
(* scriptSig of its input 0, which none does.  coSignPostage() is one step *)
(* here and release() another; module Postage has the first one's awaits   *)
(* and module BridgeLock the second one's amounts.  One stamp is used per  *)
(* burn (Postage, OneStampPerBurn and OneBurnPerStamp).  A header with the *)
(* work that release() asks for may exist of any bytes, on the eCash chain *)
(* or not, so no action makes one.                                         *)
(***************************************************************************)
EXTENDS Integers

CONSTANTS
    Coins,            \* the outpoints that burns spend
    PubKeys,          \* serialized public keys; hash160 tells any two apart
    Compressed,       \* those of 33 bytes
    Owner,            \* coin -> the key whose P2PKH the coin pays to
    Worth,            \* coin -> the wrapped tokens that spending it burns
    Submissions,      \* the transactions requesters send to the service
    ServiceAssetId,   \* assetIdForAddress(): in the code the address padded "left"
    ContractAssetId,  \* bytes32(bytes20(address(this))): the address padded "right"
    MinBurnAmount,    \* config.minBurnAmount
    FeeAmountXec,     \* feeAmountXec
    Scale,            \* scale
    XecHasMorePrecision,
    None

Pushes    == {"direct", "pushdata1", "trailing", "malformed"}
AssetIds  == {"left", "right", "other"}
Sighashes == {"ALL|FORKID", "ALL|FORKID|ANYONECANPAY"}

\* The BURN OP_RETURN of output 0, its encoding, and how many inputs and outputs
\* the requester gave the transaction.
Burn == [coin : Coins, inputs : Nat, outputs : Nat, pushes : Pushes,
         token : {"ours", "other"}, asset : AssetIds, chain : {"ours", "other"},
         quantity : Nat, recipient : PubKeys]

\* verifies: the signature is the key's, over the burn it comes with and the
\* value of the coin.
ScriptSig == [key : PubKeys, sighash : Sighashes, scheme : {"ECDSA", "Schnorr"},
              verifies : BOOLEAN]

Transaction == [burn : Burn, input0 : ScriptSig]

ASSUME WithdrawalAssumption ==
    /\ Compressed \subseteq PubKeys
    /\ Owner \in [Coins -> PubKeys]
    /\ Worth \in [Coins -> Nat]
    /\ Submissions \subseteq Transaction
    /\ ServiceAssetId \in AssetIds /\ ContractAssetId \in AssetIds
    /\ MinBurnAmount \in Nat \ {0}
    /\ FeeAmountXec \in Nat /\ Scale \in Nat \ {0}
    /\ XecHasMorePrecision \in BOOLEAN
    /\ None \notin Transaction

VARIABLES
    claims,    \* the store: coin -> the transaction that claimed it
    stamps,    \* the burns of which a stamp signature is at large
    released   \* burnUtxoConsumedBy: coin -> the transaction release() paid for

vars == <<claims, stamps, released>>

TypeOK ==
    /\ claims \in [Coins -> Transaction \cup {None}]
    /\ stamps \subseteq Burn
    /\ released \in [Coins -> Transaction \cup {None}]

Init ==
    /\ claims = [c \in Coins |-> None]
    /\ stamps = {}
    /\ released = [c \in Coins |-> None]

-----------------------------------------------------------------------------
(* The service *)

\* Eight pushes of fixed width, nothing after them.
ReadFields(b) == b.pushes = "direct"

ParseOutputZero(b) == b.outputs >= 1 /\ ReadFields(b)

AssertMatchesDeployment(b) ==
    b.token = "ours" /\ b.asset = ServiceAssetId /\ b.chain = "ours"

AssertBurnOutputs(b) == b.outputs <= 2

\* Faulty: any number of inputs.
ValidInputZero(t) ==
    /\ t.input0.sighash = "ALL|FORKID|ANYONECANPAY"
    /\ t.input0.key = t.burn.recipient

AssertValidBurnInput(t) ==
    /\ t.burn.inputs = 1
    /\ t.input0.sighash = "ALL|FORKID|ANYONECANPAY"
    /\ t.input0.key = t.burn.recipient

\* Faulty: a Schnorr signature will do.
SpendableInZero(t) ==
    /\ t.input0.key = Owner[t.burn.coin]
    /\ t.input0.verifies

\* The coin is known; Postage has coins that are spent.
AssertBurnInputSpendable(t) ==
    /\ t.input0.scheme # "Schnorr"
    /\ t.input0.key = Owner[t.burn.coin]
    /\ t.input0.verifies

\* The SlpValidator calls a burn valid when the coin holds the token at all.
AssertSlpValid(b) == Worth[b.coin] > 0 /\ b.quantity <= Worth[b.coin]

AssertAboveMinimum(b) == b.quantity >= MinBurnAmount

Stampable(t) ==
    /\ ParseOutputZero(t.burn)
    /\ AssertMatchesDeployment(t.burn)
    /\ AssertBurnOutputs(t.burn)
    /\ AssertValidBurnInput(t)
    /\ AssertBurnInputSpendable(t)
    /\ AssertSlpValid(t.burn)
    /\ AssertAboveMinimum(t.burn)

\* What eCash asks of the transaction once the stamp is appended: a signature that
\* covers the other inputs does not survive that.  It takes Schnorr signatures and
\* uncompressed keys, and knows nothing of tokens.
Minable(t) ==
    /\ t.burn.outputs >= 1
    /\ t.input0.sighash = "ALL|FORKID|ANYONECANPAY"
    /\ t.input0.key = Owner[t.burn.coin]
    /\ t.input0.verifies

\* The StampSource appends at index 1 or throws.
Appendable(t) == t.burn.inputs = 1

Unclaimed(t) == claims[t.burn.coin] = None

\* claimBurnDeclaration() and what follows it.  A refusal before it, an empty stamp
\* pool after it and a broadcast that eCash rejects leave no trace.
Claim(t) ==
    /\ Stampable(t)
    /\ Unclaimed(t)
    /\ claims' = [claims EXCEPT ![t.burn.coin] = t]
    /\ UNCHANGED released

\* The node takes the stamped burn, whether or not its answer arrives.
CoSignPostage(t) ==
    /\ Claim(t)
    /\ Appendable(t) /\ Minable(t)
    /\ stamps' = stamps \cup {t.burn}

\* appendAndSignStamp() throws, or the broadcast ends unknown and relayed nothing:
\* the claim is held.
HoldClaim(t) ==
    /\ Claim(t)
    /\ UNCHANGED stamps

-----------------------------------------------------------------------------
(* release() *)

\* A push is a length byte or OP_PUSHDATA1; what follows the last one is not read.
ReadPush(b) == b.pushes \in {"direct", "pushdata1", "trailing"}

\* inputs[1] is there in any transaction with a stamp, outputs[0] must be.
ParseBurnOpReturn(b) == b.outputs >= 1 /\ ReadPush(b)

\* ecrecover knows no other signatures.
ParseDER(i) == i.scheme = "ECDSA"

Decompress(key) == key \in Compressed

VerifyAgainstPubkey(i) == i.verifies

VerifyBurnInput(t) ==
    /\ ParseDER(t.input0)
    /\ t.input0.sighash = "ALL|FORKID|ANYONECANPAY"
    /\ Decompress(t.input0.key)
    /\ VerifyAgainstPubkey(t.input0)

\* What the digest of the stamp's signature covers: every outpoint, sequence and
\* output, and no scriptSig.
Digest(t) == t.burn

\* Faulty: whatever is at inputs[1] is taken for a stamp.
AnyInputOne(t) == t.burn.inputs = 1

\* inputs[1] is the stamp only if the requester gave a single input.
VerifyStampInput(t) == Digest(t) \in stamps /\ t.burn.inputs = 1

RecipientMatches(t) == t.input0.key = t.burn.recipient

\* AmountTooSmall, before the conversion and after it.
Pays(quantity) ==
    /\ quantity > FeeAmountXec
    /\ XecHasMorePrecision => (quantity - FeeAmountXec) \div Scale > 0

Releasable(t) ==
    /\ ParseBurnOpReturn(t.burn)
    /\ t.burn.asset = ContractAssetId
    /\ t.burn.token = "ours"
    /\ t.burn.chain = "ours"
    /\ Pays(t.burn.quantity)
    /\ VerifyBurnInput(t)
    /\ RecipientMatches(t)
    /\ VerifyStampInput(t)

\* Anyone may call it, with any of the burns, whether the service stamped it or not,
\* and any scriptSig on it.
Release(t) ==
    /\ released[t.burn.coin] = None
    /\ Releasable(t)
    /\ released' = [released EXCEPT ![t.burn.coin] = t]
    /\ UNCHANGED <<claims, stamps>>

Burns == {t.burn : t \in Submissions}

Next ==
    \/ \E t \in Submissions : CoSignPostage(t) \/ HoldClaim(t)
    \/ \E b \in Burns, i \in ScriptSig : Release([burn |-> b, input0 |-> i])

Spec == Init /\ [][Next]_vars

-----------------------------------------------------------------------------
(* The abstract withdrawal *)

heldCoins == {c \in Coins : claims[c] # None}
paymentOf ==
    [c \in Coins |-> IF released[c] = None THEN None
                     ELSE [to |-> released[c].input0.key, quantity |-> released[c].burn.quantity]]

Bridged == INSTANCE BridgedBurns WITH held <- heldCoins, payment <- paymentOf

-----------------------------------------------------------------------------
(* Properties *)

\* The service and the contract together implement a withdrawal: what each checks for
\* itself adds up to one payment for a coin, to its owner, after it was held, and never
\* above its worth (postage.ts, BridgeLock.sol release).
ImplementsWithdrawal == Bridged!Spec

\* release() pays the key that owns the coin burnt, whoever calls it and however
\* they sign input 0.  The contract cannot look the owner up: it holds because the
\* service compared the owner with the recipient the burn names, and the stamp
\* commits to that name.
PaidToOwner ==
    \A c \in Coins : released[c] # None => released[c].input0.key = Owner[c]

\* release() pays for no more than the tokens on the coin.  It pays what the burn
\* declares; only the service compares that with what SLP counts.
PaidIsBacked ==
    \A c \in Coins : released[c] # None => released[c].burn.quantity <= Worth[c]

\* A coin is claimed only by a transaction that can carry a stamp and be mined.  A
\* claim may be held for good after a failure, so one made for anything else would
\* leave a coin that no corrected burn can ever withdraw.
HeldIsMinable ==
    \A c \in Coins : claims[c] # None => Minable(claims[c]) /\ Appendable(claims[c])

\* The verifiers agree, but for three things the service does not ask: that both
\* pad the address alike, that the key is compressed, and that the quantity leaves
\* something to pay after the fee.  Any other burn with a stamp, sent as the
\* service saw it, is one release() accepts until its coin is paid for.
ChecksAgree ==
    \A b \in stamps :
        \/ released[b.coin] # None
        \/ Releasable(claims[b.coin])
        \/ ServiceAssetId # ContractAssetId
        \/ claims[b.coin].input0.key \notin Compressed
        \/ ~Pays(b.quantity)

\* A burn is stamped only if release() accepts it (postage.ts, the comment on
\* assertMatchesDeployment).  Not so: the two pad the contract's address on opposite
\* sides.
StampedIsReleasable ==
    \A b \in stamps : released[b.coin] # None \/ Releasable(claims[b.coin])

\* The invariant behind them: a claim is for its own coin and passed every check, a
\* stamp is on the burn that claimed the coin, and what was released had a stamp
\* and passed every check of release().
WithdrawalInv ==
    /\ TypeOK
    /\ \A c \in Coins :
        claims[c] # None => claims[c].burn.coin = c /\ Stampable(claims[c])
    /\ \A b \in stamps : claims[b.coin] # None /\ claims[b.coin].burn = b
    /\ \A c \in Coins :
        released[c] # None => released[c].burn.coin = c /\ Releasable(released[c])
=============================================================================
