-------------------------------- MODULE Scripts --------------------------------
(***************************************************************************)
(* The two self-mint covenants of script.ts, as sequences of opcodes: the  *)
(* current one (mintCovenantV2Ops) checks a message the authorizer signed, *)
(* the earlier one (mintOutscript) a transaction the oracle signed.        *)
(***************************************************************************)
EXTENDS Transactions

CONSTANT AuthKey   \* the key the vault's script is made for: authorizer, or oracle

ORACLE_TX_SATS == 4300
STAMP_TX_SATS  == 3700
VAULT_SATS     == 1000

sym(name) == <<[op |-> name, arg |-> << >>]>>
int(n)    == <<[op |-> "push", arg |-> Number(n)]>>
data(x)   == <<[op |-> "push", arg |-> x]>>

Syms(names) == [i \in DOMAIN names |-> [op |-> names[i], arg |-> << >>]]
SplitAt(n)  == int(n) \o sym("split")
\* The first n bytes are dropped.
Skip(n)     == int(n) \o Syms(<<"split", "nip">>)

-----------------------------------------------------------------------------
(* mintCovenantV2Ops *)

AuthorizerSigned ==
    Syms(<<"dup", "sha256", "rot", "swap">>) \o data(PubKey(AuthKey)) \o sym("checkdatasigverify")

\* Leaves the message's outputs and, on top, its outpoint on the altstack.
SplitMessage ==
    Skip(32) \o Skip(32) \o SplitAt(32) \o SplitAt(4) \o Syms(<<"toaltstack", "cat", "toaltstack">>)

\* Faulty: the check consumes the only copy.
PreimageSignedOnce ==
    Syms(<<"sha256", "rot", "size">>) \o int(1) \o Syms(<<"sub", "split", "drop", "swap", "rot", "checkdatasigverify">>)

PreimageSigned ==
    Syms(<<"3dup", "sha256", "rot", "size">>) \o int(1)
        \o Syms(<<"sub", "split", "drop", "swap", "rot", "checkdatasigverify">>)

PreimageOutputs ==
    Syms(<<"dup", "size">>) \o int(40) \o Syms(<<"sub", "split">>) \o SplitAt(32) \o Syms(<<"drop", "nip">>)

SameOutpoint ==
    sym("swap") \o SplitAt(68) \o SplitAt(36) \o Syms(<<"drop", "nip", "fromaltstack", "equalverify">>)

\* Faulty: the outputs are not compared.
AnyOutputs  == Syms(<<"drop", "fromaltstack", "drop">>)
SameOutputs == Syms(<<"fromaltstack", "hash256", "equalverify">>)

mintCovenantV2Ops ==
    AuthorizerSigned \o SplitMessage \o PreimageSigned \o PreimageOutputs
        \o SameOutpoint \o SameOutputs \o sym("checksig")

-----------------------------------------------------------------------------
(* mintOutscript *)

\* "OP_RETURN CTRL 1 1", and the opcode of a push of 76 to 255 bytes.
Label ==
    Byte(106) \o Data(Piece("ascii", "CTRL", 4)) \o Data(Byte(1)) \o Data(Byte(1)) \o Byte(76)

\* What is wanted of the oracle's transaction, its input's items among it.
SplitInput ==
    SplitAt(4) \o Skip(1) \o SplitAt(36) \o Syms(<<"toaltstack", "dup", "hash256", "fromaltstack">>)
    \o Skip(34) \o SplitAt(1) \o Syms(<<"swap", "split">>)
    \o SplitAt(1) \o Syms(<<"swap", "dup">>) \o data(Byte(76)) \o Syms(<<"equal", "if", "drop">>)
    \o SplitAt(1) \o Syms(<<"swap", "endif", "split">>)
    \o SplitAt(4) \o Syms(<<"swap", "dup", "hash256", "rot">>)

\* Faulty: a length above 127 is taken as it is read.
MintOutputsOnAltstackAsRead ==
    Skip(1) \o Syms(<<"dup", "size">>) \o int(4) \o Syms(<<"sub", "split", "swap", "hash256", "rot">>)
    \o Skip(9) \o SplitAt(11) \o sym("swap") \o data(Label) \o sym("equalverify")
    \o SplitAt(1) \o Syms(<<"swap", "split", "drop", "toaltstack">>)

\* Leaves the outputs that may be minted on the altstack.
MintOutputsOnAltstack ==
    Skip(1) \o Syms(<<"dup", "size">>) \o int(4) \o Syms(<<"sub", "split", "swap", "hash256", "rot">>)
    \o Skip(9) \o SplitAt(11) \o sym("swap") \o data(Label) \o sym("equalverify")
    \o SplitAt(1) \o Syms(<<"swap", "dup">>) \o int(0) \o Syms(<<"lessthan", "if">>)
    \o data(Byte(0)) \o Syms(<<"cat", "endif", "split", "drop", "toaltstack">>)

ConstructPreimage ==
    sym("swap") \o data(TypeBytes(SignsAll, 4)) \o Syms(<<"cat", "cat", "rot">>)
    \o data(LE(ORACLE_TX_SATS, 8))
    \o Syms(<<"swap", "cat", "swap", "cat", "rot", "size", "swap", "cat", "swap", "cat">>)
    \o int(4) \o Syms(<<"roll", "swap", "cat", "cat", "rot", "swap", "cat", "rot", "swap", "cat">>)

OracleSigned ==
    Syms(<<"sha256", "swap", "size">>) \o int(1) \o Syms(<<"sub", "split", "drop", "swap">>)
    \o data(PubKey(AuthKey)) \o sym("checkdatasigverify")

\* Faulty: the minter's signature is checked, and what it is over is not looked into.
IntrospectNothing == Syms(<<"drop", "fromaltstack", "drop">>)

Introspect ==
    Syms(<<"3dup", "sha256", "rot", "size", "1sub", "split", "drop", "swap", "rot", "checkdatasigverify", "size">>)
    \o int(40) \o Syms(<<"sub", "split">>)
    \o SplitAt(32) \o Syms(<<"drop", "fromaltstack", "hash256", "equalverify", "drop">>)

mintOutscript ==
    SplitInput \o MintOutputsOnAltstack \o ConstructPreimage \o OracleSigned \o Introspect \o sym("checksig")

\* Where the oracle's preimage is complete.
PreimageConstructed == Len(SplitInput \o MintOutputsOnAltstack \o ConstructPreimage) + 1

-----------------------------------------------------------------------------

Covenants == {"mintCovenantV2", "mintOutscript"}
Ops == [c \in Covenants |-> IF c = "mintCovenantV2" THEN mintCovenantV2Ops ELSE mintOutscript]

\* The coin that a covenant's spend takes: its script and its value.
LockingScript(c) == Piece("script", c, 200)
CoinValue(c)     == IF c = "mintCovenantV2" THEN VAULT_SATS ELSE STAMP_TX_SATS
=============================================================================
