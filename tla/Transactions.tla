------------------------------ MODULE Transactions ------------------------------
(***************************************************************************)
(* The eCash transactions the SDK writes and signs: the SLP mint and       *)
(* payment outputs, the serialization of scripts and outputs, and the      *)
(* BIP143 preimage (preimage.ts), with its hash types.                     *)
(***************************************************************************)
EXTENDS ByteStrings

CONSTANT Token   \* xecTokenId, the token that is minted

SLP_DUST_SATS == 546

Data(x) == Byte(Width(x)) \o x
PushPush(x) == Data(x)
\* The shortest push: OP_1..OP_16 for those bytes, OP_PUSHDATA1 above 75, then OP_PUSHDATA2.
HasOpcode(x) == Width(x) = 1 /\ x[1].says[2] \in 1..16
PushData(x) ==
    IF HasOpcode(x) THEN Byte(80 + x[1].says[2])
    ELSE IF Width(x) <= 75 THEN Data(x)
    ELSE IF Width(x) <= 255 THEN Byte(76) \o Data(x)
    ELSE Byte(77) \o LE(Width(x), 2) \o x

P2PKH(recipient) ==
    Byte(118) \o Byte(169) \o Data(Piece("hash160", recipient, 20)) \o Byte(136) \o Byte(172)
P2SH(name) == Byte(169) \o Data(Piece("hash160", name, 20)) \o Byte(135)

\* A count of bytes is one byte, or three above 252.
VarBytes(x) == IF Width(x) < 253 THEN Data(x) ELSE Byte(253) \o LE(Width(x), 2) \o x

Serialize(value, script) == LE(value, 8) \o VarBytes(script)

Txid(t, order) == Piece("txid", <<t, order>>, 32)
TokenId(t) == Piece("tokenId", t, 32)

buildMintOpReturnV2(token, quantity) ==
    Byte(106) \o PushData(Piece("ascii", "SLP", 4)) \o PushPush(Byte(2))
              \o PushData(Piece("ascii", "MINT", 4)) \o PushData(token) \o PushData(BE(quantity, 8))

-----------------------------------------------------------------------------
(* A transaction is [ins, outs]: its outpoints, and what its outputs are for *)

Mint(quantity)       == [kind |-> "mint", to |-> Token, amount |-> quantity]
Pay(recipient, sats) == [kind |-> "pay", to |-> recipient, amount |-> sats]
Lock(name, sats)     == [kind |-> "script", to |-> name, amount |-> sats]
\* An output that is known by its bytes.
Raw(bytes)           == [kind |-> "raw", to |-> bytes, amount |-> 0]
\* OP_RETURN "CTRL", version 1 and a message: outputs to mint ("in"), or a payout ("out").
Oracle(type, message) == [kind |-> type, to |-> message, amount |-> 0]

IsOutpoint(u) == u = [txid |-> u.txid, index |-> u.index]
\* An output that is known by what it is for.
IsOutput(o) == o = [kind |-> o.kind, to |-> o.to, amount |-> o.amount] /\ o.kind \in {"mint", "pay", "script"}

\* What an attestation lists is written as any output but an attestation is.
PlainOutputBytes(o) ==
    CASE o.kind = "mint"   -> Serialize(0, buildMintOpReturnV2(TokenId(o.to), o.amount))
      [] o.kind = "pay"    -> Serialize(o.amount, P2PKH(o.to))
      [] o.kind = "script" -> Serialize(o.amount, P2SH(o.to))
      [] o.kind = "raw"    -> o.to
buildInOracle(outputs) == Concat([i \in DOMAIN outputs |-> PlainOutputBytes(outputs[i])])
buildOutOracle(payout) == BE(payout.amount, 8) \o Piece("ethAddress", payout.recipient, 20)

\* The opcodes and pushes of the script of output o, an oracle's.
OracleOpReturn(o) ==
    <<Byte(106), PushData(Piece("ascii", "CTRL", 4)), PushPush(Byte(1)),
      PushPush(Byte(IF o.kind = "in" THEN 1 ELSE 2)),
      PushData(IF o.kind = "in" THEN buildInOracle(o.to) ELSE buildOutOracle(o.to))>>
OutputBytes(o) ==
    IF o.kind \in {"in", "out"} THEN Serialize(0, Concat(OracleOpReturn(o))) ELSE PlainOutputBytes(o)

OutpointBytes(u) == Txid(u.txid, "internal") \o LE(u.index, 4)
OutputsBytes(tx) == Concat([i \in DOMAIN tx.outs |-> OutputBytes(tx.outs[i])])

HashTypes == [outputs : {"ALL", "NONE", "SINGLE"}, anyoneCanPay : BOOLEAN]
SignsAll  == [outputs |-> "ALL", anyoneCanPay |-> FALSE]
TypeBytes(type, width) == Piece("type", type, width)

ZERO_HASH == Piece("zero", 0, 32)

HashPrevouts(tx, type) ==
    IF type.anyoneCanPay THEN ZERO_HASH
    ELSE HASH256(Concat([i \in DOMAIN tx.ins |-> OutpointBytes(tx.ins[i])]))
HashSequence(tx, type) ==
    IF type.anyoneCanPay \/ type.outputs # "ALL" THEN ZERO_HASH
    ELSE HASH256(Concat([i \in DOMAIN tx.ins |-> Piece("sequence", 0, 4)]))
HashOutputs(tx, index, type) ==
    CASE type.outputs = "ALL" -> HASH256(OutputsBytes(tx))
      [] type.outputs = "SINGLE" /\ index <= Len(tx.outs) -> HASH256(OutputBytes(tx.outs[index]))
      [] OTHER -> ZERO_HASH

\* What input s.index of s.tx, a coin of script prev and this value, signs with type s.type.
getPreimage(s, prev, value) ==
    Piece("version", 2, 4)
    \o HashPrevouts(s.tx, s.type) \o HashSequence(s.tx, s.type)
    \o OutpointBytes(s.tx.ins[s.index])
    \o Data(prev) \o LE(value, 8) \o Piece("sequence", 0, 4)
    \o HashOutputs(s.tx, s.index, s.type)
    \o Piece("locktime", 0, 4) \o TypeBytes(s.type, 4)

\* Outputs, and what is signed, in a transaction whose outputs are known by what they are for.
AreOutputs(outs) ==
    outs \in Seq({outs[i] : i \in DOMAIN outs}) /\ \A i \in 1..Len(outs) : IsOutput(outs[i])
IsSigning(s) ==
    /\ s.tx.ins \in Seq({s.tx.ins[i] : i \in DOMAIN s.tx.ins})
    /\ \A i \in 1..Len(s.tx.ins) : IsOutpoint(s.tx.ins[i])
    /\ AreOutputs(s.tx.outs) /\ s.index \in 1..Len(s.tx.ins)

\* s and t sign the same: whoever signs for one input only leaves the others open.
SignsAlike(s, t) ==
    /\ s.type = t.type /\ s.tx.outs = t.tx.outs
    /\ s.tx.ins[s.index] = t.tx.ins[t.index]
    /\ s.type.anyoneCanPay \/ s.tx.ins = t.tx.ins
=============================================================================
