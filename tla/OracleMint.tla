------------------------------ MODULE OracleMint ------------------------------
(***************************************************************************)
(* The earlier way to mint (oracle.ts): the oracle signs an eCash          *)
(* transaction that lists the outputs to mint and pays a stamp to the      *)
(* covenant mintOutscript; whoever spends the stamp presents the raw       *)
(* transaction, and the script builds anew what the oracle signed.         *)
(***************************************************************************)
EXTENDS ScriptMachine

CONSTANTS
    Coins,        \* the oracle's coins at first: [txid, index, value, ring]
    Requests,     \* the names of the attestations that may be asked for
    Request,      \* name -> [recipient, amount, more, transactionId]
    OracleSpends  \* the spends of a stamp that are tried

GENESIS_TX_SATS == 4800

VARIABLES
    coins,      \* the oracle's unspent coins
    oracleTx    \* name -> its attestation, << >> before

oracleVars == <<coins, oracleTx>>

-----------------------------------------------------------------------------
(* The oracle's rings and transactions; a script is its opcodes and pushes  *)

OP_DROP     == Byte(117)
OP_NIP      == Byte(119)
OP_CHECKSIG == Byte(172)

PushedData(push) == Rest(push, IF First(push, 1) = Byte(76) THEN 2 ELSE 1)

\* A secret gives a compressed key; a key ring is converted to an uncompressed one.
toOracleRing(key, from, type) ==
    <<IF type = "out" THEN OP_DROP ELSE OP_NIP,
      Data(Piece("networkId", "ETH", 8)), OP_DROP, Data(Piece("assetId", "lock", 32)), OP_DROP,
      Data(IF from = "secret" THEN PubKey(key) ELSE Piece("uncompressed", key, 65)), OP_CHECKSIG>>

getOracleScriptType(ring) ==
    IF Width(PushedData(ring[6])) \notin {33, 55} THEN "invalid"
    ELSE IF ring[1] = OP_DROP THEN "out" ELSE "in"

\* The oracle's rings are toOracleRing()'s.  What an attestation lists is what buildInOracle()
\* takes, up to five outputs, of which the mint is the only OP_RETURN.
ASSUME OracleAssumption ==
    /\ \A c \in Coins : \E key \in Keys, from \in {"secret", "ring"}, type \in {"in", "out", "genesis"} :
          c.ring = toOracleRing(key, from, type)
    /\ \A a \in Requests :
          /\ AreOutputs(Request[a].more) /\ Len(Request[a].more) <= 3
          /\ \A i \in 1..Len(Request[a].more) : Request[a].more[i].kind # "mint"
    /\ \A s \in OracleSpends :
          /\ IsSigning(s.real) /\ IsSigning(s.over) /\ IsSigning(s.shown)
          /\ s.key \in Keys /\ s.auth \in Requests

\* The outputs to mint: two, and buildInOracle() takes up to five.
OutputsToMint(request) ==
    <<Mint(request.amount), Pay(request.recipient, SLP_DUST_SATS)>> \o request.more
buildOracleInTx(request, pubkey) ==
    <<Oracle("in", OutputsToMint(request)),
      Lock(<<"mintOutscript", pubkey>>, STAMP_TX_SATS)>>
buildOracleOutTx(request) ==
    <<Oracle("out", [amount |-> request.amount, recipient |-> request.recipient])>>

\* What signs coin c as the only input, and the script of that input.
SigningOracle(c, outs) == [tx |-> [ins |-> <<c>>, outs |-> outs], index |-> 1, type |-> SignsAll]
KeyOf(ring) == CHOOSE k \in Keys : PushedData(ring[6]) \in {PubKey(k), Piece("uncompressed", k, 65)}

\* Faulty: the signature goes first, as in an "out" attestation.
FundedSignatureFirst(outs, c, transactionId) ==
    LET preimage  == getPreimage(SigningOracle(c, outs), Concat(c.ring), c.value)
        signature == Signature(KeyOf(c.ring), HASH256(preimage)) \o TypeBytes(SignsAll, 1)
    IN  IF getOracleScriptType(c.ring) = "out"
          THEN <<signature, Byte(27), Concat(c.ring)>>
          ELSE <<signature, Piece("depositTx", transactionId, 32), Concat(c.ring)>>

fundOracleTx(outs, c, transactionId) ==
    LET preimage  == getPreimage(SigningOracle(c, outs), Concat(c.ring), c.value)
        signature == Signature(KeyOf(c.ring), HASH256(preimage)) \o TypeBytes(SignsAll, 1)
    IN  IF getOracleScriptType(c.ring) = "out"
          THEN <<signature, Byte(27), Concat(c.ring)>>
          ELSE <<Piece("depositTx", transactionId, 32), signature, Concat(c.ring)>>

buildOracleTx(c, request) ==
    LET outs == IF getOracleScriptType(c.ring) = "out"
                  THEN buildOracleOutTx(request)
                  ELSE buildOracleInTx(request, PushedData(c.ring[6]))
    IN  [ins |-> <<c>>, outs |-> outs, items |-> fundOracleTx(outs, c, request.transactionId)]

toRaw(o) ==
    Piece("version", 2, 4) \o Byte(1) \o OutpointBytes(o.ins[1])
        \o Data(Concat([i \in DOMAIN o.items |-> PushData(o.items[i])])) \o Piece("sequence", 0, 4)
        \o Byte(Len(o.outs)) \o OutputsBytes(o) \o Piece("locktime", 0, 4)

\* The content of a field with its length, and what follows it.
Field(x)      == First(Rest(x, 1), x[1].says[2])
AfterField(x) == Rest(x, 1 + x[1].says[2])

\* Output after output: a value and a script.
parseInOracle(content) ==
    LET read[k \in 0..Len(content)] ==
            IF k = 0 THEN [outs |-> << >>, rest |-> content]
            ELSE LET sofar  == read[k - 1]
                     output == Rest(sofar.rest, 8)
                 IN  IF sofar.rest = << >> THEN sofar
                     ELSE [outs |-> Append(sofar.outs, Raw(First(sofar.rest, 8) \o Data(Field(output)))),
                           rest |-> AfterField(output)]
    IN  read[Len(content)].outs
parseOutOracle(content) ==
    [amount |-> First(content, 8), ethAddress |-> First(Rest(content, 8), 20)]

\* Its OP_RETURN says what it is; the ring in its input's script must agree.
parseOracleTx(o) ==
    LET opReturn == OracleOpReturn(o.outs[1])
        type     == IF PushedData(opReturn[4]) = Byte(1) THEN "in" ELSE "out"
        content  == PushedData(opReturn[5])
        ring     == o.ins[1].ring
        valid    == /\ Len(o.outs) = (IF type = "in" THEN 2 ELSE 1)
                    /\ getOracleScriptType(ring) = type
                    /\ type = "in" => Width(o.items[1]) = 32
    IN  IF ~valid THEN << >>
        ELSE [type |-> type,
              content |-> IF type = "in" THEN parseInOracle(content) ELSE parseOutOracle(content),
              authPubkey |-> PushedData(ring[6]),
              transactionId |-> IF type = "in" THEN o.items[1] ELSE << >>,
              signature |-> IF type = "in" THEN o.items[2] ELSE o.items[1]]

\* The stamp of attestation a, and what its mint signs.
Stamp(a) == [txid |-> a, index |-> 1]
buildMintTx(a) ==
    [tx |-> [ins |-> <<Stamp(a)>>, outs |-> parseOracleTx(oracleTx[a]).content],
     index |-> 1, type |-> SignsAll]

-----------------------------------------------------------------------------
(* What mintOutscript leaves of a raw attestation, in plain TypeScript *)

RawInput(raw)     == Rest(raw, 5)
RawSignature(raw) == Rest(RawInput(raw), 36 + 34)
\* A script above 75 bytes is pushed with a length of its own.
RawScript(raw) ==
    LET push == AfterField(RawSignature(raw))
    IN  IF First(push, 1) = Byte(76) THEN Rest(push, 1) ELSE push
RawSequence(raw) == AfterField(RawScript(raw))
RawOutputs(raw)  == Rest(RawSequence(raw), 5)
RawMint(raw)     == Rest(RawOutputs(raw), 9 + 11)

buildPreImage(raw) ==
    LET input    == First(RawInput(raw), 36)
        sequence == First(RawSequence(raw), 4)
        outputs  == RawOutputs(raw)
        outside  == Width(outputs) - 4
    IN  [preimage  |-> First(raw, 4) \o HASH256(input) \o HASH256(sequence)
                         \o input \o Data(Field(RawScript(raw))) \o LE(ORACLE_TX_SATS, 8)
                         \o sequence \o HASH256(First(outputs, outside))
                         \o Rest(outputs, outside) \o TypeBytes(SignsAll, 4),
         signature |-> Field(RawSignature(raw)),
         altStack  |-> <<Field(RawMint(raw))>>]

-----------------------------------------------------------------------------

OracleInit == coins = Coins /\ oracleTx = [a \in Requests |-> << >>]

\* buildOracleTx() and its broadcast; it throws on a ring or a request that is not valid.
Attest(a, c) ==
    /\ script = "mintOutscript" /\ oracleTx[a] = << >> /\ c \in coins
    /\ getOracleScriptType(c.ring) # "invalid"
    /\ getOracleScriptType(c.ring) = "in" => Request[a].transactionId # ""
    /\ oracleTx' = [oracleTx EXCEPT ![a] = buildOracleTx(c, Request[a])]
    /\ coins' = coins \ {c}
    /\ UNCHANGED machineVars

\* buildGenesisTx() and its broadcast: it signs for a coin of one value, and leaves the
\* oracle the coin of its first attestation.
Genesis(c) ==
    /\ script = "mintOutscript" /\ c \in coins
    /\ getOracleScriptType(c.ring) # "invalid" /\ c.value = GENESIS_TX_SATS
    /\ coins' = (coins \ {c}) \cup
                   {[txid |-> "genesis", index |-> 1, value |-> ORACLE_TX_SATS, ring |-> c.ring]}
    /\ UNCHANGED <<oracleTx, machineVars>>

IsIn(a) == oracleTx[a] # << >> /\ oracleTx[a].outs[1].kind = "in"

\* A spend of a stamp of this covenant, with attestation s.auth.
SubmitMint(s) ==
    /\ script = "mintOutscript"
    /\ \E a \in Requests :
          /\ IsIn(a) /\ s.real.tx.ins[s.real.index] = Stamp(a)
          /\ oracleTx[a].outs[2].to = <<"mintOutscript", PubKey(AuthKey)>>
    /\ oracleTx[s.auth] # << >>
    /\ Load(s, <<toRaw(oracleTx[s.auth])>>)
    /\ UNCHANGED oracleVars

OracleNext ==
    \/ \E c \in coins : Genesis(c) \/ \E a \in Requests : Attest(a, c)
    \/ \E s \in OracleSpends : SubmitMint(s)

-----------------------------------------------------------------------------
(* Correctness *)

\* The oracle of the covenant attested a, with a coin of the value the script holds.
AttestedFor(a) ==
    /\ IsIn(a)
    /\ PushedData(oracleTx[a].ins[1].ring[6]) = PubKey(AuthKey)
    /\ oracleTx[a].ins[1].value = ORACLE_TX_SATS

\* script.ts, mintOutscript: whatever attestation is presented, by whichever oracle, and
\* with any hash type, a spend that is accepted pays exactly the outputs that this covenant's
\* oracle attested, and is what the minter signed and showed, over all of its outputs.
AcceptsOnlyAttested ==
    verdict = "accepted" /\ script = "mintOutscript" =>
        /\ \E a \in Requests : AttestedFor(a) /\ spend.real.tx.outs = oracleTx[a].outs[1].to
        /\ spend.real.type.outputs = "ALL"
        /\ SignsAlike(spend.real, spend.shown) /\ SignsAlike(spend.real, spend.over)
        /\ spend.pubkey = spend.key

SameSigning(s, t) ==
    /\ s.tx.ins = t.tx.ins /\ OutputsBytes(s.tx) = OutputsBytes(t.tx)
    /\ s.index = t.index /\ s.type = t.type

\* What an attestation is for: the transaction buildMintTx() makes of it is accepted,
\* whoever mints, whether it lists two outputs or more.
AttestedIsAccepted ==
    verdict = "rejected" /\ script = "mintOutscript" =>
        ~ /\ AttestedFor(spend.auth)
          /\ SameSigning(spend.real, buildMintTx(spend.auth))
          /\ spend.over = spend.real /\ spend.shown = spend.real /\ spend.pubkey = spend.key

\* An attestation's bytes have three readers: parseOracleTx(), the script, and script.ts's
\* buildPreImage, which mirrors the script.  The first reads what was attested: the outputs
\* or the payout, the deposit, the oracle's key and a signature over the transaction by
\* that key.  Where the script has built the preimage it checks the signature over, it
\* holds what the mirror returns.
ReadersAgree ==
    /\ \A a \in Requests : oracleTx[a] # << >> =>
        LET o       == oracleTx[a]
            parsed  == parseOracleTx(o)
            minted  == OutputsToMint(Request[a])
        IN  /\ parsed # << >>
            /\ IF parsed.type = "in"
                 THEN /\ parsed.content = [i \in DOMAIN minted |-> Raw(OutputBytes(minted[i]))]
                      /\ parsed.transactionId = Piece("depositTx", Request[a].transactionId, 32)
                 ELSE parsed.content = [amount |-> BE(Request[a].amount, 8),
                                        ethAddress |-> Piece("ethAddress", Request[a].recipient, 20)]
            /\ Verifies(HASH256(getPreimage(SigningOracle(o.ins[1], o.outs), Concat(o.ins[1].ring), o.ins[1].value)),
                        First(parsed.signature, Width(parsed.signature) - 1), parsed.authPubkey)
    /\ verdict = "running" /\ script = "mintOutscript" /\ pc = PreimageConstructed =>
        LET mirror == buildPreImage(toRaw(oracleTx[spend.auth]))
        IN  /\ Top(0) = mirror.preimage /\ Top(1) = mirror.signature
            /\ alt = mirror.altStack
=============================================================================
