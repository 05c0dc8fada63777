------------------------------ MODULE Deployment ------------------------------
(***************************************************************************)
(* A wrapped token from its genesis to the lock that bridges it: the SDK   *)
(* writes the genesis transaction (oracle.ts, script.ts), and the lock's   *)
(* constructor reads it from the raw bytes and fixes the precision and the *)
(* fee for good (BridgeLock.sol).                                          *)
(***************************************************************************)
EXTENDS OracleMint, Decimals

CONSTANTS
    MaxXecDecimals,  \* 9
    Metadata,        \* TokenMetadata: [ticker, name, url, docHash, decimals, quantity]
    Issuers,         \* the rings a genesis may be issued with
    Deployments      \* the constructor's other arguments, see Construct

VARIABLES
    issued,     \* the genesis transaction and its metadata, << >> before
    lock,       \* the lock's immutables, << >> before
    tried,      \* what the constructor was called with, << >> before
    outcome     \* "none", "deployed" or "reverted"

deployVars == <<issued, lock, tried, outcome>>

\* The fields are bytes; the other arguments are what their types allow.
ASSUME DeploymentAssumption ==
    /\ MaxXecDecimals \in Nat
    /\ \A m \in Metadata :
          /\ \A x \in {m.ticker, m.name, m.url, m.docHash} : IsString(x)
          /\ m.decimals \in Nat /\ m.quantity \in Nat
    /\ \A ring \in Issuers : \E key \in Keys, from \in {"secret", "ring"}, type \in {"genesis", "in", "out"} :
          ring = toOracleRing(key, from, type)
    /\ \A args \in Deployments : args.tokenDecimals \in Nat /\ args.fee \in Nat /\ args.refundDelay \in Nat

Precision(tokenDecimals, decimals) ==
    INSTANCE Decimals WITH TokenDecimals <- tokenDecimals, XecDecimals <- decimals

-----------------------------------------------------------------------------
(* The SDK *)

\* An empty field is OP_PUSHDATA1 of nothing.
PushSlpField(x) == IF x = << >> THEN Byte(76) \o Byte(0) ELSE PushData(x)

GenesisPushes(m, mintVaultScripthash, quantity) ==
    <<PushData(Piece("ascii", "SLP", 4)), PushPush(Byte(2)), PushData(Piece("ascii", "GENESIS", 7)),
      PushSlpField(m.ticker), PushSlpField(m.name), PushSlpField(m.url), PushSlpField(m.docHash),
      PushPush(Byte(m.decimals)), PushData(mintVaultScripthash), PushData(quantity)>>
GenesisOpReturn(m, mintVaultScripthash, quantity) ==
    Byte(106) \o Concat(GenesisPushes(m, mintVaultScripthash, quantity))

\* Faulty: the quantity in the byte order of an output's value.
GenesisOfLittleEndian(m, mintVaultScripthash) == GenesisOpReturn(m, mintVaultScripthash, LE(m.quantity, 8))

buildGenesisOpReturnV2(m, mintVaultScripthash) == GenesisOpReturn(m, mintVaultScripthash, BE(m.quantity, 8))

MintVault(ring) == Piece("hash160", <<"mintOutscript", PushedData(ring[6])>>, 20)

buildGenesisTx(ring, m) ==
    LET coin == [txid |-> "funds", index |-> 0, value |-> GENESIS_TX_SATS, ring |-> ring]
        outs == <<Raw(Serialize(0, buildGenesisOpReturnV2(m, MintVault(ring)))), Lock(ring, ORACLE_TX_SATS)>>
    IN  [ins |-> <<coin>>, outs |-> outs, items |-> fundOracleTx(outs, coin, "")]

-----------------------------------------------------------------------------
(* The contract.  The script of output 0 *)

IsByte(s)    == s # << >> /\ IsNumber(First(s, 1))
FirstByte(s) == s[1].says[2]

\* Faulty: every count is one byte.
ByteSized(s) == FirstByte(s)
_readVarInt(s) == IF FirstByte(s) < 253 THEN FirstByte(s) ELSE Rest(s, 1)[1].says[2]
AfterVarInt(s) == Rest(s, IF FirstByte(s) < 253 THEN 1 ELSE 3)

\* What follows an input, and so many of them.
AfterInput(s) ==
    LET scriptSig == Rest(s, 36)
    IN  Rest(AfterVarInt(scriptSig), _readVarInt(scriptSig) + 4)
AfterInputs(s) == LET after[i \in Nat] == IF i = 0 THEN s ELSE AfterInput(after[i - 1]) IN after

_firstOutputScript(raw) ==
    LET inputs  == Rest(raw, 4)
        outputs == AfterInputs(AfterVarInt(inputs))[_readVarInt(inputs)]
        first   == Rest(AfterVarInt(outputs), 8)
    IN  First(AfterVarInt(first), _readVarInt(first))

\* A push: none, direct, or OP_PUSHDATA1; it must not run past the end.
PushStart(s)  == Rest(s, IF FirstByte(s) = 76 THEN 2 ELSE 1)
PushLength(s) == IF FirstByte(s) = 76 THEN FirstByte(Rest(s, 1)) ELSE FirstByte(s)
Readable(s) ==
    /\ IsByte(s) /\ FirstByte(s) <= 76
    /\ FirstByte(s) = 76 => IsByte(Rest(s, 1))
    /\ Width(PushStart(s)) >= PushLength(s)
readPush(s)  == First(PushStart(s), PushLength(s))
AfterPush(s) == IF Readable(s) THEN Rest(PushStart(s), PushLength(s)) ELSE << >>

\* The ten pushes of a genesis, in order: what each is read from, and says.
PushesFrom(s) == LET from[i \in 1..10] == IF i = 1 THEN Rest(s, 1) ELSE AfterPush(from[i - 1]) IN from
IsGenesis(s) ==
    /\ IsByte(s) /\ FirstByte(s) = 106
    /\ LET from == PushesFrom(s)
       IN  /\ \A i \in 1..10 : Readable(from[i])
           /\ readPush(from[1]) = Piece("ascii", "SLP", 4)
           /\ readPush(from[2]) = Byte(2)
           /\ readPush(from[3]) = Piece("ascii", "GENESIS", 7)
           /\ Width(readPush(from[7])) \in {0, 32}
           /\ Width(readPush(from[8])) = 1
           /\ Width(readPush(from[9])) = 20
           /\ Width(readPush(from[10])) = 8
\* Of bytes in another order, some other number.
_bytesToUint64BE(x) == IF x[1].says[1] = "BE" THEN x[1].says[2] ELSE -1
_parseGenesisOpReturn(s) ==
    LET from == PushesFrom(s)
    IN  [ticker |-> readPush(from[4]), name |-> readPush(from[5]), decimals |-> FirstByte(readPush(from[8])),
         mintVaultScripthash |-> readPush(from[9]), genesisQuantity |-> _bytesToUint64BE(readPush(from[10]))]

_reverseBytes32(x) == Piece("reversed", x, 32)

\* The fee in wrapped units, of a fee in the token's.
FeeAmountXec(fee, tokenDecimals, decimals) ==
    LET scale == Precision(tokenDecimals, decimals)!Scale
    IN  IF Precision(tokenDecimals, decimals)!XecHasMorePrecision THEN fee * scale ELSE fee \div scale

\* Faulty: any fee.
AnyFee(fee, feeXec) == TRUE
FeeFits(fee, feeXec) == (fee > 0 => feeXec > 0) /\ feeXec < Uint64Max

-----------------------------------------------------------------------------

DeployInit == issued = << >> /\ lock = << >> /\ tried = << >> /\ outcome = "none"

\* buildGenesisTx(): it throws on a ring it cannot sign with.
Issue(ring, m) ==
    /\ issued = << >> /\ getOracleScriptType(ring) # "invalid"
    /\ issued' = [tx |-> buildGenesisTx(ring, m), metadata |-> m]
    /\ UNCHANGED <<lock, tried, outcome>>

\* The constructor, with a raw transaction and [tokenDecimals, fee, authorizer, refundDelay].
Construct(o, args) ==
    /\ issued # << >> /\ outcome = "none"
    /\ LET output == _firstOutputScript(toRaw(o))
           says   == _parseGenesisOpReturn(output)
           feeXec == FeeAmountXec(args.fee, args.tokenDecimals, says.decimals)
       IN  IF /\ args.authorizer # "zero" /\ args.refundDelay # 0
              /\ IsGenesis(output) /\ says.decimals <= MaxXecDecimals
              /\ FeeFits(args.fee, feeXec)
             THEN /\ outcome' = "deployed"
                  /\ lock' = [genesis |-> says, args |-> args, feeAmountXec |-> feeXec,
                              xecTokenId |-> _reverseBytes32(HASH256(toRaw(o)))]
             ELSE outcome' = "reverted" /\ lock' = << >>
    /\ tried' = [tx |-> o, args |-> args]
    /\ UNCHANGED issued

\* The genesis, or a transaction like it that is none: its outputs swapped, a mint, an
\* attestation.
Presented ==
    LET tx == issued.tx
    IN  {tx, [tx EXCEPT !.outs = <<tx.outs[2], tx.outs[1]>>], [tx EXCEPT !.outs = <<Mint(5)>>],
         [tx EXCEPT !.outs = <<Oracle("in", <<Mint(5)>>)>>]}

DeployNext ==
    \/ \E ring \in Issuers, m \in Metadata : Issue(ring, m)
    \/ issued # << >> /\ \E o \in Presented, args \in Deployments : Construct(o, args)

DeploySpec == DeployInit /\ [][DeployNext]_deployVars

-----------------------------------------------------------------------------
(* Correctness *)

\* BridgeLock.sol, constructor: what a lock holds for good about its token is what the
\* issuer said in the genesis, field by field, and no other transaction makes a lock.
DeployedAsIssued ==
    outcome = "deployed" =>
        /\ lock.xecTokenId = _reverseBytes32(HASH256(toRaw(issued.tx)))
        /\ LET m == issued.metadata
           IN  lock.genesis = [ticker |-> m.ticker, name |-> m.name, decimals |-> m.decimals,
                               mintVaultScripthash |-> MintVault(issued.tx.ins[1].ring),
                               genesisQuantity |-> m.quantity]

\* The contract can read every genesis the SDK writes, with any of its fields empty or
\* long, up to the 255 bytes of its longest push, but for a single byte that is pushed by
\* an opcode: when it reverts, the deployer gave it another transaction, or chose what
\* cannot be had.
IssuedIsDeployable ==
    outcome = "reverted" =>
        LET m    == issued.metadata
            args == tried.args
        IN  ~ /\ tried.tx = issued.tx
              /\ \A x \in {m.ticker, m.name, m.url} : Width(x) <= 255 /\ ~HasOpcode(x)
              /\ Width(m.docHash) \in {0, 32} /\ m.decimals <= MaxXecDecimals
              /\ args.authorizer # "zero" /\ args.refundDelay > 0
              /\ args.fee = 0 \/ FeeAmountXec(args.fee, args.tokenDecimals, m.decimals) \in 1..(Uint64Max - 1)

\* BridgeLock.sol, constructor: no fee bricks every withdrawal while deposits still lock
\* funds: some quantity that a burn can have leaves a payout after the fee.  The check
\* misses the fees within one unit of the token of the largest quantity.
DeployedIsWithdrawable ==
    outcome = "deployed" =>
        LET t    == lock.args.tokenDecimals
            x    == lock.genesis.decimals
            unit == IF Precision(t, x)!XecHasMorePrecision THEN Precision(t, x)!Scale ELSE 1
        IN  \/ \E quantity \in (lock.feeAmountXec + 1)..Uint64Max : (quantity - lock.feeAmountXec) \div unit > 0
            \/ lock.feeAmountXec \in (Uint64Max - unit + 1)..(Uint64Max - 1)
===============================================================================
