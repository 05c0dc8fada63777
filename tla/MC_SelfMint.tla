------------------------------ MODULE MC_SelfMint ------------------------------
(* Instances of SelfMint for TLC. *)
EXTENDS SelfMint, Deployment, TLC

CONSTANTS d1, d2

-----------------------------------------------------------------------------
(* mintCovenantV2 *)

MCRecipient == (d1 :> "r1") @@ (d2 :> "r2")
MCVault == (d1 :> [txid |-> "t1", index |-> 1]) @@ (d2 :> [txid |-> "t2", index |-> 0])
MCNetAmounts == (d1 :> {1, 11, 24, 26, 28}) @@ (d2 :> {10})

Fee == [txid |-> "t0", index |-> 2]
Signing(ins, outs) == [tx |-> [ins |-> ins, outs |-> outs], index |-> 1, type |-> SignsAll]

\* s with other inputs, or other outputs, or another hash type.
OneOff(s, insSet, outsSet) == UNION {
    UNION {{[s EXCEPT !.tx.ins = i, !.index = n] : n \in DOMAIN i} : i \in insSet},
    {[s EXCEPT !.tx.outs = o] : o \in outsSet},
    {[s EXCEPT !.type = t] : t \in HashTypes}}
\* s and another, in every mixture of what is broadcast, signed and shown.
Mixed(s, others, auth) ==
    UNION {{SpendRecord(r, o, w, "m", "m", auth) : r \in {s, t}, o \in {s, t}, w \in {s, t}} : t \in others}

Ins == {<<Vault[d1]>>, <<Vault[d1], Fee>>, <<Fee, Vault[d1]>>, <<Vault[d2]>>, <<Vault[d2], Vault[d1]>>, <<Fee>>}
Outs(d) == <<Mint(5), Pay(Recipient[d], SLP_DUST_SATS)>>
Outputs ==
    {Outs(d1), Outs(d2), <<Outs(d1)[1]>>, <<Outs(d1)[2], Outs(d1)[1]>>, Outs(d1) \o <<Pay("r2", 700)>>,
     [Outs(d1) EXCEPT ![1] = Mint(6)], [Outs(d1) EXCEPT ![2] = Pay("r1", 700)]}
Plain == Signing(<<Vault[d1]>>, Outs(d1))
ForOneInput == [Plain EXCEPT !.type.anyoneCanPay = TRUE]
By(d, key) == [dep |-> d, by |-> key]

\* One transaction in up to two respects unlike the plain one; the plain one and another
\* in every mixture; the plain one with any keys and messages.
MCSpends ==
    {SpendRecord(s, s, s, "m", "m", By(d1, AuthKey)) :
        s \in UNION {OneOff(t, Ins, Outputs) : t \in OneOff(Plain, Ins, Outputs)}}
    \cup {SpendRecord(s, s, s, "m", "m", By(d2, AuthKey)) : s \in OneOff(Plain, Ins, Outputs)}
    \cup Mixed(Plain, OneOff(Plain, Ins, Outputs), By(d1, AuthKey))
    \cup Mixed(ForOneInput, OneOff(ForOneInput, Ins, {}), By(d1, AuthKey))
    \cup {SpendRecord(Plain, Plain, Plain, p, k, By(d, by)) : p \in Keys, k \in Keys, d \in Deposits, by \in Keys}

-----------------------------------------------------------------------------
(* mintOutscript *)

Coin(txid, value, key, from, type) ==
    [txid |-> txid, index |-> 0, value |-> value, ring |-> toOracleRing(key, from, type)]

MCCoins ==
    {Coin("c1", GENESIS_TX_SATS, "auth", "secret", "genesis"), Coin("c2", ORACLE_TX_SATS, "auth", "ring", "in"),
     Coin("c3", SLP_DUST_SATS, "auth", "secret", "out"), Coin("c4", ORACLE_TX_SATS, "m", "secret", "in")}

MCRequest ==
    ("a1" :> [recipient |-> "r1", amount |-> 5, more |-> << >>, transactionId |-> "x1"])
    @@ ("a2" :> [recipient |-> "r2", amount |-> 6, more |-> <<Pay("r1", 700)>>, transactionId |-> "x2"])
    @@ ("a3" :> [recipient |-> "r2", amount |-> 7, more |-> << >>, transactionId |-> ""])

Attested(a) ==
    Signing(<<Stamp(a)>>, buildOracleInTx(Request[a], PubKey(AuthKey))[1].to)
ForOneStamp == [Attested("a1") EXCEPT !.type.anyoneCanPay = TRUE]
Others ==
    {[Attested("a1") EXCEPT !.tx.outs = o] :
        o \in {Attested("a2").tx.outs, <<Mint(5)>>, <<Mint(6), Pay("r1", SLP_DUST_SATS)>>}}
    \cup {[Attested("a1") EXCEPT !.tx.ins = i] : i \in {<<Stamp("a1"), Fee>>, <<Stamp("a2")>>}}
    \cup {[Attested("a1") EXCEPT !.type.outputs = t] : t \in {"NONE", "SINGLE"}}

MCOracleSpends ==
    UNION {{SpendRecord(Attested(a), Attested(a), Attested(a), "m", k, b) : b \in {"a1", "a2", "a3"}, k \in Keys} :
              a \in {"a1", "a2"}}
    \cup Mixed(Attested("a1"), Others, "a1")
    \cup Mixed(ForOneStamp, {[ForOneStamp EXCEPT !.tx.ins = <<Stamp("a1"), Fee>>]}, "a1")

-----------------------------------------------------------------------------
(* The genesis: every pair of ways that its fields can be, and every deployment of a    *)
(* plain one.                                                                           *)

Text(n) == IF n = 0 THEN << >> ELSE IF n = 1 THEN Byte(84) ELSE Piece("text", n, n)
Token1 == [ticker |-> Text(4), name |-> Text(11), url |-> Text(0), docHash |-> Text(0), decimals |-> 1, quantity |-> 0]
Unlike(m) ==
    {[m EXCEPT !.ticker = Text(n)] : n \in {0, 1, 76}} \cup {[m EXCEPT !.name = Text(n)] : n \in {0, 75, 255}}
    \cup {[m EXCEPT !.url = x] : x \in {Byte(16), Text(76), Text(200), Text(256)}} \cup {[m EXCEPT !.docHash = Text(n)] : n \in {20, 32}}
    \cup {[m EXCEPT !.decimals = n] : n \in {0, 2, 3}} \cup {[m EXCEPT !.quantity = 5]}
MCMetadata == UNION {Unlike(m) : m \in Unlike(Token1)} \cup Unlike(Token1) \cup {Token1}

MCIssuers == {toOracleRing("auth", from, type) : from \in {"secret", "ring"}, type \in {"in", "out"}}
MCDeployments ==
    [tokenDecimals : {0, 1, 3}, fee : {0, 1, 3, 4, 7}, authorizer : {"auth"}, refundDelay : {1}]
    \cup [tokenDecimals : {1}, fee : {0}, authorizer : {"auth", "zero"}, refundDelay : {0, 1}]

\* They share no variable; one moves while the other has not begun.
MCInit == Init /\ DeployInit
MCSpec ==
    /\ MCInit
    /\ [][\/ issued = << >> /\ Next /\ UNCHANGED deployVars
          \/ /\ script = "mintOutscript" /\ verdict = "idle" /\ coins = Coins
             /\ DeployNext /\ UNCHANGED vars
         ]_<<vars, deployVars>>
    /\ WF_vars(runCovenant /\ UNCHANGED <<mintVars, oracleVars>>)
===============================================================================
