---------------------------- MODULE MC_Withdrawal ----------------------------
(* Instances of Withdrawal for TLC. *)
EXTENDS Withdrawal, TLC

CONSTANTS c1, c2, k1, k2, u1

MCOwner == (c1 :> k1) @@ (c2 :> u1)
MCWorth == (c1 :> 4) @@ (c2 :> 3)

\* The burn that withdraws all of a coin.
Plain(c) ==
    [burn |-> [coin |-> c, inputs |-> 1, outputs |-> 1, pushes |-> "direct", token |-> "ours",
               asset |-> ServiceAssetId, chain |-> "ours", quantity |-> Worth[c],
               recipient |-> Owner[c]],
     input0 |-> [key |-> Owner[c], sighash |-> "ALL|FORKID|ANYONECANPAY",
                 scheme |-> "ECDSA", verifies |-> TRUE]]

BurnField(b) == UNION {
    {[b EXCEPT !.inputs = n] : n \in 1..2},
    {[b EXCEPT !.outputs = n] : n \in 0..3},
    {[b EXCEPT !.pushes = p] : p \in Pushes},
    {[b EXCEPT !.token = "other"], [b EXCEPT !.chain = "other"]},
    {[b EXCEPT !.asset = a] : a \in AssetIds},
    {[b EXCEPT !.quantity = q] : q \in 0..5},
    {[b EXCEPT !.recipient = k] : k \in PubKeys} }

SigField(i) == UNION {
    {[i EXCEPT !.key = k] : k \in PubKeys},
    {[i EXCEPT !.sighash = h] : h \in Sighashes},
    {[i EXCEPT !.scheme = "Schnorr"], [i EXCEPT !.verifies = FALSE]} }

\* Burns with up to two fields amiss, signed with up to one.
MCSubmissions ==
    UNION {[burn : UNION {BurnField(b) : b \in BurnField(Plain(c).burn)},
            input0 : SigField(Plain(c).input0)] : c \in Coins}

MCPlain == {Plain(c) : c \in Coins}
=============================================================================
