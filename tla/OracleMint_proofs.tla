--------------------------- MODULE OracleMint_proofs ---------------------------
(***************************************************************************)
(* For every set of deposits, amounts, keys and mints: what the earlier    *)
(* covenant, mintOutscript, accepts is what the oracle attested, what it   *)
(* attested is accepted, and the two readers of an attestation agree.  The *)
(* run of the script is followed opcode by opcode, as mintCovenantV2's is, *)
(* through an outpoint and a preimage that it rebuilds.                    *)
(***************************************************************************)
EXTENDS SelfMint_proofs

-----------------------------------------------------------------------------
(* The opcodes of the covenant mintOutscript *)

\* Where two sequences joined have items.
LEMMA JoinedDomain ==
    ASSUME NEW s, NEW t, Len(s) \in Nat, Len(t) \in Nat
    PROVE  DOMAIN (s \o t) = 1..(Len(s) + Len(t))
OBVIOUS

\* The opcodes of mintOutscript's section that takes the input's items apart, one by one,
LEMMA Ops_SplitInput ==
    /\ Len(SplitInput) = 37
    /\ SplitInput[1] = [op |-> "push", arg |-> Number(4)]
    /\ SplitInput[2] = [op |-> "split", arg |-> << >>]
    /\ SplitInput[3] = [op |-> "push", arg |-> Number(1)]
    /\ SplitInput[4] = [op |-> "split", arg |-> << >>]
    /\ SplitInput[5] = [op |-> "nip", arg |-> << >>]
    /\ SplitInput[6] = [op |-> "push", arg |-> Number(36)]
    /\ SplitInput[7] = [op |-> "split", arg |-> << >>]
    /\ SplitInput[8] = [op |-> "toaltstack", arg |-> << >>]
    /\ SplitInput[9] = [op |-> "dup", arg |-> << >>]
    /\ SplitInput[10] = [op |-> "hash256", arg |-> << >>]
    /\ SplitInput[11] = [op |-> "fromaltstack", arg |-> << >>]
    /\ SplitInput[12] = [op |-> "push", arg |-> Number(34)]
    /\ SplitInput[13] = [op |-> "split", arg |-> << >>]
    /\ SplitInput[14] = [op |-> "nip", arg |-> << >>]
    /\ SplitInput[15] = [op |-> "push", arg |-> Number(1)]
    /\ SplitInput[16] = [op |-> "split", arg |-> << >>]
    /\ SplitInput[17] = [op |-> "swap", arg |-> << >>]
    /\ SplitInput[18] = [op |-> "split", arg |-> << >>]
    /\ SplitInput[19] = [op |-> "push", arg |-> Number(1)]
    /\ SplitInput[20] = [op |-> "split", arg |-> << >>]
    /\ SplitInput[21] = [op |-> "swap", arg |-> << >>]
    /\ SplitInput[22] = [op |-> "dup", arg |-> << >>]
    /\ SplitInput[23] = [op |-> "push", arg |-> Byte(76)]
    /\ SplitInput[24] = [op |-> "equal", arg |-> << >>]
    /\ SplitInput[25] = [op |-> "if", arg |-> << >>]
    /\ SplitInput[26] = [op |-> "drop", arg |-> << >>]
    /\ SplitInput[27] = [op |-> "push", arg |-> Number(1)]
    /\ SplitInput[28] = [op |-> "split", arg |-> << >>]
    /\ SplitInput[29] = [op |-> "swap", arg |-> << >>]
    /\ SplitInput[30] = [op |-> "endif", arg |-> << >>]
    /\ SplitInput[31] = [op |-> "split", arg |-> << >>]
    /\ SplitInput[32] = [op |-> "push", arg |-> Number(4)]
    /\ SplitInput[33] = [op |-> "split", arg |-> << >>]
    /\ SplitInput[34] = [op |-> "swap", arg |-> << >>]
    /\ SplitInput[35] = [op |-> "dup", arg |-> << >>]
    /\ SplitInput[36] = [op |-> "hash256", arg |-> << >>]
    /\ SplitInput[37] = [op |-> "rot", arg |-> << >>]
BY DEF SplitInput, Syms, data, sym, int, SplitAt, Skip

\* that takes the outputs apart,
LEMMA Ops_MintOutputsOnAltstack ==
    /\ Len(MintOutputsOnAltstack) = 32
    /\ MintOutputsOnAltstack[1] = [op |-> "push", arg |-> Number(1)]
    /\ MintOutputsOnAltstack[2] = [op |-> "split", arg |-> << >>]
    /\ MintOutputsOnAltstack[3] = [op |-> "nip", arg |-> << >>]
    /\ MintOutputsOnAltstack[4] = [op |-> "dup", arg |-> << >>]
    /\ MintOutputsOnAltstack[5] = [op |-> "size", arg |-> << >>]
    /\ MintOutputsOnAltstack[6] = [op |-> "push", arg |-> Number(4)]
    /\ MintOutputsOnAltstack[7] = [op |-> "sub", arg |-> << >>]
    /\ MintOutputsOnAltstack[8] = [op |-> "split", arg |-> << >>]
    /\ MintOutputsOnAltstack[9] = [op |-> "swap", arg |-> << >>]
    /\ MintOutputsOnAltstack[10] = [op |-> "hash256", arg |-> << >>]
    /\ MintOutputsOnAltstack[11] = [op |-> "rot", arg |-> << >>]
    /\ MintOutputsOnAltstack[12] = [op |-> "push", arg |-> Number(9)]
    /\ MintOutputsOnAltstack[13] = [op |-> "split", arg |-> << >>]
    /\ MintOutputsOnAltstack[14] = [op |-> "nip", arg |-> << >>]
    /\ MintOutputsOnAltstack[15] = [op |-> "push", arg |-> Number(11)]
    /\ MintOutputsOnAltstack[16] = [op |-> "split", arg |-> << >>]
    /\ MintOutputsOnAltstack[17] = [op |-> "swap", arg |-> << >>]
    /\ MintOutputsOnAltstack[18] = [op |-> "push", arg |-> Label]
    /\ MintOutputsOnAltstack[19] = [op |-> "equalverify", arg |-> << >>]
    /\ MintOutputsOnAltstack[20] = [op |-> "push", arg |-> Number(1)]
    /\ MintOutputsOnAltstack[21] = [op |-> "split", arg |-> << >>]
    /\ MintOutputsOnAltstack[22] = [op |-> "swap", arg |-> << >>]
    /\ MintOutputsOnAltstack[23] = [op |-> "dup", arg |-> << >>]
    /\ MintOutputsOnAltstack[24] = [op |-> "push", arg |-> Number(0)]
    /\ MintOutputsOnAltstack[25] = [op |-> "lessthan", arg |-> << >>]
    /\ MintOutputsOnAltstack[26] = [op |-> "if", arg |-> << >>]
    /\ MintOutputsOnAltstack[27] = [op |-> "push", arg |-> Byte(0)]
    /\ MintOutputsOnAltstack[28] = [op |-> "cat", arg |-> << >>]
    /\ MintOutputsOnAltstack[29] = [op |-> "endif", arg |-> << >>]
    /\ MintOutputsOnAltstack[30] = [op |-> "split", arg |-> << >>]
    /\ MintOutputsOnAltstack[31] = [op |-> "drop", arg |-> << >>]
    /\ MintOutputsOnAltstack[32] = [op |-> "toaltstack", arg |-> << >>]
BY DEF MintOutputsOnAltstack, Syms, data, sym, int, SplitAt, Skip

\* that puts the oracle's preimage together,
LEMMA Ops_ConstructPreimage ==
    /\ Len(ConstructPreimage) = 27
    /\ ConstructPreimage[1] = [op |-> "swap", arg |-> << >>]
    /\ ConstructPreimage[2] = [op |-> "push", arg |-> TypeBytes(SignsAll, 4)]
    /\ ConstructPreimage[3] = [op |-> "cat", arg |-> << >>]
    /\ ConstructPreimage[4] = [op |-> "cat", arg |-> << >>]
    /\ ConstructPreimage[5] = [op |-> "rot", arg |-> << >>]
    /\ ConstructPreimage[6] = [op |-> "push", arg |-> LE(ORACLE_TX_SATS, 8)]
    /\ ConstructPreimage[7] = [op |-> "swap", arg |-> << >>]
    /\ ConstructPreimage[8] = [op |-> "cat", arg |-> << >>]
    /\ ConstructPreimage[9] = [op |-> "swap", arg |-> << >>]
    /\ ConstructPreimage[10] = [op |-> "cat", arg |-> << >>]
    /\ ConstructPreimage[11] = [op |-> "rot", arg |-> << >>]
    /\ ConstructPreimage[12] = [op |-> "size", arg |-> << >>]
    /\ ConstructPreimage[13] = [op |-> "swap", arg |-> << >>]
    /\ ConstructPreimage[14] = [op |-> "cat", arg |-> << >>]
    /\ ConstructPreimage[15] = [op |-> "swap", arg |-> << >>]
    /\ ConstructPreimage[16] = [op |-> "cat", arg |-> << >>]
    /\ ConstructPreimage[17] = [op |-> "push", arg |-> Number(4)]
    /\ ConstructPreimage[18] = [op |-> "roll", arg |-> << >>]
    /\ ConstructPreimage[19] = [op |-> "swap", arg |-> << >>]
    /\ ConstructPreimage[20] = [op |-> "cat", arg |-> << >>]
    /\ ConstructPreimage[21] = [op |-> "cat", arg |-> << >>]
    /\ ConstructPreimage[22] = [op |-> "rot", arg |-> << >>]
    /\ ConstructPreimage[23] = [op |-> "swap", arg |-> << >>]
    /\ ConstructPreimage[24] = [op |-> "cat", arg |-> << >>]
    /\ ConstructPreimage[25] = [op |-> "rot", arg |-> << >>]
    /\ ConstructPreimage[26] = [op |-> "swap", arg |-> << >>]
    /\ ConstructPreimage[27] = [op |-> "cat", arg |-> << >>]
BY DEF ConstructPreimage, Syms, data, sym, int, SplitAt, Skip

\* that checks the oracle's signature over it,
LEMMA Ops_OracleSigned ==
    /\ Len(OracleSigned) = 10
    /\ OracleSigned[1] = [op |-> "sha256", arg |-> << >>]
    /\ OracleSigned[2] = [op |-> "swap", arg |-> << >>]
    /\ OracleSigned[3] = [op |-> "size", arg |-> << >>]
    /\ OracleSigned[4] = [op |-> "push", arg |-> Number(1)]
    /\ OracleSigned[5] = [op |-> "sub", arg |-> << >>]
    /\ OracleSigned[6] = [op |-> "split", arg |-> << >>]
    /\ OracleSigned[7] = [op |-> "drop", arg |-> << >>]
    /\ OracleSigned[8] = [op |-> "swap", arg |-> << >>]
    /\ OracleSigned[9] = [op |-> "push", arg |-> PubKey(AuthKey)]
    /\ OracleSigned[10] = [op |-> "checkdatasigverify", arg |-> << >>]
BY DEF OracleSigned, Syms, data, sym, int, SplitAt, Skip

\* and that checks the minter's signature and the outputs.
LEMMA Ops_Introspect ==
    /\ Len(Introspect) = 21
    /\ Introspect[1] = [op |-> "3dup", arg |-> << >>]
    /\ Introspect[2] = [op |-> "sha256", arg |-> << >>]
    /\ Introspect[3] = [op |-> "rot", arg |-> << >>]
    /\ Introspect[4] = [op |-> "size", arg |-> << >>]
    /\ Introspect[5] = [op |-> "1sub", arg |-> << >>]
    /\ Introspect[6] = [op |-> "split", arg |-> << >>]
    /\ Introspect[7] = [op |-> "drop", arg |-> << >>]
    /\ Introspect[8] = [op |-> "swap", arg |-> << >>]
    /\ Introspect[9] = [op |-> "rot", arg |-> << >>]
    /\ Introspect[10] = [op |-> "checkdatasigverify", arg |-> << >>]
    /\ Introspect[11] = [op |-> "size", arg |-> << >>]
    /\ Introspect[12] = [op |-> "push", arg |-> Number(40)]
    /\ Introspect[13] = [op |-> "sub", arg |-> << >>]
    /\ Introspect[14] = [op |-> "split", arg |-> << >>]
    /\ Introspect[15] = [op |-> "push", arg |-> Number(32)]
    /\ Introspect[16] = [op |-> "split", arg |-> << >>]
    /\ Introspect[17] = [op |-> "drop", arg |-> << >>]
    /\ Introspect[18] = [op |-> "fromaltstack", arg |-> << >>]
    /\ Introspect[19] = [op |-> "hash256", arg |-> << >>]
    /\ Introspect[20] = [op |-> "equalverify", arg |-> << >>]
    /\ Introspect[21] = [op |-> "drop", arg |-> << >>]
BY DEF Introspect, Syms, data, sym, int, SplitAt, Skip

\* Where each section of mintOutscript begins, and where its preimage is complete.
LEMMA OpsOutscript ==
    /\ Len(mintOutscript) = 128
    /\ \A i \in 1..37 : mintOutscript[i] = SplitInput[i]
    /\ \A i \in 1..32 : mintOutscript[37 + i] = MintOutputsOnAltstack[i]
    /\ \A i \in 1..27 : mintOutscript[69 + i] = ConstructPreimage[i]
    /\ \A i \in 1..10 : mintOutscript[96 + i] = OracleSigned[i]
    /\ \A i \in 1..21 : mintOutscript[106 + i] = Introspect[i]
    /\ mintOutscript[128] = [op |-> "checksig", arg |-> << >>]
    /\ PreimageConstructed = 97
    /\ DOMAIN mintOutscript = 1..128
<1> DEFINE a == SplitInput
           b == MintOutputsOnAltstack
           c == ConstructPreimage
           d == OracleSigned
           e == Introspect
           g == sym("checksig")
<1>1. Len(a) = 37 /\ Len(b) = 32 /\ Len(c) = 27 /\ Len(d) = 10 /\ Len(e) = 21
  BY Ops_SplitInput, Ops_MintOutputsOnAltstack, Ops_ConstructPreimage, Ops_OracleSigned, Ops_Introspect
<1>2. Len(g) = 1 /\ g[1] = [op |-> "checksig", arg |-> << >>]
  BY DEF sym
<1> HIDE DEF a, b, c, d, e, g
<1> DEFINE s2 == a \o b
           s3 == s2 \o c
           s4 == s3 \o d
           s5 == s4 \o e
           s6 == s5 \o g
<1>3. mintOutscript = s6 /\ PreimageConstructed = Len(s3) + 1
  BY DEF mintOutscript, PreimageConstructed, a, b, c, d, e, g
<1> HIDE DEF s2, s3, s4, s5, s6
<1>4. Len(s2) = 69 /\ (\A i \in 1..37 : s2[i] = a[i]) /\ \A i \in 1..32 : s2[37 + i] = b[i]
  <2>1. Len(a) = 37 /\ Len(b) = 32
    BY <1>1, <1>2
  <2>2. Len(a) \in Nat /\ Len(b) \in Nat
    BY <2>1
  <2>3. /\ Len(s2) = Len(a) + Len(b)
        /\ \A i \in 1..Len(a) : s2[i] = a[i]
        /\ \A i \in 1..Len(b) : s2[Len(a) + i] = b[i]
    BY <2>2, Appended DEF s2
  <2> QED BY <2>1, <2>3
<1>5. Len(s3) = 96 /\ (\A i \in 1..69 : s3[i] = s2[i]) /\ \A i \in 1..27 : s3[69 + i] = c[i]
  <2>1. Len(s2) = 69 /\ Len(c) = 27
    BY <1>1, <1>2, <1>4
  <2>2. Len(s2) \in Nat /\ Len(c) \in Nat
    BY <2>1
  <2>3. /\ Len(s3) = Len(s2) + Len(c)
        /\ \A i \in 1..Len(s2) : s3[i] = s2[i]
        /\ \A i \in 1..Len(c) : s3[Len(s2) + i] = c[i]
    BY <2>2, Appended DEF s3
  <2> QED BY <2>1, <2>3
<1>6. Len(s4) = 106 /\ (\A i \in 1..96 : s4[i] = s3[i]) /\ \A i \in 1..10 : s4[96 + i] = d[i]
  <2>1. Len(s3) = 96 /\ Len(d) = 10
    BY <1>1, <1>2, <1>5
  <2>2. Len(s3) \in Nat /\ Len(d) \in Nat
    BY <2>1
  <2>3. /\ Len(s4) = Len(s3) + Len(d)
        /\ \A i \in 1..Len(s3) : s4[i] = s3[i]
        /\ \A i \in 1..Len(d) : s4[Len(s3) + i] = d[i]
    BY <2>2, Appended DEF s4
  <2> QED BY <2>1, <2>3
<1>7. Len(s5) = 127 /\ (\A i \in 1..106 : s5[i] = s4[i]) /\ \A i \in 1..21 : s5[106 + i] = e[i]
  <2>1. Len(s4) = 106 /\ Len(e) = 21
    BY <1>1, <1>2, <1>6
  <2>2. Len(s4) \in Nat /\ Len(e) \in Nat
    BY <2>1
  <2>3. /\ Len(s5) = Len(s4) + Len(e)
        /\ \A i \in 1..Len(s4) : s5[i] = s4[i]
        /\ \A i \in 1..Len(e) : s5[Len(s4) + i] = e[i]
    BY <2>2, Appended DEF s5
  <2> QED BY <2>1, <2>3
<1>8. Len(s6) = 128 /\ (\A i \in 1..127 : s6[i] = s5[i]) /\ \A i \in 1..1 : s6[127 + i] = g[i]
  <2>1. Len(s5) = 127 /\ Len(g) = 1
    BY <1>1, <1>2, <1>7
  <2>2. Len(s5) \in Nat /\ Len(g) \in Nat
    BY <2>1
  <2>3. /\ Len(s6) = Len(s5) + Len(g)
        /\ \A i \in 1..Len(s5) : s6[i] = s5[i]
        /\ \A i \in 1..Len(g) : s6[Len(s5) + i] = g[i]
    BY <2>2, Appended DEF s6
  <2> QED BY <2>1, <2>3
<1>9. \A i \in 1..37 : s6[i] = a[i]
  BY <1>4, <1>5, <1>6, <1>7, <1>8
<1>10. \A i \in 1..32 : s6[37 + i] = b[i]
  BY <1>4, <1>5, <1>6, <1>7, <1>8
<1>11. \A i \in 1..27 : s6[69 + i] = c[i]
  BY <1>5, <1>6, <1>7, <1>8
<1>12. \A i \in 1..10 : s6[96 + i] = d[i]
  BY <1>6, <1>7, <1>8
<1>13. \A i \in 1..21 : s6[106 + i] = e[i]
  BY <1>7, <1>8
<1>14. s6[128] = [op |-> "checksig", arg |-> << >>]
  BY <1>2, <1>8
<1>15. DOMAIN s6 = 1..128
  <2>1. Len(s5) = 127
    BY <1>7
  <2>2. Len(s5) \in Nat /\ Len(g) \in Nat
    BY <1>2, <2>1
  <2>3. DOMAIN s6 = 1..(Len(s5) + Len(g))
    BY <2>2, JoinedDomain DEF s6
  <2> QED BY <1>2, <2>1, <2>3
<1> QED
  BY <1>3, <1>5, <1>8, <1>9, <1>10, <1>11, <1>12, <1>13, <1>14, <1>15 DEF a, b, c, d, e

\* Before which opcode the version and the input are taken.
LEMMA TakeInputOpcodes ==
    ASSUME runCovenant, script = "mintOutscript"
    PROVE  /\ pc = 1 => Push /\ Arg = Number(4)
           /\ pc = 2 => Split
           /\ pc = 3 => Push /\ Arg = Number(1)
           /\ pc = 4 => Split
           /\ pc = 5 => Nip
           /\ pc = 6 => Push /\ Arg = Number(36)
           /\ pc = 7 => Split
           /\ pc = 8 => ToAltStack
           /\ pc = 9 => Dup
           /\ pc = 10 => Hash256
           /\ pc = 11 => FromAltStack
<1>1. Ops[script] = mintOutscript
  BY DEF Ops, Covenants
<1>2. pc = 1 => Ops[script][pc] = [op |-> "push", arg |-> Number(4)]
  BY <1>1, OpsOutscript, Ops_SplitInput
<1>3. pc = 2 => Ops[script][pc] = [op |-> "split", arg |-> << >>]
  BY <1>1, OpsOutscript, Ops_SplitInput
<1>4. pc = 3 => Ops[script][pc] = [op |-> "push", arg |-> Number(1)]
  BY <1>1, OpsOutscript, Ops_SplitInput
<1>5. pc = 4 => Ops[script][pc] = [op |-> "split", arg |-> << >>]
  BY <1>1, OpsOutscript, Ops_SplitInput
<1>6. pc = 5 => Ops[script][pc] = [op |-> "nip", arg |-> << >>]
  BY <1>1, OpsOutscript, Ops_SplitInput
<1>7. pc = 6 => Ops[script][pc] = [op |-> "push", arg |-> Number(36)]
  BY <1>1, OpsOutscript, Ops_SplitInput
<1>8. pc = 7 => Ops[script][pc] = [op |-> "split", arg |-> << >>]
  BY <1>1, OpsOutscript, Ops_SplitInput
<1>9. pc = 8 => Ops[script][pc] = [op |-> "toaltstack", arg |-> << >>]
  BY <1>1, OpsOutscript, Ops_SplitInput
<1>10. pc = 9 => Ops[script][pc] = [op |-> "dup", arg |-> << >>]
  BY <1>1, OpsOutscript, Ops_SplitInput
<1>11. pc = 10 => Ops[script][pc] = [op |-> "hash256", arg |-> << >>]
  BY <1>1, OpsOutscript, Ops_SplitInput
<1>12. pc = 11 => Ops[script][pc] = [op |-> "fromaltstack", arg |-> << >>]
  BY <1>1, OpsOutscript, Ops_SplitInput
<1> QED
  BY <1>2, <1>3, <1>4, <1>5, <1>6, <1>7, <1>8, <1>9, <1>10, <1>11, <1>12, OnlyOpcode DEF Arg

\* Before which opcode the oracle's signature is taken.
LEMMA TakeSignatureOpcodes ==
    ASSUME runCovenant, script = "mintOutscript"
    PROVE  /\ pc = 12 => Push /\ Arg = Number(34)
           /\ pc = 13 => Split
           /\ pc = 14 => Nip
           /\ pc = 15 => Push /\ Arg = Number(1)
           /\ pc = 16 => Split
           /\ pc = 17 => Swap
           /\ pc = 18 => Split
<1>1. Ops[script] = mintOutscript
  BY DEF Ops, Covenants
<1>2. pc = 12 => Ops[script][pc] = [op |-> "push", arg |-> Number(34)]
  BY <1>1, OpsOutscript, Ops_SplitInput
<1>3. pc = 13 => Ops[script][pc] = [op |-> "split", arg |-> << >>]
  BY <1>1, OpsOutscript, Ops_SplitInput
<1>4. pc = 14 => Ops[script][pc] = [op |-> "nip", arg |-> << >>]
  BY <1>1, OpsOutscript, Ops_SplitInput
<1>5. pc = 15 => Ops[script][pc] = [op |-> "push", arg |-> Number(1)]
  BY <1>1, OpsOutscript, Ops_SplitInput
<1>6. pc = 16 => Ops[script][pc] = [op |-> "split", arg |-> << >>]
  BY <1>1, OpsOutscript, Ops_SplitInput
<1>7. pc = 17 => Ops[script][pc] = [op |-> "swap", arg |-> << >>]
  BY <1>1, OpsOutscript, Ops_SplitInput
<1>8. pc = 18 => Ops[script][pc] = [op |-> "split", arg |-> << >>]
  BY <1>1, OpsOutscript, Ops_SplitInput
<1> QED
  BY <1>2, <1>3, <1>4, <1>5, <1>6, <1>7, <1>8, OnlyOpcode DEF Arg

\* Before which opcode the ring is taken.
LEMMA TakeRingOpcodes ==
    ASSUME runCovenant, script = "mintOutscript"
    PROVE  /\ pc = 19 => Push /\ Arg = Number(1)
           /\ pc = 20 => Split
           /\ pc = 21 => Swap
           /\ pc = 22 => Dup
           /\ pc = 23 => Push /\ Arg = Byte(76)
           /\ pc = 24 => Equal
           /\ pc = 25 => If
           /\ pc = 26 => DropTop
           /\ pc = 27 => Push /\ Arg = Number(1)
           /\ pc = 28 => Split
           /\ pc = 29 => Swap
           /\ pc = 30 => EndIf
           /\ pc = 31 => Split
<1>1. Ops[script] = mintOutscript
  BY DEF Ops, Covenants
<1>2. pc = 19 => Ops[script][pc] = [op |-> "push", arg |-> Number(1)]
  BY <1>1, OpsOutscript, Ops_SplitInput
<1>3. pc = 20 => Ops[script][pc] = [op |-> "split", arg |-> << >>]
  BY <1>1, OpsOutscript, Ops_SplitInput
<1>4. pc = 21 => Ops[script][pc] = [op |-> "swap", arg |-> << >>]
  BY <1>1, OpsOutscript, Ops_SplitInput
<1>5. pc = 22 => Ops[script][pc] = [op |-> "dup", arg |-> << >>]
  BY <1>1, OpsOutscript, Ops_SplitInput
<1>6. pc = 23 => Ops[script][pc] = [op |-> "push", arg |-> Byte(76)]
  BY <1>1, OpsOutscript, Ops_SplitInput
<1>7. pc = 24 => Ops[script][pc] = [op |-> "equal", arg |-> << >>]
  BY <1>1, OpsOutscript, Ops_SplitInput
<1>8. pc = 25 => Ops[script][pc] = [op |-> "if", arg |-> << >>]
  BY <1>1, OpsOutscript, Ops_SplitInput
<1>9. pc = 26 => Ops[script][pc] = [op |-> "drop", arg |-> << >>]
  BY <1>1, OpsOutscript, Ops_SplitInput
<1>10. pc = 27 => Ops[script][pc] = [op |-> "push", arg |-> Number(1)]
  BY <1>1, OpsOutscript, Ops_SplitInput
<1>11. pc = 28 => Ops[script][pc] = [op |-> "split", arg |-> << >>]
  BY <1>1, OpsOutscript, Ops_SplitInput
<1>12. pc = 29 => Ops[script][pc] = [op |-> "swap", arg |-> << >>]
  BY <1>1, OpsOutscript, Ops_SplitInput
<1>13. pc = 30 => Ops[script][pc] = [op |-> "endif", arg |-> << >>]
  BY <1>1, OpsOutscript, Ops_SplitInput
<1>14. pc = 31 => Ops[script][pc] = [op |-> "split", arg |-> << >>]
  BY <1>1, OpsOutscript, Ops_SplitInput
<1> QED
  BY <1>2, <1>3, <1>4, <1>5, <1>6, <1>7, <1>8, <1>9, <1>10, <1>11, <1>12, <1>13, <1>14, OnlyOpcode DEF Arg

\* Before which opcode the sequence is taken.
LEMMA TakeSequenceOpcodes ==
    ASSUME runCovenant, script = "mintOutscript"
    PROVE  /\ pc = 32 => Push /\ Arg = Number(4)
           /\ pc = 33 => Split
           /\ pc = 34 => Swap
           /\ pc = 35 => Dup
           /\ pc = 36 => Hash256
           /\ pc = 37 => Rot
<1>1. Ops[script] = mintOutscript
  BY DEF Ops, Covenants
<1>2. pc = 32 => Ops[script][pc] = [op |-> "push", arg |-> Number(4)]
  BY <1>1, OpsOutscript, Ops_SplitInput
<1>3. pc = 33 => Ops[script][pc] = [op |-> "split", arg |-> << >>]
  BY <1>1, OpsOutscript, Ops_SplitInput
<1>4. pc = 34 => Ops[script][pc] = [op |-> "swap", arg |-> << >>]
  BY <1>1, OpsOutscript, Ops_SplitInput
<1>5. pc = 35 => Ops[script][pc] = [op |-> "dup", arg |-> << >>]
  BY <1>1, OpsOutscript, Ops_SplitInput
<1>6. pc = 36 => Ops[script][pc] = [op |-> "hash256", arg |-> << >>]
  BY <1>1, OpsOutscript, Ops_SplitInput
<1>7. pc = 37 => Ops[script][pc] = [op |-> "rot", arg |-> << >>]
  BY <1>1, OpsOutscript, Ops_SplitInput
<1> QED
  BY <1>2, <1>3, <1>4, <1>5, <1>6, <1>7, OnlyOpcode DEF Arg

\* Before which opcode the outputs are taken.
LEMMA TakeOutputsOpcodes ==
    ASSUME runCovenant, script = "mintOutscript"
    PROVE  /\ pc = 38 => Push /\ Arg = Number(1)
           /\ pc = 39 => Split
           /\ pc = 40 => Nip
           /\ pc = 41 => Dup
           /\ pc = 42 => Size
           /\ pc = 43 => Push /\ Arg = Number(4)
           /\ pc = 44 => Sub
           /\ pc = 45 => Split
           /\ pc = 46 => Swap
           /\ pc = 47 => Hash256
           /\ pc = 48 => Rot
<1>1. Ops[script] = mintOutscript
  BY DEF Ops, Covenants
<1>2. pc = 38 => Ops[script][pc] = [op |-> "push", arg |-> Number(1)]
  BY <1>1, OpsOutscript, Ops_MintOutputsOnAltstack
<1>3. pc = 39 => Ops[script][pc] = [op |-> "split", arg |-> << >>]
  BY <1>1, OpsOutscript, Ops_MintOutputsOnAltstack
<1>4. pc = 40 => Ops[script][pc] = [op |-> "nip", arg |-> << >>]
  BY <1>1, OpsOutscript, Ops_MintOutputsOnAltstack
<1>5. pc = 41 => Ops[script][pc] = [op |-> "dup", arg |-> << >>]
  BY <1>1, OpsOutscript, Ops_MintOutputsOnAltstack
<1>6. pc = 42 => Ops[script][pc] = [op |-> "size", arg |-> << >>]
  BY <1>1, OpsOutscript, Ops_MintOutputsOnAltstack
<1>7. pc = 43 => Ops[script][pc] = [op |-> "push", arg |-> Number(4)]
  BY <1>1, OpsOutscript, Ops_MintOutputsOnAltstack
<1>8. pc = 44 => Ops[script][pc] = [op |-> "sub", arg |-> << >>]
  BY <1>1, OpsOutscript, Ops_MintOutputsOnAltstack
<1>9. pc = 45 => Ops[script][pc] = [op |-> "split", arg |-> << >>]
  BY <1>1, OpsOutscript, Ops_MintOutputsOnAltstack
<1>10. pc = 46 => Ops[script][pc] = [op |-> "swap", arg |-> << >>]
  BY <1>1, OpsOutscript, Ops_MintOutputsOnAltstack
<1>11. pc = 47 => Ops[script][pc] = [op |-> "hash256", arg |-> << >>]
  BY <1>1, OpsOutscript, Ops_MintOutputsOnAltstack
<1>12. pc = 48 => Ops[script][pc] = [op |-> "rot", arg |-> << >>]
  BY <1>1, OpsOutscript, Ops_MintOutputsOnAltstack
<1> QED
  BY <1>2, <1>3, <1>4, <1>5, <1>6, <1>7, <1>8, <1>9, <1>10, <1>11, <1>12, OnlyOpcode DEF Arg

\* Before which opcode the label is compared.
LEMMA CompareLabelOpcodes ==
    ASSUME runCovenant, script = "mintOutscript"
    PROVE  /\ pc = 49 => Push /\ Arg = Number(9)
           /\ pc = 50 => Split
           /\ pc = 51 => Nip
           /\ pc = 52 => Push /\ Arg = Number(11)
           /\ pc = 53 => Split
           /\ pc = 54 => Swap
           /\ pc = 55 => Push /\ Arg = Label
           /\ pc = 56 => EqualVerify
<1>1. Ops[script] = mintOutscript
  BY DEF Ops, Covenants
<1>2. pc = 49 => Ops[script][pc] = [op |-> "push", arg |-> Number(9)]
  BY <1>1, OpsOutscript, Ops_MintOutputsOnAltstack
<1>3. pc = 50 => Ops[script][pc] = [op |-> "split", arg |-> << >>]
  BY <1>1, OpsOutscript, Ops_MintOutputsOnAltstack
<1>4. pc = 51 => Ops[script][pc] = [op |-> "nip", arg |-> << >>]
  BY <1>1, OpsOutscript, Ops_MintOutputsOnAltstack
<1>5. pc = 52 => Ops[script][pc] = [op |-> "push", arg |-> Number(11)]
  BY <1>1, OpsOutscript, Ops_MintOutputsOnAltstack
<1>6. pc = 53 => Ops[script][pc] = [op |-> "split", arg |-> << >>]
  BY <1>1, OpsOutscript, Ops_MintOutputsOnAltstack
<1>7. pc = 54 => Ops[script][pc] = [op |-> "swap", arg |-> << >>]
  BY <1>1, OpsOutscript, Ops_MintOutputsOnAltstack
<1>8. pc = 55 => Ops[script][pc] = [op |-> "push", arg |-> Label]
  BY <1>1, OpsOutscript, Ops_MintOutputsOnAltstack
<1>9. pc = 56 => Ops[script][pc] = [op |-> "equalverify", arg |-> << >>]
  BY <1>1, OpsOutscript, Ops_MintOutputsOnAltstack
<1> QED
  BY <1>2, <1>3, <1>4, <1>5, <1>6, <1>7, <1>8, <1>9, OnlyOpcode DEF Arg

\* Before which opcode the outputs to mint are taken.
LEMMA TakeMintOpcodes ==
    ASSUME runCovenant, script = "mintOutscript"
    PROVE  /\ pc = 57 => Push /\ Arg = Number(1)
           /\ pc = 58 => Split
           /\ pc = 59 => Swap
           /\ pc = 60 => Dup
           /\ pc = 61 => Push /\ Arg = Number(0)
           /\ pc = 62 => LessThan
           /\ pc = 63 => If
           /\ pc = 64 => Push /\ Arg = Byte(0)
           /\ pc = 65 => Cat
           /\ pc = 66 => EndIf
           /\ pc = 67 => Split
           /\ pc = 68 => DropTop
           /\ pc = 69 => ToAltStack
<1>1. Ops[script] = mintOutscript
  BY DEF Ops, Covenants
<1>2. pc = 57 => Ops[script][pc] = [op |-> "push", arg |-> Number(1)]
  BY <1>1, OpsOutscript, Ops_MintOutputsOnAltstack
<1>3. pc = 58 => Ops[script][pc] = [op |-> "split", arg |-> << >>]
  BY <1>1, OpsOutscript, Ops_MintOutputsOnAltstack
<1>4. pc = 59 => Ops[script][pc] = [op |-> "swap", arg |-> << >>]
  BY <1>1, OpsOutscript, Ops_MintOutputsOnAltstack
<1>5. pc = 60 => Ops[script][pc] = [op |-> "dup", arg |-> << >>]
  BY <1>1, OpsOutscript, Ops_MintOutputsOnAltstack
<1>6. pc = 61 => Ops[script][pc] = [op |-> "push", arg |-> Number(0)]
  BY <1>1, OpsOutscript, Ops_MintOutputsOnAltstack
<1>7. pc = 62 => Ops[script][pc] = [op |-> "lessthan", arg |-> << >>]
  BY <1>1, OpsOutscript, Ops_MintOutputsOnAltstack
<1>8. pc = 63 => Ops[script][pc] = [op |-> "if", arg |-> << >>]
  BY <1>1, OpsOutscript, Ops_MintOutputsOnAltstack
<1>9. pc = 64 => Ops[script][pc] = [op |-> "push", arg |-> Byte(0)]
  BY <1>1, OpsOutscript, Ops_MintOutputsOnAltstack
<1>10. pc = 65 => Ops[script][pc] = [op |-> "cat", arg |-> << >>]
  BY <1>1, OpsOutscript, Ops_MintOutputsOnAltstack
<1>11. pc = 66 => Ops[script][pc] = [op |-> "endif", arg |-> << >>]
  BY <1>1, OpsOutscript, Ops_MintOutputsOnAltstack
<1>12. pc = 67 => Ops[script][pc] = [op |-> "split", arg |-> << >>]
  BY <1>1, OpsOutscript, Ops_MintOutputsOnAltstack
<1>13. pc = 68 => Ops[script][pc] = [op |-> "drop", arg |-> << >>]
  BY <1>1, OpsOutscript, Ops_MintOutputsOnAltstack
<1>14. pc = 69 => Ops[script][pc] = [op |-> "toaltstack", arg |-> << >>]
  BY <1>1, OpsOutscript, Ops_MintOutputsOnAltstack
<1> QED
  BY <1>2, <1>3, <1>4, <1>5, <1>6, <1>7, <1>8, <1>9, <1>10, <1>11, <1>12, <1>13, <1>14, OnlyOpcode DEF Arg

\* Before which opcode the end of the oracle's preimage is put together.
LEMMA StartPreimageOpcodes ==
    ASSUME runCovenant, script = "mintOutscript"
    PROVE  /\ pc = 70 => Swap
           /\ pc = 71 => Push /\ Arg = TypeBytes(SignsAll, 4)
           /\ pc = 72 => Cat
           /\ pc = 73 => Cat
           /\ pc = 74 => Rot
           /\ pc = 75 => Push /\ Arg = LE(ORACLE_TX_SATS, 8)
           /\ pc = 76 => Swap
           /\ pc = 77 => Cat
           /\ pc = 78 => Swap
           /\ pc = 79 => Cat
           /\ pc = 80 => Rot
           /\ pc = 81 => Size
           /\ pc = 82 => Swap
           /\ pc = 83 => Cat
           /\ pc = 84 => Swap
           /\ pc = 85 => Cat
<1>1. Ops[script] = mintOutscript
  BY DEF Ops, Covenants
<1>2. pc = 70 => Ops[script][pc] = [op |-> "swap", arg |-> << >>]
  BY <1>1, OpsOutscript, Ops_ConstructPreimage
<1>3. pc = 71 => Ops[script][pc] = [op |-> "push", arg |-> TypeBytes(SignsAll, 4)]
  BY <1>1, OpsOutscript, Ops_ConstructPreimage
<1>4. pc = 72 => Ops[script][pc] = [op |-> "cat", arg |-> << >>]
  BY <1>1, OpsOutscript, Ops_ConstructPreimage
<1>5. pc = 73 => Ops[script][pc] = [op |-> "cat", arg |-> << >>]
  BY <1>1, OpsOutscript, Ops_ConstructPreimage
<1>6. pc = 74 => Ops[script][pc] = [op |-> "rot", arg |-> << >>]
  BY <1>1, OpsOutscript, Ops_ConstructPreimage
<1>7. pc = 75 => Ops[script][pc] = [op |-> "push", arg |-> LE(ORACLE_TX_SATS, 8)]
  BY <1>1, OpsOutscript, Ops_ConstructPreimage
<1>8. pc = 76 => Ops[script][pc] = [op |-> "swap", arg |-> << >>]
  BY <1>1, OpsOutscript, Ops_ConstructPreimage
<1>9. pc = 77 => Ops[script][pc] = [op |-> "cat", arg |-> << >>]
  BY <1>1, OpsOutscript, Ops_ConstructPreimage
<1>10. pc = 78 => Ops[script][pc] = [op |-> "swap", arg |-> << >>]
  BY <1>1, OpsOutscript, Ops_ConstructPreimage
<1>11. pc = 79 => Ops[script][pc] = [op |-> "cat", arg |-> << >>]
  BY <1>1, OpsOutscript, Ops_ConstructPreimage
<1>12. pc = 80 => Ops[script][pc] = [op |-> "rot", arg |-> << >>]
  BY <1>1, OpsOutscript, Ops_ConstructPreimage
<1>13. pc = 81 => Ops[script][pc] = [op |-> "size", arg |-> << >>]
  BY <1>1, OpsOutscript, Ops_ConstructPreimage
<1>14. pc = 82 => Ops[script][pc] = [op |-> "swap", arg |-> << >>]
  BY <1>1, OpsOutscript, Ops_ConstructPreimage
<1>15. pc = 83 => Ops[script][pc] = [op |-> "cat", arg |-> << >>]
  BY <1>1, OpsOutscript, Ops_ConstructPreimage
<1>16. pc = 84 => Ops[script][pc] = [op |-> "swap", arg |-> << >>]
  BY <1>1, OpsOutscript, Ops_ConstructPreimage
<1>17. pc = 85 => Ops[script][pc] = [op |-> "cat", arg |-> << >>]
  BY <1>1, OpsOutscript, Ops_ConstructPreimage
<1> QED
  BY <1>2, <1>3, <1>4, <1>5, <1>6, <1>7, <1>8, <1>9, <1>10, <1>11, <1>12, <1>13, <1>14, <1>15, <1>16, <1>17,
     OnlyOpcode DEF Arg

\* Before which opcode the oracle's preimage is put together.
LEMMA FinishPreimageOpcodes ==
    ASSUME runCovenant, script = "mintOutscript"
    PROVE  /\ pc = 86 => Push /\ Arg = Number(4)
           /\ pc = 87 => Roll
           /\ pc = 88 => Swap
           /\ pc = 89 => Cat
           /\ pc = 90 => Cat
           /\ pc = 91 => Rot
           /\ pc = 92 => Swap
           /\ pc = 93 => Cat
           /\ pc = 94 => Rot
           /\ pc = 95 => Swap
           /\ pc = 96 => Cat
<1>1. Ops[script] = mintOutscript
  BY DEF Ops, Covenants
<1>2. pc = 86 => Ops[script][pc] = [op |-> "push", arg |-> Number(4)]
  BY <1>1, OpsOutscript, Ops_ConstructPreimage
<1>3. pc = 87 => Ops[script][pc] = [op |-> "roll", arg |-> << >>]
  BY <1>1, OpsOutscript, Ops_ConstructPreimage
<1>4. pc = 88 => Ops[script][pc] = [op |-> "swap", arg |-> << >>]
  BY <1>1, OpsOutscript, Ops_ConstructPreimage
<1>5. pc = 89 => Ops[script][pc] = [op |-> "cat", arg |-> << >>]
  BY <1>1, OpsOutscript, Ops_ConstructPreimage
<1>6. pc = 90 => Ops[script][pc] = [op |-> "cat", arg |-> << >>]
  BY <1>1, OpsOutscript, Ops_ConstructPreimage
<1>7. pc = 91 => Ops[script][pc] = [op |-> "rot", arg |-> << >>]
  BY <1>1, OpsOutscript, Ops_ConstructPreimage
<1>8. pc = 92 => Ops[script][pc] = [op |-> "swap", arg |-> << >>]
  BY <1>1, OpsOutscript, Ops_ConstructPreimage
<1>9. pc = 93 => Ops[script][pc] = [op |-> "cat", arg |-> << >>]
  BY <1>1, OpsOutscript, Ops_ConstructPreimage
<1>10. pc = 94 => Ops[script][pc] = [op |-> "rot", arg |-> << >>]
  BY <1>1, OpsOutscript, Ops_ConstructPreimage
<1>11. pc = 95 => Ops[script][pc] = [op |-> "swap", arg |-> << >>]
  BY <1>1, OpsOutscript, Ops_ConstructPreimage
<1>12. pc = 96 => Ops[script][pc] = [op |-> "cat", arg |-> << >>]
  BY <1>1, OpsOutscript, Ops_ConstructPreimage
<1> QED
  BY <1>2, <1>3, <1>4, <1>5, <1>6, <1>7, <1>8, <1>9, <1>10, <1>11, <1>12, OnlyOpcode DEF Arg

\* Before which opcode the oracle's signature is checked.
LEMMA CheckOracleOpcodes ==
    ASSUME runCovenant, script = "mintOutscript"
    PROVE  /\ pc = 97 => Sha256
           /\ pc = 98 => Swap
           /\ pc = 99 => Size
           /\ pc = 100 => Push /\ Arg = Number(1)
           /\ pc = 101 => Sub
           /\ pc = 102 => Split
           /\ pc = 103 => DropTop
           /\ pc = 104 => Swap
           /\ pc = 105 => Push /\ Arg = PubKey(AuthKey)
           /\ pc = 106 => CheckDataSigVerify
<1>1. Ops[script] = mintOutscript
  BY DEF Ops, Covenants
<1>2. pc = 97 => Ops[script][pc] = [op |-> "sha256", arg |-> << >>]
  BY <1>1, OpsOutscript, Ops_OracleSigned
<1>3. pc = 98 => Ops[script][pc] = [op |-> "swap", arg |-> << >>]
  BY <1>1, OpsOutscript, Ops_OracleSigned
<1>4. pc = 99 => Ops[script][pc] = [op |-> "size", arg |-> << >>]
  BY <1>1, OpsOutscript, Ops_OracleSigned
<1>5. pc = 100 => Ops[script][pc] = [op |-> "push", arg |-> Number(1)]
  BY <1>1, OpsOutscript, Ops_OracleSigned
<1>6. pc = 101 => Ops[script][pc] = [op |-> "sub", arg |-> << >>]
  BY <1>1, OpsOutscript, Ops_OracleSigned
<1>7. pc = 102 => Ops[script][pc] = [op |-> "split", arg |-> << >>]
  BY <1>1, OpsOutscript, Ops_OracleSigned
<1>8. pc = 103 => Ops[script][pc] = [op |-> "drop", arg |-> << >>]
  BY <1>1, OpsOutscript, Ops_OracleSigned
<1>9. pc = 104 => Ops[script][pc] = [op |-> "swap", arg |-> << >>]
  BY <1>1, OpsOutscript, Ops_OracleSigned
<1>10. pc = 105 => Ops[script][pc] = [op |-> "push", arg |-> PubKey(AuthKey)]
  BY <1>1, OpsOutscript, Ops_OracleSigned
<1>11. pc = 106 => Ops[script][pc] = [op |-> "checkdatasigverify", arg |-> << >>]
  BY <1>1, OpsOutscript, Ops_OracleSigned
<1> QED
  BY <1>2, <1>3, <1>4, <1>5, <1>6, <1>7, <1>8, <1>9, <1>10, <1>11, OnlyOpcode DEF Arg

\* Before which opcode the minter's signature is checked.
LEMMA CheckMinterOpcodes ==
    ASSUME runCovenant, script = "mintOutscript"
    PROVE  /\ pc = 107 => ThreeDup
           /\ pc = 108 => Sha256
           /\ pc = 109 => Rot
           /\ pc = 110 => Size
           /\ pc = 111 => OneSub
           /\ pc = 112 => Split
           /\ pc = 113 => DropTop
           /\ pc = 114 => Swap
           /\ pc = 115 => Rot
           /\ pc = 116 => CheckDataSigVerify
<1>1. Ops[script] = mintOutscript
  BY DEF Ops, Covenants
<1>2. pc = 107 => Ops[script][pc] = [op |-> "3dup", arg |-> << >>]
  BY <1>1, OpsOutscript, Ops_Introspect
<1>3. pc = 108 => Ops[script][pc] = [op |-> "sha256", arg |-> << >>]
  BY <1>1, OpsOutscript, Ops_Introspect
<1>4. pc = 109 => Ops[script][pc] = [op |-> "rot", arg |-> << >>]
  BY <1>1, OpsOutscript, Ops_Introspect
<1>5. pc = 110 => Ops[script][pc] = [op |-> "size", arg |-> << >>]
  BY <1>1, OpsOutscript, Ops_Introspect
<1>6. pc = 111 => Ops[script][pc] = [op |-> "1sub", arg |-> << >>]
  BY <1>1, OpsOutscript, Ops_Introspect
<1>7. pc = 112 => Ops[script][pc] = [op |-> "split", arg |-> << >>]
  BY <1>1, OpsOutscript, Ops_Introspect
<1>8. pc = 113 => Ops[script][pc] = [op |-> "drop", arg |-> << >>]
  BY <1>1, OpsOutscript, Ops_Introspect
<1>9. pc = 114 => Ops[script][pc] = [op |-> "swap", arg |-> << >>]
  BY <1>1, OpsOutscript, Ops_Introspect
<1>10. pc = 115 => Ops[script][pc] = [op |-> "rot", arg |-> << >>]
  BY <1>1, OpsOutscript, Ops_Introspect
<1>11. pc = 116 => Ops[script][pc] = [op |-> "checkdatasigverify", arg |-> << >>]
  BY <1>1, OpsOutscript, Ops_Introspect
<1> QED
  BY <1>2, <1>3, <1>4, <1>5, <1>6, <1>7, <1>8, <1>9, <1>10, <1>11, OnlyOpcode DEF Arg

\* Before which opcode the outputs are compared.
LEMMA CompareOutputsOpcodes ==
    ASSUME runCovenant, script = "mintOutscript"
    PROVE  /\ pc = 117 => Size
           /\ pc = 118 => Push /\ Arg = Number(40)
           /\ pc = 119 => Sub
           /\ pc = 120 => Split
           /\ pc = 121 => Push /\ Arg = Number(32)
           /\ pc = 122 => Split
           /\ pc = 123 => DropTop
           /\ pc = 124 => FromAltStack
           /\ pc = 125 => Hash256
           /\ pc = 126 => EqualVerify
           /\ pc = 127 => DropTop
<1>1. Ops[script] = mintOutscript
  BY DEF Ops, Covenants
<1>2. pc = 117 => Ops[script][pc] = [op |-> "size", arg |-> << >>]
  BY <1>1, OpsOutscript, Ops_Introspect
<1>3. pc = 118 => Ops[script][pc] = [op |-> "push", arg |-> Number(40)]
  BY <1>1, OpsOutscript, Ops_Introspect
<1>4. pc = 119 => Ops[script][pc] = [op |-> "sub", arg |-> << >>]
  BY <1>1, OpsOutscript, Ops_Introspect
<1>5. pc = 120 => Ops[script][pc] = [op |-> "split", arg |-> << >>]
  BY <1>1, OpsOutscript, Ops_Introspect
<1>6. pc = 121 => Ops[script][pc] = [op |-> "push", arg |-> Number(32)]
  BY <1>1, OpsOutscript, Ops_Introspect
<1>7. pc = 122 => Ops[script][pc] = [op |-> "split", arg |-> << >>]
  BY <1>1, OpsOutscript, Ops_Introspect
<1>8. pc = 123 => Ops[script][pc] = [op |-> "drop", arg |-> << >>]
  BY <1>1, OpsOutscript, Ops_Introspect
<1>9. pc = 124 => Ops[script][pc] = [op |-> "fromaltstack", arg |-> << >>]
  BY <1>1, OpsOutscript, Ops_Introspect
<1>10. pc = 125 => Ops[script][pc] = [op |-> "hash256", arg |-> << >>]
  BY <1>1, OpsOutscript, Ops_Introspect
<1>11. pc = 126 => Ops[script][pc] = [op |-> "equalverify", arg |-> << >>]
  BY <1>1, OpsOutscript, Ops_Introspect
<1>12. pc = 127 => Ops[script][pc] = [op |-> "drop", arg |-> << >>]
  BY <1>1, OpsOutscript, Ops_Introspect
<1> QED
  BY <1>2, <1>3, <1>4, <1>5, <1>6, <1>7, <1>8, <1>9, <1>10, <1>11, <1>12, OnlyOpcode DEF Arg

\* The last opcode decides here as well.
LEMMA LastMintOpcode ==
    ASSUME runCovenant, script = "mintOutscript"
    PROVE  pc = 128 => CheckSig
<1>1. Ops[script] = mintOutscript
  BY DEF Ops, Covenants
<1>2. pc = 128 => Ops[script][pc] = [op |-> "checksig", arg |-> << >>]
  BY <1>1, OpsOutscript
<1> QED BY <1>2, OnlyOpcode

-----------------------------------------------------------------------------
(* A run of mintOutscript *)

\* What the script takes out of a raw attestation W, and where each part begins:
Version(W) == First(W, 4)
FromCount(W) == Rest(W, 4)
FromInput(W) == Rest(FromCount(W), 1)
InputOf(W) == First(FromInput(W), 36)
FromScript(W) == Rest(FromInput(W), 36)
FromLength(W) == Rest(FromScript(W), 34)
LengthOfSignature(W) == First(FromLength(W), 1)
FromSignature(W) == Rest(FromLength(W), 1)
SignatureOf(W) == First(FromSignature(W), NumberOf(LengthOfSignature(W)))
FromPush(W) == Rest(FromSignature(W), NumberOf(LengthOfSignature(W)))
PushOpcode(W) == First(FromPush(W), 1)
FromRingLength(W) == Rest(FromPush(W), 1)
LengthOfRing(W) == First(FromRingLength(W), 1)
FromRing(W) == Rest(FromRingLength(W), 1)
RingOf(W) == First(FromRing(W), NumberOf(LengthOfRing(W)))
FromSequence(W) == Rest(FromRing(W), NumberOf(LengthOfRing(W)))
SequenceOf(W) == First(FromSequence(W), 4)
FromCountOfOutputs(W) == Rest(FromSequence(W), 4)
FromOutputs(W) == Rest(FromCountOfOutputs(W), 1)
AllOutputsOf(W) == First(FromOutputs(W), Width(FromOutputs(W)) - 4)
LocktimeOf(W) == Rest(FromOutputs(W), Width(FromOutputs(W)) - 4)
FromLabel(W) == Rest(FromOutputs(W), 9)
LabelOf(W) == First(FromLabel(W), 11)
FromMintLength(W) == Rest(FromLabel(W), 11)
LengthOfMint(W) == First(FromMintLength(W), 1)
FromMint(W) == Rest(FromMintLength(W), 1)
\* a length that is read as negative is above 127;
MintLength(W) == IF NumberOf(LengthOfMint(W)) < 0 THEN LengthOfMint(W) \o Byte(0) ELSE LengthOfMint(W)
MintSize(W) == NumberOf(MintLength(W))
MintedOutputs(W) == First(FromMint(W), MintSize(W))

\* and what it puts together of it, from the end of the oracle's preimage.
LocktimeOn(W) == LocktimeOf(W) \o TypeBytes(SignsAll, 4)
OutputsOn(W) == HASH256(AllOutputsOf(W)) \o LocktimeOn(W)
ValueOf(W) == LE(ORACLE_TX_SATS, 8) \o SequenceOf(W)
ValueOn(W) == ValueOf(W) \o OutputsOn(W)
CountedRing(W) == Number(Width(RingOf(W))) \o RingOf(W)
RingOn(W) == CountedRing(W) \o ValueOn(W)
InputOn(W) == InputOf(W) \o RingOn(W)
SequencesOn(W) == HASH256(SequenceOf(W)) \o InputOn(W)
InputsOn(W) == HASH256(InputOf(W)) \o SequencesOn(W)
AttestedPreimage(W) == Version(W) \o InputsOn(W)
OracleSignature(W) == First(SignatureOf(W), Width(SignatureOf(W)) - 1)

\* W can be taken apart up to the length of its signature,
Opens(W) ==
    /\ 4 \in 0..Width(W) /\ 1 \in 0..Width(FromCount(W)) /\ 36 \in 0..Width(FromInput(W))
    /\ 34 \in 0..Width(FromScript(W)) /\ 1 \in 0..Width(FromLength(W))
\* and from there on.
ReadsSignature(W) ==
    /\ IsNumber(LengthOfSignature(W)) /\ NumberOf(LengthOfSignature(W)) \in 0..Width(FromSignature(W))
    /\ Width(SignatureOf(W)) \in Nat /\ Width(SignatureOf(W)) - 1 \in 0..Width(SignatureOf(W))
ReadsRing(W) ==
    /\ 1 \in 0..Width(FromPush(W)) /\ PushOpcode(W) = Byte(76) /\ 1 \in 0..Width(FromRingLength(W))
    /\ IsNumber(LengthOfRing(W)) /\ NumberOf(LengthOfRing(W)) \in 0..Width(FromRing(W))
ReadsOutputs(W) ==
    /\ 4 \in 0..Width(FromSequence(W)) /\ 1 \in 0..Width(FromCountOfOutputs(W))
    /\ Width(FromOutputs(W)) \in Nat /\ Width(FromOutputs(W)) - 4 \in 0..Width(FromOutputs(W))
    /\ 9 \in 0..Width(FromOutputs(W)) /\ 11 \in 0..Width(FromLabel(W)) /\ LabelOf(W) = Label
ReadsMint(W) ==
    /\ 1 \in 0..Width(FromMintLength(W)) /\ NumberOf(LengthOfMint(W)) \in Int
    /\ IsNumber(MintLength(W)) /\ MintSize(W) \in 0..Width(FromMint(W))
Reads(W) == ReadsSignature(W) /\ ReadsRing(W) /\ ReadsOutputs(W) /\ ReadsMint(W)

\* What the script requires: the oracle signed this,
Attests(W) == Verifies(SHA256(SHA256(AttestedPreimage(W))), OracleSignature(W), PubKey(AuthKey))
\* and the minter a transaction with the outputs it lists.
MintMatches(X, W) == HASH256(MintedOutputs(W)) = PreimageHash(X)

\* The rows of the run of a spend that presents S, P, X and W, in order.
T1(S, P, X, W) == Row(1, <<S, P, X, W>>, << >>)
T2(S, P, X, W) == Row(2, <<S, P, X, W, Number(4)>>, << >>)
T3(S, P, X, W) == Row(3, <<S, P, X, Version(W), FromCount(W)>>, << >>)
T4(S, P, X, W) == Row(4, <<S, P, X, Version(W), FromCount(W), Number(1)>>, << >>)
T5(S, P, X, W) == Row(5, <<S, P, X, Version(W), First(FromCount(W), 1), FromInput(W)>>, << >>)
T6(S, P, X, W) == Row(6, <<S, P, X, Version(W), FromInput(W)>>, << >>)
T7(S, P, X, W) == Row(7, <<S, P, X, Version(W), FromInput(W), Number(36)>>, << >>)
T8(S, P, X, W) == Row(8, <<S, P, X, Version(W), InputOf(W), FromScript(W)>>, << >>)
T9(S, P, X, W) == Row(9, <<S, P, X, Version(W), InputOf(W)>>, <<FromScript(W)>>)
T10(S, P, X, W) == Row(10, <<S, P, X, Version(W), InputOf(W), InputOf(W)>>, <<FromScript(W)>>)
T11(S, P, X, W) == Row(11, <<S, P, X, Version(W), InputOf(W), HASH256(InputOf(W))>>, <<FromScript(W)>>)
T12(S, P, X, W) == Row(12, <<S, P, X, Version(W), InputOf(W), HASH256(InputOf(W)), FromScript(W)>>, << >>)
T13(S, P, X, W) ==
    Row(13, <<S, P, X, Version(W), InputOf(W), HASH256(InputOf(W)), FromScript(W), Number(34)>>, << >>)
T14(S, P, X, W) ==
    Row(14, <<S, P, X, Version(W), InputOf(W), HASH256(InputOf(W)), First(FromScript(W), 34), FromLength(W)>>,
          << >>)
T15(S, P, X, W) == Row(15, <<S, P, X, Version(W), InputOf(W), HASH256(InputOf(W)), FromLength(W)>>, << >>)
T16(S, P, X, W) ==
    Row(16, <<S, P, X, Version(W), InputOf(W), HASH256(InputOf(W)), FromLength(W), Number(1)>>, << >>)
T17(S, P, X, W) ==
    Row(17, <<S, P, X, Version(W), InputOf(W), HASH256(InputOf(W)), LengthOfSignature(W), FromSignature(W)>>,
          << >>)
T18(S, P, X, W) ==
    Row(18, <<S, P, X, Version(W), InputOf(W), HASH256(InputOf(W)), FromSignature(W), LengthOfSignature(W)>>,
          << >>)
T19(S, P, X, W) ==
    Row(19, <<S, P, X, Version(W), InputOf(W), HASH256(InputOf(W)), SignatureOf(W), FromPush(W)>>, << >>)
T20(S, P, X, W) ==
    Row(20, <<S, P, X, Version(W), InputOf(W), HASH256(InputOf(W)), SignatureOf(W), FromPush(W), Number(1)>>,
          << >>)
T21(S, P, X, W) ==
    Row(21, <<S, P, X, Version(W), InputOf(W), HASH256(InputOf(W)), SignatureOf(W), PushOpcode(W),
          FromRingLength(W)>>, << >>)
T22(S, P, X, W) ==
    Row(22, <<S, P, X, Version(W), InputOf(W), HASH256(InputOf(W)), SignatureOf(W), FromRingLength(W),
          PushOpcode(W)>>, << >>)
T23(S, P, X, W) ==
    Row(23, <<S, P, X, Version(W), InputOf(W), HASH256(InputOf(W)), SignatureOf(W), FromRingLength(W),
          PushOpcode(W), PushOpcode(W)>>, << >>)
T24(S, P, X, W) ==
    Row(24, <<S, P, X, Version(W), InputOf(W), HASH256(InputOf(W)), SignatureOf(W), FromRingLength(W),
          PushOpcode(W), PushOpcode(W), Byte(76)>>, << >>)
T25(S, P, X, W) ==
    Row(25, <<S, P, X, Version(W), InputOf(W), HASH256(InputOf(W)), SignatureOf(W), FromRingLength(W),
          PushOpcode(W), Truth(Byte(76) = PushOpcode(W))>>, << >>)
T26(S, P, X, W) ==
    Row(26, <<S, P, X, Version(W), InputOf(W), HASH256(InputOf(W)), SignatureOf(W), FromRingLength(W),
          PushOpcode(W)>>, << >>)
T27(S, P, X, W) ==
    Row(27, <<S, P, X, Version(W), InputOf(W), HASH256(InputOf(W)), SignatureOf(W), FromRingLength(W)>>, << >>)
T28(S, P, X, W) ==
    Row(28, <<S, P, X, Version(W), InputOf(W), HASH256(InputOf(W)), SignatureOf(W), FromRingLength(W),
          Number(1)>>, << >>)
T29(S, P, X, W) ==
    Row(29, <<S, P, X, Version(W), InputOf(W), HASH256(InputOf(W)), SignatureOf(W), LengthOfRing(W),
          FromRing(W)>>, << >>)
T30(S, P, X, W) ==
    Row(30, <<S, P, X, Version(W), InputOf(W), HASH256(InputOf(W)), SignatureOf(W), FromRing(W),
          LengthOfRing(W)>>, << >>)
T31(S, P, X, W) ==
    Row(31, <<S, P, X, Version(W), InputOf(W), HASH256(InputOf(W)), SignatureOf(W), FromRing(W),
          LengthOfRing(W)>>, << >>)
T32(S, P, X, W) ==
    Row(32, <<S, P, X, Version(W), InputOf(W), HASH256(InputOf(W)), SignatureOf(W), RingOf(W),
          FromSequence(W)>>, << >>)
T33(S, P, X, W) ==
    Row(33, <<S, P, X, Version(W), InputOf(W), HASH256(InputOf(W)), SignatureOf(W), RingOf(W), FromSequence(W),
          Number(4)>>, << >>)
T34(S, P, X, W) ==
    Row(34, <<S, P, X, Version(W), InputOf(W), HASH256(InputOf(W)), SignatureOf(W), RingOf(W), SequenceOf(W),
          FromCountOfOutputs(W)>>, << >>)
T35(S, P, X, W) ==
    Row(35, <<S, P, X, Version(W), InputOf(W), HASH256(InputOf(W)), SignatureOf(W), RingOf(W),
          FromCountOfOutputs(W), SequenceOf(W)>>, << >>)
T36(S, P, X, W) ==
    Row(36, <<S, P, X, Version(W), InputOf(W), HASH256(InputOf(W)), SignatureOf(W), RingOf(W),
          FromCountOfOutputs(W), SequenceOf(W), SequenceOf(W)>>, << >>)
T37(S, P, X, W) ==
    Row(37, <<S, P, X, Version(W), InputOf(W), HASH256(InputOf(W)), SignatureOf(W), RingOf(W),
          FromCountOfOutputs(W), SequenceOf(W), HASH256(SequenceOf(W))>>, << >>)
T38(S, P, X, W) ==
    Row(38, <<S, P, X, Version(W), InputOf(W), HASH256(InputOf(W)), SignatureOf(W), RingOf(W), SequenceOf(W),
          HASH256(SequenceOf(W)), FromCountOfOutputs(W)>>, << >>)
T39(S, P, X, W) ==
    Row(39, <<S, P, X, Version(W), InputOf(W), HASH256(InputOf(W)), SignatureOf(W), RingOf(W), SequenceOf(W),
          HASH256(SequenceOf(W)), FromCountOfOutputs(W), Number(1)>>, << >>)
T40(S, P, X, W) ==
    Row(40, <<S, P, X, Version(W), InputOf(W), HASH256(InputOf(W)), SignatureOf(W), RingOf(W), SequenceOf(W),
          HASH256(SequenceOf(W)), First(FromCountOfOutputs(W), 1), FromOutputs(W)>>, << >>)
T41(S, P, X, W) ==
    Row(41, <<S, P, X, Version(W), InputOf(W), HASH256(InputOf(W)), SignatureOf(W), RingOf(W), SequenceOf(W),
          HASH256(SequenceOf(W)), FromOutputs(W)>>, << >>)
T42(S, P, X, W) ==
    Row(42, <<S, P, X, Version(W), InputOf(W), HASH256(InputOf(W)), SignatureOf(W), RingOf(W), SequenceOf(W),
          HASH256(SequenceOf(W)), FromOutputs(W), FromOutputs(W)>>, << >>)
T43(S, P, X, W) ==
    Row(43, <<S, P, X, Version(W), InputOf(W), HASH256(InputOf(W)), SignatureOf(W), RingOf(W), SequenceOf(W),
          HASH256(SequenceOf(W)), FromOutputs(W), FromOutputs(W), Number(Width(FromOutputs(W)))>>, << >>)
T44(S, P, X, W) ==
    Row(44, <<S, P, X, Version(W), InputOf(W), HASH256(InputOf(W)), SignatureOf(W), RingOf(W), SequenceOf(W),
          HASH256(SequenceOf(W)), FromOutputs(W), FromOutputs(W), Number(Width(FromOutputs(W))), Number(4)>>,
          << >>)
T45(S, P, X, W) ==
    Row(45, <<S, P, X, Version(W), InputOf(W), HASH256(InputOf(W)), SignatureOf(W), RingOf(W), SequenceOf(W),
          HASH256(SequenceOf(W)), FromOutputs(W), FromOutputs(W), Number(Width(FromOutputs(W)) - 4)>>, << >>)
T46(S, P, X, W) ==
    Row(46, <<S, P, X, Version(W), InputOf(W), HASH256(InputOf(W)), SignatureOf(W), RingOf(W), SequenceOf(W),
          HASH256(SequenceOf(W)), FromOutputs(W), AllOutputsOf(W), LocktimeOf(W)>>, << >>)
T47(S, P, X, W) ==
    Row(47, <<S, P, X, Version(W), InputOf(W), HASH256(InputOf(W)), SignatureOf(W), RingOf(W), SequenceOf(W),
          HASH256(SequenceOf(W)), FromOutputs(W), LocktimeOf(W), AllOutputsOf(W)>>, << >>)
T48(S, P, X, W) ==
    Row(48, <<S, P, X, Version(W), InputOf(W), HASH256(InputOf(W)), SignatureOf(W), RingOf(W), SequenceOf(W),
          HASH256(SequenceOf(W)), FromOutputs(W), LocktimeOf(W), HASH256(AllOutputsOf(W))>>, << >>)
T49(S, P, X, W) ==
    Row(49, <<S, P, X, Version(W), InputOf(W), HASH256(InputOf(W)), SignatureOf(W), RingOf(W), SequenceOf(W),
          HASH256(SequenceOf(W)), LocktimeOf(W), HASH256(AllOutputsOf(W)), FromOutputs(W)>>, << >>)
T50(S, P, X, W) ==
    Row(50, <<S, P, X, Version(W), InputOf(W), HASH256(InputOf(W)), SignatureOf(W), RingOf(W), SequenceOf(W),
          HASH256(SequenceOf(W)), LocktimeOf(W), HASH256(AllOutputsOf(W)), FromOutputs(W), Number(9)>>, << >>)
T51(S, P, X, W) ==
    Row(51, <<S, P, X, Version(W), InputOf(W), HASH256(InputOf(W)), SignatureOf(W), RingOf(W), SequenceOf(W),
          HASH256(SequenceOf(W)), LocktimeOf(W), HASH256(AllOutputsOf(W)), First(FromOutputs(W), 9),
          FromLabel(W)>>, << >>)
T52(S, P, X, W) ==
    Row(52, <<S, P, X, Version(W), InputOf(W), HASH256(InputOf(W)), SignatureOf(W), RingOf(W), SequenceOf(W),
          HASH256(SequenceOf(W)), LocktimeOf(W), HASH256(AllOutputsOf(W)), FromLabel(W)>>, << >>)
T53(S, P, X, W) ==
    Row(53, <<S, P, X, Version(W), InputOf(W), HASH256(InputOf(W)), SignatureOf(W), RingOf(W), SequenceOf(W),
          HASH256(SequenceOf(W)), LocktimeOf(W), HASH256(AllOutputsOf(W)), FromLabel(W), Number(11)>>, << >>)
T54(S, P, X, W) ==
    Row(54, <<S, P, X, Version(W), InputOf(W), HASH256(InputOf(W)), SignatureOf(W), RingOf(W), SequenceOf(W),
          HASH256(SequenceOf(W)), LocktimeOf(W), HASH256(AllOutputsOf(W)), LabelOf(W), FromMintLength(W)>>,
          << >>)
T55(S, P, X, W) ==
    Row(55, <<S, P, X, Version(W), InputOf(W), HASH256(InputOf(W)), SignatureOf(W), RingOf(W), SequenceOf(W),
          HASH256(SequenceOf(W)), LocktimeOf(W), HASH256(AllOutputsOf(W)), FromMintLength(W), LabelOf(W)>>,
          << >>)
T56(S, P, X, W) ==
    Row(56, <<S, P, X, Version(W), InputOf(W), HASH256(InputOf(W)), SignatureOf(W), RingOf(W), SequenceOf(W),
          HASH256(SequenceOf(W)), LocktimeOf(W), HASH256(AllOutputsOf(W)), FromMintLength(W), LabelOf(W),
          Label>>, << >>)
T57(S, P, X, W) ==
    Row(57, <<S, P, X, Version(W), InputOf(W), HASH256(InputOf(W)), SignatureOf(W), RingOf(W), SequenceOf(W),
          HASH256(SequenceOf(W)), LocktimeOf(W), HASH256(AllOutputsOf(W)), FromMintLength(W)>>, << >>)
T58(S, P, X, W) ==
    Row(58, <<S, P, X, Version(W), InputOf(W), HASH256(InputOf(W)), SignatureOf(W), RingOf(W), SequenceOf(W),
          HASH256(SequenceOf(W)), LocktimeOf(W), HASH256(AllOutputsOf(W)), FromMintLength(W), Number(1)>>,
          << >>)
T59(S, P, X, W) ==
    Row(59, <<S, P, X, Version(W), InputOf(W), HASH256(InputOf(W)), SignatureOf(W), RingOf(W), SequenceOf(W),
          HASH256(SequenceOf(W)), LocktimeOf(W), HASH256(AllOutputsOf(W)), LengthOfMint(W), FromMint(W)>>,
          << >>)
T60(S, P, X, W) ==
    Row(60, <<S, P, X, Version(W), InputOf(W), HASH256(InputOf(W)), SignatureOf(W), RingOf(W), SequenceOf(W),
          HASH256(SequenceOf(W)), LocktimeOf(W), HASH256(AllOutputsOf(W)), FromMint(W), LengthOfMint(W)>>,
          << >>)
T61(S, P, X, W) ==
    Row(61, <<S, P, X, Version(W), InputOf(W), HASH256(InputOf(W)), SignatureOf(W), RingOf(W), SequenceOf(W),
          HASH256(SequenceOf(W)), LocktimeOf(W), HASH256(AllOutputsOf(W)), FromMint(W), LengthOfMint(W),
          LengthOfMint(W)>>, << >>)
T62(S, P, X, W) ==
    Row(62, <<S, P, X, Version(W), InputOf(W), HASH256(InputOf(W)), SignatureOf(W), RingOf(W), SequenceOf(W),
          HASH256(SequenceOf(W)), LocktimeOf(W), HASH256(AllOutputsOf(W)), FromMint(W), LengthOfMint(W),
          LengthOfMint(W), Number(0)>>, << >>)
T63(S, P, X, W) ==
    Row(63, <<S, P, X, Version(W), InputOf(W), HASH256(InputOf(W)), SignatureOf(W), RingOf(W), SequenceOf(W),
          HASH256(SequenceOf(W)), LocktimeOf(W), HASH256(AllOutputsOf(W)), FromMint(W), LengthOfMint(W),
          Truth(NumberOf(LengthOfMint(W)) < 0)>>, << >>)
T64(S, P, X, W) ==
    Row(64, <<S, P, X, Version(W), InputOf(W), HASH256(InputOf(W)), SignatureOf(W), RingOf(W), SequenceOf(W),
          HASH256(SequenceOf(W)), LocktimeOf(W), HASH256(AllOutputsOf(W)), FromMint(W), LengthOfMint(W)>>,
          << >>)
T65(S, P, X, W) ==
    Row(65, <<S, P, X, Version(W), InputOf(W), HASH256(InputOf(W)), SignatureOf(W), RingOf(W), SequenceOf(W),
          HASH256(SequenceOf(W)), LocktimeOf(W), HASH256(AllOutputsOf(W)), FromMint(W), LengthOfMint(W),
          Byte(0)>>, << >>)
T66(S, P, X, W) ==
    Row(66, <<S, P, X, Version(W), InputOf(W), HASH256(InputOf(W)), SignatureOf(W), RingOf(W), SequenceOf(W),
          HASH256(SequenceOf(W)), LocktimeOf(W), HASH256(AllOutputsOf(W)), FromMint(W), MintLength(W)>>, << >>)
T67(S, P, X, W) ==
    Row(67, <<S, P, X, Version(W), InputOf(W), HASH256(InputOf(W)), SignatureOf(W), RingOf(W), SequenceOf(W),
          HASH256(SequenceOf(W)), LocktimeOf(W), HASH256(AllOutputsOf(W)), FromMint(W), MintLength(W)>>, << >>)
T68(S, P, X, W) ==
    Row(68, <<S, P, X, Version(W), InputOf(W), HASH256(InputOf(W)), SignatureOf(W), RingOf(W), SequenceOf(W),
          HASH256(SequenceOf(W)), LocktimeOf(W), HASH256(AllOutputsOf(W)), MintedOutputs(W), Rest(FromMint(W),
          MintSize(W))>>, << >>)
T69(S, P, X, W) ==
    Row(69, <<S, P, X, Version(W), InputOf(W), HASH256(InputOf(W)), SignatureOf(W), RingOf(W), SequenceOf(W),
          HASH256(SequenceOf(W)), LocktimeOf(W), HASH256(AllOutputsOf(W)), MintedOutputs(W)>>, << >>)
T70(S, P, X, W) ==
    Row(70, <<S, P, X, Version(W), InputOf(W), HASH256(InputOf(W)), SignatureOf(W), RingOf(W), SequenceOf(W),
          HASH256(SequenceOf(W)), LocktimeOf(W), HASH256(AllOutputsOf(W))>>, <<MintedOutputs(W)>>)
T71(S, P, X, W) ==
    Row(71, <<S, P, X, Version(W), InputOf(W), HASH256(InputOf(W)), SignatureOf(W), RingOf(W), SequenceOf(W),
          HASH256(SequenceOf(W)), HASH256(AllOutputsOf(W)), LocktimeOf(W)>>, <<MintedOutputs(W)>>)
T72(S, P, X, W) ==
    Row(72, <<S, P, X, Version(W), InputOf(W), HASH256(InputOf(W)), SignatureOf(W), RingOf(W), SequenceOf(W),
          HASH256(SequenceOf(W)), HASH256(AllOutputsOf(W)), LocktimeOf(W), TypeBytes(SignsAll, 4)>>,
          <<MintedOutputs(W)>>)
T73(S, P, X, W) ==
    Row(73, <<S, P, X, Version(W), InputOf(W), HASH256(InputOf(W)), SignatureOf(W), RingOf(W), SequenceOf(W),
          HASH256(SequenceOf(W)), HASH256(AllOutputsOf(W)), LocktimeOn(W)>>, <<MintedOutputs(W)>>)
T74(S, P, X, W) ==
    Row(74, <<S, P, X, Version(W), InputOf(W), HASH256(InputOf(W)), SignatureOf(W), RingOf(W), SequenceOf(W),
          HASH256(SequenceOf(W)), OutputsOn(W)>>, <<MintedOutputs(W)>>)
T75(S, P, X, W) ==
    Row(75, <<S, P, X, Version(W), InputOf(W), HASH256(InputOf(W)), SignatureOf(W), RingOf(W),
          HASH256(SequenceOf(W)), OutputsOn(W), SequenceOf(W)>>, <<MintedOutputs(W)>>)
T76(S, P, X, W) ==
    Row(76, <<S, P, X, Version(W), InputOf(W), HASH256(InputOf(W)), SignatureOf(W), RingOf(W),
          HASH256(SequenceOf(W)), OutputsOn(W), SequenceOf(W), LE(ORACLE_TX_SATS, 8)>>, <<MintedOutputs(W)>>)
T77(S, P, X, W) ==
    Row(77, <<S, P, X, Version(W), InputOf(W), HASH256(InputOf(W)), SignatureOf(W), RingOf(W),
          HASH256(SequenceOf(W)), OutputsOn(W), LE(ORACLE_TX_SATS, 8), SequenceOf(W)>>, <<MintedOutputs(W)>>)
T78(S, P, X, W) ==
    Row(78, <<S, P, X, Version(W), InputOf(W), HASH256(InputOf(W)), SignatureOf(W), RingOf(W),
          HASH256(SequenceOf(W)), OutputsOn(W), ValueOf(W)>>, <<MintedOutputs(W)>>)
T79(S, P, X, W) ==
    Row(79, <<S, P, X, Version(W), InputOf(W), HASH256(InputOf(W)), SignatureOf(W), RingOf(W),
          HASH256(SequenceOf(W)), ValueOf(W), OutputsOn(W)>>, <<MintedOutputs(W)>>)
T80(S, P, X, W) ==
    Row(80, <<S, P, X, Version(W), InputOf(W), HASH256(InputOf(W)), SignatureOf(W), RingOf(W),
          HASH256(SequenceOf(W)), ValueOn(W)>>, <<MintedOutputs(W)>>)
T81(S, P, X, W) ==
    Row(81, <<S, P, X, Version(W), InputOf(W), HASH256(InputOf(W)), SignatureOf(W), HASH256(SequenceOf(W)),
          ValueOn(W), RingOf(W)>>, <<MintedOutputs(W)>>)
T82(S, P, X, W) ==
    Row(82, <<S, P, X, Version(W), InputOf(W), HASH256(InputOf(W)), SignatureOf(W), HASH256(SequenceOf(W)),
          ValueOn(W), RingOf(W), Number(Width(RingOf(W)))>>, <<MintedOutputs(W)>>)
T83(S, P, X, W) ==
    Row(83, <<S, P, X, Version(W), InputOf(W), HASH256(InputOf(W)), SignatureOf(W), HASH256(SequenceOf(W)),
          ValueOn(W), Number(Width(RingOf(W))), RingOf(W)>>, <<MintedOutputs(W)>>)
T84(S, P, X, W) ==
    Row(84, <<S, P, X, Version(W), InputOf(W), HASH256(InputOf(W)), SignatureOf(W), HASH256(SequenceOf(W)),
          ValueOn(W), CountedRing(W)>>, <<MintedOutputs(W)>>)
T85(S, P, X, W) ==
    Row(85, <<S, P, X, Version(W), InputOf(W), HASH256(InputOf(W)), SignatureOf(W), HASH256(SequenceOf(W)),
          CountedRing(W), ValueOn(W)>>, <<MintedOutputs(W)>>)
T86(S, P, X, W) ==
    Row(86, <<S, P, X, Version(W), InputOf(W), HASH256(InputOf(W)), SignatureOf(W), HASH256(SequenceOf(W)),
          RingOn(W)>>, <<MintedOutputs(W)>>)
T87(S, P, X, W) ==
    Row(87, <<S, P, X, Version(W), InputOf(W), HASH256(InputOf(W)), SignatureOf(W), HASH256(SequenceOf(W)),
          RingOn(W), Number(4)>>, <<MintedOutputs(W)>>)
T88(S, P, X, W) ==
    Row(88, <<S, P, X, Version(W), HASH256(InputOf(W)), SignatureOf(W), HASH256(SequenceOf(W)), RingOn(W),
          InputOf(W)>>, <<MintedOutputs(W)>>)
T89(S, P, X, W) ==
    Row(89, <<S, P, X, Version(W), HASH256(InputOf(W)), SignatureOf(W), HASH256(SequenceOf(W)), InputOf(W),
          RingOn(W)>>, <<MintedOutputs(W)>>)
T90(S, P, X, W) ==
    Row(90, <<S, P, X, Version(W), HASH256(InputOf(W)), SignatureOf(W), HASH256(SequenceOf(W)), InputOn(W)>>,
          <<MintedOutputs(W)>>)
T91(S, P, X, W) ==
    Row(91, <<S, P, X, Version(W), HASH256(InputOf(W)), SignatureOf(W), SequencesOn(W)>>, <<MintedOutputs(W)>>)
T92(S, P, X, W) ==
    Row(92, <<S, P, X, Version(W), SignatureOf(W), SequencesOn(W), HASH256(InputOf(W))>>, <<MintedOutputs(W)>>)
T93(S, P, X, W) ==
    Row(93, <<S, P, X, Version(W), SignatureOf(W), HASH256(InputOf(W)), SequencesOn(W)>>, <<MintedOutputs(W)>>)
T94(S, P, X, W) == Row(94, <<S, P, X, Version(W), SignatureOf(W), InputsOn(W)>>, <<MintedOutputs(W)>>)
T95(S, P, X, W) == Row(95, <<S, P, X, SignatureOf(W), InputsOn(W), Version(W)>>, <<MintedOutputs(W)>>)
T96(S, P, X, W) == Row(96, <<S, P, X, SignatureOf(W), Version(W), InputsOn(W)>>, <<MintedOutputs(W)>>)
T97(S, P, X, W) == Row(97, <<S, P, X, SignatureOf(W), AttestedPreimage(W)>>, <<MintedOutputs(W)>>)
T98(S, P, X, W) == Row(98, <<S, P, X, SignatureOf(W), SHA256(AttestedPreimage(W))>>, <<MintedOutputs(W)>>)
T99(S, P, X, W) == Row(99, <<S, P, X, SHA256(AttestedPreimage(W)), SignatureOf(W)>>, <<MintedOutputs(W)>>)
T100(S, P, X, W) ==
    Row(100, <<S, P, X, SHA256(AttestedPreimage(W)), SignatureOf(W), Number(Width(SignatureOf(W)))>>,
          <<MintedOutputs(W)>>)
T101(S, P, X, W) ==
    Row(101, <<S, P, X, SHA256(AttestedPreimage(W)), SignatureOf(W), Number(Width(SignatureOf(W))), Number(1)>>,
          <<MintedOutputs(W)>>)
T102(S, P, X, W) ==
    Row(102, <<S, P, X, SHA256(AttestedPreimage(W)), SignatureOf(W), Number(Width(SignatureOf(W)) - 1)>>,
          <<MintedOutputs(W)>>)
T103(S, P, X, W) ==
    Row(103, <<S, P, X, SHA256(AttestedPreimage(W)), OracleSignature(W), Rest(SignatureOf(W),
          Width(SignatureOf(W)) - 1)>>, <<MintedOutputs(W)>>)
T104(S, P, X, W) == Row(104, <<S, P, X, SHA256(AttestedPreimage(W)), OracleSignature(W)>>, <<MintedOutputs(W)>>)
T105(S, P, X, W) == Row(105, <<S, P, X, OracleSignature(W), SHA256(AttestedPreimage(W))>>, <<MintedOutputs(W)>>)
T106(S, P, X, W) ==
    Row(106, <<S, P, X, OracleSignature(W), SHA256(AttestedPreimage(W)), PubKey(AuthKey)>>,
          <<MintedOutputs(W)>>)
T107(S, P, X, W) == Row(107, <<S, P, X>>, <<MintedOutputs(W)>>)
T108(S, P, X, W) == Row(108, <<S, P, X, S, P, X>>, <<MintedOutputs(W)>>)
T109(S, P, X, W) == Row(109, <<S, P, X, S, P, SHA256(X)>>, <<MintedOutputs(W)>>)
T110(S, P, X, W) == Row(110, <<S, P, X, P, SHA256(X), S>>, <<MintedOutputs(W)>>)
T111(S, P, X, W) == Row(111, <<S, P, X, P, SHA256(X), S, Number(Width(S))>>, <<MintedOutputs(W)>>)
T112(S, P, X, W) == Row(112, <<S, P, X, P, SHA256(X), S, Number(Width(S) - 1)>>, <<MintedOutputs(W)>>)
T113(S, P, X, W) == Row(113, <<S, P, X, P, SHA256(X), Signed(S), Rest(S, Width(S) - 1)>>, <<MintedOutputs(W)>>)
T114(S, P, X, W) == Row(114, <<S, P, X, P, SHA256(X), Signed(S)>>, <<MintedOutputs(W)>>)
T115(S, P, X, W) == Row(115, <<S, P, X, P, Signed(S), SHA256(X)>>, <<MintedOutputs(W)>>)
T116(S, P, X, W) == Row(116, <<S, P, X, Signed(S), SHA256(X), P>>, <<MintedOutputs(W)>>)
T117(S, P, X, W) == Row(117, <<S, P, X>>, <<MintedOutputs(W)>>)
T118(S, P, X, W) == Row(118, <<S, P, X, Number(Width(X))>>, <<MintedOutputs(W)>>)
T119(S, P, X, W) == Row(119, <<S, P, X, Number(Width(X)), Number(40)>>, <<MintedOutputs(W)>>)
T120(S, P, X, W) == Row(120, <<S, P, X, Number(Width(X) - 40)>>, <<MintedOutputs(W)>>)
T121(S, P, X, W) == Row(121, <<S, P, First(X, Width(X) - 40), Rest(X, Width(X) - 40)>>, <<MintedOutputs(W)>>)
T122(S, P, X, W) ==
    Row(122, <<S, P, First(X, Width(X) - 40), Rest(X, Width(X) - 40), Number(32)>>, <<MintedOutputs(W)>>)
T123(S, P, X, W) ==
    Row(123, <<S, P, First(X, Width(X) - 40), PreimageHash(X), Rest(Rest(X, Width(X) - 40), 32)>>,
          <<MintedOutputs(W)>>)
T124(S, P, X, W) == Row(124, <<S, P, First(X, Width(X) - 40), PreimageHash(X)>>, <<MintedOutputs(W)>>)
T125(S, P, X, W) == Row(125, <<S, P, First(X, Width(X) - 40), PreimageHash(X), MintedOutputs(W)>>, << >>)
T126(S, P, X, W) ==
    Row(126, <<S, P, First(X, Width(X) - 40), PreimageHash(X), HASH256(MintedOutputs(W))>>, << >>)
T127(S, P, X, W) == Row(127, <<S, P, First(X, Width(X) - 40)>>, << >>)
T128(S, P, X, W) == Row(128, <<S, P>>, << >>)

\* The rows of each part of the script, with what has passed a check within it.
TakeInputRun(S, P, X, W) ==
    \/ T1(S, P, X, W) \/ T2(S, P, X, W) \/ T3(S, P, X, W) \/ T4(S, P, X, W) \/ T5(S, P, X, W)
    \/ T6(S, P, X, W) \/ T7(S, P, X, W) \/ T8(S, P, X, W) \/ T9(S, P, X, W) \/ T10(S, P, X, W)
    \/ T11(S, P, X, W)
TakeSignatureRun(S, P, X, W) ==
    \/ T12(S, P, X, W) \/ T13(S, P, X, W) \/ T14(S, P, X, W) \/ T15(S, P, X, W) \/ T16(S, P, X, W)
    \/ T17(S, P, X, W) \/ T18(S, P, X, W)
TakeRingRun(S, P, X, W) ==
    \/ T19(S, P, X, W) \/ T20(S, P, X, W) \/ T21(S, P, X, W) \/ T22(S, P, X, W) \/ T23(S, P, X, W)
    \/ T24(S, P, X, W) \/ T25(S, P, X, W) \/ T26(S, P, X, W) \/ T27(S, P, X, W) \/ T28(S, P, X, W)
    \/ T29(S, P, X, W) \/ T30(S, P, X, W) \/ T31(S, P, X, W)
TakeSequenceRun(S, P, X, W) ==
    \/ T32(S, P, X, W) \/ T33(S, P, X, W) \/ T34(S, P, X, W) \/ T35(S, P, X, W) \/ T36(S, P, X, W)
    \/ T37(S, P, X, W)
TakeOutputsRun(S, P, X, W) ==
    \/ T38(S, P, X, W) \/ T39(S, P, X, W) \/ T40(S, P, X, W) \/ T41(S, P, X, W) \/ T42(S, P, X, W)
    \/ T43(S, P, X, W) \/ T44(S, P, X, W) \/ T45(S, P, X, W) \/ T46(S, P, X, W) \/ T47(S, P, X, W)
    \/ T48(S, P, X, W)
CompareLabelRun(S, P, X, W) ==
    \/ T49(S, P, X, W) \/ T50(S, P, X, W) \/ T51(S, P, X, W) \/ T52(S, P, X, W) \/ T53(S, P, X, W)
    \/ T54(S, P, X, W) \/ T55(S, P, X, W) \/ T56(S, P, X, W)
TakeMintRun(S, P, X, W) ==
    \/ T57(S, P, X, W) \/ T58(S, P, X, W) \/ T59(S, P, X, W) \/ T60(S, P, X, W) \/ T61(S, P, X, W)
    \/ T62(S, P, X, W) \/ T63(S, P, X, W) \/ T67(S, P, X, W) \/ T68(S, P, X, W) \/ T69(S, P, X, W)
    \/ NumberOf(LengthOfMint(W)) < 0 /\ (T64(S, P, X, W) \/ T65(S, P, X, W) \/ T66(S, P, X, W))
StartPreimageRun(S, P, X, W) ==
    \/ T70(S, P, X, W) \/ T71(S, P, X, W) \/ T72(S, P, X, W) \/ T73(S, P, X, W) \/ T74(S, P, X, W)
    \/ T75(S, P, X, W) \/ T76(S, P, X, W) \/ T77(S, P, X, W) \/ T78(S, P, X, W) \/ T79(S, P, X, W)
    \/ T80(S, P, X, W) \/ T81(S, P, X, W) \/ T82(S, P, X, W) \/ T83(S, P, X, W) \/ T84(S, P, X, W)
    \/ T85(S, P, X, W)
FinishPreimageRun(S, P, X, W) ==
    \/ T86(S, P, X, W) \/ T87(S, P, X, W) \/ T88(S, P, X, W) \/ T89(S, P, X, W) \/ T90(S, P, X, W)
    \/ T91(S, P, X, W) \/ T92(S, P, X, W) \/ T93(S, P, X, W) \/ T94(S, P, X, W) \/ T95(S, P, X, W)
    \/ T96(S, P, X, W)
CheckOracleRun(S, P, X, W) ==
    \/ T97(S, P, X, W) \/ T98(S, P, X, W) \/ T99(S, P, X, W) \/ T100(S, P, X, W) \/ T101(S, P, X, W)
    \/ T102(S, P, X, W) \/ T103(S, P, X, W) \/ T104(S, P, X, W) \/ T105(S, P, X, W) \/ T106(S, P, X, W)
CheckMinterRun(S, P, X, W) ==
    \/ T107(S, P, X, W) \/ T108(S, P, X, W) \/ T109(S, P, X, W) \/ T110(S, P, X, W) \/ T111(S, P, X, W)
    \/ T112(S, P, X, W)
    \/ Width(S) - 1 \in 0..Width(S)
       /\ (T113(S, P, X, W) \/ T114(S, P, X, W) \/ T115(S, P, X, W) \/ T116(S, P, X, W))
CompareOutputsRun(S, P, X, W) ==
    \/ T117(S, P, X, W) \/ T118(S, P, X, W) \/ T119(S, P, X, W) \/ T120(S, P, X, W)
    \/ Width(X) - 40 \in 0..Width(X) /\ (T121(S, P, X, W) \/ T122(S, P, X, W))
    \/ OutputsCut(X)
       /\ (T123(S, P, X, W) \/ T124(S, P, X, W) \/ T125(S, P, X, W) \/ T126(S, P, X, W))
    \/ OutputsCut(X) /\ MintMatches(X, W) /\ T127(S, P, X, W)

\* The first opcodes of a run take what any raw attestation begins with.
LEMMA TakeInputStep ==
    ASSUME NEW S, NEW P, NEW X, NEW W, script = "mintOutscript", verdict = "running", runCovenant,
           Opens(W), TakeInputRun(S, P, X, W)
    PROVE  \/ verdict' = "running" /\ TakeInputRun(S, P, X, W)'
           \/ verdict' = "running" /\ T12(S, P, X, W)'
<1>1. T1(S, P, X, W) => verdict' = "running" /\ T2(S, P, X, W)'
  BY TakeInputOpcodes DEF T1, T2, Row, Items, Push, GoTo, Drop, Replace
<1>2. T2(S, P, X, W) => verdict' = "running" /\ T3(S, P, X, W)'
  <2>1. 4 \in 0..Width(W)
    BY DEF Opens
  <2> QED
    BY <2>1, TakeInputOpcodes, NumberRead DEF T2, T3, Row, Items, Split, GoTo, Drop, Replace, Top, Version,
       FromCount
<1>3. T3(S, P, X, W) => verdict' = "running" /\ T4(S, P, X, W)'
  BY TakeInputOpcodes DEF T3, T4, Row, Items, Push, GoTo, Drop, Replace
<1>4. T4(S, P, X, W) => verdict' = "running" /\ T5(S, P, X, W)'
  <2>1. 1 \in 0..Width(FromCount(W))
    BY DEF Opens
  <2> QED
    BY <2>1, TakeInputOpcodes, NumberRead DEF T4, T5, Row, Items, Split, GoTo, Drop, Replace, Top, FromInput
<1>5. T5(S, P, X, W) => verdict' = "running" /\ T6(S, P, X, W)'
  BY TakeInputOpcodes DEF T5, T6, Row, Items, Nip, GoTo, Drop, Replace, Top
<1>6. T6(S, P, X, W) => verdict' = "running" /\ T7(S, P, X, W)'
  BY TakeInputOpcodes DEF T6, T7, Row, Items, Push, GoTo, Drop, Replace
<1>7. T7(S, P, X, W) => verdict' = "running" /\ T8(S, P, X, W)'
  <2>1. 36 \in 0..Width(FromInput(W))
    BY DEF Opens
  <2> QED
    BY <2>1, TakeInputOpcodes, NumberRead DEF T7, T8, Row, Items, Split, GoTo, Drop, Replace, Top, InputOf,
       FromScript
<1>8. T8(S, P, X, W) => verdict' = "running" /\ T9(S, P, X, W)'
  BY TakeInputOpcodes DEF T8, T9, Row, Items, ToAltStack, GoTo, Drop, Top
<1>9. T9(S, P, X, W) => verdict' = "running" /\ T10(S, P, X, W)'
  BY TakeInputOpcodes DEF T9, T10, Row, Items, Dup, GoTo, Drop, Replace, Top
<1>10. T10(S, P, X, W) => verdict' = "running" /\ T11(S, P, X, W)'
  BY TakeInputOpcodes DEF T10, T11, Row, Items, Hash256, GoTo, Drop, Replace, Top
<1>11. T11(S, P, X, W) => verdict' = "running" /\ T12(S, P, X, W)'
  BY TakeInputOpcodes DEF T11, T12, Row, Items, FromAltStack, GoTo, Drop
<1> QED
  BY <1>1, <1>2, <1>3, <1>4, <1>5, <1>6, <1>7, <1>8, <1>9, <1>10, <1>11 DEF TakeInputRun

\* A signature is taken where a length is found, or the spend is rejected.
LEMMA TakeSignatureStep ==
    ASSUME NEW S, NEW P, NEW X, NEW W, script = "mintOutscript", verdict = "running", runCovenant,
           Opens(W), IsNumber(LengthOfSignature(W)) => Reads(W), TakeSignatureRun(S, P, X, W)
    PROVE  \/ verdict' = "running" /\ TakeSignatureRun(S, P, X, W)'
           \/ verdict' = "running" /\ IsNumber(LengthOfSignature(W)) /\ T19(S, P, X, W)'
           \/ verdict' = "rejected" /\ ~IsNumber(LengthOfSignature(W))
<1>12. T12(S, P, X, W) => verdict' = "running" /\ T13(S, P, X, W)'
  BY TakeSignatureOpcodes DEF T12, T13, Row, Items, Push, GoTo, Drop, Replace
<1>13. T13(S, P, X, W) => verdict' = "running" /\ T14(S, P, X, W)'
  <2>1. 34 \in 0..Width(FromScript(W))
    BY DEF Opens
  <2> QED
    BY <2>1, TakeSignatureOpcodes, NumberRead DEF T13, T14, Row, Items, Split, GoTo, Drop, Replace, Top,
       FromLength
<1>14. T14(S, P, X, W) => verdict' = "running" /\ T15(S, P, X, W)'
  BY TakeSignatureOpcodes DEF T14, T15, Row, Items, Nip, GoTo, Drop, Replace, Top
<1>15. T15(S, P, X, W) => verdict' = "running" /\ T16(S, P, X, W)'
  BY TakeSignatureOpcodes DEF T15, T16, Row, Items, Push, GoTo, Drop, Replace
<1>16. T16(S, P, X, W) => verdict' = "running" /\ T17(S, P, X, W)'
  <2>1. 1 \in 0..Width(FromLength(W))
    BY DEF Opens
  <2> QED
    BY <2>1, TakeSignatureOpcodes, NumberRead DEF T16, T17, Row, Items, Split, GoTo, Drop, Replace, Top,
       LengthOfSignature, FromSignature
<1>17. T17(S, P, X, W) => verdict' = "running" /\ T18(S, P, X, W)'
  BY TakeSignatureOpcodes DEF T17, T18, Row, Items, Swap, GoTo, Drop, Replace, Top
<1>18. T18(S, P, X, W) =>
         \/ verdict' = "running" /\ IsNumber(LengthOfSignature(W)) /\ T19(S, P, X, W)'
         \/ verdict' = "rejected" /\ ~IsNumber(LengthOfSignature(W))
  <2>1. IsNumber(LengthOfSignature(W)) => NumberOf(LengthOfSignature(W)) \in 0..Width(FromSignature(W))
    BY DEF Reads, ReadsSignature
  <2> QED
    BY <2>1, TakeSignatureOpcodes DEF T18, T19, Row, Items, Split, GoTo, Drop, Replace, Top, SignatureOf,
       FromPush
<1> QED
  BY <1>12, <1>13, <1>14, <1>15, <1>16, <1>17, <1>18 DEF TakeSignatureRun

\* The ring is taken, pushed with a length of its own.
LEMMA TakeRingStep ==
    ASSUME NEW S, NEW P, NEW X, NEW W, script = "mintOutscript", verdict = "running", runCovenant,
           Reads(W), TakeRingRun(S, P, X, W)
    PROVE  \/ verdict' = "running" /\ TakeRingRun(S, P, X, W)'
           \/ verdict' = "running" /\ T32(S, P, X, W)'
<1>19. T19(S, P, X, W) => verdict' = "running" /\ T20(S, P, X, W)'
  BY TakeRingOpcodes DEF T19, T20, Row, Items, Push, GoTo, Drop, Replace
<1>20. T20(S, P, X, W) => verdict' = "running" /\ T21(S, P, X, W)'
  <2>1. 1 \in 0..Width(FromPush(W))
    BY DEF Reads, ReadsRing
  <2> QED
    BY <2>1, TakeRingOpcodes, NumberRead DEF T20, T21, Row, Items, Split, GoTo, Drop, Replace, Top, PushOpcode,
       FromRingLength
<1>21. T21(S, P, X, W) => verdict' = "running" /\ T22(S, P, X, W)'
  BY TakeRingOpcodes DEF T21, T22, Row, Items, Swap, GoTo, Drop, Replace, Top
<1>22. T22(S, P, X, W) => verdict' = "running" /\ T23(S, P, X, W)'
  BY TakeRingOpcodes DEF T22, T23, Row, Items, Dup, GoTo, Drop, Replace, Top
<1>23. T23(S, P, X, W) => verdict' = "running" /\ T24(S, P, X, W)'
  BY TakeRingOpcodes DEF T23, T24, Row, Items, Push, GoTo, Drop, Replace
<1>24. T24(S, P, X, W) => verdict' = "running" /\ T25(S, P, X, W)'
  BY TakeRingOpcodes DEF T24, T25, Row, Items, Equal, GoTo, Drop, Replace, Top
<1>25. T25(S, P, X, W) => verdict' = "running" /\ T26(S, P, X, W)'
  <2> SUFFICES ASSUME T25(S, P, X, W) PROVE verdict' = "running" /\ T26(S, P, X, W)'
    OBVIOUS
  <2>1. Top(0) = Truth(TRUE)
    <3>1. Byte(76) = PushOpcode(W)
      BY DEF Reads, ReadsRing
    <3>2. Truth(Byte(76) = PushOpcode(W)) = Truth(TRUE)
      BY <3>1 DEF Truth
    <3>3. Top(0) = Truth(Byte(76) = PushOpcode(W))
      BY DEF T25, Row, Items, Top
    <3> QED BY <3>2, <3>3
  <2>2. GoTo(pc + 1, 1, << >>) /\ UNCHANGED <<alt, verdict>>
    BY <2>1, TakeRingOpcodes DEF If, T25, Row
  <2> QED
    BY <2>2 DEF T25, T26, Row, Items, GoTo, Drop
<1>26. T26(S, P, X, W) => verdict' = "running" /\ T27(S, P, X, W)'
  BY TakeRingOpcodes DEF T26, T27, Row, Items, DropTop, GoTo, Drop, Replace
<1>27. T27(S, P, X, W) => verdict' = "running" /\ T28(S, P, X, W)'
  BY TakeRingOpcodes DEF T27, T28, Row, Items, Push, GoTo, Drop, Replace
<1>28. T28(S, P, X, W) => verdict' = "running" /\ T29(S, P, X, W)'
  <2>1. 1 \in 0..Width(FromRingLength(W))
    BY DEF Reads, ReadsRing
  <2> QED
    BY <2>1, TakeRingOpcodes, NumberRead DEF T28, T29, Row, Items, Split, GoTo, Drop, Replace, Top,
       LengthOfRing, FromRing
<1>29. T29(S, P, X, W) => verdict' = "running" /\ T30(S, P, X, W)'
  BY TakeRingOpcodes DEF T29, T30, Row, Items, Swap, GoTo, Drop, Replace, Top
<1>30. T30(S, P, X, W) => verdict' = "running" /\ T31(S, P, X, W)'
  BY TakeRingOpcodes DEF T30, T31, Row, Items, EndIf, GoTo, Drop, Replace
<1>31. T31(S, P, X, W) => verdict' = "running" /\ T32(S, P, X, W)'
  <2>1. IsNumber(LengthOfRing(W)) /\ NumberOf(LengthOfRing(W)) \in 0..Width(FromRing(W))
    BY DEF Reads, ReadsRing
  <2> QED
    BY <2>1, TakeRingOpcodes DEF T31, T32, Row, Items, Split, GoTo, Drop, Replace, Top, RingOf, FromSequence
<1> QED
  BY <1>19, <1>20, <1>21, <1>22, <1>23, <1>24, <1>25, <1>26, <1>27, <1>28, <1>29, <1>30, <1>31 DEF TakeRingRun

\* The sequence is taken.
LEMMA TakeSequenceStep ==
    ASSUME NEW S, NEW P, NEW X, NEW W, script = "mintOutscript", verdict = "running", runCovenant,
           Reads(W), TakeSequenceRun(S, P, X, W)
    PROVE  \/ verdict' = "running" /\ TakeSequenceRun(S, P, X, W)'
           \/ verdict' = "running" /\ T38(S, P, X, W)'
<1>32. T32(S, P, X, W) => verdict' = "running" /\ T33(S, P, X, W)'
  BY TakeSequenceOpcodes DEF T32, T33, Row, Items, Push, GoTo, Drop, Replace
<1>33. T33(S, P, X, W) => verdict' = "running" /\ T34(S, P, X, W)'
  <2>1. 4 \in 0..Width(FromSequence(W))
    BY DEF Reads, ReadsOutputs
  <2> QED
    BY <2>1, TakeSequenceOpcodes, NumberRead DEF T33, T34, Row, Items, Split, GoTo, Drop, Replace, Top,
       SequenceOf, FromCountOfOutputs
<1>34. T34(S, P, X, W) => verdict' = "running" /\ T35(S, P, X, W)'
  BY TakeSequenceOpcodes DEF T34, T35, Row, Items, Swap, GoTo, Drop, Replace, Top
<1>35. T35(S, P, X, W) => verdict' = "running" /\ T36(S, P, X, W)'
  BY TakeSequenceOpcodes DEF T35, T36, Row, Items, Dup, GoTo, Drop, Replace, Top
<1>36. T36(S, P, X, W) => verdict' = "running" /\ T37(S, P, X, W)'
  BY TakeSequenceOpcodes DEF T36, T37, Row, Items, Hash256, GoTo, Drop, Replace, Top
<1>37. T37(S, P, X, W) => verdict' = "running" /\ T38(S, P, X, W)'
  BY TakeSequenceOpcodes DEF T37, T38, Row, Items, Rot, GoTo, Drop, Replace, Top
<1> QED
  BY <1>32, <1>33, <1>34, <1>35, <1>36, <1>37 DEF TakeSequenceRun

\* The outputs are taken, all that is before the locktime.
LEMMA TakeOutputsStep ==
    ASSUME NEW S, NEW P, NEW X, NEW W, script = "mintOutscript", verdict = "running", runCovenant,
           Reads(W), TakeOutputsRun(S, P, X, W)
    PROVE  \/ verdict' = "running" /\ TakeOutputsRun(S, P, X, W)'
           \/ verdict' = "running" /\ T49(S, P, X, W)'
<1>38. T38(S, P, X, W) => verdict' = "running" /\ T39(S, P, X, W)'
  BY TakeOutputsOpcodes DEF T38, T39, Row, Items, Push, GoTo, Drop, Replace
<1>39. T39(S, P, X, W) => verdict' = "running" /\ T40(S, P, X, W)'
  <2>1. 1 \in 0..Width(FromCountOfOutputs(W))
    BY DEF Reads, ReadsOutputs
  <2> QED
    BY <2>1, TakeOutputsOpcodes, NumberRead DEF T39, T40, Row, Items, Split, GoTo, Drop, Replace, Top,
       FromOutputs
<1>40. T40(S, P, X, W) => verdict' = "running" /\ T41(S, P, X, W)'
  BY TakeOutputsOpcodes DEF T40, T41, Row, Items, Nip, GoTo, Drop, Replace, Top
<1>41. T41(S, P, X, W) => verdict' = "running" /\ T42(S, P, X, W)'
  BY TakeOutputsOpcodes DEF T41, T42, Row, Items, Dup, GoTo, Drop, Replace, Top
<1>42. T42(S, P, X, W) => verdict' = "running" /\ T43(S, P, X, W)'
  BY TakeOutputsOpcodes DEF T42, T43, Row, Items, Size, GoTo, Drop, Replace, Top
<1>43. T43(S, P, X, W) => verdict' = "running" /\ T44(S, P, X, W)'
  BY TakeOutputsOpcodes DEF T43, T44, Row, Items, Push, GoTo, Drop, Replace
<1>44. T44(S, P, X, W) => verdict' = "running" /\ T45(S, P, X, W)'
  <2>1. Width(FromOutputs(W)) \in Nat
    BY DEF Reads, ReadsOutputs
  <2> QED
    BY <2>1, TakeOutputsOpcodes, NumberRead DEF T44, T45, Row, Items, Sub, GoTo, Drop, Replace, Top
<1>45. T45(S, P, X, W) => verdict' = "running" /\ T46(S, P, X, W)'
  <2>1. Width(FromOutputs(W)) - 4 \in 0..Width(FromOutputs(W))
    BY DEF Reads, ReadsOutputs
  <2> QED
    BY <2>1, TakeOutputsOpcodes, NumberRead DEF T45, T46, Row, Items, Split, GoTo, Drop, Replace, Top,
       AllOutputsOf, LocktimeOf
<1>46. T46(S, P, X, W) => verdict' = "running" /\ T47(S, P, X, W)'
  BY TakeOutputsOpcodes DEF T46, T47, Row, Items, Swap, GoTo, Drop, Replace, Top
<1>47. T47(S, P, X, W) => verdict' = "running" /\ T48(S, P, X, W)'
  BY TakeOutputsOpcodes DEF T47, T48, Row, Items, Hash256, GoTo, Drop, Replace, Top
<1>48. T48(S, P, X, W) => verdict' = "running" /\ T49(S, P, X, W)'
  BY TakeOutputsOpcodes DEF T48, T49, Row, Items, Rot, GoTo, Drop, Replace, Top
<1> QED
  BY <1>38, <1>39, <1>40, <1>41, <1>42, <1>43, <1>44, <1>45, <1>46, <1>47, <1>48 DEF TakeOutputsRun

\* The label is the script's.
LEMMA CompareLabelStep ==
    ASSUME NEW S, NEW P, NEW X, NEW W, script = "mintOutscript", verdict = "running", runCovenant,
           Reads(W), CompareLabelRun(S, P, X, W)
    PROVE  \/ verdict' = "running" /\ CompareLabelRun(S, P, X, W)'
           \/ verdict' = "running" /\ T57(S, P, X, W)'
<1>49. T49(S, P, X, W) => verdict' = "running" /\ T50(S, P, X, W)'
  BY CompareLabelOpcodes DEF T49, T50, Row, Items, Push, GoTo, Drop, Replace
<1>50. T50(S, P, X, W) => verdict' = "running" /\ T51(S, P, X, W)'
  <2>1. 9 \in 0..Width(FromOutputs(W))
    BY DEF Reads, ReadsOutputs
  <2> QED
    BY <2>1, CompareLabelOpcodes, NumberRead DEF T50, T51, Row, Items, Split, GoTo, Drop, Replace, Top,
       FromLabel
<1>51. T51(S, P, X, W) => verdict' = "running" /\ T52(S, P, X, W)'
  <2> SUFFICES ASSUME T51(S, P, X, W) PROVE verdict' = "running" /\ T52(S, P, X, W)'
    OBVIOUS
  <2>1. Top(0) = FromLabel(W)
    BY DEF T51, Row, Items, Top
  <2>2. Replace(2, <<FromLabel(W)>>)
    BY <2>1, CompareLabelOpcodes DEF Nip, T51, Row
  <2> QED
    BY <2>2 DEF T51, T52, Row, Items, GoTo, Drop, Replace
<1>52. T52(S, P, X, W) => verdict' = "running" /\ T53(S, P, X, W)'
  BY CompareLabelOpcodes DEF T52, T53, Row, Items, Push, GoTo, Drop, Replace
<1>53. T53(S, P, X, W) => verdict' = "running" /\ T54(S, P, X, W)'
  <2>1. 11 \in 0..Width(FromLabel(W))
    BY DEF Reads, ReadsOutputs
  <2> QED
    BY <2>1, CompareLabelOpcodes, NumberRead DEF T53, T54, Row, Items, Split, GoTo, Drop, Replace, Top, LabelOf,
       FromMintLength
<1>54. T54(S, P, X, W) => verdict' = "running" /\ T55(S, P, X, W)'
  BY CompareLabelOpcodes DEF T54, T55, Row, Items, Swap, GoTo, Drop, Replace, Top
<1>55. T55(S, P, X, W) => verdict' = "running" /\ T56(S, P, X, W)'
  BY CompareLabelOpcodes DEF T55, T56, Row, Items, Push, GoTo, Drop, Replace
<1>56. T56(S, P, X, W) => verdict' = "running" /\ T57(S, P, X, W)'
  <2>1. LabelOf(W) = Label
    BY DEF Reads, ReadsOutputs
  <2> QED
    BY <2>1, CompareLabelOpcodes DEF T56, T57, Row, Items, EqualVerify, GoTo, Drop, Top, Require
<1> QED
  BY <1>49, <1>50, <1>51, <1>52, <1>53, <1>54, <1>55, <1>56 DEF CompareLabelRun

\* Where the length of the outputs to mint is not negative, the script goes on at opcode 67.
LEMMA MintEndIf ==
    ASSUME script = "mintOutscript", pc = 63
    PROVE  66 = CHOOSE i \in DOMAIN Ops[script] :
                    /\ i > pc /\ Ops[script][i].op = "endif"
                    /\ \A j \in (pc + 1)..(i - 1) : Ops[script][j].op # "endif"
<1> DEFINE ops == Ops[script]
<1>1. ops = mintOutscript
  BY DEF Ops, Covenants
<1>2. \A k : k = 64 => ops[k] = [op |-> "push", arg |-> Byte(0)]
  BY <1>1, OpsOutscript, Ops_MintOutputsOnAltstack
<1>3. \A k : k = 65 => ops[k] = [op |-> "cat", arg |-> << >>]
  BY <1>1, OpsOutscript, Ops_MintOutputsOnAltstack
<1>4. \A k : k = 66 => ops[k] = [op |-> "endif", arg |-> << >>]
  BY <1>1, OpsOutscript, Ops_MintOutputsOnAltstack
<1>5. DOMAIN ops = 1..128
  BY <1>1, OpsOutscript
<1> HIDE DEF ops
<1>6. ops[64].op = "push" /\ ops[65].op = "cat" /\ ops[66].op = "endif"
  BY <1>2, <1>3, <1>4
<1> DEFINE Closes(i) == /\ i > 63 /\ ops[i].op = "endif"
                      /\ \A j \in (63 + 1)..(i - 1) : ops[j].op # "endif"
<1>7. \A i \in DOMAIN ops : Closes(i) <=> i = 66
  <2>1. ASSUME NEW i \in 1..128, Closes(i) PROVE i = 66
    <3>1. i # 64 /\ i # 65
      BY <1>6, <2>1
    <3>2. ~(i > 66)
      BY <1>6, <2>1
    <3> QED BY <2>1, <3>1, <3>2
  <2>2. Closes(66)
    BY <1>6
  <2> HIDE DEF Closes
  <2> QED BY <1>5, <2>1, <2>2
<1>8. 66 \in DOMAIN ops
  BY <1>5
<1>9. 66 = CHOOSE i \in DOMAIN ops : Closes(i)
  <2> HIDE DEF Closes
  <2> QED BY <1>7, <1>8, Zenon
<1> QED BY <1>9, Zenon DEF ops

\* The outputs to mint are taken, whether their length is above 127 or not.
LEMMA TakeMintStep ==
    ASSUME NEW S, NEW P, NEW X, NEW W, script = "mintOutscript", verdict = "running", runCovenant,
           Reads(W), TakeMintRun(S, P, X, W)
    PROVE  \/ verdict' = "running" /\ TakeMintRun(S, P, X, W)'
           \/ verdict' = "running" /\ T70(S, P, X, W)'
<1>57. T57(S, P, X, W) => verdict' = "running" /\ T58(S, P, X, W)'
  BY TakeMintOpcodes DEF T57, T58, Row, Items, Push, GoTo, Drop, Replace
<1>58. T58(S, P, X, W) => verdict' = "running" /\ T59(S, P, X, W)'
  <2>1. 1 \in 0..Width(FromMintLength(W)) /\ IsNumber(Number(1)) /\ NumberOf(Number(1)) = 1
    BY NumberRead DEF Reads, ReadsMint
  <2>2. SUFFICES ASSUME T58(S, P, X, W) PROVE verdict' = "running" /\ T59(S, P, X, W)'
    OBVIOUS
  <2>3. Split /\ Top(0) = Number(1) /\ Top(1) = FromMintLength(W)
    BY <2>2, TakeMintOpcodes DEF T58, Row, Items, Top
  <2>4. Replace(2, <<LengthOfMint(W), FromMint(W)>>)
    BY <2>1, <2>3 DEF Split, LengthOfMint, FromMint
  <2> QED BY <2>2, <2>4 DEF T58, T59, Row, Items, Replace, GoTo, Drop
<1>59. T59(S, P, X, W) => verdict' = "running" /\ T60(S, P, X, W)'
  BY TakeMintOpcodes DEF T59, T60, Row, Items, Swap, GoTo, Drop, Replace, Top
<1>60. T60(S, P, X, W) => verdict' = "running" /\ T61(S, P, X, W)'
  BY TakeMintOpcodes DEF T60, T61, Row, Items, Dup, GoTo, Drop, Replace, Top
<1>61. T61(S, P, X, W) => verdict' = "running" /\ T62(S, P, X, W)'
  BY TakeMintOpcodes DEF T61, T62, Row, Items, Push, GoTo, Drop, Replace
<1>62. T62(S, P, X, W) => verdict' = "running" /\ T63(S, P, X, W)'
  BY TakeMintOpcodes, NumberRead DEF T62, T63, Row, Items, LessThan, GoTo, Drop, Replace, Top
<1>63. T63(S, P, X, W) =>
         \/ verdict' = "running" /\ NumberOf(LengthOfMint(W)) < 0 /\ T64(S, P, X, W)'
         \/ verdict' = "running" /\ T67(S, P, X, W)'
  <2> SUFFICES ASSUME T63(S, P, X, W)
               PROVE  \/ verdict' = "running" /\ NumberOf(LengthOfMint(W)) < 0 /\ T64(S, P, X, W)'
                      \/ verdict' = "running" /\ T67(S, P, X, W)'
    OBVIOUS
  <2>1. If /\ pc = 63 /\ Top(0) = Truth(NumberOf(LengthOfMint(W)) < 0)
    BY TakeMintOpcodes DEF T63, Row, Items, Top
  <2>2. CASE NumberOf(LengthOfMint(W)) < 0
    <3>1. GoTo(pc + 1, 1, << >>) /\ UNCHANGED <<alt, verdict>>
      BY <2>1, <2>2 DEF If
    <3> QED
      BY <2>2, <3>1 DEF T63, T64, Row, Items, GoTo, Drop
  <2>3. CASE ~(NumberOf(LengthOfMint(W)) < 0)
    <3> DEFINE endif == CHOOSE i \in DOMAIN Ops[script] :
                            /\ i > pc /\ Ops[script][i].op = "endif"
                            /\ \A j \in (pc + 1)..(i - 1) : Ops[script][j].op # "endif"
    <3>1. endif = 66
      BY <2>1, MintEndIf, Zenon
    <3>2. Top(0) # Truth(TRUE)
      BY <2>1, <2>3 DEF Truth, Number, Byte, Piece
    <3>4. GoTo(IF Top(0) = Truth(TRUE) THEN pc + 1 ELSE endif + 1, 1, << >>) /\ UNCHANGED <<alt, verdict>>
      BY <2>1, Zenon DEF If
    <3> HIDE DEF endif
    <3>5. GoTo(67, 1, << >>) /\ UNCHANGED <<alt, verdict>>
      BY <3>1, <3>2, <3>4
    <3>3. MintLength(W) = LengthOfMint(W)
      BY <2>3 DEF MintLength
    <3> QED
      BY <3>3, <3>5 DEF T63, T67, Row, Items, GoTo, Drop
  <2> QED BY <2>2, <2>3
<1>64. T64(S, P, X, W) => verdict' = "running" /\ T65(S, P, X, W)'
  BY TakeMintOpcodes DEF T64, T65, Row, Items, Push, GoTo, Drop, Replace
<1>65. NumberOf(LengthOfMint(W)) < 0 /\ T65(S, P, X, W) => verdict' = "running" /\ T66(S, P, X, W)'
  <2> SUFFICES ASSUME NumberOf(LengthOfMint(W)) < 0, T65(S, P, X, W)
               PROVE  verdict' = "running" /\ T66(S, P, X, W)'
    OBVIOUS
  <2>1. Top(1) \o Top(0) = MintLength(W)
    <3>1. Top(1) = LengthOfMint(W) /\ Top(0) = Byte(0)
      BY DEF T65, Row, Items, Top
    <3> QED BY <3>1 DEF MintLength
  <2>2. Replace(2, <<MintLength(W)>>)
    BY <2>1, TakeMintOpcodes DEF Cat, T65, Row
  <2> QED
    BY <2>2 DEF T65, T66, Row, Items, GoTo, Drop, Replace
<1>66. T66(S, P, X, W) => verdict' = "running" /\ T67(S, P, X, W)'
  BY TakeMintOpcodes DEF T66, T67, Row, Items, EndIf, GoTo, Drop, Replace
<1>67. T67(S, P, X, W) => verdict' = "running" /\ T68(S, P, X, W)'
  <2>1. IsNumber(MintLength(W)) /\ NumberOf(MintLength(W)) \in 0..Width(FromMint(W))
    BY DEF Reads, ReadsMint, MintSize
  <2> QED
    BY <2>1, TakeMintOpcodes DEF T67, T68, Row, Items, Split, GoTo, Drop, Replace, Top, MintedOutputs, MintSize
<1>68. T68(S, P, X, W) => verdict' = "running" /\ T69(S, P, X, W)'
  BY TakeMintOpcodes DEF T68, T69, Row, Items, DropTop, GoTo, Drop, Replace
<1>69. T69(S, P, X, W) => verdict' = "running" /\ T70(S, P, X, W)'
  BY TakeMintOpcodes DEF T69, T70, Row, Items, ToAltStack, GoTo, Drop, Top
<1> QED
  BY <1>57, <1>58, <1>59, <1>60, <1>61, <1>62, <1>63, <1>64, <1>65, <1>66, <1>67, <1>68, <1>69 DEF TakeMintRun

\* The oracle's preimage is put together, from the end to the ring,
LEMMA StartPreimageStep ==
    ASSUME NEW S, NEW P, NEW X, NEW W, script = "mintOutscript", verdict = "running", runCovenant,
           Reads(W), StartPreimageRun(S, P, X, W)
    PROVE  \/ verdict' = "running" /\ StartPreimageRun(S, P, X, W)'
           \/ verdict' = "running" /\ T86(S, P, X, W)'
<1>70. T70(S, P, X, W) => verdict' = "running" /\ T71(S, P, X, W)'
  BY StartPreimageOpcodes DEF T70, T71, Row, Items, Swap, GoTo, Drop, Replace, Top
<1>71. T71(S, P, X, W) => verdict' = "running" /\ T72(S, P, X, W)'
  BY StartPreimageOpcodes DEF T71, T72, Row, Items, Push, GoTo, Drop, Replace
<1>72. T72(S, P, X, W) => verdict' = "running" /\ T73(S, P, X, W)'
  <2> SUFFICES ASSUME T72(S, P, X, W) PROVE verdict' = "running" /\ T73(S, P, X, W)'
    OBVIOUS
  <2>1. Top(1) \o Top(0) = LocktimeOn(W)
    <3>1. Top(1) = LocktimeOf(W) /\ Top(0) = TypeBytes(SignsAll, 4)
      BY DEF T72, Row, Items, Top
    <3> QED BY <3>1 DEF LocktimeOn
  <2>2. Replace(2, <<LocktimeOn(W)>>)
    BY <2>1, StartPreimageOpcodes DEF Cat, T72, Row
  <2> QED
    BY <2>2 DEF T72, T73, Row, Items, GoTo, Drop, Replace
<1>73. T73(S, P, X, W) => verdict' = "running" /\ T74(S, P, X, W)'
  <2> SUFFICES ASSUME T73(S, P, X, W) PROVE verdict' = "running" /\ T74(S, P, X, W)'
    OBVIOUS
  <2>1. Top(1) \o Top(0) = OutputsOn(W)
    <3>1. Top(1) = HASH256(AllOutputsOf(W)) /\ Top(0) = LocktimeOn(W)
      BY DEF T73, Row, Items, Top
    <3> QED BY <3>1 DEF OutputsOn
  <2>2. Replace(2, <<OutputsOn(W)>>)
    BY <2>1, StartPreimageOpcodes DEF Cat, T73, Row
  <2> QED
    BY <2>2 DEF T73, T74, Row, Items, GoTo, Drop, Replace
<1>74. T74(S, P, X, W) => verdict' = "running" /\ T75(S, P, X, W)'
  BY StartPreimageOpcodes DEF T74, T75, Row, Items, Rot, GoTo, Drop, Replace, Top
<1>75. T75(S, P, X, W) => verdict' = "running" /\ T76(S, P, X, W)'
  BY StartPreimageOpcodes DEF T75, T76, Row, Items, Push, GoTo, Drop, Replace
<1>76. T76(S, P, X, W) => verdict' = "running" /\ T77(S, P, X, W)'
  BY StartPreimageOpcodes DEF T76, T77, Row, Items, Swap, GoTo, Drop, Replace, Top
<1>77. T77(S, P, X, W) => verdict' = "running" /\ T78(S, P, X, W)'
  <2> SUFFICES ASSUME T77(S, P, X, W) PROVE verdict' = "running" /\ T78(S, P, X, W)'
    OBVIOUS
  <2>1. Top(1) \o Top(0) = ValueOf(W)
    <3>1. Top(1) = LE(ORACLE_TX_SATS, 8) /\ Top(0) = SequenceOf(W)
      BY DEF T77, Row, Items, Top
    <3> QED BY <3>1 DEF ValueOf
  <2>2. Replace(2, <<ValueOf(W)>>)
    BY <2>1, StartPreimageOpcodes DEF Cat, T77, Row
  <2> QED
    BY <2>2 DEF T77, T78, Row, Items, GoTo, Drop, Replace
<1>78. T78(S, P, X, W) => verdict' = "running" /\ T79(S, P, X, W)'
  BY StartPreimageOpcodes DEF T78, T79, Row, Items, Swap, GoTo, Drop, Replace, Top
<1>79. T79(S, P, X, W) => verdict' = "running" /\ T80(S, P, X, W)'
  <2> SUFFICES ASSUME T79(S, P, X, W) PROVE verdict' = "running" /\ T80(S, P, X, W)'
    OBVIOUS
  <2>1. Top(1) \o Top(0) = ValueOn(W)
    <3>1. Top(1) = ValueOf(W) /\ Top(0) = OutputsOn(W)
      BY DEF T79, Row, Items, Top
    <3> QED BY <3>1 DEF ValueOn
  <2>2. Replace(2, <<ValueOn(W)>>)
    BY <2>1, StartPreimageOpcodes DEF Cat, T79, Row
  <2> QED
    BY <2>2 DEF T79, T80, Row, Items, GoTo, Drop, Replace
<1>80. T80(S, P, X, W) => verdict' = "running" /\ T81(S, P, X, W)'
  BY StartPreimageOpcodes DEF T80, T81, Row, Items, Rot, GoTo, Drop, Replace, Top
<1>81. T81(S, P, X, W) => verdict' = "running" /\ T82(S, P, X, W)'
  BY StartPreimageOpcodes DEF T81, T82, Row, Items, Size, GoTo, Drop, Replace, Top
<1>82. T82(S, P, X, W) => verdict' = "running" /\ T83(S, P, X, W)'
  BY StartPreimageOpcodes DEF T82, T83, Row, Items, Swap, GoTo, Drop, Replace, Top
<1>83. T83(S, P, X, W) => verdict' = "running" /\ T84(S, P, X, W)'
  <2> SUFFICES ASSUME T83(S, P, X, W) PROVE verdict' = "running" /\ T84(S, P, X, W)'
    OBVIOUS
  <2>1. Top(1) \o Top(0) = CountedRing(W)
    <3>1. Top(1) = Number(Width(RingOf(W))) /\ Top(0) = RingOf(W)
      BY DEF T83, Row, Items, Top
    <3> QED BY <3>1 DEF CountedRing
  <2>2. Replace(2, <<CountedRing(W)>>)
    BY <2>1, StartPreimageOpcodes DEF Cat, T83, Row
  <2> QED
    BY <2>2 DEF T83, T84, Row, Items, GoTo, Drop, Replace
<1>84. T84(S, P, X, W) => verdict' = "running" /\ T85(S, P, X, W)'
  BY StartPreimageOpcodes DEF T84, T85, Row, Items, Swap, GoTo, Drop, Replace, Top
<1>85. T85(S, P, X, W) => verdict' = "running" /\ T86(S, P, X, W)'
  <2> SUFFICES ASSUME T85(S, P, X, W) PROVE verdict' = "running" /\ T86(S, P, X, W)'
    OBVIOUS
  <2>1. Top(1) \o Top(0) = RingOn(W)
    <3>1. Top(1) = CountedRing(W) /\ Top(0) = ValueOn(W)
      BY DEF T85, Row, Items, Top
    <3> QED BY <3>1 DEF RingOn
  <2>2. Replace(2, <<RingOn(W)>>)
    BY <2>1, StartPreimageOpcodes DEF Cat, T85, Row
  <2> QED
    BY <2>2 DEF T85, T86, Row, Items, GoTo, Drop, Replace
<1> QED
  BY <1>70, <1>71, <1>72, <1>73, <1>74, <1>75, <1>76, <1>77, <1>78, <1>79, <1>80, <1>81, <1>82, <1>83, <1>84,
     <1>85 DEF StartPreimageRun

\* and from the input to the version.
LEMMA FinishPreimageStep ==
    ASSUME NEW S, NEW P, NEW X, NEW W, script = "mintOutscript", verdict = "running", runCovenant,
           Reads(W), FinishPreimageRun(S, P, X, W)
    PROVE  \/ verdict' = "running" /\ FinishPreimageRun(S, P, X, W)'
           \/ verdict' = "running" /\ T97(S, P, X, W)'
<1>86. T86(S, P, X, W) => verdict' = "running" /\ T87(S, P, X, W)'
  BY FinishPreimageOpcodes DEF T86, T87, Row, Items, Push, GoTo, Drop, Replace
<1>87. T87(S, P, X, W) => verdict' = "running" /\ T88(S, P, X, W)'
  <2> SUFFICES ASSUME T87(S, P, X, W) PROVE verdict' = "running" /\ T88(S, P, X, W)'
    OBVIOUS
  <2> DEFINE four == [i \in 1..4 |-> Top(5 - i)]
             five == four \o <<Top(5)>>
  <2>1. Top(0) = Number(4) /\ NumberOf(Number(4)) = 4
    BY NumberRead DEF T87, Row, Items, Top
  <2>2. Replace(6, five)
    <3>1. Roll
      BY FinishPreimageOpcodes DEF T87, Row
    <3> QED BY <2>1, <3>1 DEF Roll
  <2>3. Len(five) = 5 /\ five[1] = Top(4) /\ five[2] = Top(3) /\ five[3] = Top(2) /\ five[4] = Top(1)
        /\ five[5] = Top(5)
    OBVIOUS
  <2> HIDE DEF five
  <2>4. /\ Top(1) = RingOn(W) /\ Top(2) = HASH256(SequenceOf(W)) /\ Top(3) = SignatureOf(W)
        /\ Top(4) = HASH256(InputOf(W)) /\ Top(5) = InputOf(W)
    BY DEF T87, Row, Items, Top
  <2>5. pc' = 88 /\ alt' = alt /\ verdict' = "running" /\ Len(stack) = 10 /\ stack' = SubSeq(stack, 1, 4) \o five
    BY <2>2 DEF T87, Row, Items, GoTo, Drop, Replace
  <2>6. Len(SubSeq(stack, 1, 4)) = 4 /\ \A i \in 1..4 : SubSeq(stack, 1, 4)[i] = stack[i]
    BY <2>5
  <2>7. Len(stack') = 9 /\ (\A i \in 1..4 : stack'[i] = stack[i]) /\ \A i \in 1..5 : stack'[4 + i] = five[i]
    <3> DEFINE kept == SubSeq(stack, 1, 4)
    <3>1. Len(kept) = 4 /\ (\A i \in 1..4 : kept[i] = stack[i]) /\ stack' = kept \o five
      BY <2>5, <2>6
    <3> HIDE DEF kept, five
    <3>2. Len(kept) \in Nat /\ Len(five) \in Nat
      BY <2>3, <3>1
    <3>3. /\ Len(kept \o five) = Len(kept) + Len(five)
          /\ \A i \in 1..Len(kept) : (kept \o five)[i] = kept[i]
          /\ \A i \in 1..Len(five) : (kept \o five)[Len(kept) + i] = five[i]
      BY <3>2, Appended
    <3>4. Len(stack') = 9 /\ \A i \in 1..4 : stack'[i] = kept[i]
      BY <2>3, <3>1, <3>3
    <3>5. \A i \in 1..5 : stack'[4 + i] = five[i]
      BY <2>3, <3>1, <3>3
    <3> QED BY <3>1, <3>4, <3>5
  <2> QED
    BY <2>3, <2>4, <2>5, <2>7 DEF T87, T88, Row, Items
<1>88. T88(S, P, X, W) => verdict' = "running" /\ T89(S, P, X, W)'
  BY FinishPreimageOpcodes DEF T88, T89, Row, Items, Swap, GoTo, Drop, Replace, Top
<1>89. T89(S, P, X, W) => verdict' = "running" /\ T90(S, P, X, W)'
  <2> SUFFICES ASSUME T89(S, P, X, W) PROVE verdict' = "running" /\ T90(S, P, X, W)'
    OBVIOUS
  <2>1. Top(1) \o Top(0) = InputOn(W)
    <3>1. Top(1) = InputOf(W) /\ Top(0) = RingOn(W)
      BY DEF T89, Row, Items, Top
    <3> QED BY <3>1 DEF InputOn
  <2>2. Replace(2, <<InputOn(W)>>)
    BY <2>1, FinishPreimageOpcodes DEF Cat, T89, Row
  <2> QED
    BY <2>2 DEF T89, T90, Row, Items, GoTo, Drop, Replace
<1>90. T90(S, P, X, W) => verdict' = "running" /\ T91(S, P, X, W)'
  <2> SUFFICES ASSUME T90(S, P, X, W) PROVE verdict' = "running" /\ T91(S, P, X, W)'
    OBVIOUS
  <2>1. Top(1) \o Top(0) = SequencesOn(W)
    <3>1. Top(1) = HASH256(SequenceOf(W)) /\ Top(0) = InputOn(W)
      BY DEF T90, Row, Items, Top
    <3> QED BY <3>1 DEF SequencesOn
  <2>2. Replace(2, <<SequencesOn(W)>>)
    BY <2>1, FinishPreimageOpcodes DEF Cat, T90, Row
  <2> QED
    BY <2>2 DEF T90, T91, Row, Items, GoTo, Drop, Replace
<1>91. T91(S, P, X, W) => verdict' = "running" /\ T92(S, P, X, W)'
  BY FinishPreimageOpcodes DEF T91, T92, Row, Items, Rot, GoTo, Drop, Replace, Top
<1>92. T92(S, P, X, W) => verdict' = "running" /\ T93(S, P, X, W)'
  BY FinishPreimageOpcodes DEF T92, T93, Row, Items, Swap, GoTo, Drop, Replace, Top
<1>93. T93(S, P, X, W) => verdict' = "running" /\ T94(S, P, X, W)'
  <2> SUFFICES ASSUME T93(S, P, X, W) PROVE verdict' = "running" /\ T94(S, P, X, W)'
    OBVIOUS
  <2>1. Top(1) \o Top(0) = InputsOn(W)
    <3>1. Top(1) = HASH256(InputOf(W)) /\ Top(0) = SequencesOn(W)
      BY DEF T93, Row, Items, Top
    <3> QED BY <3>1 DEF InputsOn
  <2>2. Replace(2, <<InputsOn(W)>>)
    BY <2>1, FinishPreimageOpcodes DEF Cat, T93, Row
  <2> QED
    BY <2>2 DEF T93, T94, Row, Items, GoTo, Drop, Replace
<1>94. T94(S, P, X, W) => verdict' = "running" /\ T95(S, P, X, W)'
  BY FinishPreimageOpcodes DEF T94, T95, Row, Items, Rot, GoTo, Drop, Replace, Top
<1>95. T95(S, P, X, W) => verdict' = "running" /\ T96(S, P, X, W)'
  BY FinishPreimageOpcodes DEF T95, T96, Row, Items, Swap, GoTo, Drop, Replace, Top
<1>96. T96(S, P, X, W) => verdict' = "running" /\ T97(S, P, X, W)'
  <2> SUFFICES ASSUME T96(S, P, X, W) PROVE verdict' = "running" /\ T97(S, P, X, W)'
    OBVIOUS
  <2>1. Top(1) \o Top(0) = AttestedPreimage(W)
    <3>1. Top(1) = Version(W) /\ Top(0) = InputsOn(W)
      BY DEF T96, Row, Items, Top
    <3> QED BY <3>1 DEF AttestedPreimage
  <2>2. Replace(2, <<AttestedPreimage(W)>>)
    BY <2>1, FinishPreimageOpcodes DEF Cat, T96, Row
  <2> QED
    BY <2>2 DEF T96, T97, Row, Items, GoTo, Drop, Replace
<1> QED
  BY <1>86, <1>87, <1>88, <1>89, <1>90, <1>91, <1>92, <1>93, <1>94, <1>95, <1>96 DEF FinishPreimageRun

\* The oracle signed it, or the spend is rejected.
LEMMA CheckOracleStep ==
    ASSUME NEW S, NEW P, NEW X, NEW W, script = "mintOutscript", verdict = "running", runCovenant,
           Reads(W), CheckOracleRun(S, P, X, W)
    PROVE  \/ verdict' = "running" /\ CheckOracleRun(S, P, X, W)'
           \/ verdict' = "running" /\ Attests(W) /\ T107(S, P, X, W)'
           \/ verdict' = "rejected" /\ ~Attests(W)
<1>97. T97(S, P, X, W) => verdict' = "running" /\ T98(S, P, X, W)'
  BY CheckOracleOpcodes DEF T97, T98, Row, Items, Sha256, GoTo, Drop, Replace, Top
<1>98. T98(S, P, X, W) => verdict' = "running" /\ T99(S, P, X, W)'
  BY CheckOracleOpcodes DEF T98, T99, Row, Items, Swap, GoTo, Drop, Replace, Top
<1>99. T99(S, P, X, W) => verdict' = "running" /\ T100(S, P, X, W)'
  BY CheckOracleOpcodes DEF T99, T100, Row, Items, Size, GoTo, Drop, Replace, Top
<1>100. T100(S, P, X, W) => verdict' = "running" /\ T101(S, P, X, W)'
  BY CheckOracleOpcodes DEF T100, T101, Row, Items, Push, GoTo, Drop, Replace
<1>101. T101(S, P, X, W) => verdict' = "running" /\ T102(S, P, X, W)'
  <2>1. Width(SignatureOf(W)) \in Nat
    BY DEF Reads, ReadsSignature
  <2> QED
    BY <2>1, CheckOracleOpcodes, NumberRead DEF T101, T102, Row, Items, Sub, GoTo, Drop, Replace, Top
<1>102. T102(S, P, X, W) => verdict' = "running" /\ T103(S, P, X, W)'
  <2>1. Width(SignatureOf(W)) - 1 \in 0..Width(SignatureOf(W))
    BY DEF Reads, ReadsSignature
  <2> QED
    BY <2>1, CheckOracleOpcodes, NumberRead DEF T102, T103, Row, Items, Split, GoTo, Drop, Replace, Top,
       OracleSignature
<1>103. T103(S, P, X, W) => verdict' = "running" /\ T104(S, P, X, W)'
  BY CheckOracleOpcodes DEF T103, T104, Row, Items, DropTop, GoTo, Drop, Replace
<1>104. T104(S, P, X, W) => verdict' = "running" /\ T105(S, P, X, W)'
  BY CheckOracleOpcodes DEF T104, T105, Row, Items, Swap, GoTo, Drop, Replace, Top
<1>105. T105(S, P, X, W) => verdict' = "running" /\ T106(S, P, X, W)'
  BY CheckOracleOpcodes DEF T105, T106, Row, Items, Push, GoTo, Drop, Replace
<1>106. T106(S, P, X, W) =>
         \/ verdict' = "running" /\ Attests(W) /\ T107(S, P, X, W)'
         \/ verdict' = "rejected" /\ ~Attests(W)
  BY CheckOracleOpcodes DEF T106, T107, Row, Items, CheckDataSigVerify, GoTo, Drop, Top, Require, Attests
<1> QED
  BY <1>97, <1>98, <1>99, <1>100, <1>101, <1>102, <1>103, <1>104, <1>105, <1>106 DEF CheckOracleRun

\* The minter signed the preimage that is shown, or the spend is rejected.
LEMMA CheckMinterStep ==
    ASSUME NEW S, NEW P, NEW X, NEW W, script = "mintOutscript", verdict = "running", runCovenant,
           Width(S) \in Nat, CheckMinterRun(S, P, X, W)
    PROVE  \/ verdict' = "running" /\ CheckMinterRun(S, P, X, W)'
           \/ verdict' = "running" /\ SignedByMinter(S, P, X) /\ T117(S, P, X, W)'
           \/ verdict' = "rejected" /\ ~SignedByMinter(S, P, X)
<1>107. T107(S, P, X, W) => verdict' = "running" /\ T108(S, P, X, W)'
  BY CheckMinterOpcodes DEF T107, T108, Row, Items, ThreeDup, GoTo, Drop, Replace, Top
<1>108. T108(S, P, X, W) => verdict' = "running" /\ T109(S, P, X, W)'
  BY CheckMinterOpcodes DEF T108, T109, Row, Items, Sha256, GoTo, Drop, Replace, Top
<1>109. T109(S, P, X, W) => verdict' = "running" /\ T110(S, P, X, W)'
  BY CheckMinterOpcodes DEF T109, T110, Row, Items, Rot, GoTo, Drop, Replace, Top
<1>110. T110(S, P, X, W) => verdict' = "running" /\ T111(S, P, X, W)'
  BY CheckMinterOpcodes DEF T110, T111, Row, Items, Size, GoTo, Drop, Replace, Top
<1>111. T111(S, P, X, W) => verdict' = "running" /\ T112(S, P, X, W)'
  BY CheckMinterOpcodes, NumberRead DEF T111, T112, Row, Items, OneSub, GoTo, Drop, Replace, Top
<1>112. T112(S, P, X, W) =>
         \/ verdict' = "running" /\ Width(S) - 1 \in 0..Width(S) /\ T113(S, P, X, W)'
         \/ verdict' = "rejected" /\ ~(Width(S) - 1 \in 0..Width(S))
  BY CheckMinterOpcodes, NumberRead DEF T112, T113, Row, Items, Split, GoTo, Drop, Replace, Top, Signed
<1>113. T113(S, P, X, W) => verdict' = "running" /\ T114(S, P, X, W)'
  BY CheckMinterOpcodes DEF T113, T114, Row, Items, DropTop, GoTo, Drop, Replace
<1>114. T114(S, P, X, W) => verdict' = "running" /\ T115(S, P, X, W)'
  BY CheckMinterOpcodes DEF T114, T115, Row, Items, Swap, GoTo, Drop, Replace, Top
<1>115. T115(S, P, X, W) => verdict' = "running" /\ T116(S, P, X, W)'
  BY CheckMinterOpcodes DEF T115, T116, Row, Items, Rot, GoTo, Drop, Replace, Top
<1>116. T116(S, P, X, W) =>
         \/ verdict' = "running" /\ Verifies(SHA256(SHA256(X)), Signed(S), P) /\ T117(S, P, X, W)'
         \/ verdict' = "rejected" /\ ~Verifies(SHA256(SHA256(X)), Signed(S), P)
  BY CheckMinterOpcodes DEF T116, T117, Row, Items, CheckDataSigVerify, GoTo, Drop, Top, Require
<1> QED
  BY <1>107, <1>108, <1>109, <1>110, <1>111, <1>112, <1>113, <1>114, <1>115, <1>116 DEF CheckMinterRun,
     SignedByMinter

\* That preimage is of the outputs to mint, or the spend is rejected.
LEMMA CompareOutputsStep ==
    ASSUME NEW S, NEW P, NEW X, NEW W, script = "mintOutscript", verdict = "running", runCovenant,
           Width(X) \in Nat, CompareOutputsRun(S, P, X, W)
    PROVE  \/ verdict' = "running" /\ CompareOutputsRun(S, P, X, W)'
           \/ verdict' = "running" /\ OutputsCut(X) /\ MintMatches(X, W) /\ T128(S, P, X, W)'
           \/ verdict' = "rejected" /\ ~(OutputsCut(X) /\ MintMatches(X, W))
<1>117. T117(S, P, X, W) => verdict' = "running" /\ T118(S, P, X, W)'
  BY CompareOutputsOpcodes DEF T117, T118, Row, Items, Size, GoTo, Drop, Replace, Top
<1>118. T118(S, P, X, W) => verdict' = "running" /\ T119(S, P, X, W)'
  BY CompareOutputsOpcodes DEF T118, T119, Row, Items, Push, GoTo, Drop, Replace
<1>119. T119(S, P, X, W) => verdict' = "running" /\ T120(S, P, X, W)'
  BY CompareOutputsOpcodes, NumberRead DEF T119, T120, Row, Items, Sub, GoTo, Drop, Replace, Top
<1>120. T120(S, P, X, W) =>
         \/ verdict' = "running" /\ Width(X) - 40 \in 0..Width(X) /\ T121(S, P, X, W)'
         \/ verdict' = "rejected" /\ ~(Width(X) - 40 \in 0..Width(X))
  BY CompareOutputsOpcodes, NumberRead DEF T120, T121, Row, Items, Split, GoTo, Drop, Replace, Top
<1>121. T121(S, P, X, W) => verdict' = "running" /\ T122(S, P, X, W)'
  BY CompareOutputsOpcodes DEF T121, T122, Row, Items, Push, GoTo, Drop, Replace
<1>122. T122(S, P, X, W) =>
         \/ verdict' = "running" /\ 32 \in 0..Width(Rest(X, Width(X) - 40)) /\ T123(S, P, X, W)'
         \/ verdict' = "rejected" /\ ~(32 \in 0..Width(Rest(X, Width(X) - 40)))
  BY CompareOutputsOpcodes, NumberRead DEF T122, T123, Row, Items, Split, GoTo, Drop, Replace, Top, PreimageHash
<1>123. T123(S, P, X, W) => verdict' = "running" /\ T124(S, P, X, W)'
  BY CompareOutputsOpcodes DEF T123, T124, Row, Items, DropTop, GoTo, Drop, Replace
<1>124. T124(S, P, X, W) => verdict' = "running" /\ T125(S, P, X, W)'
  BY CompareOutputsOpcodes DEF T124, T125, Row, Items, FromAltStack, GoTo, Drop
<1>125. T125(S, P, X, W) => verdict' = "running" /\ T126(S, P, X, W)'
  BY CompareOutputsOpcodes DEF T125, T126, Row, Items, Hash256, GoTo, Drop, Replace, Top
<1>126. T126(S, P, X, W) =>
         \/ verdict' = "running" /\ MintMatches(X, W) /\ T127(S, P, X, W)'
         \/ verdict' = "rejected" /\ ~MintMatches(X, W)
  BY CompareOutputsOpcodes DEF T126, T127, Row, Items, EqualVerify, GoTo, Drop, Top, Require, MintMatches
<1>127. T127(S, P, X, W) => verdict' = "running" /\ T128(S, P, X, W)'
  BY CompareOutputsOpcodes DEF T127, T128, Row, Items, DropTop, GoTo, Drop, Replace
<1> QED
  BY <1>117, <1>118, <1>119, <1>120, <1>121, <1>122, <1>123, <1>124, <1>125, <1>126, <1>127 DEF
     CompareOutputsRun, OutputsCut

\* The whole script: a row of some part, with everything that has been required before it.
OutscriptRun(S, P, X, W) ==
    \/ TakeInputRun(S, P, X, W) \/ TakeSignatureRun(S, P, X, W)
    \/ /\ Reads(W)
       /\ \/ TakeRingRun(S, P, X, W) \/ TakeSequenceRun(S, P, X, W) \/ TakeOutputsRun(S, P, X, W)
          \/ CompareLabelRun(S, P, X, W) \/ TakeMintRun(S, P, X, W) \/ StartPreimageRun(S, P, X, W)
          \/ FinishPreimageRun(S, P, X, W) \/ CheckOracleRun(S, P, X, W)
    \/ Reads(W) /\ Attests(W) /\ CheckMinterRun(S, P, X, W)
    \/ Reads(W) /\ Attests(W) /\ SignedByMinter(S, P, X) /\ CompareOutputsRun(S, P, X, W)
    \/ /\ Reads(W) /\ Attests(W) /\ SignedByMinter(S, P, X) /\ OutputsCut(X) /\ MintMatches(X, W)
       /\ T128(S, P, X, W)

\* What the whole script requires.
OutscriptPasses(S, P, X, W, R) ==
    /\ Reads(W) /\ Attests(W) /\ SignedByMinter(S, P, X) /\ OutputsCut(X) /\ MintMatches(X, W)
    /\ Verifies(HASH256(R), Signed(S), P)

\* W can be taken apart as far as its signature, and further if a length is found there.
TakesApart(W) == Opens(W) /\ (IsNumber(LengthOfSignature(W)) => Reads(W))

\* What has a length of its signature can be taken apart.
LEMMA ReadsNumber == \A W : Reads(W) => IsNumber(LengthOfSignature(W))
BY DEF Reads, ReadsSignature

\* While what is presented is taken apart, and the oracle's signature checked, a run goes on
\* to the next part.
LEMMA ReadingStep ==
    ASSUME NEW S, NEW P, NEW X, NEW W, NEW R, script = "mintOutscript", verdict = "running", runCovenant,
           TakesApart(W),
           \/ TakeInputRun(S, P, X, W) \/ TakeSignatureRun(S, P, X, W)
           \/ /\ Reads(W)
              /\ \/ TakeRingRun(S, P, X, W) \/ TakeSequenceRun(S, P, X, W) \/ TakeOutputsRun(S, P, X, W)
                 \/ CompareLabelRun(S, P, X, W) \/ TakeMintRun(S, P, X, W) \/ StartPreimageRun(S, P, X, W)
                 \/ FinishPreimageRun(S, P, X, W) \/ CheckOracleRun(S, P, X, W)
    PROVE  \/ verdict' = "running" /\ OutscriptRun(S, P, X, W)'
           \/ verdict' = "rejected" /\ ~OutscriptPasses(S, P, X, W, R)
<1>1. CASE TakeInputRun(S, P, X, W)
  <2>1. T12(S, P, X, W)' => TakeSignatureRun(S, P, X, W)'
    BY DEF TakeSignatureRun
  <2>2. Opens(W)
    BY DEF TakesApart
  <2>3. verdict' = "running" /\ (TakeInputRun(S, P, X, W)' \/ T12(S, P, X, W)')
    BY <1>1, <2>2, TakeInputStep
  <2> QED BY <2>1, <2>3 DEF OutscriptRun
<1>2. CASE TakeSignatureRun(S, P, X, W)
  <2>1. T19(S, P, X, W)' => TakeRingRun(S, P, X, W)'
    BY DEF TakeRingRun
  <2>2. Opens(W) /\ (IsNumber(LengthOfSignature(W)) => Reads(W))
    BY DEF TakesApart
  <2>3. \/ verdict' = "running" /\ TakeSignatureRun(S, P, X, W)'
        \/ verdict' = "running" /\ IsNumber(LengthOfSignature(W)) /\ T19(S, P, X, W)'
        \/ verdict' = "rejected" /\ ~IsNumber(LengthOfSignature(W))
    BY <1>2, <2>2, TakeSignatureStep
  <2>4. IsNumber(LengthOfSignature(W)) => Reads(W)
    BY <2>2
  <2> QED BY <2>1, <2>3, <2>4, ReadsNumber DEF OutscriptRun, OutscriptPasses
<1>3. CASE Reads(W) /\ TakeRingRun(S, P, X, W)
  <2>1. T32(S, P, X, W)' => TakeSequenceRun(S, P, X, W)'
    BY DEF TakeSequenceRun
  <2>2. verdict' = "running" /\ (TakeRingRun(S, P, X, W)' \/ T32(S, P, X, W)')
    BY <1>3, TakeRingStep
  <2> QED BY <1>3, <2>1, <2>2 DEF OutscriptRun
<1>4. CASE Reads(W) /\ TakeSequenceRun(S, P, X, W)
  <2>1. T38(S, P, X, W)' => TakeOutputsRun(S, P, X, W)'
    BY DEF TakeOutputsRun
  <2>2. verdict' = "running" /\ (TakeSequenceRun(S, P, X, W)' \/ T38(S, P, X, W)')
    BY <1>4, TakeSequenceStep
  <2> QED BY <1>4, <2>1, <2>2 DEF OutscriptRun
<1>5. CASE Reads(W) /\ TakeOutputsRun(S, P, X, W)
  <2>1. T49(S, P, X, W)' => CompareLabelRun(S, P, X, W)'
    BY DEF CompareLabelRun
  <2>2. verdict' = "running" /\ (TakeOutputsRun(S, P, X, W)' \/ T49(S, P, X, W)')
    BY <1>5, TakeOutputsStep
  <2> QED BY <1>5, <2>1, <2>2 DEF OutscriptRun
<1>6. CASE Reads(W) /\ CompareLabelRun(S, P, X, W)
  <2>1. T57(S, P, X, W)' => TakeMintRun(S, P, X, W)'
    BY DEF TakeMintRun
  <2>2. verdict' = "running" /\ (CompareLabelRun(S, P, X, W)' \/ T57(S, P, X, W)')
    BY <1>6, CompareLabelStep
  <2> QED BY <1>6, <2>1, <2>2 DEF OutscriptRun
<1>7. CASE Reads(W) /\ TakeMintRun(S, P, X, W)
  <2>1. T70(S, P, X, W)' => StartPreimageRun(S, P, X, W)'
    BY DEF StartPreimageRun
  <2>2. verdict' = "running" /\ (TakeMintRun(S, P, X, W)' \/ T70(S, P, X, W)')
    BY <1>7, TakeMintStep
  <2> QED BY <1>7, <2>1, <2>2 DEF OutscriptRun
<1>8. CASE Reads(W) /\ StartPreimageRun(S, P, X, W)
  <2>1. T86(S, P, X, W)' => FinishPreimageRun(S, P, X, W)'
    BY DEF FinishPreimageRun
  <2>2. verdict' = "running" /\ (StartPreimageRun(S, P, X, W)' \/ T86(S, P, X, W)')
    BY <1>8, StartPreimageStep
  <2> QED BY <1>8, <2>1, <2>2 DEF OutscriptRun
<1>9. CASE Reads(W) /\ FinishPreimageRun(S, P, X, W)
  <2>1. T97(S, P, X, W)' => CheckOracleRun(S, P, X, W)'
    BY DEF CheckOracleRun
  <2>2. verdict' = "running" /\ (FinishPreimageRun(S, P, X, W)' \/ T97(S, P, X, W)')
    BY <1>9, FinishPreimageStep
  <2> QED BY <1>9, <2>1, <2>2 DEF OutscriptRun
<1>10. CASE Reads(W) /\ CheckOracleRun(S, P, X, W)
  <2>1. T107(S, P, X, W)' => CheckMinterRun(S, P, X, W)'
    BY DEF CheckMinterRun
  <2>2. \/ verdict' = "running" /\ CheckOracleRun(S, P, X, W)'
        \/ verdict' = "running" /\ Attests(W) /\ T107(S, P, X, W)'
        \/ verdict' = "rejected" /\ ~Attests(W)
    BY <1>10, CheckOracleStep
  <2> QED BY <1>10, <2>1, <2>2 DEF OutscriptRun, OutscriptPasses
<1> QED BY <1>1, <1>2, <1>3, <1>4, <1>5, <1>6, <1>7, <1>8, <1>9, <1>10

\* A run goes on or ends; it is accepted when everything required holds and rejected when
\* something does not.
LEMMA OutscriptStep ==
    ASSUME NEW S, NEW P, NEW X, NEW W, NEW R, script = "mintOutscript", verdict = "running", runCovenant,
           Width(S) \in Nat, Width(X) \in Nat, R = Preimage(spend.real), TakesApart(W), OutscriptRun(S, P, X, W)
    PROVE  \/ verdict' = "running" /\ OutscriptRun(S, P, X, W)'
           \/ verdict' = "rejected" /\ ~OutscriptPasses(S, P, X, W, R)
           \/ verdict' = "accepted" /\ OutscriptPasses(S, P, X, W, R)
<1>1. CASE Reads(W) /\ Attests(W) /\ CheckMinterRun(S, P, X, W)
  <2>1. T117(S, P, X, W)' => CompareOutputsRun(S, P, X, W)'
    BY DEF CompareOutputsRun
  <2>2. \/ verdict' = "running" /\ CheckMinterRun(S, P, X, W)'
        \/ verdict' = "running" /\ SignedByMinter(S, P, X) /\ T117(S, P, X, W)'
        \/ verdict' = "rejected" /\ ~SignedByMinter(S, P, X)
    BY <1>1, CheckMinterStep
  <2> QED BY <1>1, <2>1, <2>2 DEF OutscriptRun, OutscriptPasses
<1>2. CASE Reads(W) /\ Attests(W) /\ SignedByMinter(S, P, X) /\ CompareOutputsRun(S, P, X, W)
  <2>1. \/ verdict' = "running" /\ CompareOutputsRun(S, P, X, W)'
        \/ verdict' = "running" /\ OutputsCut(X) /\ MintMatches(X, W) /\ T128(S, P, X, W)'
        \/ verdict' = "rejected" /\ ~(OutputsCut(X) /\ MintMatches(X, W))
    BY <1>2, CompareOutputsStep
  <2> QED BY <1>2, <2>1 DEF OutscriptRun, OutscriptPasses
<1>3. CASE /\ Reads(W) /\ Attests(W) /\ SignedByMinter(S, P, X) /\ OutputsCut(X) /\ MintMatches(X, W)
           /\ T128(S, P, X, W)
  <2>1. CheckSig /\ Top(0) = P /\ Top(1) = S
    BY <1>3, LastMintOpcode DEF T128, Row, Items, Top
  <2>2. verdict' = IF Verifies(HASH256(R), Signed(S), P) THEN "accepted" ELSE "rejected"
    BY <2>1 DEF CheckSig, Signed
  <2> QED BY <1>3, <2>2 DEF OutscriptPasses
<1> QED BY <1>1, <1>2, <1>3, ReadingStep DEF OutscriptRun

\* Where the script has built the preimage it checks the oracle's signature over.
LEMMA PreimageRow ==
    ASSUME NEW S, NEW P, NEW X, NEW W, OutscriptRun(S, P, X, W), pc = PreimageConstructed
    PROVE  /\ Reads(W) /\ Top(0) = AttestedPreimage(W) /\ Top(1) = SignatureOf(W)
           /\ Items(alt, <<MintedOutputs(W)>>)
<1>1. pc = 97
  BY OpsOutscript
<1>2. ~TakeInputRun(S, P, X, W)
  BY <1>1 DEF Row, TakeInputRun, T1, T2, T3, T4, T5, T6, T7, T8, T9, T10, T11
<1>3. ~TakeSignatureRun(S, P, X, W)
  BY <1>1 DEF Row, TakeSignatureRun, T12, T13, T14, T15, T16, T17, T18
<1>4. ~TakeRingRun(S, P, X, W)
  BY <1>1 DEF Row, TakeRingRun, T19, T20, T21, T22, T23, T24, T25, T26, T27, T28, T29, T30, T31
<1>5. ~TakeSequenceRun(S, P, X, W)
  BY <1>1 DEF Row, TakeSequenceRun, T32, T33, T34, T35, T36, T37
<1>6. ~TakeOutputsRun(S, P, X, W)
  BY <1>1 DEF Row, TakeOutputsRun, T38, T39, T40, T41, T42, T43, T44, T45, T46, T47, T48
<1>7. ~CompareLabelRun(S, P, X, W)
  BY <1>1 DEF Row, CompareLabelRun, T49, T50, T51, T52, T53, T54, T55, T56
<1>8. ~TakeMintRun(S, P, X, W)
  BY <1>1 DEF Row, TakeMintRun, T57, T58, T59, T60, T61, T62, T63, T64, T65, T66, T67, T68, T69
<1>9. ~StartPreimageRun(S, P, X, W)
  BY <1>1 DEF Row, StartPreimageRun, T70, T71, T72, T73, T74, T75, T76, T77, T78, T79, T80, T81, T82, T83,
     T84, T85
<1>10. ~FinishPreimageRun(S, P, X, W)
  BY <1>1 DEF Row, FinishPreimageRun, T86, T87, T88, T89, T90, T91, T92, T93, T94, T95, T96
<1>11. ~CheckMinterRun(S, P, X, W)
  BY <1>1 DEF Row, CheckMinterRun, T107, T108, T109, T110, T111, T112, T113, T114, T115, T116
<1>12. ~CompareOutputsRun(S, P, X, W)
  BY <1>1 DEF Row, CompareOutputsRun, T117, T118, T119, T120, T121, T122, T123, T124, T125, T126, T127
<1>13. ~T128(S, P, X, W)
  BY <1>1 DEF Row, T128
<1>14. Reads(W) /\ CheckOracleRun(S, P, X, W)
  BY <1>2, <1>3, <1>4, <1>5, <1>6, <1>7,
     <1>8, <1>9, <1>10, <1>11, <1>12, <1>13 DEF OutscriptRun
<1>15. T97(S, P, X, W)
  BY <1>1, <1>14 DEF CheckOracleRun, Row, T98, T99, T100, T101, T102, T103, T104, T105, T106
<1>16. Items(stack, <<S, P, X, SignatureOf(W), AttestedPreimage(W)>>) /\ Items(alt, <<MintedOutputs(W)>>)
  BY <1>15 DEF T97, Row
<1> QED BY <1>14, <1>16 DEF Items, Top

-----------------------------------------------------------------------------
(* An oracle's ring *)

\* A push of at most 75 bytes is read as what it pushes.
LEMMA DirectPushed ==
    ASSUME NEW x, IsBytes(x), NEW w, w = Width(x), w # 76
    PROVE  PushedData(Data(x)) = x
<1> DEFINE b == Byte(w)
           s == Data(x)
<1>1. s = Then(b, x)
  BY DEF Data, Then
<1> HIDE DEF b, s
<1>2. First(s, 1) = Byte(w) /\ Rest(s, 1) = x
  BY <1>1, ByteThen DEF b
<1>3. Byte(w) # Byte(76)
  BY PieceSays DEF Byte
<1> QED BY <1>2, <1>3 DEF PushedData, s

\* One above 75 bytes has a length of its own.
LEMMA LongPushed ==
    ASSUME NEW x, IsBytes(x), NEW w, w = Width(x), w \in 76..255
    PROVE  /\ PushData(x) = Then(Byte(76), Then(Byte(w), x))
           /\ PushedData(PushData(x)) = x
<1> DEFINE s == PushData(x)
           t == Then(Byte(w), x)
           h == Then(Byte(76), Byte(w))
<1>1. s = Then(Byte(76), t)
  <2>1. ~(w = 1) /\ ~(w <= 75) /\ w <= 255
    OBVIOUS
  <2>2. PushData(x) = Byte(76) \o Data(x)
    BY <2>1, Zenon DEF PushData, HasOpcode
  <2> QED BY <2>2 DEF Data, Then
<1>2. IsBytes(Byte(76)) /\ IsBytes(Byte(w)) /\ IsBytes(t) /\ IsBytes(h) /\ Width(h) = 2
  BY BytesOfPieces, ThenBytes DEF Then
<1>3. First(s, 1) = Byte(76)
  BY <1>1, <1>2, ByteThen
<1>4. Then(h, x) = Then(Byte(76), t)
  BY <1>2, ThenRegrouped
<1>5. Rest(s, 2) = x
  <2> HIDE DEF h, s, t
  <2> QED BY <1>1, <1>2, <1>4, ThenCut
<1> HIDE DEF s
<1>6. PushedData(s) = x
  BY <1>3, <1>5 DEF PushedData
<1> QED BY <1>1, <1>6 DEF s

\* A ring whose key is a secret's: its bytes, its key and its type,
LEMMA SecretRing ==
    ASSUME NEW key, NEW type, NEW ring, ring = toOracleRing(key, "secret", type)
    PROVE  /\ IsBytes(Concat(ring)) /\ Width(Concat(ring)) = 80
           /\ PushedData(ring[6]) = PubKey(key)
           /\ getOracleScriptType(ring) = IF type = "out" THEN "out" ELSE "in"
           /\ key \in Keys => KeyOf(ring) = key
<1> DEFINE a == IF type = "out" THEN OP_DROP ELSE OP_NIP
           b == Piece("networkId", "ETH", 8)
           c == Piece("assetId", "lock", 32)
           d == PubKey(key)
<1>1. /\ IsBytes(a) /\ Width(a) = 1 /\ IsBytes(OP_DROP) /\ Width(OP_DROP) = 1
      /\ IsBytes(OP_CHECKSIG) /\ Width(OP_CHECKSIG) = 1
      /\ IsBytes(b) /\ Width(b) = 8 /\ IsBytes(c) /\ Width(c) = 32 /\ IsBytes(d) /\ Width(d) = 33
  BY BytesOfPieces DEF OP_DROP, OP_NIP, OP_CHECKSIG, PubKey
<1>2. /\ ring[1] = a /\ ring[2] = Data(b) /\ ring[3] = OP_DROP /\ ring[4] = Data(c) /\ ring[5] = OP_DROP
      /\ ring[6] = Data(d) /\ ring[7] = OP_CHECKSIG /\ Len(ring) = 7
  BY DEF toOracleRing
<1>3. a = OP_DROP <=> type = "out"
  <2>1. OP_DROP # OP_NIP
    BY PieceSays DEF OP_DROP, OP_NIP, Byte
  <2> QED BY <2>1
<1> HIDE DEF a, b, c, d
<1>4. /\ IsBytes(Data(b)) /\ Width(Data(b)) = 9 /\ IsBytes(Data(c)) /\ Width(Data(c)) = 33
      /\ IsBytes(Data(d)) /\ Width(Data(d)) = 34
  BY <1>1, DataWidth
<1>5. /\ IsBytes(ring[1]) /\ IsBytes(ring[2]) /\ IsBytes(ring[3]) /\ IsBytes(ring[4]) /\ IsBytes(ring[5])
      /\ IsBytes(ring[6]) /\ IsBytes(ring[7])
      /\ Width(ring[1]) = 1 /\ Width(ring[2]) = 9 /\ Width(ring[3]) = 1 /\ Width(ring[4]) = 33
      /\ Width(ring[5]) = 1 /\ Width(ring[6]) = 34 /\ Width(ring[7]) = 1
  BY <1>1, <1>2, <1>4
<1>6. AreBytes(ring, 7)
  BY <1>2, <1>5 DEF AreBytes
<1>7. /\ IsBytes(Concat(ring)) /\ Width(Left(ring, 0)) = Width(Concat(ring)) /\ Width(Left(ring, 7)) = 0
      /\ \A i \in 1..7 : Width(Left(ring, i - 1)) = Width(ring[i]) + Width(Left(ring, i))
  BY <1>6, LeftWidth
<1> DEFINE W(i) == Width(Left(ring, i))
<1>8. /\ W(0) = Width(ring[1]) + W(1) /\ W(1) = Width(ring[2]) + W(2) /\ W(2) = Width(ring[3]) + W(3)
      /\ W(3) = Width(ring[4]) + W(4) /\ W(4) = Width(ring[5]) + W(5) /\ W(5) = Width(ring[6]) + W(6)
      /\ W(6) = Width(ring[7]) + W(7) /\ W(7) = 0
  BY <1>7
<1> HIDE DEF W
<1>9. W(0) = 80
  BY <1>5, <1>8
<1>10. PushedData(ring[6]) = d
  <2>1. 33 # 76 /\ 33 = Width(d)
    BY <1>1
  <2> QED BY <1>1, <1>2, <2>1, DirectPushed
<1>11. getOracleScriptType(ring) = IF type = "out" THEN "out" ELSE "in"
  <2>1. Width(PushedData(ring[6])) \in {33, 55}
    BY <1>1, <1>10
  <2> QED BY <1>2, <1>3, <2>1 DEF getOracleScriptType
<1>12. ASSUME key \in Keys PROVE KeyOf(ring) = key
  <2>1. \A k : d \in {PubKey(k), Piece("uncompressed", k, 65)} <=> k = key
    <3>1. \A k : PubKey(key) # Piece("uncompressed", k, 65)
      BY PieceSays DEF PubKey
    <3>2. \A k : PubKey(key) = PubKey(k) <=> k = key
      BY HashSays
    <3> QED BY <3>1, <3>2 DEF d
  <2>2. KeyOf(ring) = CHOOSE k \in Keys : d \in {PubKey(k), Piece("uncompressed", k, 65)}
    BY <1>10, Zenon DEF KeyOf
  <2>3. \A k \in Keys : d \in {PubKey(k), Piece("uncompressed", k, 65)} <=> k = key
    BY <2>1
  <2> QED BY <1>12, <2>2, <2>3
<1> QED BY <1>7, <1>9, <1>10, <1>11, <1>12 DEF W, d

\* and one whose key is not, which is not valid.
LEMMA OtherRing ==
    ASSUME NEW key, NEW from, from # "secret", NEW type, NEW ring, ring = toOracleRing(key, from, type)
    PROVE  getOracleScriptType(ring) = "invalid"
<1> DEFINE d == Piece("uncompressed", key, 65)
<1>1. ring[6] = Data(d)
  BY DEF toOracleRing
<1>2. IsBytes(d) /\ Width(d) = 65
  BY BytesOfPieces
<1> HIDE DEF d
<1>3. PushedData(ring[6]) = d
  <2>1. 65 # 76 /\ 65 = Width(d)
    BY <1>2
  <2> QED BY <1>1, <1>2, <2>1, DirectPushed
<1>4. Width(PushedData(ring[6])) \notin {33, 55}
  BY <1>2, <1>3
<1> QED BY <1>4 DEF getOracleScriptType

-----------------------------------------------------------------------------
(* A raw "in" attestation *)

\* The first of two strings is taken from both, and it is no longer than both.
LEMMA Taken ==
    \A a, b, n : IsBytes(a) /\ IsBytes(b) /\ n = Width(a) =>
        First(Then(a, b), n) = a /\ Rest(Then(a, b), n) = b /\ n \in 0..Width(Then(a, b))
<1>1. ASSUME NEW a, NEW b, NEW n, IsBytes(a), IsBytes(b), n = Width(a)
      PROVE  n \in 0..Width(Then(a, b))
  <2>1. Width(Then(a, b)) = Width(a) + Width(b) /\ Width(a) \in Nat /\ Width(b) \in Nat
    BY <1>1, ThenWidth
  <2> QED BY <1>1, <2>1
<1> QED BY <1>1, ThenCut

\* One after the other, two pieces are a string of two.
LEMMA TwoPieces == \A a, b : <<a>> \o <<b>> = <<a, b>>
<1>1. SUFFICES ASSUME NEW a, NEW b PROVE <<a>> \o <<b>> = <<a, b>>
  OBVIOUS
<1> DEFINE both == {a, b}
           s    == <<a>> \o <<b>>
           t    == <<a, b>>
<1>2. <<a>> \in Seq(both) /\ <<b>> \in Seq(both) /\ t \in Seq(both)
  OBVIOUS
<1>3. Len(s) = 2 /\ s[1] = a /\ s[2] = b /\ s \in Seq(both)
  BY <1>2, ConcatProperties
<1>4. Len(t) = 2 /\ t[1] = a /\ t[2] = b
  OBVIOUS
<1> HIDE DEF s, t, both
<1>5. \A i \in 1..Len(s) : s[i] = t[i]
  BY <1>3, <1>4
<1>6. s = t
  BY <1>2, <1>3, <1>4, <1>5, SeqEqual
<1> QED BY <1>6 DEF s, t

\* What a single byte is as a number: above 127 it is negative until a byte follows it.
LEMMA ByteNumber ==
    /\ \A n : IsNumber(Byte(n)) /\ IsNumber(Byte(n) \o Byte(0))
    /\ \A n \in 0..127 : NumberOf(Byte(n)) = n
    /\ \A n \in 129..255 : NumberOf(Byte(n)) \in Int /\ NumberOf(Byte(n)) < 0 /\ NumberOf(Byte(n) \o Byte(0)) = n
<1>1. \A n : Byte(n) = <<ByteOf(n)>> /\ Byte(n) \o Byte(0) = <<ByteOf(n), ByteOf(0)>>
  <2>1. \A n : Byte(n) = <<ByteOf(n)>>
    BY DEF Byte, Piece, ByteOf, PieceOf
  <2>3. ASSUME NEW n PROVE Byte(n) \o Byte(0) = <<ByteOf(n), ByteOf(0)>>
    <3>1. Byte(n) = <<ByteOf(n)>> /\ Byte(0) = <<ByteOf(0)>>
      BY <2>1, Zenon
    <3>2. Byte(n) \o Byte(0) = <<ByteOf(n)>> \o <<ByteOf(0)>>
      BY <3>1, Zenon
    <3> QED BY TwoPieces, <3>2, Zenon
  <2> QED BY <2>1, <2>3
<1>2. \A n : ByteOf(n).says[1] = "byte" /\ ByteOf(n).says[2] = n
  BY DEF ByteOf, PieceOf
<1>3. \A n : LET s == <<ByteOf(n)>> IN s # << >> /\ DOMAIN s = {1} /\ Len(s) = 1 /\ s[1] = ByteOf(n)
  OBVIOUS
<1>4. \A n : LET s == <<ByteOf(n), ByteOf(0)>>
             IN  s # << >> /\ DOMAIN s = {1, 2} /\ Len(s) = 2 /\ s[1] = ByteOf(n) /\ s[2] = ByteOf(0)
  OBVIOUS
<1>5. ASSUME NEW n PROVE IsNumber(Byte(n)) /\ IsNumber(Byte(n) \o Byte(0))
  <2>1. Byte(n) = <<ByteOf(n)>> /\ Byte(n) \o Byte(0) = <<ByteOf(n), ByteOf(0)>>
    BY <1>1
  <2>2. IsNumber(<<ByteOf(n)>>)
    BY <1>2, <1>3 DEF IsNumber
  <2>3. IsNumber(<<ByteOf(n), ByteOf(0)>>)
    BY <1>2, <1>4 DEF IsNumber
  <2> QED BY <2>1, <2>2, <2>3
<1>6. ASSUME NEW n \in Int
      PROVE  NumberOf(Byte(n)) = (IF n > 127 THEN 128 - n ELSE n) /\ NumberOf(Byte(n) \o Byte(0)) = n
  <2> DEFINE s == <<ByteOf(n)>>
             t == <<ByteOf(n), ByteOf(0)>>
  <2>1. Byte(n) = s /\ Byte(n) \o Byte(0) = t
    BY <1>1
  <2>2. Len(s) = 1 /\ s[1].says[2] = n /\ Len(t) = 2 /\ t[1].says[2] = n /\ t[2].says[2] = 0
    BY <1>2
  <2> HIDE DEF s, t
  <2>3. NumberOf(s) = (IF n > 127 THEN 128 - n ELSE n)
    BY <2>2 DEF NumberOf
  <2>4. NumberOf(t) = n + 256 * 0
    BY <2>2 DEF NumberOf
  <2>5. n + 256 * 0 = n
    OBVIOUS
  <2>6. NumberOf(t) = n
    BY <2>4, <2>5, Zenon
  <2> QED BY <2>1, <2>3, <2>6, Zenon
<1>7. ASSUME NEW n \in 129..255
      PROVE  NumberOf(Byte(n)) \in Int /\ NumberOf(Byte(n)) < 0 /\ NumberOf(Byte(n) \o Byte(0)) = n
  <2>1. n \in Int /\ n > 127 /\ 128 - n \in Int /\ 128 - n < 0
    OBVIOUS
  <2> QED BY <1>6, <2>1
<1>8. ASSUME NEW n \in 0..127 PROVE NumberOf(Byte(n)) = n
  <2>1. n \in Int /\ ~(n > 127)
    OBVIOUS
  <2> QED BY <1>6, <2>1
<1> QED BY <1>5, <1>7, <1>8

\* The parts of a raw "in" attestation: its version and number of inputs, its input, the deposit
\* it attests and its signature in front of its ring, and what follows.
IsRawIn(W, ver, one, inp, dep, sig, ring, rest) ==
    /\ IsBytes(ver) /\ IsBytes(one) /\ IsBytes(inp) /\ IsBytes(dep) /\ IsBytes(sig) /\ IsBytes(ring) /\ IsBytes(rest)
    /\ Width(ver) = 4 /\ Width(one) = 1 /\ Width(inp) = 36 /\ Width(dep) = 34 /\ Width(sig) = 72 /\ Width(ring) = 80
    /\ W = Then(ver, Then(one, Then(inp, Then(dep, Then(Byte(72), Then(sig,
                 Then(Byte(76), Then(Byte(80), Then(ring, rest)))))))))

\* What follows: its sequence number, its outputs, of which the first lists minted outputs x
\* behind a value, a length and a label, and its locktime.
IsRawOut(rest, seq, count, head, w, x, more, all, locktime) ==
    /\ IsBytes(seq) /\ IsBytes(count) /\ IsBytes(head) /\ IsBytes(x) /\ IsBytes(more) /\ IsBytes(all)
    /\ IsBytes(locktime) /\ IsBytes(Label)
    /\ Width(seq) = 4 /\ Width(count) = 1 /\ Width(head) = 9 /\ Width(Label) = 11 /\ w = Width(x)
    /\ w \in 1..127 \cup 129..255 /\ Width(locktime) = 4
    /\ rest = Then(seq, Then(count, Then(all, locktime)))
    /\ Then(all, locktime) = Then(head, Then(Label, Then(Byte(w), Then(x, more))))

\* The script takes an "in" attestation apart up to its ring,
LEMMA RawInRead ==
    ASSUME NEW W, NEW ver, NEW one, NEW inp, NEW dep, NEW sig, NEW ring, NEW rest,
           IsRawIn(W, ver, one, inp, dep, sig, ring, rest)
    PROVE  /\ Opens(W) /\ ReadsSignature(W) /\ ReadsRing(W)
           /\ Version(W) = ver /\ InputOf(W) = inp /\ SignatureOf(W) = sig /\ RingOf(W) = ring
           /\ FromSequence(W) = rest
<1> DEFINE t8 == Then(ring, rest)
           t7 == Then(Byte(80), t8)
           t6 == Then(Byte(76), t7)
           t5 == Then(sig, t6)
           t4 == Then(Byte(72), t5)
           t3 == Then(dep, t4)
           t2 == Then(inp, t3)
           t1 == Then(one, t2)
<1>1. /\ IsBytes(ver) /\ IsBytes(one) /\ IsBytes(inp) /\ IsBytes(dep) /\ IsBytes(sig) /\ IsBytes(ring) /\ IsBytes(rest)
      /\ Width(ver) = 4 /\ Width(one) = 1 /\ Width(inp) = 36 /\ Width(dep) = 34 /\ Width(sig) = 72 /\ Width(ring) = 80
      /\ W = Then(ver, t1)
  BY DEF IsRawIn
<1>2. \A n : IsBytes(Byte(n)) /\ Width(Byte(n)) = 1
  BY BytesOfPieces
<1>3. /\ IsBytes(t8) /\ IsBytes(t7) /\ IsBytes(t6) /\ IsBytes(t5) /\ IsBytes(t4) /\ IsBytes(t3) /\ IsBytes(t2)
      /\ IsBytes(t1)
  BY <1>1, <1>2, ThenBytes
<1>4. Version(W) = ver /\ FromCount(W) = t1 /\ 4 \in 0..Width(W)
  <2> HIDE DEF t1
  <2>1. 4 = Width(ver)
    BY <1>1
  <2> QED BY <1>1, <1>3, <2>1, Taken DEF Version, FromCount
<1>5. FromInput(W) = t2 /\ 1 \in 0..Width(FromCount(W))
  <2> HIDE DEF t2
  <2>1. 1 = Width(one)
    BY <1>1
  <2> QED BY <1>1, <1>3, <1>4, <2>1, Taken DEF FromInput
<1>6. InputOf(W) = inp /\ FromScript(W) = t3 /\ 36 \in 0..Width(FromInput(W))
  <2> HIDE DEF t3
  <2>1. 36 = Width(inp)
    BY <1>1
  <2> QED BY <1>1, <1>3, <1>5, <2>1, Taken DEF InputOf, FromScript
<1>7. FromLength(W) = t4 /\ 34 \in 0..Width(FromScript(W))
  <2> HIDE DEF t4
  <2>1. 34 = Width(dep)
    BY <1>1
  <2> QED BY <1>1, <1>3, <1>6, <2>1, Taken DEF FromLength
<1>8. LengthOfSignature(W) = Byte(72) /\ FromSignature(W) = t5 /\ 1 \in 0..Width(FromLength(W))
  <2> HIDE DEF t5
  <2>1. 1 = Width(Byte(72))
    BY <1>2
  <2> QED BY <1>2, <1>3, <1>7, <2>1, Taken DEF LengthOfSignature, FromSignature
<1>9. Opens(W)
  BY <1>4, <1>5, <1>6, <1>7, <1>8 DEF Opens
<1>10. IsNumber(Byte(72)) /\ NumberOf(Byte(72)) = 72 /\ IsNumber(Byte(80)) /\ NumberOf(Byte(80)) = 80
  <2>1. 72 \in 0..127 /\ 80 \in 0..127
    OBVIOUS
  <2> QED BY <2>1, ByteNumber
<1>11. SignatureOf(W) = sig /\ FromPush(W) = t6 /\ 72 \in 0..Width(FromSignature(W))
  <2> HIDE DEF t6
  <2>1. 72 = Width(sig)
    BY <1>1
  <2> QED BY <1>1, <1>3, <1>8, <1>10, <2>1, Taken DEF SignatureOf, FromPush
<1>12. ReadsSignature(W)
  BY <1>1, <1>8, <1>10, <1>11 DEF ReadsSignature
<1>13. PushOpcode(W) = Byte(76) /\ FromRingLength(W) = t7 /\ 1 \in 0..Width(FromPush(W))
  <2> HIDE DEF t7
  <2>1. 1 = Width(Byte(76))
    BY <1>2
  <2> QED BY <1>2, <1>3, <1>11, <2>1, Taken DEF PushOpcode, FromRingLength
<1>14. LengthOfRing(W) = Byte(80) /\ FromRing(W) = t8 /\ 1 \in 0..Width(FromRingLength(W))
  <2> HIDE DEF t8
  <2>1. 1 = Width(Byte(80))
    BY <1>2
  <2> QED BY <1>2, <1>3, <1>13, <2>1, Taken DEF LengthOfRing, FromRing
<1>15. RingOf(W) = ring /\ FromSequence(W) = rest /\ 80 \in 0..Width(FromRing(W))
  <2>1. 80 = Width(ring)
    BY <1>1
  <2> QED BY <1>1, <1>10, <1>14, <2>1, Taken DEF RingOf, FromSequence
<1>16. ReadsRing(W)
  BY <1>10, <1>13, <1>14, <1>15 DEF ReadsRing
<1> QED BY <1>4, <1>6, <1>9, <1>11, <1>12, <1>15, <1>16

\* and to its end.
LEMMA RawOutRead ==
    ASSUME NEW W, NEW rest, rest = FromSequence(W), NEW seq, NEW count, NEW head, NEW w, NEW x, NEW more, NEW all,
           NEW locktime, IsRawOut(rest, seq, count, head, w, x, more, all, locktime)
    PROVE  /\ ReadsOutputs(W) /\ ReadsMint(W)
           /\ SequenceOf(W) = seq /\ AllOutputsOf(W) = all /\ LocktimeOf(W) = locktime /\ MintedOutputs(W) = x
<1> DEFINE t5 == Then(x, more)
           t4 == Then(Byte(w), t5)
           t3 == Then(Label, t4)
           t2 == Then(all, locktime)
           t1 == Then(count, t2)
<1>1. /\ IsBytes(seq) /\ IsBytes(count) /\ IsBytes(head) /\ IsBytes(x) /\ IsBytes(more) /\ IsBytes(all)
      /\ IsBytes(locktime) /\ IsBytes(Label)
      /\ Width(seq) = 4 /\ Width(count) = 1 /\ Width(head) = 9 /\ Width(Label) = 11 /\ w = Width(x)
      /\ w \in 1..127 \cup 129..255 /\ Width(locktime) = 4
      /\ rest = Then(seq, t1) /\ t2 = Then(head, t3)
  BY DEF IsRawOut
<1>2. \A n : IsBytes(Byte(n)) /\ Width(Byte(n)) = 1
  BY BytesOfPieces
<1>3. IsBytes(t5) /\ IsBytes(t4) /\ IsBytes(t3) /\ IsBytes(t2) /\ IsBytes(t1)
  BY <1>1, <1>2, ThenBytes
<1>4. SequenceOf(W) = seq /\ FromCountOfOutputs(W) = t1 /\ 4 \in 0..Width(FromSequence(W))
  <2> HIDE DEF t1
  <2>1. 4 = Width(seq)
    BY <1>1
  <2> QED BY <1>1, <1>3, <2>1, Taken DEF SequenceOf, FromCountOfOutputs
<1>5. FromOutputs(W) = t2 /\ 1 \in 0..Width(FromCountOfOutputs(W))
  <2> HIDE DEF t2
  <2>1. 1 = Width(count)
    BY <1>1
  <2> QED BY <1>1, <1>3, <1>4, <2>1, Taken DEF FromOutputs
<1>6. /\ Width(t2) \in Nat /\ Width(t2) - 4 = Width(all) /\ Width(all) \in 0..Width(t2)
      /\ First(t2, Width(all)) = all /\ Rest(t2, Width(all)) = locktime
  <2>1. Width(t2) = Width(all) + Width(locktime) /\ Width(all) \in Nat
    BY <1>1, ThenWidth
  <2>2. First(t2, Width(all)) = all /\ Rest(t2, Width(all)) = locktime /\ Width(all) \in 0..Width(t2)
    BY <1>1, Taken
  <2> HIDE DEF t2
  <2> QED BY <1>1, <2>1, <2>2
<1>7. AllOutputsOf(W) = all /\ LocktimeOf(W) = locktime
  <2> HIDE DEF t2
  <2> QED BY <1>5, <1>6 DEF AllOutputsOf, LocktimeOf
<1> HIDE DEF t2
<1>8. FromLabel(W) = t3 /\ 9 \in 0..Width(FromOutputs(W))
  <2> HIDE DEF t3
  <2>1. 9 = Width(head)
    BY <1>1
  <2> QED BY <1>1, <1>3, <1>5, <2>1, Taken DEF FromLabel
<1>9. LabelOf(W) = Label /\ FromMintLength(W) = t4 /\ 11 \in 0..Width(FromLabel(W))
  <2> HIDE DEF t4
  <2>1. 11 = Width(Label)
    BY <1>1
  <2> QED BY <1>1, <1>3, <1>8, <2>1, Taken DEF LabelOf, FromMintLength
<1>10. ReadsOutputs(W)
  BY <1>4, <1>5, <1>6, <1>8, <1>9 DEF ReadsOutputs
<1>11. LengthOfMint(W) = Byte(w) /\ FromMint(W) = t5 /\ 1 \in 0..Width(FromMintLength(W))
  <2> HIDE DEF t5
  <2>1. 1 = Width(Byte(w))
    BY <1>2
  <2> QED BY <1>2, <1>3, <1>9, <2>1, Taken DEF LengthOfMint, FromMint
<1>12. NumberOf(LengthOfMint(W)) \in Int /\ IsNumber(MintLength(W)) /\ MintSize(W) = w
  <2>1. CASE w \in 1..127
    <3>1. IsNumber(Byte(w)) /\ NumberOf(Byte(w)) = w /\ w \in Int /\ ~(w < 0)
      BY <2>1, ByteNumber
    <3> QED BY <1>11, <3>1 DEF MintLength, MintSize
  <2>2. CASE w \in 129..255
    <3>1. /\ NumberOf(Byte(w)) \in Int /\ NumberOf(Byte(w)) < 0 /\ NumberOf(Byte(w) \o Byte(0)) = w
          /\ IsNumber(Byte(w) \o Byte(0))
      BY <2>2, ByteNumber
    <3> QED BY <1>11, <3>1 DEF MintLength, MintSize
  <2> QED BY <1>1, <2>1, <2>2
<1>13. MintedOutputs(W) = x /\ w \in 0..Width(FromMint(W))
  BY <1>1, <1>11, <1>12, Taken DEF MintedOutputs
<1>14. ReadsMint(W)
  BY <1>11, <1>12, <1>13 DEF ReadsMint
<1> QED BY <1>4, <1>7, <1>10, <1>13, <1>14

-----------------------------------------------------------------------------
(* What an attestation lists *)

\* One string put together is itself.
LEMMA OneTogether == \A p : AreBytes(p, 1) => IsBytes(Concat(p)) /\ Concat(p) = p[1]
<1>1. ASSUME NEW p, AreBytes(p, 1) PROVE IsBytes(Concat(p)) /\ Concat(p) = p[1]
  <2>1. /\ IsBytes(Concat(p)) /\ Left(p, 0) = Concat(p) /\ Left(p, 1) = << >>
        /\ \A i \in 1..1 : Left(p, i - 1) = Then(p[i], Left(p, i))
    BY <1>1, LeftUnfold
  <2>2. Left(p, 0) = Then(p[1], << >>)
    BY <2>1
  <2> QED BY <1>1, <2>1, <2>2, ThenNone DEF AreBytes
<1> QED BY <1>1

\* Two are the one and the other,
LEMMA TwoTogether == \A p : AreBytes(p, 2) => IsBytes(Concat(p)) /\ Concat(p) = Then(p[1], p[2])
<1>1. ASSUME NEW p, AreBytes(p, 2) PROVE IsBytes(Concat(p)) /\ Concat(p) = Then(p[1], p[2])
  <2>1. /\ IsBytes(Concat(p)) /\ Left(p, 0) = Concat(p) /\ Left(p, 2) = << >>
        /\ \A i \in 1..2 : Left(p, i - 1) = Then(p[i], Left(p, i))
    BY <1>1, LeftUnfold
  <2>2. Left(p, 0) = Then(p[1], Left(p, 1)) /\ Left(p, 1) = Then(p[2], << >>)
    BY <2>1
  <2>3. Left(p, 1) = p[2]
    BY <1>1, <2>2, ThenNone DEF AreBytes
  <2> QED BY <2>1, <2>2, <2>3
<1> QED BY <1>1

\* and three so on.
LEMMA ThreeTogether == \A p : AreBytes(p, 3) => IsBytes(Concat(p)) /\ Concat(p) = Then(p[1], Then(p[2], p[3]))
<1>1. ASSUME NEW p, AreBytes(p, 3) PROVE IsBytes(Concat(p)) /\ Concat(p) = Then(p[1], Then(p[2], p[3]))
  <2>1. /\ IsBytes(Concat(p)) /\ Left(p, 0) = Concat(p) /\ Left(p, 3) = << >>
        /\ \A i \in 1..3 : Left(p, i - 1) = Then(p[i], Left(p, i))
    BY <1>1, LeftUnfold
  <2>2. /\ Left(p, 0) = Then(p[1], Left(p, 1)) /\ Left(p, 1) = Then(p[2], Left(p, 2))
        /\ Left(p, 2) = Then(p[3], << >>)
    BY <2>1
  <2>3. Left(p, 2) = p[3]
    BY <1>1, <2>2, ThenNone DEF AreBytes
  <2> QED BY <2>1, <2>2, <2>3
<1> QED BY <1>1

\* The bytes that attestation a lists.
Minted(a) == OutputsToMint(Request[a])
Listed(a) == buildInOracle(Minted(a))

\* It lists two to five outputs, of which the first is the mint.
LEMMA MintedOf ==
    ASSUME NEW a \in Requests
    PROVE  /\ AreOutputs(Minted(a)) /\ Len(Minted(a)) \in 2..5
           /\ Minted(a)[1] = Mint(Request[a].amount) /\ Minted(a)[2] = Pay(Request[a].recipient, SLP_DUST_SATS)
           /\ \A i \in 3..Len(Minted(a)) : Minted(a)[i].kind \in {"pay", "script"}
<1> DEFINE x == Mint(Request[a].amount)
           y == Pay(Request[a].recipient, SLP_DUST_SATS)
           m == Request[a].more
           M == {m[i] : i \in DOMAIN m}
           T == {x, y} \cup M
           outs == <<x, y>> \o m
<1>1. /\ m \in Seq(M) /\ Len(m) <= 3 /\ \A i \in 1..Len(m) : IsOutput(m[i]) /\ m[i].kind # "mint"
  BY OracleAssumption DEF AreOutputs
<1>2. IsOutput(x) /\ IsOutput(y)
  BY DEF IsOutput, Mint, Pay
<1>3. Minted(a) = outs
  BY DEF Minted, OutputsToMint
<1> HIDE DEF x, y, m, M
<1>4. <<x, y>> \in Seq(T) /\ Len(<<x, y>>) = 2 /\ <<x, y>>[1] = x /\ <<x, y>>[2] = y
  OBVIOUS
<1>5. m \in Seq(T) /\ Len(m) \in Nat
  BY <1>1
<1> DEFINE xy == <<x, y>>
<1> HIDE DEF T, xy
<1>6. /\ outs \in Seq(T) /\ Len(outs) = Len(xy) + Len(m)
      /\ \A i \in 1..Len(xy) : outs[i] = xy[i]
      /\ \A i \in 1..Len(m) : outs[Len(xy) + i] = m[i]
  <2>1. outs = xy \o m /\ xy \in Seq(T)
    BY <1>4 DEF xy
  <2> HIDE DEF outs
  <2>2. Len(xy) \in Nat
    BY <2>1
  <2>3. /\ xy \o m \in Seq(T) /\ Len(xy \o m) = Len(xy) + Len(m)
        /\ \A i \in 1..Len(xy) + Len(m) : (xy \o m)[i] = IF i <= Len(xy) THEN xy[i] ELSE m[i - Len(xy)]
    BY <2>1, <1>5, ConcatProperties
  <2> DEFINE z == xy \o m
  <2> HIDE DEF z
  <2>4. /\ z \in Seq(T) /\ Len(z) = Len(xy) + Len(m)
        /\ \A i \in 1..Len(xy) + Len(m) : z[i] = IF i <= Len(xy) THEN xy[i] ELSE m[i - Len(xy)]
    BY <2>3 DEF z
  <2>5. \A i \in 1..Len(xy) : z[i] = xy[i]
    BY <2>2, <2>4, <1>5
  <2>6. \A i \in 1..Len(m) : z[Len(xy) + i] = m[i]
    <3>1. ASSUME NEW i \in 1..Len(m) PROVE z[Len(xy) + i] = m[i]
      <4>1. Len(xy) + i \in 1..Len(xy) + Len(m) /\ ~(Len(xy) + i <= Len(xy)) /\ (Len(xy) + i) - Len(xy) = i
        BY <2>2, <1>5
      <4> QED BY <2>4, <4>1
    <3> QED BY <3>1
  <2> QED BY <2>1, <2>4, <2>5, <2>6 DEF z
<1>7. Len(xy) = 2 /\ xy[1] = x /\ xy[2] = y
  BY <1>4 DEF xy
<1> HIDE DEF outs
<1>8. Len(outs) \in 2..5 /\ Len(outs) = 2 + Len(m) /\ outs[1] = x /\ outs[2] = y
  BY <1>1, <1>5, <1>6, <1>7
<1>9. \A i \in 3..Len(outs) : IsOutput(outs[i]) /\ outs[i].kind # "mint"
  <2>1. ASSUME NEW i \in 3..Len(outs) PROVE IsOutput(outs[i]) /\ outs[i].kind # "mint"
    <3>1. i - 2 \in 1..Len(m) /\ 2 + (i - 2) = i
      BY <1>5, <1>8
    <3>2. outs[2 + (i - 2)] = m[i - 2]
      BY <3>1, <1>6, <1>7
    <3> QED BY <1>1, <3>1, <3>2
  <2> QED BY <2>1
<1>10. \A i \in 1..Len(outs) : IsOutput(outs[i])
  <2>1. \A i \in 1..Len(outs) : i = 1 \/ i = 2 \/ i \in 3..Len(outs)
    BY <1>8
  <2> QED BY <2>1, <1>2, <1>8, <1>9
<1>11. outs \in Seq({outs[i] : i \in DOMAIN outs})
  BY <1>6
<1>12. \A i \in 3..Len(outs) : outs[i].kind \in {"pay", "script"}
  BY <1>9 DEF IsOutput
<1> QED BY <1>3, <1>8, <1>10, <1>11, <1>12 DEF AreOutputs, x, y

\* Together they are 98 bytes long, or 130 to 200, and are written as in a transaction.
LEMMA ListedWidth ==
    ASSUME NEW a \in Requests
    PROVE  /\ IsBytes(Listed(a)) /\ Width(Listed(a)) \in 76..127 \cup 129..200
           /\ Listed(a) = Concat([i \in DOMAIN Minted(a) |-> OutputBytes(Minted(a)[i])])
<1> DEFINE m == Minted(a)
           n == Len(m)
           p == [i \in DOMAIN m |-> OutputBytes(m[i])]
<1>1. /\ AreOutputs(m) /\ n \in 2..5 /\ m[1].kind = "mint" /\ m[2].kind = "pay"
      /\ \A i \in 3..n : m[i].kind \in {"pay", "script"}
  <2>1. Mint(Request[a].amount).kind = "mint" /\ Pay(Request[a].recipient, SLP_DUST_SATS).kind = "pay"
    BY DEF Mint, Pay
  <2> QED BY <2>1, MintedOf
<1> HIDE DEF m
<1>2. DOMAIN m = 1..n /\ \A i \in 1..n : IsOutput(m[i])
  BY <1>1 DEF AreOutputs
<1>3. \A i \in 1..n : m[i].kind \notin {"in", "out"}
  BY <1>2 DEF IsOutput
<1>4. [i \in DOMAIN m |-> PlainOutputBytes(m[i])] = p
  <2>1. \A i \in DOMAIN m : PlainOutputBytes(m[i]) = OutputBytes(m[i])
    BY <1>2, <1>3 DEF OutputBytes
  <2> QED BY <2>1
<1>5. Listed(a) = Concat(p)
  BY <1>4 DEF Listed, buildInOracle, m
<1>6. Len(p) = n /\ \A i \in 1..n : p[i] = OutputBytes(m[i])
  BY <1>1, <1>2
<1> HIDE DEF p
<1>7. AreBytes(p, n)
  BY <1>2, <1>6, OutputOf DEF AreBytes
<1> DEFINE W(i) == Width(Left(p, i))
<1>8. /\ IsBytes(Concat(p)) /\ W(0) = Width(Concat(p)) /\ W(n) = 0
      /\ \A i \in 1..n : W(i - 1) = Width(p[i]) + W(i)
  BY <1>1, <1>7, LeftWidth
<1>9. Width(p[1]) = 64 /\ Width(p[2]) = 34 /\ \A i \in 3..n : Width(p[i]) \in {32, 34}
  BY <1>1, <1>2, <1>6, OutputOf
<1> HIDE DEF W, n
<1>10. W(0) = 64 + W(1) /\ W(1) = 34 + W(2)
  <2>1. 1 \in 1..n /\ 2 \in 1..n
    BY <1>1
  <2> QED BY <2>1, <1>8, <1>9
<1>11. \A i \in 3..n : W(i - 1) = 32 + W(i) \/ W(i - 1) = 34 + W(i)
  <2>1. ASSUME NEW i \in 3..n PROVE i \in 1..n
    BY <1>1
  <2> QED BY <2>1, <1>8, <1>9
<1>12. W(0) \in 76..127 \cup 129..200
  <2>1. CASE n = 2
    BY <1>8, <1>10, <2>1
  <2>2. CASE n = 3
    <3>1. W(2) = 32 + W(3) \/ W(2) = 34 + W(3)
      BY <1>11, <2>2
    <3> QED BY <1>8, <1>10, <2>2, <3>1
  <2>3. CASE n = 4
    <3>1. (W(2) = 32 + W(3) \/ W(2) = 34 + W(3)) /\ (W(3) = 32 + W(4) \/ W(3) = 34 + W(4))
      BY <1>11, <2>3
    <3> QED BY <1>8, <1>10, <2>3, <3>1
  <2>4. CASE n = 5
    <3>1. /\ W(2) = 32 + W(3) \/ W(2) = 34 + W(3)
          /\ W(3) = 32 + W(4) \/ W(3) = 34 + W(4)
          /\ W(4) = 32 + W(5) \/ W(4) = 34 + W(5)
      BY <1>11, <2>4
    <3> QED BY <1>8, <1>10, <2>4, <3>1
  <2> QED BY <1>1, <2>1, <2>2, <2>3, <2>4
<1> QED BY <1>5, <1>8, <1>12 DEF p, m, W

-----------------------------------------------------------------------------
(* An attestation as its bytes *)

\* A transaction with one input, by its parts.
LEMMA RawParts ==
    ASSUME NEW o, NEW sig, sig = Concat([i \in DOMAIN o.items |-> PushData(o.items[i])]), IsBytes(sig),
           NEW all, all = OutputsBytes(o), IsBytes(all)
    PROVE  toRaw(o) = Then(Piece("version", 2, 4), Then(Byte(1), Then(OutpointBytes(o.ins[1]), Then(Data(sig),
                          Then(Piece("sequence", 0, 4), Then(Byte(Len(o.outs)), Then(all, Piece("locktime", 0, 4))))))))
<1> DEFINE V == Piece("version", 2, 4)
           B == Byte(1)
           O == OutpointBytes(o.ins[1])
           D == Data(sig)
           S == Piece("sequence", 0, 4)
           N == Byte(Len(o.outs))
           K == Piece("locktime", 0, 4)
           t4 == Then(all, K)
           t5 == Then(N, t4)
           t6 == Then(S, t5)
           t7 == Then(D, t6)
           t8 == Then(O, t7)
           t9 == Then(B, t8)
           p2 == Then(V, B)
           p3 == Then(p2, O)
           p4 == Then(p3, D)
           p5 == Then(p4, S)
           p6 == Then(p5, N)
<1>1. IsBytes(V) /\ IsBytes(B) /\ IsBytes(O) /\ IsBytes(S) /\ IsBytes(N) /\ IsBytes(K)
  BY BytesOfPieces, OutpointWidth
<1>2. IsBytes(D)
  BY DataWidth
<1>3. toRaw(o) = Then(Then(p6, all), K)
  <2>1. toRaw(o) = V \o B \o O \o D \o S \o N \o all \o K
    BY Zenon DEF toRaw, V, B, O, D, S, N, K
  <2> HIDE DEF V, B, O, D, S, N, K
  <2> QED BY <2>1, Zenon DEF Then
<1> HIDE DEF V, B, O, D, S, N, K
<1>4. /\ IsBytes(t4) /\ IsBytes(t5) /\ IsBytes(t6) /\ IsBytes(t7) /\ IsBytes(t8)
      /\ IsBytes(p2) /\ IsBytes(p3) /\ IsBytes(p4) /\ IsBytes(p5) /\ IsBytes(p6)
  BY <1>1, <1>2, ThenBytes
<1>5. Then(Then(p6, all), K) = Then(p6, t4)
  BY <1>1, <1>4, ThenRegrouped
<1>6. Then(p6, t4) = Then(p5, t5)
  BY <1>1, <1>4, ThenRegrouped
<1>7. Then(p5, t5) = Then(p4, t6)
  BY <1>1, <1>4, ThenRegrouped
<1>8. Then(p4, t6) = Then(p3, t7)
  BY <1>2, <1>4, ThenRegrouped
<1>9. Then(p3, t7) = Then(p2, t8)
  BY <1>1, <1>4, ThenRegrouped
<1>10. Then(p2, t8) = Then(V, t9)
  BY <1>1, <1>4, ThenRegrouped
<1>11. toRaw(o) = Then(V, t9)
  <2> HIDE DEF t4, t5, t6, t7, t8, t9, p2, p3, p4, p5, p6
  <2> QED BY <1>3, <1>5, <1>6, <1>7, <1>8, <1>9, <1>10
<1> QED BY <1>11 DEF V, B, O, D, S, N, K

\* What the oracle of coin c signs for these outputs, and its signature.
SignedByOracle(c, outs) == getPreimage(SigningOracle(c, outs), Concat(c.ring), c.value)
AttestingSignature(key, c, outs) == Signature(key, HASH256(SignedByOracle(c, outs))) \o TypeBytes(SignsAll, 1)
DepositOf(a) == Piece("depositTx", Request[a].transactionId, 32)
InOuts(a, key) == buildOracleInTx(Request[a], PubKey(key))
OutOuts(a) == buildOracleOutTx(Request[a])

\* It is a string of 72 bytes, of which the last says what is signed.
LEMMA AttestingBytes ==
    ASSUME NEW key, NEW c, NEW outs, NEW s, s = AttestingSignature(key, c, outs)
    PROVE  /\ IsBytes(s) /\ Width(s) = 72
           /\ First(s, Width(s) - 1) = Signature(key, HASH256(SignedByOracle(c, outs)))
<1> DEFINE x == Signature(key, HASH256(SignedByOracle(c, outs)))
           y == TypeBytes(SignsAll, 1)
<1>1. IsBytes(x) /\ Width(x) = 71 /\ IsBytes(y) /\ Width(y) = 1
  BY BytesOfPieces DEF Signature, TypeBytes
<1>2. s = Then(x, y)
  BY DEF AttestingSignature, Then
<1> HIDE DEF x, y
<1>3. IsBytes(s) /\ Width(s) = 72 /\ First(s, 71) = x
  BY <1>1, <1>2, ThenBytes, ThenWidth, ThenCut
<1>4. Width(s) - 1 = 71
  BY <1>3
<1> QED BY <1>3, <1>4 DEF x

\* What an oracle with a valid ring builds: a list of outputs and a stamp, or a payout.
LEMMA Built ==
    ASSUME NEW a \in Requests, NEW key \in Keys, NEW type, NEW c, c.ring = toOracleRing(key, "secret", type),
           NEW o, o = buildOracleTx(c, Request[a])
    PROVE  /\ o.ins = <<c>>
           /\ type # "out" =>
                 /\ o.outs = InOuts(a, key)
                 /\ o.items = <<DepositOf(a), AttestingSignature(key, c, InOuts(a, key)), Concat(c.ring)>>
           /\ type = "out" =>
                 /\ o.outs = OutOuts(a)
                 /\ o.items = <<AttestingSignature(key, c, OutOuts(a)), Byte(27), Concat(c.ring)>>
<1> DEFINE r == c.ring
<1>1. /\ PushedData(r[6]) = PubKey(key) /\ KeyOf(r) = key
      /\ getOracleScriptType(r) = IF type = "out" THEN "out" ELSE "in"
  BY SecretRing
<1>2. o.ins = <<c>>
  BY DEF buildOracleTx
<1>3. ASSUME type # "out"
      PROVE  /\ o.outs = InOuts(a, key)
             /\ o.items = <<DepositOf(a), AttestingSignature(key, c, InOuts(a, key)), Concat(c.ring)>>
  <2>1. getOracleScriptType(c.ring) # "out" /\ PushedData(c.ring[6]) = PubKey(key) /\ KeyOf(c.ring) = key
    BY <1>1, <1>3
  <2>2. o.outs = InOuts(a, key) /\ o.items = fundOracleTx(InOuts(a, key), c, Request[a].transactionId)
    BY <2>1 DEF buildOracleTx, InOuts
  <2> DEFINE outs == InOuts(a, key)
  <2> HIDE DEF outs
  <2>3. fundOracleTx(outs, c, Request[a].transactionId)
            = <<DepositOf(a), AttestingSignature(key, c, outs), Concat(c.ring)>>
    BY <2>1 DEF fundOracleTx, DepositOf, AttestingSignature, SignedByOracle
  <2> QED BY <2>2, <2>3 DEF outs
<1>4. ASSUME type = "out"
      PROVE  /\ o.outs = OutOuts(a)
             /\ o.items = <<AttestingSignature(key, c, OutOuts(a)), Byte(27), Concat(c.ring)>>
  <2>1. getOracleScriptType(c.ring) = "out" /\ KeyOf(c.ring) = key
    BY <1>1, <1>4
  <2>2. o.outs = OutOuts(a) /\ o.items = fundOracleTx(OutOuts(a), c, Request[a].transactionId)
    BY <2>1 DEF buildOracleTx, OutOuts
  <2> DEFINE outs == OutOuts(a)
  <2> HIDE DEF outs
  <2>3. fundOracleTx(outs, c, Request[a].transactionId)
            = <<AttestingSignature(key, c, outs), Byte(27), Concat(c.ring)>>
    BY <2>1 DEF fundOracleTx, AttestingSignature, SignedByOracle
  <2> QED BY <2>2, <2>3 DEF outs
<1> QED BY <1>2, <1>3, <1>4

\* The first output of a list of outputs.
LEMMA ListingOutput ==
    ASSUME NEW x, IsBytes(x), NEW w, w = Width(x), w \in 76..200, NEW outs, x = buildInOracle(outs)
    PROVE  /\ IsBytes(Label) /\ Width(Label) = 11
           /\ IsBytes(Then(LE(0, 8), Byte(12 + w))) /\ Width(Then(LE(0, 8), Byte(12 + w))) = 9
           /\ OutputBytes(Oracle("in", outs)) = Then(Then(LE(0, 8), Byte(12 + w)), Then(Label, Then(Byte(w), x)))
<1> DEFINE s == Concat(OracleOpReturn(Oracle("in", outs)))
           L == LE(0, 8)
           b == Byte(106)
           c == Data(Piece("ascii", "CTRL", 4))
           d == Data(Byte(1))
           e == Byte(76)
           f == Then(Byte(w), x)
           p == <<b, c, d, d, Then(e, f)>>
<1>1. /\ IsBytes(L) /\ Width(L) = 8 /\ IsBytes(b) /\ Width(b) = 1 /\ IsBytes(c) /\ Width(c) = 5
      /\ IsBytes(d) /\ Width(d) = 2 /\ IsBytes(e) /\ Width(e) = 1 /\ \A n : IsBytes(Byte(n)) /\ Width(Byte(n)) = 1
  <2>1. /\ IsBytes(Piece("ascii", "CTRL", 4)) /\ Width(Piece("ascii", "CTRL", 4)) = 4
        /\ \A n : IsBytes(Byte(n)) /\ Width(Byte(n)) = 1
    BY BytesOfPieces
  <2>2. IsBytes(L) /\ Width(L) = 8
    BY BytesOfPieces DEF LE
  <2> QED BY <2>1, <2>2, DataWidth
<1>2. IsBytes(f) /\ Width(f) = 1 + w /\ IsBytes(Then(e, f)) /\ Width(Then(e, f)) = 2 + w
  <2>1. IsBytes(f) /\ Width(f) = 1 + w
    BY <1>1, ThenBytes, ThenWidth
  <2> HIDE DEF f, e
  <2>2. IsBytes(Then(e, f)) /\ Width(Then(e, f)) = 1 + (1 + w)
    BY <1>1, <2>1, ThenBytes, ThenWidth
  <2> QED BY <2>1, <2>2
<1>3. OracleOpReturn(Oracle("in", outs)) = p
  <2>1. PushData(Piece("ascii", "CTRL", 4)) = c
    <3>1. Width(Piece("ascii", "CTRL", 4)) \in 2..75
      BY BytesOfPieces
    <3> QED BY <3>1, PushOf
  <2>2. PushData(x) = Then(e, f)
    <3>1. w \in 76..255
      OBVIOUS
    <3> QED BY <3>1, LongPushed
  <2>3. Oracle("in", outs).kind = "in" /\ Oracle("in", outs).to = outs
    BY DEF Oracle
  <2>4. PushPush(Byte(1)) = d
    BY DEF PushPush
  <2> DEFINE o == Oracle("in", outs)
  <2> HIDE DEF c, d, e, f, b, o
  <2>5. OracleOpReturn(o) = <<Byte(106), PushData(Piece("ascii", "CTRL", 4)), PushPush(Byte(1)), PushPush(Byte(1)),
                              PushData(buildInOracle(outs))>>
    BY <2>3 DEF OracleOpReturn, o
  <2> QED BY <2>1, <2>2, <2>4, <2>5 DEF o, b
<1> DEFINE q == Then(e, f)
<1>4. Len(p) = 5 /\ p[1] = b /\ p[2] = c /\ p[3] = d /\ p[4] = d /\ p[5] = q
  OBVIOUS
<1> HIDE DEF L, b, c, d, e, f, p, q
<1>5. IsBytes(q) /\ Width(q) = 2 + w
  BY <1>2 DEF q
<1>6. AreBytes(p, 5)
  <2>1. \A i \in 1..5 : i = 1 \/ i = 2 \/ i = 3 \/ i = 4 \/ i = 5
    OBVIOUS
  <2> QED BY <1>1, <1>4, <1>5, <2>1 DEF AreBytes
<1> DEFINE t4 == Then(d, q)
           t3 == Then(d, t4)
           t2 == Then(c, t3)
<1>7. IsBytes(t4) /\ IsBytes(t3) /\ IsBytes(t2)
  BY <1>1, <1>5, ThenBytes
<1>8. Concat(p) = Then(b, t2)
  <2>1. /\ Left(p, 0) = Concat(p) /\ Left(p, 5) = << >>
        /\ \A i \in 1..5 : Left(p, i - 1) = Then(p[i], Left(p, i))
    BY <1>6, LeftUnfold
  <2>2. /\ Left(p, 0) = Then(b, Left(p, 1)) /\ Left(p, 1) = Then(c, Left(p, 2))
        /\ Left(p, 2) = Then(d, Left(p, 3)) /\ Left(p, 3) = Then(d, Left(p, 4)) /\ Left(p, 4) = Then(q, << >>)
    BY <1>4, <2>1
  <2>3. Left(p, 4) = q
    BY <1>5, <2>2, ThenNone
  <2> QED BY <2>1, <2>2, <2>3
<1>9. IsBytes(Concat(p)) /\ Width(Concat(p)) = 12 + w
  <2>1. Width(t4) = 2 + (2 + w)
    BY <1>1, <1>5, ThenWidth
  <2>2. Width(t3) = 2 + (2 + (2 + w))
    <3> HIDE DEF t4
    <3> QED BY <1>1, <1>7, <2>1, ThenWidth
  <2>3. Width(t2) = 5 + (2 + (2 + (2 + w)))
    <3> HIDE DEF t3
    <3> QED BY <1>1, <1>7, <2>2, ThenWidth
  <2> HIDE DEF t2
  <2>4. IsBytes(Then(b, t2)) /\ Width(Then(b, t2)) = 1 + (5 + (2 + (2 + (2 + w))))
    BY <1>1, <1>7, <2>3, ThenBytes, ThenWidth
  <2> QED BY <1>8, <2>4
<1> DEFINE p2 == Then(b, c)
           p3 == Then(p2, d)
           p4 == Then(p3, d)
<1>10. IsBytes(p2) /\ IsBytes(p3) /\ IsBytes(p4)
  BY <1>1, ThenBytes
<1>11. Label = Then(p4, e) /\ IsBytes(Label) /\ Width(Label) = 11
  <2>1. Label = Then(p4, e)
    BY Zenon DEF Label, Then, b, c, d, e
  <2>2. Width(p2) = 6 /\ Width(p3) = 8 /\ Width(p4) = 10
    <3>1. Width(p2) = 1 + 5
      BY <1>1, ThenWidth
    <3> HIDE DEF p2
    <3>2. Width(p3) = 6 + 2
      BY <1>1, <1>10, <3>1, ThenWidth
    <3> HIDE DEF p3
    <3>3. Width(p4) = 8 + 2
      BY <1>1, <1>10, <3>2, ThenWidth
    <3> QED BY <3>1, <3>2, <3>3
  <2> HIDE DEF p4
  <2> QED BY <1>1, <1>10, <2>1, <2>2, ThenBytes, ThenWidth
<1>12. Concat(p) = Then(Label, f)
  <2>1. Then(b, t2) = Then(p2, t3)
    BY <1>1, <1>7, ThenRegrouped
  <2>2. Then(p2, t3) = Then(p3, t4)
    BY <1>1, <1>7, <1>10, ThenRegrouped
  <2>3. Then(p3, t4) = Then(p4, q)
    BY <1>1, <1>5, <1>10, ThenRegrouped
  <2>4. Then(p4, q) = Then(Then(p4, e), f)
    BY <1>1, <1>2, <1>10, ThenRegrouped DEF q
  <2> HIDE DEF t2, t3, t4, p2, p3, p4
  <2> QED BY <1>8, <1>11, <2>1, <2>2, <2>3, <2>4
<1> DEFINE h == Byte(12 + w)
<1>13. OutputBytes(Oracle("in", outs)) = Then(L, Then(h, Then(Label, f)))
  <2>1. OutputBytes(Oracle("in", outs)) = Serialize(0, s)
    BY DEF OutputBytes, Oracle
  <2>2. s = Concat(p) /\ Width(s) = 12 + w /\ Width(s) < 253
    BY <1>3, <1>9
  <2> HIDE DEF s
  <2>3. VarBytes(s) = h \o s
    BY <2>2 DEF VarBytes, Data
  <2>4. Serialize(0, s) = Then(L, Then(h, s))
    BY <2>3 DEF Serialize, Then, L
  <2> QED BY <1>12, <2>1, <2>2, <2>4
<1>14. Then(L, Then(h, Then(Label, f))) = Then(Then(L, h), Then(Label, f))
  <2>1. IsBytes(h) /\ IsBytes(Then(Label, f))
    BY <1>1, <1>2, <1>11, ThenBytes
  <2> HIDE DEF h
  <2> QED BY <1>1, <2>1, ThenRegrouped
<1>15. IsBytes(Then(L, h)) /\ Width(Then(L, h)) = 9
  BY <1>1, ThenBytes, ThenWidth
<1> QED BY <1>11, <1>13, <1>14, <1>15 DEF L, f

\* The outputs of an "in" attestation, and what follows its ring.
OutsBytes(outs) == Concat([i \in DOMAIN outs |-> OutputBytes(outs[i])])
AfterRing(a, key) ==
    Then(Piece("sequence", 0, 4), Then(Byte(2), Then(OutsBytes(InOuts(a, key)), Piece("locktime", 0, 4))))
ListingHead(a) == Then(LE(0, 8), Byte(12 + Width(Listed(a))))
StampOutput(key) == OutputBytes(Lock(<<"mintOutscript", PubKey(key)>>, STAMP_TX_SATS))

\* They are the list and the stamp.
LEMMA ListingBytes ==
    ASSUME NEW a \in Requests, NEW key
    PROVE  LET all == OutsBytes(InOuts(a, key))
           IN  /\ IsBytes(all) /\ IsBytes(ListingHead(a)) /\ Width(ListingHead(a)) = 9
               /\ IsBytes(Label) /\ Width(Label) = 11 /\ IsBytes(StampOutput(key))
               /\ all = Then(Then(ListingHead(a), Then(Label, Then(Byte(Width(Listed(a))), Listed(a)))), StampOutput(key))
<1> DEFINE outs == InOuts(a, key)
           first == Oracle("in", Minted(a))
           second == Lock(<<"mintOutscript", PubKey(key)>>, STAMP_TX_SATS)
           p == [i \in DOMAIN outs |-> OutputBytes(outs[i])]
           x == Listed(a)
           w == Width(Listed(a))
           h == ListingHead(a)
           t == Then(Label, Then(Byte(w), x))
           z == StampOutput(key)
<1>1. outs = <<first, second>>
  BY DEF InOuts, buildOracleInTx, Minted
<1>2. IsBytes(x) /\ w \in 76..200 /\ x = buildInOracle(Minted(a))
  <2>1. IsBytes(x) /\ w \in 76..127 \cup 129..200
    BY ListedWidth
  <2>2. w \in 76..200
    <3> HIDE DEF w
    <3> QED BY <2>1
  <2> QED BY <2>1, <2>2 DEF Listed
<1>3. /\ IsBytes(Label) /\ Width(Label) = 11 /\ IsBytes(h) /\ Width(h) = 9
      /\ OutputBytes(first) = Then(h, t)
  <2> DEFINE m == Minted(a)
  <2> HIDE DEF m, x
  <2>1. /\ IsBytes(Label) /\ Width(Label) = 11
        /\ IsBytes(Then(LE(0, 8), Byte(12 + w))) /\ Width(Then(LE(0, 8), Byte(12 + w))) = 9
        /\ OutputBytes(Oracle("in", m)) = Then(Then(LE(0, 8), Byte(12 + w)), Then(Label, Then(Byte(w), x)))
    <3>1. w = Width(x) /\ x = buildInOracle(m)
      BY <1>2 DEF x, m
    <3> HIDE DEF w
    <3> QED BY <1>2, <3>1, ListingOutput
  <2>2. h = Then(LE(0, 8), Byte(12 + w))
    BY DEF ListingHead
  <2> QED BY <2>1, <2>2 DEF m
<1>4. IsBytes(t) /\ IsBytes(Then(h, t))
  <2>1. IsBytes(Byte(w))
    BY BytesOfPieces
  <2> HIDE DEF w, x, h
  <2> QED BY <1>2, <1>3, <2>1, ThenBytes
<1>5. OutputBytes(second) = z /\ IsBytes(z)
  <2>1. IsOutput(second)
    BY DEF IsOutput, Lock
  <2>2. OutputBytes(second) = z
    BY DEF StampOutput
  <2> HIDE DEF second, z
  <2> QED BY <2>1, <2>2, OutputOf
<1> HIDE DEF first, second, outs
<1>6. p = <<Then(h, t), z>>
  <2> HIDE DEF h, t, z
  <2> QED BY <1>1, <1>3, <1>5
<1>7. Concat(p) = Then(Then(h, t), z) /\ IsBytes(Concat(p))
  <2> DEFINE u == Then(h, t)
  <2>1. IsBytes(u)
    BY <1>4
  <2> HIDE DEF z, p, u
  <2>2. Len(p) = 2 /\ p[1] = u /\ p[2] = z
    BY <1>6 DEF u
  <2>3. \A i \in 1..2 : i = 1 \/ i = 2
    OBVIOUS
  <2>4. AreBytes(p, 2)
    BY <1>5, <2>1, <2>2, <2>3 DEF AreBytes
  <2> QED BY <2>2, <2>4, TwoTogether DEF u
<1> QED BY <1>3, <1>5, <1>7 DEF OutsBytes, outs

\* An "in" attestation is what the script takes apart.
LEMMA InRaw ==
    ASSUME NEW a \in Requests, NEW key \in Keys, NEW type, type # "out",
           NEW c, c.ring = toOracleRing(key, "secret", type), NEW o, o = buildOracleTx(c, Request[a])
    PROVE  /\ IsRawIn(toRaw(o), Piece("version", 2, 4), Byte(1), OutpointBytes(c), Then(Byte(188), Data(DepositOf(a))),
                      AttestingSignature(key, c, InOuts(a, key)), Concat(c.ring), AfterRing(a, key))
           /\ IsRawOut(AfterRing(a, key), Piece("sequence", 0, 4), Byte(2), ListingHead(a), Width(Listed(a)), Listed(a),
                       Then(StampOutput(key), Piece("locktime", 0, 4)), OutsBytes(InOuts(a, key)),
                       Piece("locktime", 0, 4))
<1> DEFINE V == Piece("version", 2, 4)
           B == Byte(1)
           O == OutpointBytes(c)
           d == Data(DepositOf(a))
           dep == Then(Byte(188), d)
           s == AttestingSignature(key, c, InOuts(a, key))
           r == Concat(c.ring)
           S == Piece("sequence", 0, 4)
           N == Byte(2)
           K == Piece("locktime", 0, 4)
           all == OutsBytes(InOuts(a, key))
           rest == AfterRing(a, key)
           h == ListingHead(a)
           x == Listed(a)
           w == Width(Listed(a))
           z == StampOutput(key)
           sig == Concat([i \in DOMAIN o.items |-> PushData(o.items[i])])
           tr == Then(Byte(76), Then(Byte(80), r))
           ts == Then(Byte(72), s)
<1>1. /\ o.ins = <<c>> /\ o.outs = InOuts(a, key)
      /\ o.items = <<DepositOf(a), s, r>>
  BY Built
<1>2. /\ IsBytes(V) /\ Width(V) = 4 /\ IsBytes(B) /\ Width(B) = 1 /\ IsBytes(O) /\ Width(O) = 36
      /\ IsBytes(S) /\ Width(S) = 4 /\ IsBytes(N) /\ Width(N) = 1 /\ IsBytes(K) /\ Width(K) = 4
      /\ \A n : IsBytes(Byte(n)) /\ Width(Byte(n)) = 1
  BY BytesOfPieces, OutpointWidth
<1>3. IsBytes(DepositOf(a)) /\ Width(DepositOf(a)) = 32 /\ IsBytes(d) /\ Width(d) = 33
  <2>1. IsBytes(DepositOf(a)) /\ Width(DepositOf(a)) = 32
    BY BytesOfPieces DEF DepositOf
  <2> QED BY <2>1, DataWidth
<1>4. IsBytes(s) /\ Width(s) = 72
  BY AttestingBytes
<1>5. IsBytes(r) /\ Width(r) = 80
  BY SecretRing
<1>6. /\ IsBytes(all) /\ IsBytes(h) /\ Width(h) = 9 /\ IsBytes(Label) /\ Width(Label) = 11 /\ IsBytes(z)
      /\ all = Then(Then(h, Then(Label, Then(Byte(w), x))), z)
  BY ListingBytes
<1>7. IsBytes(x) /\ w \in 76..127 \cup 129..200
  BY ListedWidth
<1>8. IsBytes(dep) /\ Width(dep) = 34
  <2> HIDE DEF d
  <2> QED BY <1>2, <1>3, ThenBytes, ThenWidth
<1>9. rest = Then(S, Then(N, Then(all, K)))
  BY DEF AfterRing
<1>10. IsBytes(rest)
  <2> HIDE DEF S, N, K, all, rest
  <2> QED BY <1>2, <1>6, <1>9, ThenBytes
<1>11. sig = Then(d, Then(ts, tr)) /\ IsBytes(sig) /\ Width(sig) = 188 /\ IsBytes(ts) /\ IsBytes(tr)
  <2> DEFINE p == [i \in DOMAIN o.items |-> PushData(o.items[i])]
             D == DepositOf(a)
  <2>1. PushData(D) = d
    <3>1. Width(D) \in 2..75
      BY <1>3
    <3> QED BY <3>1, PushOf
  <2>2. PushData(s) = ts
    <3> HIDE DEF s
    <3>1. PushData(s) = Data(s)
      BY <1>4, PushOf
    <3> QED BY <3>1, <1>4 DEF Data, Then
  <2>3. PushData(r) = tr
    <3> HIDE DEF r
    <3>1. 80 = Width(r) /\ 80 \in 76..255
      BY <1>5
    <3> QED BY <1>5, <3>1, LongPushed
  <2>4. IsBytes(ts) /\ Width(ts) = 73 /\ IsBytes(tr) /\ Width(tr) = 82
    <3> HIDE DEF s, r
    <3>1. IsBytes(ts) /\ Width(ts) = 1 + 72
      BY <1>2, <1>4, ThenBytes, ThenWidth
    <3>2. IsBytes(Then(Byte(80), r)) /\ Width(Then(Byte(80), r)) = 1 + 80
      BY <1>2, <1>5, ThenBytes, ThenWidth
    <3>3. IsBytes(tr) /\ Width(tr) = 1 + 81
      <4> DEFINE q == Then(Byte(80), r)
      <4> HIDE DEF q
      <4>1. IsBytes(q) /\ Width(q) = 81
        BY <3>2 DEF q
      <4>2. IsBytes(Then(Byte(76), q)) /\ Width(Then(Byte(76), q)) = 1 + 81
        BY <1>2, <4>1, ThenBytes, ThenWidth
      <4> QED BY <4>2 DEF q
    <3> HIDE DEF ts, tr
    <3> QED BY <3>1, <3>3
  <2> HIDE DEF D, d, s, r, ts, tr
  <2>5. p = <<d, ts, tr>>
    <3>1. o.items = <<D, s, r>>
      BY <1>1 DEF D
    <3> QED BY <3>1, <2>1, <2>2, <2>3
  <2> HIDE DEF p
  <2>6. Len(p) = 3 /\ p[1] = d /\ p[2] = ts /\ p[3] = tr
    BY <2>5
  <2>7. \A i \in 1..3 : i = 1 \/ i = 2 \/ i = 3
    OBVIOUS
  <2>8. AreBytes(p, 3)
    BY <1>3, <2>4, <2>6, <2>7 DEF AreBytes
  <2>9. Concat(p) = Then(d, Then(ts, tr)) /\ IsBytes(Concat(p))
    BY <2>6, <2>8, ThreeTogether
  <2>10. Width(Concat(p)) = 188
    <3> DEFINE q == Then(ts, tr)
    <3>1. IsBytes(q) /\ Width(q) = 73 + 82
      BY <2>4, ThenBytes, ThenWidth
    <3> HIDE DEF q
    <3>2. Width(Then(d, q)) = 33 + 155
      BY <1>3, <3>1, ThenWidth
    <3> QED BY <2>9, <3>2 DEF q
  <2> QED BY <2>4, <2>9, <2>10 DEF p
<1>12. toRaw(o) = Then(V, Then(B, Then(O, Then(Data(sig), rest))))
  <2>1. o.ins[1] = c
    BY <1>1
  <2>2. Len(o.outs) = 2
    BY <1>1 DEF InOuts, buildOracleInTx
  <2>3. all = OutputsBytes(o)
    BY <1>1 DEF OutputsBytes, OutsBytes
  <2> HIDE DEF all, sig
  <2>4. sig = Concat([i \in DOMAIN o.items |-> PushData(o.items[i])])
    BY DEF sig
  <2>5. toRaw(o) = Then(Piece("version", 2, 4), Then(Byte(1), Then(OutpointBytes(o.ins[1]), Then(Data(sig),
                          Then(Piece("sequence", 0, 4), Then(Byte(Len(o.outs)), Then(all, Piece("locktime", 0, 4))))))))
    BY <1>6, <1>11, <2>3, <2>4, RawParts
  <2> QED BY <1>9, <2>1, <2>2, <2>5
<1>13. Then(Data(sig), rest) = Then(dep, Then(Byte(72), Then(s, Then(Byte(76), Then(Byte(80), Then(r, rest))))))
  <2> DEFINE q == Then(ts, tr)
             u == Then(Byte(80), r)
  <2>1. Data(sig) = Then(Byte(188), Then(d, q))
    <3> DEFINE y == Then(d, q)
    <3> HIDE DEF y, sig
    <3>1. sig = y /\ Width(sig) = 188
      BY <1>11 DEF y
    <3>2. Data(sig) = Byte(188) \o y
      BY <3>1 DEF Data
    <3> QED BY <3>2 DEF Then, y
  <2> HIDE DEF d, s, r, rest
  <2>2. IsBytes(q) /\ IsBytes(u) /\ IsBytes(Then(r, rest)) /\ IsBytes(Then(u, rest)) /\ IsBytes(Then(tr, rest))
    BY <1>2, <1>5, <1>10, <1>11, ThenBytes
  <2>3. Then(Byte(188), Then(d, q)) = Then(dep, q)
    BY <1>2, <1>3, <2>2, ThenRegrouped
  <2>4. Then(Then(dep, q), rest) = Then(dep, Then(q, rest))
    <3> HIDE DEF dep, q
    <3> QED BY <1>8, <1>10, <2>2, ThenRegrouped
  <2>5. Then(q, rest) = Then(ts, Then(tr, rest))
    <3> HIDE DEF ts, tr
    <3> QED BY <1>10, <1>11, ThenRegrouped
  <2>6. Then(ts, Then(tr, rest)) = Then(Byte(72), Then(s, Then(tr, rest)))
    <3> HIDE DEF tr
    <3> QED BY <1>2, <1>4, <2>2, ThenRegrouped
  <2>7. Then(tr, rest) = Then(Byte(76), Then(u, rest))
    <3>1. tr = Then(Byte(76), u)
      OBVIOUS
    <3> HIDE DEF tr, u
    <3> QED BY <1>2, <1>10, <2>2, <3>1, ThenRegrouped
  <2>8. Then(u, rest) = Then(Byte(80), Then(r, rest))
    BY <1>2, <1>5, <1>10, ThenRegrouped
  <2> HIDE DEF dep, q, u, ts, tr, sig
  <2> QED BY <2>1, <2>3, <2>4, <2>5, <2>6, <2>7, <2>8
<1>14. IsRawIn(toRaw(o), V, B, O, dep, s, r, rest)
  <2> HIDE DEF V, B, O, dep, s, r, rest, sig
  <2> QED BY <1>2, <1>4, <1>5, <1>8, <1>10, <1>12, <1>13 DEF IsRawIn
<1>15. Then(all, K) = Then(h, Then(Label, Then(Byte(w), Then(x, Then(z, K)))))
  <2> DEFINE u == Then(Byte(w), x)
             y == Then(Label, u)
             zk == Then(z, K)
  <2> HIDE DEF all, h, x, z, w, K
  <2>1. IsBytes(u) /\ IsBytes(y) /\ IsBytes(zk) /\ IsBytes(Then(h, y)) /\ IsBytes(Then(y, zk))
    BY <1>2, <1>6, <1>7, ThenBytes
  <2>2. Then(Then(Then(h, y), z), K) = Then(Then(h, y), zk)
    <3> HIDE DEF y
    <3> QED BY <1>2, <1>6, <2>1, ThenRegrouped
  <2>3. Then(Then(h, y), zk) = Then(h, Then(y, zk))
    <3> HIDE DEF y, zk
    <3> QED BY <1>6, <2>1, ThenRegrouped
  <2>4. Then(y, zk) = Then(Label, Then(u, zk))
    <3> HIDE DEF u, zk
    <3> QED BY <1>6, <2>1, ThenRegrouped
  <2>5. Then(u, zk) = Then(Byte(w), Then(x, zk))
    <3> HIDE DEF zk
    <3> QED BY <1>2, <1>7, <2>1, ThenRegrouped
  <2> QED BY <1>6, <2>2, <2>3, <2>4, <2>5
<1>16. IsRawOut(rest, S, N, h, w, x, Then(z, K), all, K)
  <2>1. w \in 1..127 \cup 129..255
    BY <1>7
  <2>2. w = Width(x)
    OBVIOUS
  <2> DEFINE zk == Then(z, K)
  <2>3. IsBytes(zk)
    BY <1>2, <1>6, ThenBytes
  <2>4. Then(all, K) = Then(h, Then(Label, Then(Byte(w), Then(x, zk))))
    BY <1>15
  <2> HIDE DEF S, N, K, h, x, w, all, rest, zk
  <2>5. IsRawOut(rest, S, N, h, w, x, zk, all, K)
    BY <1>2, <1>6, <1>7, <1>9, <2>1, <2>2, <2>3, <2>4 DEF IsRawOut
  <2> QED BY <2>5 DEF zk
<1> QED BY <1>14, <1>16

-----------------------------------------------------------------------------
(* What the oracle signs, put together by the script and by its mirror *)

\* What follows two strings.
LEMMA SkipTwo ==
    \A a, b, d, n : IsBytes(a) /\ IsBytes(b) /\ IsBytes(d) /\ n = Width(a) + Width(b) =>
        Rest(Then(a, Then(b, d)), n) = d
<1>1. ASSUME NEW a, NEW b, NEW d, NEW n, IsBytes(a), IsBytes(b), IsBytes(d), n = Width(a) + Width(b)
      PROVE  Rest(Then(a, Then(b, d)), n) = d
  <2> DEFINE ab == Then(a, b)
  <2>1. IsBytes(ab) /\ Width(ab) = n
    BY <1>1, ThenBytes, ThenWidth
  <2>2. Then(a, Then(b, d)) = Then(ab, d)
    BY <1>1, ThenRegrouped
  <2> HIDE DEF ab
  <2> QED BY <1>1, <2>1, <2>2, ThenCut
<1> QED BY <1>1

\* A field with its length, and what follows it.
LEMMA FieldRead ==
    ASSUME NEW x, IsBytes(x), NEW n, n = Width(x), NEW z, IsBytes(z), NEW s, s = Then(Byte(n), Then(x, z))
    PROVE  Field(s) = x /\ AfterField(s) = z
<1> DEFINE t == Then(x, z)
<1>1. IsBytes(t) /\ IsBytes(Byte(n)) /\ Width(Byte(n)) = 1
  BY ThenBytes, BytesOfPieces
<1>2. First(t, n) = x
  BY ThenCut
<1> HIDE DEF t
<1>3. Rest(s, 1) = t /\ FirstByte(s) = n
  BY <1>1, ByteThen DEF t
<1>4. s[1].says[2] = n
  BY <1>3 DEF FirstByte
<1>5. Rest(s, 1 + n) = z
  BY <1>1, SkipTwo DEF t
<1> QED BY <1>2, <1>3, <1>4, <1>5 DEF Field, AfterField

\* The parts that script.ts's buildPreImage finds in an "in" attestation.
LEMMA MirrorRead ==
    ASSUME NEW W, NEW ver, NEW one, NEW inp, NEW dep, NEW sig, NEW ring, NEW rest,
           IsRawIn(W, ver, one, inp, dep, sig, ring, rest),
           NEW seq, NEW count, NEW head, NEW w, NEW x, NEW more, NEW all, NEW locktime,
           IsRawOut(rest, seq, count, head, w, x, more, all, locktime)
    PROVE  /\ First(W, 4) = ver /\ First(RawInput(W), 36) = inp /\ Field(RawSignature(W)) = sig
           /\ Field(RawScript(W)) = ring /\ First(RawSequence(W), 4) = seq
           /\ First(RawOutputs(W), Width(RawOutputs(W)) - 4) = all
           /\ Rest(RawOutputs(W), Width(RawOutputs(W)) - 4) = locktime
           /\ Field(RawMint(W)) = x
<1> DEFINE t8 == Then(ring, rest)
           t7 == Then(Byte(80), t8)
           t6 == Then(Byte(76), t7)
           t5 == Then(sig, t6)
           t4 == Then(Byte(72), t5)
           t3 == Then(dep, t4)
           t2 == Then(inp, t3)
           t1 == Then(one, t2)
           u5 == Then(x, more)
           u4 == Then(Byte(w), u5)
           u3 == Then(Label, u4)
           u2 == Then(all, locktime)
           u1 == Then(count, u2)
<1>1. /\ IsBytes(ver) /\ IsBytes(one) /\ IsBytes(inp) /\ IsBytes(dep) /\ IsBytes(sig) /\ IsBytes(ring) /\ IsBytes(rest)
      /\ Width(ver) = 4 /\ Width(one) = 1 /\ Width(inp) = 36 /\ Width(dep) = 34 /\ Width(sig) = 72 /\ Width(ring) = 80
      /\ W = Then(ver, t1)
  BY DEF IsRawIn
<1>2. /\ IsBytes(seq) /\ IsBytes(count) /\ IsBytes(head) /\ IsBytes(x) /\ IsBytes(more) /\ IsBytes(all)
      /\ IsBytes(locktime) /\ IsBytes(Label)
      /\ Width(seq) = 4 /\ Width(count) = 1 /\ Width(head) = 9 /\ Width(Label) = 11 /\ w = Width(x)
      /\ Width(locktime) = 4 /\ rest = Then(seq, u1) /\ u2 = Then(head, u3)
  BY DEF IsRawOut
<1>3. \A n : IsBytes(Byte(n)) /\ Width(Byte(n)) = 1
  BY BytesOfPieces
<1>4. /\ IsBytes(t8) /\ IsBytes(t7) /\ IsBytes(t6) /\ IsBytes(t5) /\ IsBytes(t4) /\ IsBytes(t3) /\ IsBytes(t2)
      /\ IsBytes(t1)
  BY <1>1, <1>3, ThenBytes
<1>5. IsBytes(u5) /\ IsBytes(u4) /\ IsBytes(u3) /\ IsBytes(u2) /\ IsBytes(u1)
  BY <1>2, <1>3, ThenBytes
<1>6. First(W, 4) = ver
  <2> HIDE DEF t1
  <2> QED BY <1>1, <1>4, ThenCut
<1>7. RawInput(W) = t2
  <2> HIDE DEF t2
  <2>1. 5 = Width(ver) + Width(one)
    BY <1>1
  <2> QED BY <1>1, <1>4, <2>1, SkipTwo DEF RawInput
<1>8. First(RawInput(W), 36) = inp
  <2> HIDE DEF t3
  <2> QED BY <1>1, <1>4, <1>7, ThenCut
<1>9. RawSignature(W) = t4
  <2> HIDE DEF t4
  <2>1. 36 + 34 = Width(inp) + Width(dep)
    BY <1>1
  <2> QED BY <1>1, <1>4, <1>7, <2>1, SkipTwo DEF RawSignature
<1>10. Field(RawSignature(W)) = sig /\ AfterField(RawSignature(W)) = t6
  <2> HIDE DEF t6
  <2>1. 72 = Width(sig)
    BY <1>1
  <2> QED BY <1>1, <1>4, <1>9, <2>1, FieldRead
<1>11. RawScript(W) = t7
  <2> HIDE DEF t7
  <2>1. First(t6, 1) = Byte(76) /\ Rest(t6, 1) = t7
    BY <1>4, ByteThen
  <2> HIDE DEF t6
  <2> QED BY <1>10, <2>1 DEF RawScript
<1>12. Field(RawScript(W)) = ring /\ AfterField(RawScript(W)) = rest
  <2>1. 80 = Width(ring)
    BY <1>1
  <2> QED BY <1>1, <1>11, <2>1, FieldRead
<1>13. RawSequence(W) = rest
  BY <1>12 DEF RawSequence
<1>14. First(RawSequence(W), 4) = seq
  <2> HIDE DEF u1
  <2> QED BY <1>2, <1>5, <1>13, ThenCut
<1>15. RawOutputs(W) = u2
  <2> HIDE DEF u2
  <2>1. 5 = Width(seq) + Width(count)
    BY <1>2
  <2> QED BY <1>2, <1>5, <1>13, <2>1, SkipTwo DEF RawOutputs
<1>16. Width(u2) - 4 = Width(all) /\ First(u2, Width(all)) = all /\ Rest(u2, Width(all)) = locktime
  <2>1. Width(u2) = Width(all) + Width(locktime) /\ Width(all) \in Nat
    BY <1>2, ThenWidth
  <2>2. First(u2, Width(all)) = all /\ Rest(u2, Width(all)) = locktime
    BY <1>2, ThenCut
  <2> HIDE DEF u2
  <2> QED BY <1>2, <2>1, <2>2
<1>17. RawMint(W) = u4
  <2> HIDE DEF u4, u2
  <2>1. 9 + 11 = Width(head) + Width(Label)
    BY <1>2
  <2> QED BY <1>2, <1>5, <1>15, <2>1, SkipTwo DEF RawMint
<1>18. Field(RawMint(W)) = x
  BY <1>2, <1>17, FieldRead
<1> HIDE DEF u2
<1> QED BY <1>6, <1>8, <1>10, <1>12, <1>14, <1>15, <1>16, <1>18

\* Ten strings, one after the other.
TenTogether(v, p, q, o, d, l, s, a, k, t) == v \o p \o q \o o \o d \o l \o s \o a \o k \o t

\* What the signature of an attestation is over: its parts, and its value.
LEMMA OraclePreimage ==
    ASSUME NEW c, NEW outs, NEW all, all = OutsBytes(outs), IsBytes(all), NEW ring, IsBytes(ring), NEW value
    PROVE  LET X == getPreimage(SigningOracle(c, outs), ring, value)
               S == Piece("sequence", 0, 4)
           IN  /\ X = TenTogether(Piece("version", 2, 4), HASH256(OutpointBytes(c)), HASH256(S),
                                  OutpointBytes(c), Data(ring), LE(value, 8), S, HASH256(all),
                                  Piece("locktime", 0, 4), TypeBytes(SignsAll, 4))
               /\ X = Then(Piece("version", 2, 4), Then(HASH256(OutpointBytes(c)), Then(HASH256(S),
                          Then(OutpointBytes(c), Then(Data(ring), Then(LE(value, 8), Then(S,
                          Then(HASH256(all), Then(Piece("locktime", 0, 4), TypeBytes(SignsAll, 4))))))))))
<1> DEFINE V == Piece("version", 2, 4)
           O == OutpointBytes(c)
           S == Piece("sequence", 0, 4)
           P == HASH256(O)
           Q == HASH256(S)
           D == Data(ring)
           L == LE(value, 8)
           A == HASH256(all)
           K == Piece("locktime", 0, 4)
           T == TypeBytes(SignsAll, 4)
           s == SigningOracle(c, outs)
<1>1. /\ IsBytes(V) /\ IsBytes(O) /\ IsBytes(S) /\ IsBytes(K) /\ IsBytes(T) /\ IsBytes(L)
      /\ IsBytes(P) /\ IsBytes(Q) /\ IsBytes(A)
  BY BytesOfPieces, OutpointWidth DEF LE, TypeBytes, HASH256, SHA256
<1>2. IsBytes(D)
  BY DataWidth
<1>3. s.tx.ins = <<c>> /\ s.tx.outs = outs /\ s.index = 1 /\ s.type = SignsAll
  BY DEF SigningOracle
<1>4. ~SignsAll.anyoneCanPay /\ SignsAll.outputs = "ALL"
  BY DEF SignsAll
<1>5. HashPrevouts(s.tx, s.type) = P
  <2> DEFINE p == [i \in DOMAIN s.tx.ins |-> OutpointBytes(s.tx.ins[i])]
  <2>1. p = <<O>>
    <3> HIDE DEF s, O
    <3>1. \A i \in DOMAIN s.tx.ins : OutpointBytes(s.tx.ins[i]) = O
      BY <1>3 DEF O
    <3> QED BY <1>3, <3>1
  <2> HIDE DEF p, O
  <2>2. AreBytes(p, 1) /\ p[1] = O
    BY <1>1, <2>1 DEF AreBytes
  <2>3. Concat(p) = O
    BY <2>2, OneTogether
  <2> HIDE DEF s
  <2> QED BY <1>3, <1>4, <2>3 DEF HashPrevouts, p
<1>6. HashSequence(s.tx, s.type) = Q
  <2> DEFINE p == [i \in DOMAIN s.tx.ins |-> S]
  <2>1. p = <<S>>
    <3> HIDE DEF s, S
    <3> QED BY <1>3
  <2> HIDE DEF p
  <2>2. AreBytes(p, 1) /\ p[1] = S
    <3> HIDE DEF S
    <3> QED BY <1>1, <2>1 DEF AreBytes
  <2>3. Concat(p) = S
    BY <2>2, OneTogether
  <2> HIDE DEF s
  <2> QED BY <1>3, <1>4, <2>3 DEF HashSequence, p
<1>7. HashOutputs(s.tx, s.index, s.type) = A
  <2>1. OutputsBytes(s.tx) = all
    BY <1>3 DEF OutputsBytes, OutsBytes
  <2> HIDE DEF s
  <2> QED BY <1>3, <1>4, <2>1 DEF HashOutputs
<1>8. OutpointBytes(s.tx.ins[s.index]) = O
  BY <1>3
<1> DEFINE X == getPreimage(s, ring, value)
<1>9. X = V \o P \o Q \o O \o D \o L \o S \o A \o K \o T
  <2> HIDE DEF s, P, Q, O, D, A
  <2> QED BY <1>3, <1>5, <1>6, <1>7, <1>8, Zenon DEF getPreimage, D
<1>10. X = TenTogether(V, P, Q, O, D, L, S, A, K, T)
  <2> HIDE DEF V, P, Q, O, D, L, S, A, K, T, X
  <2> QED BY <1>9, Zenon DEF TenTogether
<1> HIDE DEF V, P, Q, O, D, L, S, A, K, T, X
<1> DEFINE p2 == Then(V, P)
           p3 == Then(p2, Q)
           p4 == Then(p3, O)
           p5 == Then(p4, D)
           p6 == Then(p5, L)
           p7 == Then(p6, S)
           p8 == Then(p7, A)
           p9 == Then(p8, K)
           t9 == Then(K, T)
           t8 == Then(A, t9)
           t7 == Then(S, t8)
           t6 == Then(L, t7)
           t5 == Then(D, t6)
           t4 == Then(O, t5)
           t3 == Then(Q, t4)
           t2 == Then(P, t3)
<1>11. /\ IsBytes(p2) /\ IsBytes(p3) /\ IsBytes(p4) /\ IsBytes(p5) /\ IsBytes(p6) /\ IsBytes(p7) /\ IsBytes(p8)
       /\ IsBytes(t9) /\ IsBytes(t8) /\ IsBytes(t7) /\ IsBytes(t6) /\ IsBytes(t5) /\ IsBytes(t4) /\ IsBytes(t3)
  BY <1>1, <1>2, ThenBytes
<1>12. X = Then(p9, T)
  BY <1>9, Zenon DEF Then
<1>13. Then(p9, T) = Then(p8, t9) /\ Then(p8, t9) = Then(p7, t8) /\ Then(p7, t8) = Then(p6, t7)
  <2>1. Then(p9, T) = Then(p8, t9)
    BY <1>1, <1>11, ThenRegrouped
  <2>2. Then(p8, t9) = Then(p7, t8)
    BY <1>1, <1>11, ThenRegrouped
  <2>3. Then(p7, t8) = Then(p6, t7)
    BY <1>1, <1>11, ThenRegrouped
  <2> QED BY <2>1, <2>2, <2>3
<1>14. Then(p6, t7) = Then(p5, t6) /\ Then(p5, t6) = Then(p4, t5) /\ Then(p4, t5) = Then(p3, t4)
  <2>1. Then(p6, t7) = Then(p5, t6)
    BY <1>1, <1>11, ThenRegrouped
  <2>2. Then(p5, t6) = Then(p4, t5)
    BY <1>2, <1>11, ThenRegrouped
  <2>3. Then(p4, t5) = Then(p3, t4)
    BY <1>1, <1>11, ThenRegrouped
  <2> QED BY <2>1, <2>2, <2>3
<1>15. Then(p3, t4) = Then(p2, t3) /\ Then(p2, t3) = Then(V, t2)
  <2>1. Then(p3, t4) = Then(p2, t3)
    BY <1>1, <1>11, ThenRegrouped
  <2>2. Then(p2, t3) = Then(V, t2)
    BY <1>1, <1>11, ThenRegrouped
  <2> QED BY <2>1, <2>2
<1>16. X = Then(V, t2)
  <2> HIDE DEF p2, p3, p4, p5, p6, p7, p8, p9, t2, t3, t4, t5, t6, t7, t8, t9
  <2> QED BY <1>12, <1>13, <1>14, <1>15
<1> QED BY <1>10, <1>16 DEF X, V, P, Q, O, D, L, S, A, K, T, s

\* The script takes an "in" attestation apart, and puts together what its oracle would have
\* signed for a coin of the value the script holds.
LEMMA AttestedRead ==
    ASSUME NEW a \in Requests, NEW key \in Keys, NEW type, type # "out",
           NEW c, c.ring = toOracleRing(key, "secret", type), NEW o, o = buildOracleTx(c, Request[a])
    PROVE  /\ Opens(toRaw(o)) /\ Reads(toRaw(o))
           /\ AttestedPreimage(toRaw(o))
                = getPreimage(SigningOracle(c, InOuts(a, key)), Concat(c.ring), ORACLE_TX_SATS)
           /\ SignatureOf(toRaw(o)) = AttestingSignature(key, c, InOuts(a, key))
           /\ MintedOutputs(toRaw(o)) = Listed(a)
<1> DEFINE V == Piece("version", 2, 4)
           O == OutpointBytes(c)
           S == Piece("sequence", 0, 4)
           K == Piece("locktime", 0, 4)
           T == TypeBytes(SignsAll, 4)
           L == LE(ORACLE_TX_SATS, 8)
           r == Concat(c.ring)
           sig == AttestingSignature(key, c, InOuts(a, key))
           all == OutsBytes(InOuts(a, key))
           W == toRaw(o)
<1>1. /\ IsRawIn(W, V, Byte(1), O, Then(Byte(188), Data(DepositOf(a))), sig, r, AfterRing(a, key))
      /\ IsRawOut(AfterRing(a, key), S, Byte(2), ListingHead(a), Width(Listed(a)), Listed(a),
                  Then(StampOutput(key), K), all, K)
  BY InRaw
<1> HIDE DEF W, sig
<1>2. /\ Opens(W) /\ ReadsSignature(W) /\ ReadsRing(W)
      /\ Version(W) = V /\ InputOf(W) = O /\ SignatureOf(W) = sig /\ RingOf(W) = r
      /\ FromSequence(W) = AfterRing(a, key)
  BY <1>1, RawInRead
<1>3. /\ ReadsOutputs(W) /\ ReadsMint(W)
      /\ SequenceOf(W) = S /\ AllOutputsOf(W) = all /\ LocktimeOf(W) = K /\ MintedOutputs(W) = Listed(a)
  BY <1>1, <1>2, RawOutRead
<1>4. /\ IsBytes(V) /\ IsBytes(O) /\ IsBytes(S) /\ IsBytes(K) /\ IsBytes(T) /\ IsBytes(L)
      /\ IsBytes(HASH256(O)) /\ IsBytes(HASH256(S)) /\ IsBytes(HASH256(all))
  BY BytesOfPieces, OutpointWidth DEF LE, TypeBytes, HASH256, SHA256
<1>5. IsBytes(r) /\ Width(r) = 80 /\ IsBytes(all)
  BY SecretRing, ListingBytes
<1>6. CountedRing(W) = Data(r)
  <2>1. Number(80) = Byte(80)
    BY DEF Number
  <2> HIDE DEF r
  <2> QED BY <1>2, <1>5, <2>1 DEF CountedRing, Data
<1> DEFINE t9 == Then(K, T)
           t8 == Then(HASH256(all), t9)
           t6 == Then(L, Then(S, t8))
           t5 == Then(Data(r), t6)
           t4 == Then(O, t5)
           t3 == Then(HASH256(S), t4)
           t2 == Then(HASH256(O), t3)
<1>7. OutputsOn(W) = t8
  <2> HIDE DEF all, K, T
  <2> QED BY <1>3 DEF OutputsOn, LocktimeOn, Then, T
<1>8. ValueOn(W) = t6
  <2>1. ValueOn(W) = Then(Then(L, S), t8)
    <3> HIDE DEF t8, L, S
    <3> QED BY <1>3, <1>7 DEF ValueOn, ValueOf, Then, L
  <2>2. IsBytes(t8)
    <3> HIDE DEF K, T, all
    <3> QED BY <1>4, ThenBytes
  <2> HIDE DEF t8, L, S
  <2> QED BY <1>4, <2>1, <2>2, ThenRegrouped
<1>9. AttestedPreimage(W) = Then(V, t2)
  <2> HIDE DEF t6, V, O, S, r
  <2> QED BY <1>2, <1>3, <1>6, <1>8 DEF AttestedPreimage, InputsOn, SequencesOn, InputOn, RingOn, Then
<1>10. getPreimage(SigningOracle(c, InOuts(a, key)), r, ORACLE_TX_SATS) = Then(V, t2)
  <2> DEFINE outs == InOuts(a, key)
  <2>1. all = OutsBytes(outs) /\ IsBytes(all) /\ IsBytes(r)
    BY <1>5
  <2> HIDE DEF outs, all, r
  <2> QED BY <2>1, OraclePreimage DEF outs
<1> QED BY <1>2, <1>3, <1>9, <1>10 DEF Reads, W, sig

\* As does its mirror.
LEMMA MirrorAttested ==
    ASSUME NEW a \in Requests, NEW key \in Keys, NEW type, type # "out",
           NEW c, c.ring = toOracleRing(key, "secret", type), NEW o, o = buildOracleTx(c, Request[a])
    PROVE  LET mirror == buildPreImage(toRaw(o))
           IN  /\ mirror.preimage
                    = getPreimage(SigningOracle(c, InOuts(a, key)), Concat(c.ring), ORACLE_TX_SATS)
               /\ mirror.signature = AttestingSignature(key, c, InOuts(a, key))
               /\ mirror.altStack = <<Listed(a)>>
<1> DEFINE V == Piece("version", 2, 4)
           O == OutpointBytes(c)
           S == Piece("sequence", 0, 4)
           K == Piece("locktime", 0, 4)
           r == Concat(c.ring)
           sig == AttestingSignature(key, c, InOuts(a, key))
           all == OutsBytes(InOuts(a, key))
           W == toRaw(o)
<1>1. /\ IsRawIn(W, V, Byte(1), O, Then(Byte(188), Data(DepositOf(a))), sig, r, AfterRing(a, key))
      /\ IsRawOut(AfterRing(a, key), S, Byte(2), ListingHead(a), Width(Listed(a)), Listed(a),
                  Then(StampOutput(key), K), all, K)
  BY InRaw
<1> HIDE DEF W, sig
<1>2. /\ First(W, 4) = V /\ First(RawInput(W), 36) = O /\ Field(RawSignature(W)) = sig
      /\ Field(RawScript(W)) = r /\ First(RawSequence(W), 4) = S
      /\ First(RawOutputs(W), Width(RawOutputs(W)) - 4) = all
      /\ Rest(RawOutputs(W), Width(RawOutputs(W)) - 4) = K
      /\ Field(RawMint(W)) = Listed(a)
  BY <1>1, MirrorRead
<1>3. IsBytes(r) /\ IsBytes(all)
  BY SecretRing, ListingBytes
<1>4. getPreimage(SigningOracle(c, InOuts(a, key)), r, ORACLE_TX_SATS)
        = TenTogether(V, HASH256(O), HASH256(S), O, Data(r), LE(ORACLE_TX_SATS, 8), S, HASH256(all), K,
                      TypeBytes(SignsAll, 4))
  <2> DEFINE outs == InOuts(a, key)
  <2>1. all = OutsBytes(outs) /\ IsBytes(all) /\ IsBytes(r)
    BY <1>3
  <2> HIDE DEF outs, all, r
  <2> QED BY <2>1, OraclePreimage DEF outs
<1> DEFINE mirror == buildPreImage(W)
<1>5. mirror.preimage
        = TenTogether(V, HASH256(O), HASH256(S), O, Data(r), LE(ORACLE_TX_SATS, 8), S, HASH256(all), K,
                      TypeBytes(SignsAll, 4))
  <2> HIDE DEF V, O, S, K, r, all
  <2>1. mirror.preimage
          = First(W, 4) \o HASH256(First(RawInput(W), 36)) \o HASH256(First(RawSequence(W), 4))
              \o First(RawInput(W), 36) \o Data(Field(RawScript(W))) \o LE(ORACLE_TX_SATS, 8)
              \o First(RawSequence(W), 4) \o HASH256(First(RawOutputs(W), Width(RawOutputs(W)) - 4))
              \o Rest(RawOutputs(W), Width(RawOutputs(W)) - 4) \o TypeBytes(SignsAll, 4)
    BY DEF buildPreImage
  <2> HIDE DEF mirror
  <2> QED BY <1>2, <2>1, Zenon DEF TenTogether
<1>6. mirror.signature = sig /\ mirror.altStack = <<Listed(a)>>
  BY <1>2 DEF buildPreImage
<1> QED BY <1>4, <1>5, <1>6 DEF W, sig

\* The oracle that signed it is the covenant's, and its coin of the value the script holds,
\* where the script finds it attested.
LEMMA AttestedBy ==
    ASSUME NEW a \in Requests, NEW key \in Keys, NEW type, type # "out",
           NEW c, c.ring = toOracleRing(key, "secret", type), NEW o, o = buildOracleTx(c, Request[a])
    PROVE  Attests(toRaw(o)) <=> key = AuthKey /\ c.value = ORACLE_TX_SATS
<1> DEFINE outs == InOuts(a, key)
           r == Concat(c.ring)
           W == toRaw(o)
           X == getPreimage(SigningOracle(c, outs), r, ORACLE_TX_SATS)
           Y == getPreimage(SigningOracle(c, outs), r, c.value)
<1>1. AttestedPreimage(W) = X /\ SignatureOf(W) = AttestingSignature(key, c, outs)
  BY AttestedRead
<1>2. OracleSignature(W) = Signature(key, HASH256(Y))
  <2>1. First(SignatureOf(W), Width(SignatureOf(W)) - 1) = Signature(key, HASH256(SignedByOracle(c, outs)))
    <3> HIDE DEF W, outs
    <3> QED BY <1>1, AttestingBytes
  <2> QED BY <2>1 DEF OracleSignature, SignedByOracle
<1>3. Attests(W) <=> Verifies(HASH256(X), Signature(key, HASH256(Y)), PubKey(AuthKey))
  <2> HIDE DEF W, X, Y
  <2> QED BY <1>1, <1>2 DEF Attests, HASH256
<1>4. Attests(W) <=> key = AuthKey /\ HASH256(Y) = HASH256(X)
  <2> HIDE DEF W, X, Y
  <2> QED BY <1>3, VerifiedBy
<1>5. HASH256(Y) = HASH256(X) <=> Y = X
  <2> HIDE DEF X, Y
  <2> QED BY HashSays
<1>6. ASSUME Y = X PROVE c.value = ORACLE_TX_SATS
  <2> DEFINE V == Piece("version", 2, 4)
             O == OutpointBytes(c)
             S == Piece("sequence", 0, 4)
             P == HASH256(O)
             Q == HASH256(S)
             D == Data(r)
             A == HASH256(OutsBytes(outs))
             t7 == Then(S, Then(A, Then(Piece("locktime", 0, 4), TypeBytes(SignsAll, 4))))
             L(n) == LE(n, 8)
  <2>1. /\ IsBytes(V) /\ IsBytes(O) /\ IsBytes(S) /\ IsBytes(P) /\ IsBytes(Q) /\ IsBytes(A)
        /\ IsBytes(Piece("locktime", 0, 4)) /\ IsBytes(TypeBytes(SignsAll, 4))
        /\ \A n : IsBytes(L(n)) /\ Width(L(n)) = 8
    BY BytesOfPieces, OutpointWidth DEF LE, TypeBytes, HASH256, SHA256
  <2>2. IsBytes(r) /\ IsBytes(OutsBytes(outs)) /\ IsBytes(D)
    BY SecretRing, ListingBytes, DataWidth
  <2>3. IsBytes(t7)
    <3> HIDE DEF S, A
    <3> QED BY <2>1, ThenBytes
  <2>4. \A n : getPreimage(SigningOracle(c, outs), r, n)
                 = Then(V, Then(P, Then(Q, Then(O, Then(D, Then(L(n), t7))))))
    <3>1. ASSUME NEW n PROVE getPreimage(SigningOracle(c, outs), r, n)
                 = Then(V, Then(P, Then(Q, Then(O, Then(D, Then(L(n), t7))))))
      <4> HIDE DEF outs, r
      <4> QED BY <2>2, OraclePreimage
    <3> QED BY <3>1
  <2> DEFINE x == L(ORACLE_TX_SATS)
             y == L(c.value)
  <2>5. IsBytes(x) /\ IsBytes(y) /\ Width(y) = Width(x)
    BY <2>1
  <2>6. Then(V, Then(P, Then(Q, Then(O, Then(D, Then(y, t7))))))
          = Then(V, Then(P, Then(Q, Then(O, Then(D, Then(x, t7))))))
    <3> HIDE DEF V, P, Q, O, D, L, t7, outs, r
    <3> QED BY <1>6, <2>4
  <2> DEFINE x6 == Then(x, t7)
             x5 == Then(D, x6)
             x4 == Then(O, x5)
             x3 == Then(Q, x4)
             x2 == Then(P, x3)
             y6 == Then(y, t7)
             y5 == Then(D, y6)
             y4 == Then(O, y5)
             y3 == Then(Q, y4)
             y2 == Then(P, y3)
  <2> HIDE DEF V, P, Q, O, D, t7, L, x, y
  <2>7. /\ IsBytes(x6) /\ IsBytes(x5) /\ IsBytes(x4) /\ IsBytes(x3) /\ IsBytes(x2)
        /\ IsBytes(y6) /\ IsBytes(y5) /\ IsBytes(y4) /\ IsBytes(y3) /\ IsBytes(y2)
    BY <2>1, <2>2, <2>3, <2>5, ThenBytes
  <2>8. \A u, v, w : IsBytes(u) /\ IsBytes(v) /\ IsBytes(w) /\ Then(u, v) = Then(u, w) => v = w
    BY ThenSame
  <2>9. y2 = x2
    <3> HIDE DEF x2, y2
    <3>1. Then(V, y2) = Then(V, x2)
      BY <2>6 DEF x2, y2
    <3> QED BY <2>1, <2>7, <2>8, <3>1
  <2>10. y3 = x3
    <3> HIDE DEF x3, y3
    <3> QED BY <2>1, <2>7, <2>8, <2>9
  <2>11. y4 = x4
    <3> HIDE DEF x4, y4
    <3> QED BY <2>1, <2>7, <2>8, <2>10
  <2>12. y5 = x5
    <3> HIDE DEF x5, y5
    <3> QED BY <2>1, <2>7, <2>8, <2>11
  <2>13. y6 = x6
    <3> HIDE DEF x6, y6
    <3> QED BY <2>2, <2>7, <2>8, <2>12
  <2>14. y = x
    <3>1. Then(y, t7) = Then(x, t7)
      BY <2>13
    <3> QED BY <2>3, <2>5, <3>1, ThenSame
  <2> QED BY <2>14, PieceSays DEF x, y, L, LE
<1> QED BY <1>4, <1>5, <1>6 DEF W

-----------------------------------------------------------------------------
(* A payout, whose signature comes first in its input's script *)

\* The outputs of a payout.
LEMMA PayoutBytes ==
    ASSUME NEW a \in Requests
    PROVE  IsBytes(OutsBytes(OutOuts(a)))
<1> DEFINE m == [amount |-> Request[a].amount, recipient |-> Request[a].recipient]
           u == Oracle("out", m)
           r == OracleOpReturn(u)
           outs == OutOuts(a)
           p == [i \in DOMAIN outs |-> OutputBytes(outs[i])]
           w == buildOutOracle(m)
<1>1. IsBytes(w) /\ Width(w) = 28
  <2> DEFINE x == BE(m.amount, 8)
             y == Piece("ethAddress", m.recipient, 20)
  <2>1. w = Then(x, y)
    BY DEF buildOutOracle, Then
  <2>2. IsBytes(x) /\ Width(x) = 8 /\ IsBytes(y) /\ Width(y) = 20
    BY BytesOfPieces DEF BE
  <2> HIDE DEF x, y, w
  <2> QED BY <2>1, <2>2, ThenBytes, ThenWidth
<1>2. u.kind = "out" /\ u.to = m
  BY DEF Oracle
<1> HIDE DEF m
<1>3. IsBytes(PushData(w))
  <2> HIDE DEF w
  <2>1. PushData(w) = Data(w)
    BY <1>1, PushOf
  <2> QED BY <1>1, <2>1, DataWidth
<1>4. IsBytes(PushData(Piece("ascii", "CTRL", 4))) /\ \A n : IsBytes(Byte(n)) /\ IsBytes(PushPush(Byte(n)))
  <2> DEFINE x == Piece("ascii", "CTRL", 4)
  <2>1. IsBytes(x) /\ Width(x) = 4 /\ \A n : IsBytes(Byte(n))
    BY BytesOfPieces
  <2> HIDE DEF x
  <2>2. PushData(x) = Data(x)
    BY <2>1, PushOf
  <2> QED BY <2>1, <2>2, DataWidth DEF PushPush, x
<1>5. /\ r = <<Byte(106), PushData(Piece("ascii", "CTRL", 4)), PushPush(Byte(1)), PushPush(Byte(2)), PushData(w)>>
  BY <1>2 DEF OracleOpReturn
<1> HIDE DEF r, w, u
<1>6. AreBytes(r, 5)
  <2>1. Len(r) = 5 /\ \A i \in 1..5 : i = 1 \/ i = 2 \/ i = 3 \/ i = 4 \/ i = 5
    BY <1>5
  <2> QED BY <1>3, <1>4, <1>5, <2>1 DEF AreBytes
<1>7. IsBytes(Concat(r))
  BY <1>6, LeftUnfold
<1>8. OutputBytes(u) = Serialize(0, Concat(r))
  BY <1>2 DEF OutputBytes, r
<1>9. IsBytes(OutputBytes(u))
  BY <1>7, <1>8, SerializedBytes
<1>10. outs = <<u>>
  BY DEF OutOuts, buildOracleOutTx, u, m
<1> HIDE DEF outs
<1>11. p = <<OutputBytes(u)>>
  BY <1>10
<1> HIDE DEF p
<1>12. AreBytes(p, 1)
  <2>1. \A i \in 1..1 : i = 1
    OBVIOUS
  <2> QED BY <1>9, <1>11, <2>1 DEF AreBytes
<1>13. IsBytes(Concat(p))
  BY <1>12, OneTogether
<1> QED BY <1>13 DEF OutsBytes, p, outs

\* It is its version, the number of its inputs and its input, and its signature behind two lengths.
LEMMA OutRaw ==
    ASSUME NEW a \in Requests, NEW key \in Keys, NEW c, c.ring = toOracleRing(key, "secret", "out"),
           NEW o, o = buildOracleTx(c, Request[a])
    PROVE  \E z : /\ IsBytes(z)
                  /\ toRaw(o) = Then(Piece("version", 2, 4), Then(Byte(1), Then(OutpointBytes(c), Then(Byte(157),
                        Then(Byte(72), Then(Signature(key, HASH256(SignedByOracle(c, OutOuts(a)))), z))))))
<1> DEFINE V == Piece("version", 2, 4)
           B == Byte(1)
           O == OutpointBytes(c)
           g == Signature(key, HASH256(SignedByOracle(c, OutOuts(a))))
           y == TypeBytes(SignsAll, 1)
           s == AttestingSignature(key, c, OutOuts(a))
           r == Concat(c.ring)
           all == OutsBytes(OutOuts(a))
           sig == Concat([i \in DOMAIN o.items |-> PushData(o.items[i])])
           ts == Then(Byte(72), s)
           tb == Then(Byte(1), Byte(27))
           tr == Then(Byte(76), Then(Byte(80), r))
           rest == Then(Piece("sequence", 0, 4), Then(Byte(Len(o.outs)), Then(all, Piece("locktime", 0, 4))))
<1>1. o.ins = <<c>> /\ o.outs = OutOuts(a) /\ o.items = <<s, Byte(27), r>>
  BY Built
<1>2. /\ IsBytes(V) /\ IsBytes(B) /\ IsBytes(O) /\ IsBytes(y) /\ IsBytes(g)
      /\ \A n : IsBytes(Byte(n)) /\ Width(Byte(n)) = 1
  BY BytesOfPieces, OutpointWidth DEF TypeBytes, Signature
<1>3. s = Then(g, y)
  BY DEF AttestingSignature, Then
<1>4. IsBytes(s) /\ Width(s) = 72
  BY AttestingBytes
<1>5. IsBytes(r) /\ Width(r) = 80
  BY SecretRing
<1>6. IsBytes(all) /\ IsBytes(rest)
  <2>1. IsBytes(all)
    BY PayoutBytes
  <2>2. IsBytes(Piece("sequence", 0, 4)) /\ IsBytes(Piece("locktime", 0, 4))
    BY BytesOfPieces
  <2> HIDE DEF all
  <2> QED BY <1>2, <2>1, <2>2, ThenBytes
<1>7. PushData(s) = ts
  <2> HIDE DEF s
  <2>1. PushData(s) = Data(s)
    BY <1>4, PushOf
  <2> QED BY <1>4, <2>1 DEF Data, Then
<1>8. PushData(Byte(27)) = tb
  <2> DEFINE x == Byte(27)
  <2>1. x[1].says[2] = 27
    BY DEF Byte, Piece
  <2>2. Width(x) = 1
    BY <1>2
  <2> HIDE DEF x
  <2>3. ~HasOpcode(x) /\ Width(x) <= 75
    BY <2>1, <2>2 DEF HasOpcode
  <2>4. PushData(x) = Byte(1) \o x
    BY <2>2, <2>3, Zenon DEF PushData, Data
  <2> QED BY <2>4 DEF x, Then
<1>9. PushData(r) = tr
  <2> HIDE DEF r
  <2>1. 80 = Width(r) /\ 80 \in 76..255
    BY <1>5
  <2> QED BY <1>5, <2>1, LongPushed
<1>10. IsBytes(ts) /\ Width(ts) = 73 /\ IsBytes(tb) /\ Width(tb) = 2 /\ IsBytes(tr) /\ Width(tr) = 82
  <2> HIDE DEF s, r
  <2>1. IsBytes(ts) /\ Width(ts) = 1 + 72
    BY <1>2, <1>4, ThenBytes, ThenWidth
  <2>2. IsBytes(tb) /\ Width(tb) = 1 + 1
    BY <1>2, ThenBytes, ThenWidth
  <2>3. IsBytes(Then(Byte(80), r)) /\ Width(Then(Byte(80), r)) = 1 + 80
    BY <1>2, <1>5, ThenBytes, ThenWidth
  <2>4. IsBytes(tr) /\ Width(tr) = 1 + 81
    <3> DEFINE q == Then(Byte(80), r)
    <3> HIDE DEF q
    <3>1. IsBytes(q) /\ Width(q) = 81
      BY <2>3 DEF q
    <3>2. IsBytes(Then(Byte(76), q)) /\ Width(Then(Byte(76), q)) = 1 + 81
      BY <1>2, <3>1, ThenBytes, ThenWidth
    <3> QED BY <3>2 DEF q
  <2> HIDE DEF ts, tb, tr
  <2> QED BY <2>1, <2>2, <2>4
<1>11. sig = Then(ts, Then(tb, tr)) /\ IsBytes(sig) /\ Width(sig) = 157
  <2> DEFINE p == [i \in DOMAIN o.items |-> PushData(o.items[i])]
             x == Byte(27)
  <2> HIDE DEF s, r, x, ts, tb, tr
  <2>1. p = <<ts, tb, tr>>
    <3>1. o.items = <<s, x, r>> /\ PushData(x) = tb
      BY <1>1, <1>8 DEF x
    <3> QED BY <3>1, <1>7, <1>9
  <2> HIDE DEF p
  <2>2. Len(p) = 3 /\ p[1] = ts /\ p[2] = tb /\ p[3] = tr
    BY <2>1
  <2>3. \A i \in 1..3 : i = 1 \/ i = 2 \/ i = 3
    OBVIOUS
  <2>4. AreBytes(p, 3)
    BY <1>10, <2>2, <2>3 DEF AreBytes
  <2>5. Concat(p) = Then(ts, Then(tb, tr)) /\ IsBytes(Concat(p))
    BY <2>2, <2>4, ThreeTogether
  <2>6. Width(Concat(p)) = 157
    <3> DEFINE q == Then(tb, tr)
    <3>1. IsBytes(q) /\ Width(q) = 2 + 82
      BY <1>10, ThenBytes, ThenWidth
    <3> HIDE DEF q
    <3>2. Width(Then(ts, q)) = 73 + 84
      BY <1>10, <3>1, ThenWidth
    <3> QED BY <2>5, <3>2 DEF q
  <2> QED BY <2>5, <2>6 DEF p
<1>12. toRaw(o) = Then(V, Then(B, Then(O, Then(Data(sig), rest))))
  <2>1. o.ins[1] = c /\ all = OutputsBytes(o)
    BY <1>1 DEF OutputsBytes, OutsBytes
  <2> HIDE DEF all, sig
  <2>2. sig = Concat([i \in DOMAIN o.items |-> PushData(o.items[i])])
    BY DEF sig
  <2>3. toRaw(o) = Then(Piece("version", 2, 4), Then(Byte(1), Then(OutpointBytes(o.ins[1]), Then(Data(sig),
                          Then(Piece("sequence", 0, 4), Then(Byte(Len(o.outs)), Then(all, Piece("locktime", 0, 4))))))))
    BY <1>6, <1>11, <2>1, <2>2, RawParts
  <2> QED BY <2>1, <2>3
<1> DEFINE q == Then(tb, tr)
           z == Then(y, Then(q, rest))
<1>13. IsBytes(q) /\ IsBytes(Then(q, rest)) /\ IsBytes(z) /\ IsBytes(Then(g, z))
  <2> HIDE DEF tb, tr, y, rest, g
  <2> QED BY <1>2, <1>6, <1>10, ThenBytes
<1>14. Then(Data(sig), rest) = Then(Byte(157), Then(Byte(72), Then(g, z)))
  <2> DEFINE tq == Then(ts, q)
  <2>1. Data(sig) = Then(Byte(157), tq)
    <3> HIDE DEF sig, tq
    <3>1. sig = tq /\ Width(sig) = 157
      BY <1>11 DEF tq
    <3> QED BY <3>1 DEF Data, Then
  <2>2. IsBytes(tq)
    <3> HIDE DEF ts, q
    <3> QED BY <1>10, <1>13, ThenBytes
  <2>3. Then(Then(Byte(157), tq), rest) = Then(Byte(157), Then(tq, rest))
    <3> HIDE DEF tq, rest
    <3> QED BY <1>2, <1>6, <2>2, ThenRegrouped
  <2>4. Then(tq, rest) = Then(ts, Then(q, rest))
    <3> HIDE DEF ts, q, rest
    <3> QED BY <1>6, <1>10, <1>13, ThenRegrouped
  <2>5. Then(ts, Then(q, rest)) = Then(Byte(72), Then(s, Then(q, rest)))
    <3> HIDE DEF s, q, rest
    <3> QED BY <1>2, <1>4, <1>13, ThenRegrouped
  <2>6. Then(s, Then(q, rest)) = Then(g, z)
    <3> HIDE DEF s, g, y, q, rest
    <3> QED BY <1>2, <1>3, <1>13, ThenRegrouped
  <2> HIDE DEF sig, tq, ts, q, rest, s, g, z
  <2> QED BY <2>1, <2>3, <2>4, <2>5, <2>6
<1>15. toRaw(o) = Then(V, Then(B, Then(O, Then(Byte(157), Then(Byte(72), Then(g, z))))))
  <2> HIDE DEF sig, rest, V, B, O, g, z
  <2> QED BY <1>12, <1>14
<1> QED BY <1>13, <1>15

\* What one piece and then others begin with.
LEMMA ThenFirst ==
    ASSUME NEW h, IsBytes(h), NEW y, IsBytes(y)
    PROVE  Len(h) = 1 /\ Len(y) >= 1 =>
             /\ Len(y) \in Nat /\ Len(Then(h, y)) = 1 + Len(y) /\ Then(h, y)[1] = h[1] /\ Then(h, y)[2] = y[1]
             /\ Len(y) >= 2 => Then(h, y)[3] = y[2]
<1> DEFINE hy == Then(h, y)
<1>1. /\ Len(h) \in Nat /\ Len(y) \in Nat /\ Len(hy) = Len(h) + Len(y)
      /\ \A i \in 1..Len(h) : hy[i] = h[i]
      /\ \A i \in 1..Len(y) : hy[Len(h) + i] = y[i]
  BY Joined DEF Then
<1> HIDE DEF hy
<1>2. SUFFICES ASSUME Len(h) = 1, Len(y) >= 1
               PROVE  /\ Len(y) \in Nat /\ Len(hy) = 1 + Len(y) /\ hy[1] = h[1] /\ hy[2] = y[1]
                      /\ Len(y) >= 2 => hy[3] = y[2]
  BY DEF hy
<1>3. hy[1] = h[1] /\ hy[1 + 1] = y[1] /\ (Len(y) >= 2 => hy[1 + 2] = y[2])
  BY <1>1, <1>2
<1>4. 1 + 1 = 2 /\ 1 + 2 = 3
  OBVIOUS
<1> QED BY <1>1, <1>2, <1>3, <1>4

\* Where a deposit would end, its signature is cut, and what is found is no length.
LEMMA SignatureCut ==
    ASSUME NEW key, NEW digest, NEW z, IsBytes(z),
           NEW s, s = Then(Byte(157), Then(Byte(72), Then(Signature(key, digest), z)))
    PROVE  /\ 34 \in 0..Width(s) /\ 1 \in 0..Width(Rest(s, 34)) /\ ~IsNumber(First(Rest(s, 34), 1))
<1> DEFINE q == PieceOf("signature", <<key, digest>>, 71)
           t == Then(<<q>>, z)
           u == Then(Byte(72), t)
<1>1. Signature(key, digest) = <<q>> /\ Byte(72) = <<ByteOf(72)>> /\ Byte(157) = <<ByteOf(157)>>
  BY DEF Signature, Byte, Piece, ByteOf, PieceOf
<1>2. s = Then(Byte(157), u)
  BY <1>1
<1>3. /\ IsBytes(<<q>>) /\ Width(<<q>>) = 71 /\ IsBytes(Byte(72)) /\ Width(Byte(72)) = 1
      /\ IsBytes(Byte(157)) /\ Width(Byte(157)) = 1
  <2>1. IsBytes(Signature(key, digest)) /\ Width(Signature(key, digest)) = 71
    BY BytesOfPieces DEF Signature
  <2> QED BY <1>1, <2>1, BytesOfPieces
<1>4. q.says[1] = "signature" /\ q.says = <<"signature", <<key, digest>>>> /\ q.from = 0 /\ q.width = 71
  BY DEF PieceOf
<1>5. Len(Byte(72)) = 1 /\ Byte(72)[1].width = 1 /\ Len(Byte(157)) = 1 /\ Byte(157)[1].width = 1
  BY DEF Byte, Piece
<1> HIDE DEF q
<1>6. IsBytes(t) /\ Len(t) \in Nat /\ Len(t) >= 1 /\ t[1] = q /\ Width(t) >= 71
  <2>1. IsBytes(t) /\ Width(t) = 71 + Width(z) /\ Width(z) \in Nat
    BY <1>3, ThenBytes, ThenWidth
  <2>2. /\ Len(<<q>>) \in Nat /\ Len(z) \in Nat /\ Len(t) = Len(<<q>>) + Len(z)
        /\ \A i \in 1..Len(<<q>>) : t[i] = <<q>>[i]
    BY <1>3, Joined DEF Then
  <2> HIDE DEF t
  <2>3. Len(<<q>>) = 1 /\ <<q>>[1] = q
    OBVIOUS
  <2>4. t[1] = <<q>>[1]
    BY <2>2, <2>3
  <2> QED BY <2>1, <2>2, <2>3, <2>4
<1> HIDE DEF t
<1>7. IsBytes(u) /\ Len(u) = 1 + Len(t) /\ u[1].width = 1 /\ u[2] = q /\ Width(u) >= 72
  <2>1. IsBytes(u) /\ Width(u) = 1 + Width(t) /\ Width(t) \in Nat
    BY <1>3, <1>6, ThenBytes, ThenWidth
  <2>2. Len(u) = 1 + Len(t) /\ u[1] = Byte(72)[1] /\ u[2] = t[1]
    BY <1>3, <1>5, <1>6, ThenFirst
  <2> HIDE DEF u
  <2> QED BY <1>5, <1>6, <2>1, <2>2
<1> HIDE DEF u
<1>8. /\ IsBytes(s) /\ Len(s) \in Nat /\ Len(s) >= 3 /\ s[1].width = 1 /\ s[2].width = 1 /\ s[3] = q
      /\ Width(s) \in Nat /\ Width(s) >= 73
  <2>1. IsBytes(s) /\ Width(s) = 1 + Width(u) /\ Width(u) \in Nat
    BY <1>2, <1>3, <1>7, ThenBytes, ThenWidth
  <2>2. Len(u) >= 2 /\ Len(u) \in Nat
    BY <1>6, <1>7
  <2>3. Len(s) = 1 + Len(u) /\ s[1] = Byte(157)[1] /\ s[2] = u[1] /\ s[3] = u[2]
    BY <1>2, <1>3, <1>5, <1>7, <2>2, ThenFirst
  <2> QED BY <1>5, <1>7, <2>1, <2>2, <2>3
<1>9. Cut(s, 34) = At(2, 32)
  <2>1. Cuts(s)[At(0, 34)] = Cuts(s)[At(1, 33)]
    <3>1. 0 \in 0..Len(s) /\ 0 < Len(s) /\ s[0 + 1].width <= 34 /\ 34 - s[0 + 1].width = 33 /\ 0 + 1 = 1
      BY <1>8
    <3>2. Cuts(s)[At(0, 34)] = Cuts(s)[At(0 + 1, 34 - s[0 + 1].width)]
      BY <1>8, <3>1, CutsUnfold
    <3> QED BY <3>1, <3>2
  <2>2. Cuts(s)[At(1, 33)] = Cuts(s)[At(2, 32)]
    <3>1. 1 \in 0..Len(s) /\ 1 < Len(s) /\ s[1 + 1].width <= 33 /\ 33 - s[1 + 1].width = 32 /\ 1 + 1 = 2
      BY <1>8
    <3>2. Cuts(s)[At(1, 33)] = Cuts(s)[At(1 + 1, 33 - s[1 + 1].width)]
      BY <1>8, <3>1, CutsUnfold
    <3> QED BY <3>1, <3>2
  <2>3. Cuts(s)[At(2, 32)] = At(2, 32)
    <3>1. 2 \in 0..Len(s) /\ ~(2 < Len(s) /\ s[2 + 1].width <= 32)
      BY <1>4, <1>8
    <3> QED BY <1>8, <3>1, CutsUnfold
  <2> QED BY <2>1, <2>2, <2>3 DEF Cut, At
<1> DEFINE x == [q EXCEPT !.from = @ + 32, !.width = @ - 32]
           v == SubSeq(s, 4, Len(s))
           f == Rest(s, 34)
<1>10. f = <<x>> \o v
  <2>1. Cut(s, 34).part = 32 /\ Cut(s, 34).whole = 2
    BY <1>9 DEF At
  <2> DEFINE Cutting(i, p) == <<[s[i + 1] EXCEPT !.from = @ + p, !.width = @ - p]>> \o SubSeq(s, i + 2, Len(s))
  <2>2. f = Cutting(Cut(s, 34).whole, Cut(s, 34).part)
    <3>1. Cut(s, 34).part # 0
      BY <2>1
    <3> QED BY <3>1, Zenon DEF Rest
  <2>3. f = Cutting(2, 32)
    <3> HIDE DEF Cutting, f
    <3> QED BY <2>1, <2>2
  <2>4. s[2 + 1] = q /\ 2 + 2 = 4
    BY <1>8
  <2>5. f = <<[s[2 + 1] EXCEPT !.from = @ + 32, !.width = @ - 32]>> \o SubSeq(s, 2 + 2, Len(s))
    BY <2>3, Zenon
  <2> QED BY <2>4, <2>5, Zenon
<1>11. x = [says |-> q.says, from |-> 32, width |-> 39]
  <2>1. PICK w : q = [says |-> w, from |-> 0, width |-> 71]
    BY DEF q, PieceOf
  <2>2. 0 + 32 = 32 /\ 71 - 32 = 39
    OBVIOUS
  <2>3. q.says = w
    BY <2>1
  <2>4. [q EXCEPT !.from = @ + 32, !.width = @ - 32] = [says |-> w, from |-> 32, width |-> 39]
    <3>1. q.from + 32 = 32 /\ q.width - 32 = 39
      BY <1>4, <2>2
    <3>2. [[says |-> w, from |-> 0, width |-> 71] EXCEPT !.from = 32, !.width = 39]
            = [says |-> w, from |-> 32, width |-> 39]
      <4>1. [[says |-> w, from |-> 0, width |-> 71] EXCEPT !.from = 32] = [says |-> w, from |-> 32, width |-> 71]
        OBVIOUS
      <4>2. [[says |-> w, from |-> 32, width |-> 71] EXCEPT !.width = 39] = [says |-> w, from |-> 32, width |-> 39]
        OBVIOUS
      <4> QED BY <4>1, <4>2, Zenon
    <3>3. [q EXCEPT !.from = 32, !.width = 39] = [says |-> w, from |-> 32, width |-> 39]
      BY <2>1, <3>2, Zenon
    <3> QED BY <3>1, <3>3, Zenon
  <2> QED BY <2>3, <2>4
<1>12. IsBytes(<<x>>) /\ IsBytes(v)
  <2>1. <<x>> \in Bytes({q.says})
    <3> DEFINE says == {q.says}
               all == [says : says, from : Nat, width : Nat \ {0}]
    <3>1. x \in all
      <4> HIDE DEF x
      <4> QED BY <1>11
    <3> HIDE DEF all, x
    <3>2. <<x>> \in Seq(all)
      BY <3>1
    <3> QED BY <3>2 DEF Bytes, all
  <2>2. PICK says : s \in Bytes(says)
    BY <1>8 DEF IsBytes
  <2>3. v \in Bytes(says)
    <3> DEFINE all == [says : says, from : Nat, width : Nat \ {0}]
    <3>1. s \in Seq(all)
      BY <2>2 DEF Bytes
    <3> HIDE DEF all
    <3>2. \A i \in 4..Len(s) : s[i] \in all
      BY <3>1
    <3>3. v \in Seq(all)
      BY <1>8, <3>1, <3>2, SubSeqProperties
    <3> QED BY <3>3 DEF Bytes, all
  <2> QED BY <2>1, <2>3 DEF IsBytes
<1>13. /\ IsBytes(f) /\ Len(f) \in Nat /\ Len(f) >= 1 /\ f[1] = x
  <2>1. IsBytes(f)
    BY <1>10, <1>12, JoinedBytes
  <2>2. /\ Len(<<x>>) \in Nat /\ Len(v) \in Nat /\ Len(f) = Len(<<x>>) + Len(v)
        /\ \A i \in 1..Len(<<x>>) : f[i] = <<x>>[i]
    BY <1>10, <1>12, Joined
  <2> HIDE DEF f, x, v
  <2>3. Len(<<x>>) = 1 /\ <<x>>[1] = x
    OBVIOUS
  <2>4. f[1] = <<x>>[1]
    BY <2>2, <2>3
  <2> QED BY <2>1, <2>2, <2>3, <2>4
<1>14. 1 \in 0..Width(f)
  <2> HIDE DEF f, x, v
  <2>1. /\ Ends(f) \in [0..Len(f) -> Nat] /\ Ends(f)[0] = 0
        /\ \A k \in 1..Len(f) : Ends(f)[k] = Ends(f)[k - 1] + f[k].width
    BY <1>13, EndsUnfold
  <2>2. Width(f) = Width(<<x>>) + Width(v) /\ Width(<<x>>) \in Nat /\ Width(v) \in Nat
    BY <1>10, <1>12, ThenWidth, WidthOfJoined
  <2>3. Width(<<x>>) = 39
    <3> DEFINE y == <<x>>
    <3>1. Len(y) = 1 /\ y[1] = x
      OBVIOUS
    <3>2. IsBytes(y)
      BY <1>12
    <3> HIDE DEF y
    <3>3. Ends(y)[0] = 0 /\ Ends(y)[1] = Ends(y)[1 - 1] + y[1].width
      BY <3>1, <3>2, EndsUnfold
    <3>4. x.width = 39
      BY <1>11
    <3> QED BY <3>1, <3>3, <3>4 DEF Width, y
  <2> QED BY <2>2, <2>3
<1> HIDE DEF f, x, v
<1> DEFINE n == First(f, 1)
           y == [x EXCEPT !.width = 1]
<1>15. n = SubSeq(f, 1, 0) \o <<y>>
  <2>1. Cuts(f)[At(0, 1)] = At(0, 1)
    <3>1. 0 \in 0..Len(f) /\ ~(0 < Len(f) /\ f[0 + 1].width <= 1)
      <4>1. f[0 + 1].width = 39
        BY <1>11, <1>13
      <4> QED BY <1>13, <4>1
    <3> QED BY <1>13, <3>1, CutsUnfold
  <2>2. Cut(f, 1).part = 1 /\ Cut(f, 1).whole = 0
    BY <2>1 DEF Cut, At
  <2>3. n = SubSeq(f, 1, 0) \o <<[f[0 + 1] EXCEPT !.width = 1]>>
    BY <2>2 DEF First
  <2> QED BY <1>13, <2>3
<1>16. y.says[1] = "signature"
  BY <1>4, <1>11
<1>17. ~IsNumber(n)
  <2> HIDE DEF y, n
  <2>1. Len(n) = 1 /\ n[1] = y /\ DOMAIN n = 1..1
    <3>1. SubSeq(f, 1, 0) = << >>
      OBVIOUS
    <3>2. << >> \o <<y>> = <<y>>
      OBVIOUS
    <3> QED BY <1>15, <3>1, <3>2
  <2>2. 1 \in DOMAIN n
    BY <2>1
  <2>3. n[1].says[1] # "byte"
    BY <1>16, <2>1
  <2> QED BY <2>2, <2>3 DEF IsNumber
<1>18. 34 \in 0..Width(s)
  BY <1>8
<1> QED BY <1>14, <1>17, <1>18 DEF f, n

\* So the script opens it and goes no further.
LEMMA PayoutRefused ==
    ASSUME NEW a \in Requests, NEW key \in Keys, NEW c, c.ring = toOracleRing(key, "secret", "out"),
           NEW o, o = buildOracleTx(c, Request[a])
    PROVE  Opens(toRaw(o)) /\ ~IsNumber(LengthOfSignature(toRaw(o)))
<1> DEFINE V == Piece("version", 2, 4)
           B == Byte(1)
           O == OutpointBytes(c)
           d == HASH256(SignedByOracle(c, OutOuts(a)))
           W == toRaw(o)
<1>1. PICK z : IsBytes(z) /\ W = Then(V, Then(B, Then(O, Then(Byte(157), Then(Byte(72), Then(Signature(key, d), z))))))
  BY OutRaw
<1> DEFINE g == Signature(key, d)
           s == Then(Byte(157), Then(Byte(72), Then(g, z)))
           t2 == Then(O, s)
           t1 == Then(B, t2)
<1>2. /\ IsBytes(V) /\ Width(V) = 4 /\ IsBytes(B) /\ Width(B) = 1 /\ IsBytes(O) /\ Width(O) = 36
      /\ IsBytes(g) /\ \A n : IsBytes(Byte(n))
  BY BytesOfPieces, OutpointWidth DEF Signature
<1>3. 34 \in 0..Width(s) /\ 1 \in 0..Width(Rest(s, 34)) /\ ~IsNumber(First(Rest(s, 34), 1))
  <2> HIDE DEF d
  <2> QED BY <1>1, SignatureCut
<1>4. W = Then(V, t1)
  BY <1>1
<1> HIDE DEF V, B, O, g, W
<1>5. IsBytes(s)
  BY <1>1, <1>2, ThenBytes
<1> HIDE DEF s
<1>6. IsBytes(t1) /\ IsBytes(t2)
  BY <1>2, <1>5, ThenBytes
<1>7. FromCount(W) = t1 /\ 4 \in 0..Width(W)
  <2> HIDE DEF t1
  <2>1. 4 = Width(V)
    BY <1>2
  <2> QED BY <1>2, <1>4, <1>6, <2>1, Taken DEF FromCount
<1>8. FromInput(W) = t2 /\ 1 \in 0..Width(FromCount(W))
  <2> HIDE DEF t2
  <2>1. 1 = Width(B)
    BY <1>2
  <2> QED BY <1>2, <1>6, <1>7, <2>1, Taken DEF FromInput
<1>9. FromScript(W) = s /\ 36 \in 0..Width(FromInput(W))
  <2>1. 36 = Width(O)
    BY <1>2
  <2> QED BY <1>2, <1>5, <1>8, <2>1, Taken DEF FromScript
<1> QED BY <1>3, <1>7, <1>8, <1>9 DEF Opens, FromLength, LengthOfSignature, W

-----------------------------------------------------------------------------
(* What the script accepts *)

\* The script accepts spend s, presented with attestation o.
MintPasses(s, o) ==
    OutscriptPasses(MinterSignature(s), PubKey(s.pubkey), Preimage(s.shown), toRaw(o), Preimage(s.real))

\* That comes down to the oracle and its coin, to the minter's keys, to what was signed over,
\* shown and broadcast, and to the outputs that are listed.
LEMMA MintPassesSays ==
    ASSUME NEW s \in OracleSpends, NEW a \in Requests, NEW key \in Keys, NEW type, type # "out",
           NEW c, c.ring = toOracleRing(key, "secret", type), NEW o, o = buildOracleTx(c, Request[a])
    PROVE  /\ TakesApart(toRaw(o))
           /\ MintPasses(s, o) <=>
                 /\ key = AuthKey /\ c.value = ORACLE_TX_SATS /\ s.key = s.pubkey
                 /\ Preimage(s.over) = Preimage(s.shown) /\ Preimage(s.over) = Preimage(s.real)
                 /\ HASH256(Listed(a)) = HashOutputs(s.shown.tx, s.shown.index, s.shown.type)
<1> DEFINE S == MinterSignature(s)
           P == PubKey(s.pubkey)
           X == Preimage(s.shown)
           W == toRaw(o)
           R == Preimage(s.real)
           O == Preimage(s.over)
           f == HashOutputs(s.shown.tx, s.shown.index, s.shown.type)
           B == Listed(a)
<1>1. s.key \in Keys
  BY OracleAssumption
<1>2. Opens(W) /\ Reads(W) /\ MintedOutputs(W) = B
  BY AttestedRead
<1>3. Attests(W) <=> key = AuthKey /\ c.value = ORACLE_TX_SATS
  BY AttestedBy
<1>4. Width(S) = 72 /\ Signed(S) = Signature(s.key, HASH256(O))
  BY SignatureRead DEF MinterSignature
<1>5. OutputsCut(X) /\ PreimageHash(X) = f
  BY PreimageOf
<1>6. Verifies(HASH256(X), Signed(S), P) <=> s.key = s.pubkey /\ O = X
  <2>1. Verifies(HASH256(X), Signed(S), P) <=> s.key = s.pubkey /\ HASH256(O) = HASH256(X)
    BY <1>1, <1>4, VerifiedBy
  <2> HIDE DEF O, X
  <2> QED BY <2>1, HashSays
<1>7. Verifies(HASH256(R), Signed(S), P) <=> s.key = s.pubkey /\ O = R
  <2>1. Verifies(HASH256(R), Signed(S), P) <=> s.key = s.pubkey /\ HASH256(O) = HASH256(R)
    BY <1>1, <1>4, VerifiedBy
  <2> HIDE DEF O, R
  <2> QED BY <2>1, HashSays
<1>8. MintPasses(s, o) <=> OutscriptPasses(S, P, X, W, R)
  BY DEF MintPasses
<1> HIDE DEF S, P, X, W, R, O, f, B
<1>9. SignedByMinter(S, P, X) <=> Verifies(HASH256(X), Signed(S), P)
  BY <1>4 DEF SignedByMinter, HASH256
<1>10. MintMatches(X, W) <=> HASH256(B) = f
  BY <1>2, <1>5 DEF MintMatches
<1>11. MintPasses(s, o) <=>
          key = AuthKey /\ c.value = ORACLE_TX_SATS /\ s.key = s.pubkey /\ O = X /\ O = R /\ HASH256(B) = f
  BY <1>2, <1>3, <1>5, <1>6, <1>7, <1>8, <1>9, <1>10 DEF OutscriptPasses
<1>12. TakesApart(W)
  BY <1>2 DEF TakesApart
<1> QED BY <1>11, <1>12 DEF O, X, R, W, B, f

\* A payout is never accepted.
LEMMA PayoutFails ==
    ASSUME NEW s, NEW a \in Requests, NEW key \in Keys, NEW c, c.ring = toOracleRing(key, "secret", "out"),
           NEW o, o = buildOracleTx(c, Request[a])
    PROVE  TakesApart(toRaw(o)) /\ ~MintPasses(s, o)
<1>1. Opens(toRaw(o)) /\ ~IsNumber(LengthOfSignature(toRaw(o)))
  BY PayoutRefused
<1> DEFINE W == toRaw(o)
<1> HIDE DEF W
<1>2. Opens(W) /\ ~IsNumber(LengthOfSignature(W))
  BY <1>1 DEF W
<1>3. TakesApart(W) /\ ~Reads(W)
  BY <1>2, ReadsNumber DEF TakesApart
<1> QED BY <1>3 DEF MintPasses, OutscriptPasses, W

-----------------------------------------------------------------------------
(* What the SDK reads of an attestation *)

\* Five strings joined.
LEMMA FiveJoined ==
    ASSUME NEW v, NEW w, NEW x, NEW y, NEW z, IsBytes(v), IsBytes(w), IsBytes(x), IsBytes(y), IsBytes(z)
    PROVE  /\ IsBytes(v \o w \o x \o y \o z)
           /\ Width(v \o w \o x \o y \o z) = Width(v) + Width(w) + Width(x) + Width(y) + Width(z)
<1> DEFINE a == Then(v, w)
           b == Then(a, x)
           c == Then(b, y)
           d == Then(c, z)
<1>1. d = v \o w \o x \o y \o z
  BY DEF Then
<1> HIDE DEF d
<1>2. IsBytes(a) /\ Width(a) = Width(v) + Width(w)
  BY ThenBytes, ThenWidth
<1> HIDE DEF a
<1>3. IsBytes(b) /\ Width(b) = Width(a) + Width(x)
  BY <1>2, ThenBytes, ThenWidth
<1> HIDE DEF b
<1>4. IsBytes(c) /\ Width(c) = Width(b) + Width(y)
  BY <1>3, ThenBytes, ThenWidth
<1> HIDE DEF c
<1>5. IsBytes(d) /\ Width(d) = Width(c) + Width(z)
  BY <1>4, ThenBytes, ThenWidth DEF d
<1> QED BY <1>1, <1>2, <1>3, <1>4, <1>5

\* The scripts of outputs: of a mint,
LEMMA MintScript ==
    ASSUME NEW token, NEW quantity, NEW r, r = buildMintOpReturnV2(TokenId(token), quantity)
    PROVE  IsBytes(r) /\ Width(r) = 55
<1> DEFINE a == Byte(106)
           b == PushData(Piece("ascii", "SLP", 4))
           c == PushPush(Byte(2))
           d == PushData(Piece("ascii", "MINT", 4))
           e == PushData(TokenId(token))
           f == PushData(BE(quantity, 8))
           g == a \o b \o c \o d \o e
<1>1. \A x, y : IsBytes(x) /\ y = Width(x) /\ y \in 2..75 => IsBytes(PushData(x)) /\ Width(PushData(x)) = 1 + y
  BY PushOf, DataWidth
<1>2. /\ IsBytes(Piece("ascii", "SLP", 4)) /\ 4 = Width(Piece("ascii", "SLP", 4))
      /\ IsBytes(Piece("ascii", "MINT", 4)) /\ 4 = Width(Piece("ascii", "MINT", 4))
      /\ IsBytes(TokenId(token)) /\ 32 = Width(TokenId(token))
      /\ IsBytes(BE(quantity, 8)) /\ 8 = Width(BE(quantity, 8))
      /\ IsBytes(Byte(2)) /\ Width(Byte(2)) = 1 /\ IsBytes(a) /\ Width(a) = 1
  BY BytesOfPieces DEF TokenId, BE
<1>3. IsBytes(b) /\ Width(b) = 5 /\ IsBytes(d) /\ Width(d) = 5
  BY <1>1, <1>2
<1>4. IsBytes(e) /\ Width(e) = 33 /\ IsBytes(f) /\ Width(f) = 9
  BY <1>1, <1>2
<1>5. IsBytes(c) /\ Width(c) = 2
  BY <1>2, DataWidth DEF PushPush
<1>6. r = Then(g, f)
  BY DEF buildMintOpReturnV2, Then
<1>7. IsBytes(a) /\ Width(a) = 1
  BY <1>2
<1> HIDE DEF a, b, c, d, e, f
<1>8. IsBytes(g) /\ Width(g) = 46
  <2>1. /\ IsBytes(g) /\ Width(g) = Width(a) + Width(b) + Width(c) + Width(d) + Width(e)
    BY <1>3, <1>4, <1>5, <1>7, FiveJoined
  <2> HIDE DEF g
  <2> QED BY <1>3, <1>4, <1>5, <1>7, <2>1
<1> HIDE DEF g
<1> QED BY <1>4, <1>6, <1>8, ThenBytes, ThenWidth

\* of a payment,
LEMMA PayScript ==
    ASSUME NEW recipient, NEW r, r = P2PKH(recipient)
    PROVE  IsBytes(r) /\ Width(r) = 25
<1> DEFINE a == Byte(118)
           b == Byte(169)
           c == Data(Piece("hash160", recipient, 20))
           d == Byte(136)
           e == Byte(172)
<1>1. r = a \o b \o c \o d \o e
  BY DEF P2PKH
<1>2. /\ IsBytes(a) /\ Width(a) = 1 /\ IsBytes(b) /\ Width(b) = 1 /\ IsBytes(d) /\ Width(d) = 1
      /\ IsBytes(e) /\ Width(e) = 1
  BY BytesOfPieces
<1>3. IsBytes(c) /\ Width(c) = 21
  <2>1. IsBytes(Piece("hash160", recipient, 20)) /\ Width(Piece("hash160", recipient, 20)) = 20
    BY BytesOfPieces
  <2> QED BY <2>1, DataWidth
<1> HIDE DEF a, b, c, d, e
<1>4. IsBytes(r) /\ Width(r) = Width(a) + Width(b) + Width(c) + Width(d) + Width(e)
  BY <1>1, <1>2, <1>3, FiveJoined
<1> QED BY <1>2, <1>3, <1>4

\* and of a payment to a script.
LEMMA HashScript ==
    ASSUME NEW name, NEW r, r = P2SH(name)
    PROVE  IsBytes(r) /\ Width(r) = 23
<1> DEFINE a == Byte(169)
           b == Data(Piece("hash160", name, 20))
           c == Byte(135)
           d == Then(a, b)
<1>1. r = Then(d, c)
  BY DEF P2SH, Then
<1>2. IsBytes(a) /\ Width(a) = 1 /\ IsBytes(c) /\ Width(c) = 1
  BY BytesOfPieces
<1>3. IsBytes(b) /\ Width(b) = 21
  <2>1. IsBytes(Piece("hash160", name, 20)) /\ Width(Piece("hash160", name, 20)) = 20
    BY BytesOfPieces
  <2> QED BY <2>1, DataWidth
<1> HIDE DEF a, b, c
<1>4. IsBytes(d) /\ Width(d) = 22
  BY <1>2, <1>3, ThenBytes, ThenWidth
<1> HIDE DEF d
<1> QED BY <1>1, <1>2, <1>4, ThenBytes, ThenWidth

\* An output is its value and its script.
LEMMA ValueAndScript ==
    ASSUME NEW o, IsOutput(o)
    PROVE  \E v, r : OutputBytes(o) = Then(v, Data(r)) /\ IsBytes(v) /\ Width(v) = 8 /\ IsBytes(r)
<1>1. \A value, r : IsBytes(r) /\ Width(r) \in {55, 25, 23} =>
                       Serialize(value, r) = Then(LE(value, 8), Data(r))
  BY DEF Serialize, VarBytes, Then
<1>2. \A value : IsBytes(LE(value, 8)) /\ Width(LE(value, 8)) = 8
  BY BytesOfPieces DEF LE
<1>3. o.kind \in {"mint", "pay", "script"}
  BY DEF IsOutput
<1>4. CASE o.kind = "mint"
  <2> DEFINE r == buildMintOpReturnV2(TokenId(o.to), o.amount)
  <2>1. OutputBytes(o) = Serialize(0, r)
    BY <1>4 DEF OutputBytes, PlainOutputBytes
  <2>2. IsBytes(r) /\ Width(r) = 55
    BY MintScript
  <2> HIDE DEF r
  <2> QED BY <1>1, <1>2, <2>1, <2>2
<1>5. CASE o.kind = "pay"
  <2> DEFINE r == P2PKH(o.to)
  <2>1. OutputBytes(o) = Serialize(o.amount, r)
    BY <1>5 DEF OutputBytes, PlainOutputBytes
  <2>2. IsBytes(r) /\ Width(r) = 25
    BY PayScript
  <2> HIDE DEF r
  <2> QED BY <1>1, <1>2, <2>1, <2>2
<1>6. CASE o.kind = "script"
  <2> DEFINE r == P2SH(o.to)
  <2>1. OutputBytes(o) = Serialize(o.amount, r)
    BY <1>6 DEF OutputBytes, PlainOutputBytes
  <2>2. IsBytes(r) /\ Width(r) = 23
    BY HashScript
  <2> HIDE DEF r
  <2> QED BY <1>1, <1>2, <2>1, <2>2
<1> QED BY <1>3, <1>4, <1>5, <1>6

\* What is read of a list, output after output.
ParseNext(sofar) ==
    LET output == Rest(sofar.rest, 8)
    IN  IF sofar.rest = << >> THEN sofar
        ELSE [outs |-> Append(sofar.outs, Raw(First(sofar.rest, 8) \o Data(Field(output)))),
              rest |-> AfterField(output)]
IsParse(f, content) ==
    f = [k \in 0..Len(content) |-> IF k = 0 THEN [outs |-> << >>, rest |-> content] ELSE ParseNext(f[k - 1])]
ParsedOf(p, k) == [outs |-> [i \in 1..k |-> Raw(p[i])], rest |-> Left(p, k)]

\* The next output is read as its bytes.
LEMMA NextParsed ==
    ASSUME NEW p, NEW n \in Nat, AreBytes(p, n), NEW k \in 1..n, p[k] # << >>,
           NEW v, NEW r, p[k] = Then(v, Data(r)), IsBytes(v), Width(v) = 8, IsBytes(r)
    PROVE  ParseNext(ParsedOf(p, k - 1)) = ParsedOf(p, k)
<1> DEFINE rest == Left(p, k - 1)
           z == Left(p, k)
           w == Width(r)
           b == Byte(w)
           d == Then(b, r)
           t == Then(r, z)
           output == Then(b, t)
           outs == [i \in 1..(k - 1) |-> Raw(p[i])]
<1>1. rest = Then(p[k], z) /\ IsBytes(rest) /\ IsBytes(z)
  <2>1. k - 1 \in 0..n /\ k \in 0..n
    OBVIOUS
  <2> QED BY <2>1, LeftUnfold
<1>2. Data(r) = d /\ IsBytes(b) /\ IsBytes(p[k])
  BY BytesOfPieces DEF Data, Then, AreBytes
<1> HIDE DEF rest, z
<1>3. IsBytes(d) /\ IsBytes(t) /\ IsBytes(output) /\ Then(d, z) = output
  <2> HIDE DEF b
  <2> QED BY <1>1, <1>2, ThenBytes, ThenRegrouped
<1>4. rest = Then(v, output)
  <2> HIDE DEF d, output
  <2>1. rest = Then(Then(v, d), z)
    BY <1>1, <1>2
  <2> QED BY <1>1, <1>3, <2>1, ThenRegrouped
<1>5. rest # << >>
  <2> HIDE DEF output
  <2>1. Width(rest) = 8 + Width(output) /\ Width(output) \in Nat
    BY <1>3, <1>4, ThenWidth
  <2>2. Width(<< >>) = 0
    BY NoBytes, EndsUnfold DEF Width
  <2> QED BY <2>1, <2>2
<1>6. First(rest, 8) = v /\ Rest(rest, 8) = output
  <2> HIDE DEF output
  <2>1. 8 = Width(v)
    OBVIOUS
  <2> QED BY <1>3, <1>4, <2>1, ThenCut
<1>7. Field(output) = r /\ AfterField(output) = z
  BY <1>1, FieldRead
<1>8. v \o Data(r) = p[k]
  BY DEF Then
<1> HIDE DEF output
<1>9. ParseNext(ParsedOf(p, k - 1)) = [outs |-> Append(outs, Raw(p[k])), rest |-> z]
  <2> DEFINE sofar == ParsedOf(p, k - 1)
  <2>1. sofar.rest = rest /\ sofar.outs = outs
    BY DEF ParsedOf, rest
  <2> HIDE DEF sofar, outs
  <2>2. ParseNext(sofar) = [outs |-> Append(sofar.outs, Raw(First(sofar.rest, 8) \o Data(Field(Rest(sofar.rest, 8))))),
                            rest |-> AfterField(Rest(sofar.rest, 8))]
    BY <1>5, <2>1 DEF ParseNext
  <2>3. First(sofar.rest, 8) = v /\ Rest(sofar.rest, 8) = output /\ sofar.outs = outs
    BY <1>6, <2>1
  <2>4. First(sofar.rest, 8) \o Data(Field(Rest(sofar.rest, 8))) = p[k]
    BY <1>7, <1>8, <2>3, Zenon
  <2>5. AfterField(Rest(sofar.rest, 8)) = z
    BY <1>7, <2>3
  <2> QED BY <2>2, <2>3, <2>4, <2>5, Zenon DEF sofar
<1>10. Append(outs, Raw(p[k])) = [i \in 1..k |-> Raw(p[i])]
  <2> DEFINE V == {Raw(p[i]) : i \in 1..n}
             x == Raw(p[k])
  <2>1. outs \in Seq(V) /\ Len(outs) = k - 1 /\ \A i \in 1..(k - 1) : outs[i] = Raw(p[i])
    OBVIOUS
  <2>2. x \in V
    OBVIOUS
  <2> HIDE DEF outs, V
  <2> DEFINE s == Append(outs, x)
             q == [i \in 1..k |-> Raw(p[i])]
  <2>3. s \in Seq(V) /\ Len(s) = k /\ s[k] = x /\ \A i \in 1..(k - 1) : s[i] = outs[i]
    <3> HIDE DEF x
    <3> QED BY <2>1, <2>2, AppendProperties
  <2>4. DOMAIN s = 1..k
    <3> HIDE DEF s
    <3> QED BY <2>3
  <2>5. \A i \in 1..k : s[i] = Raw(p[i])
    <3> HIDE DEF s
    <3>1. \A i \in 1..k : i = k \/ i \in 1..(k - 1)
      OBVIOUS
    <3> QED BY <2>1, <2>3, <3>1
  <2>6. s = [i \in DOMAIN s |-> s[i]]
    <3> HIDE DEF s
    <3> QED BY <2>3
  <2> QED
    <3> HIDE DEF s, x
    <3>1. s = q
      BY <2>4, <2>5, <2>6
    <3> QED BY <3>1 DEF s, x
<1> QED BY <1>9, <1>10, Zenon DEF ParsedOf, z

\* There are as many pieces as strings at least.
LEMMA ManyPieces ==
    ASSUME NEW p, NEW n \in Nat, AreBytes(p, n), \A i \in 1..n : p[i] # << >>
    PROVE  Len(Concat(p)) \in Nat /\ n <= Len(Concat(p))
<1> DEFINE L(i) == Left(p, n - i)
           G == {i \in Nat : i <= n => i <= Len(L(i))}
<1>1. /\ IsBytes(Concat(p)) /\ Left(p, 0) = Concat(p) /\ Left(p, n) = << >>
      /\ \A i \in 0..n : IsBytes(Left(p, i))
      /\ \A i \in 1..n : Left(p, i - 1) = Then(p[i], Left(p, i))
  BY LeftUnfold
<1>2. \A x : IsBytes(x) => Len(x) \in Nat /\ (x # << >> => Len(x) > 0)
  <2>1. ASSUME NEW x, IsBytes(x) PROVE Len(x) \in Nat /\ (x # << >> => Len(x) > 0)
    <3>1. PICK says : x \in Bytes(says)
      BY <2>1 DEF IsBytes
    <3> QED BY <3>1, EmptySeq DEF Bytes
  <2> QED BY <2>1
<1>3. \A i \in 1..n : IsBytes(p[i]) /\ Len(p[i]) \in Nat /\ Len(p[i]) > 0
  BY <1>2 DEF AreBytes
<1>4. 0 \in G
  BY <1>1, NoBytes
<1>5. \A i \in Nat : i \in G => i + 1 \in G
  <2>1. ASSUME NEW i \in Nat, i + 1 <= n, i <= Len(L(i)) PROVE i + 1 <= Len(L(i + 1))
    <3> DEFINE j == n - i
    <3>1. j \in 1..n /\ j - 1 = n - (i + 1) /\ j \in 0..n
      BY <2>1
    <3>2. L(i + 1) = Then(p[j], L(i)) /\ IsBytes(L(i)) /\ IsBytes(p[j])
      BY <1>1, <1>3, <3>1
    <3> DEFINE x == L(i)
               y == p[j]
               u == L(i + 1)
    <3>3. IsBytes(x) /\ IsBytes(y) /\ u = Then(y, x) /\ i <= Len(x) /\ Len(y) > 0 /\ Len(y) \in Nat
      BY <2>1, <3>1, <3>2, <1>3
    <3> HIDE DEF x, y, u, L
    <3>4. Len(u) = Len(y) + Len(x) /\ Len(x) \in Nat
      BY <3>3, Joined DEF Then
    <3>5. i + 1 <= Len(u)
      BY <3>3, <3>4
    <3> QED BY <3>5 DEF u
  <2>2. \A i \in Nat : i + 1 <= n => i <= n
    OBVIOUS
  <2> HIDE DEF L
  <2> QED BY <2>1, <2>2
<1>6. \A i \in Nat : i \in G
  <2> HIDE DEF G
  <2> QED BY <1>4, <1>5, NatSetInduction
<1>7. n <= Len(L(n)) /\ L(n) = Concat(p)
  <2>1. n - n = 0
    OBVIOUS
  <2> QED BY <1>1, <1>6, <2>1
<1> QED BY <1>1, <1>2, <1>7

\* So a list is read as the outputs it was written of.
LEMMA ParsedBack ==
    ASSUME NEW p, NEW n \in Nat, AreBytes(p, n), NEW content, content = Concat(p),
           \A i \in 1..n : \E v, r : p[i] = Then(v, Data(r)) /\ IsBytes(v) /\ Width(v) = 8 /\ IsBytes(r)
    PROVE  parseInOracle(content) = [i \in 1..n |-> Raw(p[i])]
<1> DEFINE N == Len(content)
           G(k) == ParsedOf(p, IF k <= n THEN k ELSE n)
           g == [k \in 0..N |-> G(k)]
<1>1. \A i \in 1..n : p[i] # << >>
  <2>1. ASSUME NEW i \in 1..n PROVE p[i] # << >>
    <3>1. PICK v, r : p[i] = Then(v, Data(r)) /\ IsBytes(v) /\ Width(v) = 8 /\ IsBytes(r)
      OBVIOUS
    <3> DEFINE d == Data(r)
    <3>2. IsBytes(d)
      BY <3>1, DataWidth
    <3> HIDE DEF d
    <3>3. Width(p[i]) = 8 + Width(d) /\ Width(d) \in Nat
      BY <3>1, <3>2, ThenWidth DEF d
    <3>4. Width(<< >>) = 0
      BY NoBytes, EndsUnfold DEF Width
    <3> QED BY <3>3, <3>4
  <2> QED BY <2>1
<1>2. N \in Nat /\ n <= N
  BY <1>1, ManyPieces
<1>3. Left(p, 0) = content /\ Left(p, n) = << >>
  BY LeftUnfold
<1>4. G(0) = [outs |-> << >>, rest |-> content]
  <2>1. [i \in 1..0 |-> Raw(p[i])] = << >>
    OBVIOUS
  <2> QED BY <1>3, <2>1 DEF ParsedOf
<1>5. \A k \in 1..N : G(k) = ParseNext(G(k - 1))
  <2>1. ASSUME NEW k \in 1..N PROVE G(k) = ParseNext(G(k - 1))
    <3>1. CASE k <= n
      <4>1. k \in 1..n /\ k - 1 <= n
        BY <1>2, <3>1
      <4>2. PICK v, r : p[k] = Then(v, Data(r)) /\ IsBytes(v) /\ Width(v) = 8 /\ IsBytes(r)
        BY <4>1
      <4>3. ParseNext(ParsedOf(p, k - 1)) = ParsedOf(p, k)
        BY <1>1, <4>1, <4>2, NextParsed
      <4> QED BY <3>1, <4>1, <4>3
    <3>2. CASE ~(k <= n)
      <4>1. G(k) = ParsedOf(p, n) /\ G(k - 1) = ParsedOf(p, n)
        BY <1>2, <3>2
      <4>2. ParsedOf(p, n).rest = << >>
        BY <1>3 DEF ParsedOf
      <4> QED BY <4>1, <4>2 DEF ParseNext
    <3> QED BY <3>1, <3>2
  <2> QED BY <2>1
<1>6. IsParse(g, content)
  <2> HIDE DEF G
  <2>1. \A k \in 0..N : G(k) = IF k = 0 THEN [outs |-> << >>, rest |-> content] ELSE ParseNext(g[k - 1])
    BY <1>2, <1>4, <1>5
  <2> QED BY <2>1 DEF IsParse
<1> DEFINE f == CHOOSE h : IsParse(h, content)
<1>7. IsParse(f, content)
  <2> HIDE DEF g
  <2> QED BY <1>6, Zenon
<1>8. parseInOracle(content) = f[N].outs
  BY DEF parseInOracle, IsParse, ParseNext
<1> HIDE DEF f, g, G
<1>9. f[0] = G(0) /\ \A k \in 1..N : f[k] = ParseNext(f[k - 1])
  <2>1. \A k \in 0..N : f[k] = IF k = 0 THEN [outs |-> << >>, rest |-> content] ELSE ParseNext(f[k - 1])
    BY <1>7 DEF IsParse
  <2> QED BY <1>2, <1>4, <2>1
<1>10. \A k \in Nat : k <= N => f[k] = G(k)
  <2> DEFINE Q == {k \in Nat : k <= N => f[k] = G(k)}
  <2>1. 0 \in Q
    BY <1>9
  <2>2. \A k \in Nat : k \in Q => k + 1 \in Q
    <3>1. ASSUME NEW k \in Nat, k + 1 <= N, f[k] = G(k) PROVE f[k + 1] = G(k + 1)
      <4>1. k + 1 \in 1..N /\ (k + 1) - 1 = k
        BY <1>2, <3>1
      <4> QED BY <1>5, <1>9, <3>1, <4>1
    <3>2. \A k \in Nat : k + 1 <= N => k <= N
      BY <1>2
    <3> QED BY <3>1, <3>2
  <2>3. \A k \in Nat : k \in Q
    <3> HIDE DEF Q
    <3> QED BY <2>1, <2>2, NatSetInduction
  <2> QED BY <2>3
<1>11. f[N] = ParsedOf(p, n)
  <2>1. G(N) = ParsedOf(p, n)
    BY <1>2 DEF G
  <2> QED BY <1>2, <1>10, <2>1
<1> QED BY <1>8, <1>11 DEF ParsedOf

\* What an attestation lists is read as what it was written of.
LEMMA ListedParsed ==
    ASSUME NEW a \in Requests
    PROVE  parseInOracle(Listed(a)) = [i \in DOMAIN Minted(a) |-> Raw(OutputBytes(Minted(a)[i]))]
<1> DEFINE m == Minted(a)
           n == Len(m)
           p == [i \in DOMAIN m |-> OutputBytes(m[i])]
           x == Listed(a)
<1>1. AreOutputs(m) /\ n \in 2..5 /\ x = Concat(p)
  BY MintedOf, ListedWidth
<1> HIDE DEF m, x
<1>2. n \in Nat /\ DOMAIN m = 1..n /\ \A i \in 1..n : IsOutput(m[i])
  BY <1>1 DEF AreOutputs
<1>3. Len(p) = n /\ \A i \in 1..n : p[i] = OutputBytes(m[i])
  BY <1>2
<1> HIDE DEF p, n
<1>4. AreBytes(p, n)
  BY <1>2, <1>3, OutputOf DEF AreBytes
<1>5. \A i \in 1..n : \E v, r : p[i] = Then(v, Data(r)) /\ IsBytes(v) /\ Width(v) = 8 /\ IsBytes(r)
  BY <1>2, <1>3, ValueAndScript
<1>6. parseInOracle(x) = [i \in 1..n |-> Raw(p[i])]
  BY <1>1, <1>2, <1>4, <1>5, ParsedBack
<1> QED BY <1>2, <1>3, <1>6 DEF m, x

\* A record is not the empty sequence.
LEMMA ParsedIsSome ==
    ASSUME NEW t, NEW x, NEW y, NEW z, NEW u
    PROVE  [type |-> t, content |-> x, authPubkey |-> y, transactionId |-> z, signature |-> u] # << >>
<1> DEFINE r == [type |-> t, content |-> x, authPubkey |-> y, transactionId |-> z, signature |-> u]
<1>1. "type" \in DOMAIN r
  OBVIOUS
<1>2. DOMAIN << >> = {}
  OBVIOUS
<1> HIDE DEF r
<1>3. r # << >>
  BY <1>1, <1>2
<1> QED BY <1>3 DEF r

\* An "in" attestation is read as it was made,
LEMMA ParsedIn ==
    ASSUME NEW a \in Requests, NEW key \in Keys, NEW type, type # "out",
           NEW c, c.ring = toOracleRing(key, "secret", type), NEW o, o = buildOracleTx(c, Request[a])
    PROVE  parseOracleTx(o)
             = [type |-> "in", content |-> [i \in DOMAIN Minted(a) |-> Raw(OutputBytes(Minted(a)[i]))],
                authPubkey |-> PubKey(key), transactionId |-> DepositOf(a),
                signature |-> AttestingSignature(key, c, InOuts(a, key))]
<1> DEFINE ring == o.ins[1].ring
           first == Oracle("in", Minted(a))
           x == Listed(a)
           op == OracleOpReturn(o.outs[1])
           s == AttestingSignature(key, c, InOuts(a, key))
<1>1. /\ o.ins = <<c>> /\ o.outs = <<first, Lock(<<"mintOutscript", PubKey(key)>>, STAMP_TX_SATS)>>
      /\ o.items = <<DepositOf(a), s, Concat(c.ring)>>
  <2>1. /\ o.ins = <<c>> /\ o.outs = InOuts(a, key)
        /\ o.items = <<DepositOf(a), AttestingSignature(key, c, InOuts(a, key)), Concat(c.ring)>>
    BY Built
  <2>2. InOuts(a, key) = <<first, Lock(<<"mintOutscript", PubKey(key)>>, STAMP_TX_SATS)>>
    BY DEF InOuts, buildOracleInTx, Minted
  <2> HIDE DEF first
  <2> QED BY <2>1, <2>2
<1>2. /\ o.ins[1] = c /\ Len(o.outs) = 2 /\ o.outs[1] = first /\ o.items[1] = DepositOf(a) /\ o.items[2] = s
  BY <1>1
<1>3. PushedData(ring[6]) = PubKey(key) /\ getOracleScriptType(ring) = "in"
  BY <1>2, SecretRing
<1>4. first.kind = "in" /\ first.to = Minted(a)
  BY DEF Oracle
<1> HIDE DEF first
<1>5. op[4] = Data(Byte(1)) /\ op[5] = PushData(x)
  BY <1>2, <1>4 DEF OracleOpReturn, PushPush, Listed
<1>6. PushedData(Data(Byte(1))) = Byte(1)
  <2> DEFINE y == Byte(1)
  <2>1. IsBytes(y) /\ 1 = Width(y) /\ 1 # 76
    BY BytesOfPieces
  <2> HIDE DEF y
  <2>2. PushedData(Data(y)) = y
    BY <2>1, DirectPushed
  <2> QED BY <2>2 DEF y
<1>7. PushedData(PushData(x)) = x
  <2> DEFINE w == Width(x)
  <2>1. IsBytes(x) /\ w \in 76..127 \cup 129..200 /\ w = Width(x)
    BY ListedWidth
  <2> HIDE DEF w, x
  <2>2. w \in 76..255
    BY <2>1
  <2> QED BY <2>1, <2>2, LongPushed
<1>8. Width(o.items[1]) = 32
  BY <1>2, BytesOfPieces DEF DepositOf
<1>9. parseInOracle(x) = [i \in DOMAIN Minted(a) |-> Raw(OutputBytes(Minted(a)[i]))]
  BY ListedParsed
<1> HIDE DEF s, x
<1>10. PushedData(op[4]) = Byte(1) /\ PushedData(op[5]) = x
  BY <1>5, <1>6, <1>7
<1>11. parseOracleTx(o)
         = [type |-> "in", content |-> parseInOracle(x), authPubkey |-> PubKey(key),
            transactionId |-> o.items[1], signature |-> o.items[2]]
  <2> HIDE DEF op
  <2>1. OracleOpReturn(o.outs[1]) = op /\ o.ins[1].ring = ring
    BY DEF op
  <2> HIDE DEF ring
  <2> QED BY <1>2, <1>3, <1>8, <1>10, <2>1 DEF parseOracleTx
<1> QED BY <1>2, <1>9, <1>11 DEF s

\* and so is a payout.
LEMMA ParsedOut ==
    ASSUME NEW a \in Requests, NEW key \in Keys, NEW c, c.ring = toOracleRing(key, "secret", "out"),
           NEW o, o = buildOracleTx(c, Request[a])
    PROVE  parseOracleTx(o)
             = [type |-> "out",
                content |-> [amount |-> BE(Request[a].amount, 8),
                             ethAddress |-> Piece("ethAddress", Request[a].recipient, 20)],
                authPubkey |-> PubKey(key), transactionId |-> << >>,
                signature |-> AttestingSignature(key, c, OutOuts(a))]
<1> DEFINE ring == o.ins[1].ring
           m == [amount |-> Request[a].amount, recipient |-> Request[a].recipient]
           first == Oracle("out", m)
           d == BE(m.amount, 8)
           e == Piece("ethAddress", m.recipient, 20)
           x == buildOutOracle(m)
           op == OracleOpReturn(o.outs[1])
           s == AttestingSignature(key, c, OutOuts(a))
<1>1. o.ins = <<c>> /\ o.outs = <<first>> /\ o.items = <<s, Byte(27), Concat(c.ring)>>
  <2>1. PICK t : t = "out"
    OBVIOUS
  <2>2. c.ring = toOracleRing(key, "secret", t)
    BY <2>1
  <2>3. /\ o.ins = <<c>> /\ o.outs = OutOuts(a)
        /\ o.items = <<AttestingSignature(key, c, OutOuts(a)), Byte(27), Concat(c.ring)>>
    BY <2>1, <2>2, Built
  <2>4. OutOuts(a) = <<first>>
    BY DEF OutOuts, buildOracleOutTx
  <2> HIDE DEF first
  <2> QED BY <2>3, <2>4
<1>2. o.ins[1] = c /\ Len(o.outs) = 1 /\ o.outs[1] = first /\ o.items[1] = s
  BY <1>1
<1>3. PushedData(ring[6]) = PubKey(key) /\ getOracleScriptType(ring) = "out"
  BY <1>2, SecretRing
<1>4. first.kind = "out" /\ first.to = m
  BY DEF Oracle
<1>5. m.amount = Request[a].amount /\ m.recipient = Request[a].recipient
  OBVIOUS
<1>6. IsBytes(d) /\ Width(d) = 8 /\ IsBytes(e) /\ Width(e) = 20
  BY BytesOfPieces DEF BE
<1>7. x = Then(d, e)
  BY DEF buildOutOracle, Then
<1> HIDE DEF first, m
<1>8. op[4] = Data(Byte(2)) /\ op[5] = PushData(x)
  BY <1>2, <1>4 DEF OracleOpReturn, PushPush
<1>9. PushedData(Data(Byte(2))) = Byte(2) /\ Byte(2) # Byte(1)
  <2> DEFINE y == Byte(2)
  <2>1. IsBytes(y) /\ 1 = Width(y) /\ 1 # 76 /\ Byte(2) # Byte(1)
    BY BytesOfPieces, PieceSays DEF Byte
  <2> HIDE DEF y
  <2>2. PushedData(Data(y)) = y
    BY <2>1, DirectPushed
  <2> QED BY <2>1, <2>2 DEF y
<1> HIDE DEF d, e, x
<1>10. First(x, 8) = d /\ Rest(x, 8) = e /\ IsBytes(x) /\ Width(x) = 28
  <2>1. 8 = Width(d)
    BY <1>6
  <2>2. First(x, 8) = d /\ Rest(x, 8) = e
    BY <1>6, <1>7, <2>1, ThenCut
  <2>3. IsBytes(x) /\ Width(x) = 8 + 20
    BY <1>6, <1>7, ThenBytes, ThenWidth
  <2> QED BY <2>2, <2>3
<1>11. PushedData(PushData(x)) = x
  <2>1. PushData(x) = Data(x)
    BY <1>10, PushOf
  <2>2. 28 = Width(x) /\ 28 # 76
    BY <1>10
  <2> QED BY <1>10, <2>1, <2>2, DirectPushed
<1>12. First(Rest(x, 8), 20) = e
  <2>1. Then(e, << >>) = e /\ IsBytes(<< >>) /\ 20 = Width(e)
    BY <1>6, ThenNone, NoBytes
  <2>2. First(Then(e, << >>), 20) = e
    BY <1>6, <2>1, ThenCut
  <2> QED BY <1>10, <2>1, <2>2
<1> HIDE DEF s
<1>13. PushedData(op[4]) = Byte(2) /\ PushedData(op[5]) = x
  BY <1>8, <1>9, <1>11
<1>14. parseOracleTx(o)
         = [type |-> "out", content |-> parseOutOracle(x), authPubkey |-> PubKey(key),
            transactionId |-> << >>, signature |-> o.items[1]]
  <2> HIDE DEF op
  <2>1. OracleOpReturn(o.outs[1]) = op /\ o.ins[1].ring = ring
    BY DEF op
  <2> HIDE DEF ring
  <2> QED BY <1>2, <1>3, <1>9, <1>13, <2>1 DEF parseOracleTx
<1>15. parseOutOracle(x) = [amount |-> d, ethAddress |-> e]
  BY <1>10, <1>12 DEF parseOutOracle
<1> QED BY <1>2, <1>5, <1>14, <1>15 DEF s, d, e

\* Whoever reads the signature finds the oracle's, over the transaction.
LEMMA SignatureVerifies ==
    ASSUME NEW key \in Keys, NEW c, NEW outs, NEW s, s = AttestingSignature(key, c, outs)
    PROVE  Verifies(HASH256(getPreimage(SigningOracle(c, outs), Concat(c.ring), c.value)),
                    First(s, Width(s) - 1), PubKey(key))
<1>1. First(s, Width(s) - 1) = Signature(key, HASH256(SignedByOracle(c, outs)))
  BY AttestingBytes
<1> QED BY <1>1 DEF Verifies, SignedByOracle

-----------------------------------------------------------------------------
(* The invariant of attestations, and of the runs that try them *)

\* Coin c is of an oracle, whose key is a secret's, and o attests a with it.
Attesting(o, a, c, key, type) == c.ring = toOracleRing(key, "secret", type) /\ o = buildOracleTx(c, Request[a])

\* What is attested was built with a valid coin.
AttestationsInv ==
    /\ \A c \in coins : \E key \in Keys, from \in {"secret", "ring"}, type \in {"in", "out", "genesis"} :
          c.ring = toOracleRing(key, from, type)
    /\ oracleTx = [a \in Requests |-> oracleTx[a]]
    /\ \A a \in Requests : oracleTx[a] # << >> =>
          \E key \in Keys, type \in {"in", "out", "genesis"} : Attesting(oracleTx[a], a, oracleTx[a].ins[1], key, type)

\* How far the run of spend s is, under the covenant mintOutscript.
MintRuns(s) ==
    OutscriptRun(MinterSignature(s), PubKey(s.pubkey), Preimage(s.shown), toRaw(oracleTx[s.auth]))

\* The machine decides a spend as the script says, and has it right so far.
MintRunInv ==
    /\ Len(alt) \in Nat /\ alt = [i \in 1..Len(alt) |-> alt[i]]
    /\ script = "mintOutscript" =>
          /\ verdict = "idle" => pc = 1 /\ alt = << >>
          /\ verdict # "idle" => spend \in OracleSpends /\ oracleTx[spend.auth] # << >>
          /\ verdict = "running" => MintRuns(spend)
          /\ verdict = "accepted" => MintPasses(spend, oracleTx[spend.auth])
          /\ verdict = "rejected" => ~MintPasses(spend, oracleTx[spend.auth])

\* The inductive invariant.
OracleInv == AttestationsInv /\ MintRunInv

\* It holds at first.
LEMMA OracleInvInit == Init => OracleInv
<1> SUFFICES ASSUME Init PROVE OracleInv
  OBVIOUS
<1>1. AttestationsInv
  BY OracleAssumption DEF Init, OracleInit, AttestationsInv
<1>2. MintRunInv
  BY DEF Init, MachineInit, MintRunInv
<1> QED BY <1>1, <1>2 DEF OracleInv

\* An attestation's bytes can be taken apart, whatever it is.
LEMMA AttestationApart ==
    ASSUME AttestationsInv, NEW a \in Requests, oracleTx[a] # << >>
    PROVE  TakesApart(toRaw(oracleTx[a]))
<1> DEFINE o == oracleTx[a]
           c == o.ins[1]
<1>1. PICK key \in Keys, type \in {"in", "out", "genesis"} : Attesting(o, a, c, key, type)
  BY DEF AttestationsInv
<1>2. c.ring = toOracleRing(key, "secret", type) /\ o = buildOracleTx(c, Request[a])
  BY <1>1 DEF Attesting
<1> HIDE DEF c, o
<1>3. CASE type = "out"
  <2>1. c.ring = toOracleRing(key, "secret", "out")
    BY <1>2, <1>3
  <2>2. TakesApart(toRaw(o))
    BY <1>2, <2>1, PayoutFails
  <2> QED BY <2>2 DEF o
<1>4. CASE type # "out"
  <2>1. Opens(toRaw(o)) /\ Reads(toRaw(o))
    BY <1>2, <1>4, AttestedRead
  <2> QED BY <2>1 DEF TakesApart, o
<1> QED BY <1>3, <1>4

\* Nothing but an oracle's step changes an attestation.
LEMMA AttestationsKept ==
    ASSUME AttestationsInv, UNCHANGED oracleVars
    PROVE  AttestationsInv'
BY DEF AttestationsInv, oracleVars, Attesting

\* A request is attested once, with a coin that is spent.
LEMMA AttestStep ==
    ASSUME OracleInv, verdict = "idle", NEW a \in Requests, NEW c \in coins, Attest(a, c)
    PROVE  OracleInv'
<1> DEFINE o == buildOracleTx(c, Request[a])
<1>1. /\ oracleTx' = [oracleTx EXCEPT ![a] = o] /\ coins' = coins \ {c} /\ getOracleScriptType(c.ring) # "invalid"
      /\ UNCHANGED machineVars
  BY DEF Attest
<1>2. PICK key \in Keys, from \in {"secret", "ring"}, type \in {"in", "out", "genesis"} :
         c.ring = toOracleRing(key, from, type)
  BY DEF OracleInv, AttestationsInv
<1>3. from = "secret"
  BY <1>1, <1>2, OtherRing
<1>4. o.ins[1] = c
  <2>1. o.ins = <<c>>
    BY DEF buildOracleTx
  <2> HIDE DEF o
  <2> QED BY <2>1
<1>5. Attesting(o, a, o.ins[1], key, type)
  BY <1>2, <1>3, <1>4 DEF Attesting
<1> HIDE DEF o
<1>6. oracleTx' = [b \in Requests |-> oracleTx'[b]] /\ oracleTx'[a] = o
      /\ \A b \in Requests : b # a => oracleTx'[b] = oracleTx[b]
  BY <1>1 DEF OracleInv, AttestationsInv
<1>7. ASSUME NEW b \in Requests, oracleTx'[b] # << >>
      PROVE  \E k \in Keys, t \in {"in", "out", "genesis"} : Attesting(oracleTx'[b], b, oracleTx'[b].ins[1], k, t)
  <2>1. CASE b = a
    BY <1>2, <1>5, <1>6, <2>1
  <2>2. CASE b # a
    BY <1>6, <1>7, <2>2 DEF OracleInv, AttestationsInv
  <2> QED BY <2>1, <2>2
<1>8. AttestationsInv'
  <2>1. \A d \in coins' : \E k \in Keys, f \in {"secret", "ring"}, t \in {"in", "out", "genesis"} :
           d.ring = toOracleRing(k, f, t)
    BY <1>1 DEF OracleInv, AttestationsInv
  <2>2. \A b \in Requests : oracleTx'[b] # << >> =>
           \E k \in Keys, t \in {"in", "out", "genesis"} : Attesting(oracleTx'[b], b, oracleTx'[b].ins[1], k, t)
    BY <1>7
  <2> QED BY <1>6, <2>1, <2>2 DEF AttestationsInv, Attesting
<1>9. MintRunInv'
  BY <1>1 DEF machineVars, OracleInv, MintRunInv
<1> QED BY <1>8, <1>9 DEF OracleInv

\* The genesis leaves the oracle a coin of the same ring.
LEMMA GenesisStep ==
    ASSUME OracleInv, verdict = "idle", NEW c \in coins, Genesis(c)
    PROVE  OracleInv'
<1> DEFINE d == [txid |-> "genesis", index |-> 1, value |-> ORACLE_TX_SATS, ring |-> c.ring]
<1>1. coins' = (coins \ {c}) \cup {d} /\ oracleTx' = oracleTx /\ UNCHANGED machineVars
  BY DEF Genesis
<1>2. d.ring = c.ring
  OBVIOUS
<1> HIDE DEF d
<1>3. \A e \in coins' : \E key \in Keys, from \in {"secret", "ring"}, type \in {"in", "out", "genesis"} :
         e.ring = toOracleRing(key, from, type)
  BY <1>1, <1>2 DEF OracleInv, AttestationsInv
<1>4. AttestationsInv'
  BY <1>1, <1>3 DEF OracleInv, AttestationsInv, Attesting
<1>5. MintRunInv'
  BY <1>1 DEF machineVars, OracleInv, MintRunInv
<1> QED BY <1>4, <1>5 DEF OracleInv

\* A spend is tried from the first row of its run.
LEMMA SubmitMintStep ==
    ASSUME OracleInv, verdict = "idle", NEW s \in OracleSpends, SubmitMint(s)
    PROVE  OracleInv'
<1>1. /\ script' = script /\ script = "mintOutscript" /\ spend' = s /\ verdict' = "running" /\ pc' = pc /\ alt' = alt
      /\ oracleTx' = oracleTx /\ coins' = coins /\ oracleTx[s.auth] # << >>
      /\ Load(s, <<toRaw(oracleTx[s.auth])>>)
  BY DEF SubmitMint, Load, oracleVars
<1>2. AttestationsInv'
  BY <1>1, AttestationsKept DEF oracleVars, OracleInv
<1>3. MintRuns(s)'
  <2> DEFINE S == MinterSignature(s)
             P == PubKey(s.pubkey)
             X == Preimage(s.shown)
             W == toRaw(oracleTx[s.auth])
  <2>1. stack' = <<S, P, X>> \o <<W>>
    BY <1>1 DEF Load, MinterSignature
  <2>2. S' = S /\ X' = X /\ W' = W
    BY <1>1 DEF MinterSignature, Preimage
  <2>3. pc' = 1 /\ alt' = << >>
    BY <1>1 DEF OracleInv, MintRunInv
  <2>4. PICK v, w, x, y : v = S /\ w = P /\ x = X /\ y = W
    OBVIOUS
  <2>5. OutscriptRun(v, w, x, y)'
    <3>1. stack' = <<v, w, x>> \o <<y>>
      BY <2>1, <2>4
    <3>2. Items(stack', <<v, w, x, y>>)
      BY <3>1 DEF Items
    <3> QED BY <2>3, <3>2 DEF OutscriptRun, TakeInputRun, T1, Row, Items
  <2> QED BY <2>2, <2>4, <2>5 DEF MintRuns
<1> QED BY <1>1, <1>2, <1>3 DEF OracleInv, MintRunInv

\* A step of the machine keeps its second stack a sequence.
LEMMA AltKept ==
    ASSUME runCovenant, Len(alt) \in Nat, alt = [i \in 1..Len(alt) |-> alt[i]]
    PROVE  Len(alt') \in Nat /\ alt' = [i \in 1..Len(alt') |-> alt'[i]]
<1>1. CASE ToAltStack
  <2>1. alt' = Append(alt, Top(0))
    BY <1>1 DEF ToAltStack
  <2> DEFINE x == Top(0)
             V == {alt[i] : i \in 1..Len(alt)} \cup {x}
  <2>2. alt \in Seq(V)
    <3>1. \A i \in 1..Len(alt) : alt[i] \in V
      OBVIOUS
    <3> HIDE DEF V
    <3> QED BY <3>1
  <2>3. x \in V
    OBVIOUS
  <2> HIDE DEF x, V
  <2>4. alt' \in Seq(V)
    <3>1. \A t : t = Append(alt, x) => t \in Seq(V)
      BY <2>2, <2>3, AppendProperties
    <3> QED BY <2>1, <3>1 DEF x
  <2>5. PICK t : t = alt'
    OBVIOUS
  <2>6. t \in Seq(V)
    BY <2>4, <2>5
  <2>7. Len(t) \in Nat /\ t = [i \in 1..Len(t) |-> t[i]]
    BY <2>6
  <2> QED BY <2>5, <2>7
<1>2. CASE FromAltStack
  <2>1. alt' = SubSeq(alt, 1, Len(alt) - 1) /\ alt # << >>
    BY <1>2 DEF FromAltStack, Drop
  <2> DEFINE n == Len(alt)
  <2>2. n # 0
    <3>1. ASSUME n = 0 PROVE FALSE
      <4>1. alt = [i \in 1..0 |-> alt[i]]
        BY <3>1
      <4>2. alt = << >>
        BY <4>1
      <4> QED BY <2>1, <4>2
    <3> QED BY <3>1
  <2>3. alt' = [i \in 1..(n - 1) |-> alt[i]]
    BY <2>1
  <2> HIDE DEF n
  <2>4. n \in Nat
    BY DEF n
  <2> QED BY <2>2, <2>3, <2>4
<1>3. CASE ~ToAltStack /\ ~FromAltStack
  <2>1. alt' = alt
    BY <1>3 DEF runCovenant, Push, Dup, Swap, Rot, ThreeDup, Sha256, Hash256, Nip, DropTop, Cat, Equal, Size, Sub,
       OneSub, LessThan, Roll, Split, If, EndIf, EqualVerify, CheckDataSigVerify, CheckSig, Replace
  <2> QED BY <2>1
<1> QED BY <1>1, <1>2, <1>3

\* A step of the machine is one of the run, or its end.
LEMMA MintRunStep ==
    ASSUME OracleInv, runCovenant, UNCHANGED oracleVars
    PROVE  OracleInv'
<1>1. AttestationsInv'
  BY AttestationsKept DEF OracleInv
<1>2. script' = script /\ spend' = spend
  BY SpendKept
<1>3. oracleTx' = oracleTx
  BY DEF oracleVars
<1>4. verdict = "running"
  BY DEF runCovenant, Opcode, Push, Dup, Swap, Rot, ThreeDup, Sha256, Hash256, Nip, DropTop, Cat, Equal,
     Size, Sub,
         OneSub, LessThan, Roll, Split, If, EndIf, ToAltStack, FromAltStack, EqualVerify,
         CheckDataSigVerify, CheckSig
<1>5. ASSUME script = "mintOutscript"
      PROVE  /\ spend' \in OracleSpends /\ oracleTx'[spend'.auth] # << >>
             /\ \/ verdict' = "running" /\ MintRuns(spend)'
                \/ verdict' = "accepted" /\ MintPasses(spend, oracleTx[spend.auth])'
                \/ verdict' = "rejected" /\ ~MintPasses(spend, oracleTx[spend.auth])'
  <2> DEFINE S == MinterSignature(spend)
             P == PubKey(spend.pubkey)
             X == Preimage(spend.shown)
             W == toRaw(oracleTx[spend.auth])
             R == Preimage(spend.real)
  <2>1. S' = S /\ P' = P /\ X' = X /\ W' = W /\ R' = R
    BY <1>2, <1>3 DEF MinterSignature, Preimage
  <2>2. spend \in OracleSpends /\ oracleTx[spend.auth] # << >>
    BY <1>4, <1>5 DEF OracleInv, MintRunInv
  <2>3. Width(S) \in Nat /\ Width(X) \in Nat
    <3>1. Width(S) = 72
      BY SignatureRead DEF MinterSignature
    <3>2. IsBytes(X)
      BY PreimageOf
    <3> HIDE DEF X
    <3> QED BY <3>1, <3>2, ThenWidth
  <2>4. TakesApart(W)
    <3>1. spend.auth \in Requests
      BY <2>2, OracleAssumption
    <3> QED BY <2>2, <3>1, AttestationApart DEF OracleInv
  <2>5. OutscriptRun(S, P, X, W)
    BY <1>4, <1>5 DEF OracleInv, MintRunInv, MintRuns
  <2>6. PICK v, w, x, y, r : v = S /\ w = P /\ x = X /\ y = W /\ r = R
    OBVIOUS
  <2>7. /\ OutscriptRun(v, w, x, y) /\ Width(v) \in Nat /\ Width(x) \in Nat /\ r = Preimage(spend.real)
        /\ TakesApart(y)
    BY <2>3, <2>4, <2>5, <2>6
  <2>8. \/ verdict' = "running" /\ OutscriptRun(v, w, x, y)'
        \/ verdict' = "rejected" /\ ~OutscriptPasses(v, w, x, y, r)
        \/ verdict' = "accepted" /\ OutscriptPasses(v, w, x, y, r)
    BY <1>4, <1>5, <2>7, OutscriptStep
  <2>9. OutscriptRun(v, w, x, y)' => MintRuns(spend)'
    BY <2>1, <2>6 DEF MintRuns
  <2>10. OutscriptPasses(v, w, x, y, r) <=> MintPasses(spend, oracleTx[spend.auth])'
    BY <2>1, <2>6 DEF MintPasses
  <2> QED BY <1>2, <1>3, <2>2, <2>8, <2>9, <2>10
<1>6. Len(alt') \in Nat /\ alt' = [i \in 1..Len(alt') |-> alt'[i]]
  BY AltKept DEF OracleInv, MintRunInv
<1>7. MintRunInv'
  BY <1>2, <1>5, <1>6 DEF MintRunInv
<1> QED BY <1>1, <1>7 DEF OracleInv

-----------------------------------------------------------------------------
(* Every step preserves the invariant *)

\* How far a run is depends on the machine's stacks and next opcode only.
LEMMA OutscriptRunKept ==
    ASSUME NEW S, NEW P, NEW X, NEW W, UNCHANGED <<pc, stack, alt>>, OutscriptRun(S, P, X, W)
    PROVE  OutscriptRun(S, P, X, W)'
<1>1. TakeInputRun(S, P, X, W) => TakeInputRun(S, P, X, W)'
    BY DEF Row, TakeInputRun, T1, T2, T3, T4, T5, T6, T7, T8, T9, T10, T11
<1>2. TakeSignatureRun(S, P, X, W) => TakeSignatureRun(S, P, X, W)'
    BY DEF Row, TakeSignatureRun, T12, T13, T14, T15, T16, T17, T18
<1>3. TakeRingRun(S, P, X, W) => TakeRingRun(S, P, X, W)'
    BY DEF Row, TakeRingRun, T19, T20, T21, T22, T23, T24, T25, T26, T27, T28, T29, T30, T31
<1>4. TakeSequenceRun(S, P, X, W) => TakeSequenceRun(S, P, X, W)'
    BY DEF Row, TakeSequenceRun, T32, T33, T34, T35, T36, T37
<1>5. TakeOutputsRun(S, P, X, W) => TakeOutputsRun(S, P, X, W)'
    BY DEF Row, TakeOutputsRun, T38, T39, T40, T41, T42, T43, T44, T45, T46, T47, T48
<1>6. CompareLabelRun(S, P, X, W) => CompareLabelRun(S, P, X, W)'
    BY DEF Row, CompareLabelRun, T49, T50, T51, T52, T53, T54, T55, T56
<1>7. TakeMintRun(S, P, X, W) => TakeMintRun(S, P, X, W)'
    BY DEF Row, TakeMintRun, T57, T58, T59, T60, T61, T62, T63, T64, T65, T66, T67, T68, T69
<1>8. StartPreimageRun(S, P, X, W) => StartPreimageRun(S, P, X, W)'
    BY DEF Row, StartPreimageRun, T70, T71, T72, T73, T74, T75, T76, T77, T78, T79, T80, T81, T82, T83, T84, T85
<1>9. FinishPreimageRun(S, P, X, W) => FinishPreimageRun(S, P, X, W)'
    BY DEF Row, FinishPreimageRun, T86, T87, T88, T89, T90, T91, T92, T93, T94, T95, T96
<1>10. CheckOracleRun(S, P, X, W) => CheckOracleRun(S, P, X, W)'
    BY DEF Row, CheckOracleRun, T97, T98, T99, T100, T101, T102, T103, T104, T105, T106
<1>11. CheckMinterRun(S, P, X, W) => CheckMinterRun(S, P, X, W)'
    BY DEF Row, CheckMinterRun, T107, T108, T109, T110, T111, T112, T113, T114, T115, T116
<1>12. CompareOutputsRun(S, P, X, W) => CompareOutputsRun(S, P, X, W)'
    BY DEF Row, CompareOutputsRun, T117, T118, T119, T120, T121, T122, T123, T124, T125, T126, T127
<1>13. T128(S, P, X, W) => T128(S, P, X, W)'
  BY DEF Row, T128
<1> QED BY <1>1, <1>2, <1>3, <1>4, <1>5, <1>6, <1>7, <1>8, <1>9, <1>10, <1>11, <1>12, <1>13 DEF OutscriptRun

\* Where its coins are locked with it, the deposits and authorizations of the other covenant
\* do not touch a run of this one.
LEMMA OtherStep ==
    ASSUME OracleInv, verdict = "idle", MintNext, UNCHANGED oracleVars
    PROVE  OracleInv'
<1>1. AttestationsInv'
  BY AttestationsKept DEF OracleInv
<1>2. MintRunInv'
  <2>1. CASE UNCHANGED machineVars
    BY <2>1 DEF machineVars, OracleInv, MintRunInv
  <2>2. ASSUME NEW s \in Spends, Submit(s)
        PROVE  MintRunInv'
    <3>1. script = "mintCovenantV2" /\ script' = script /\ alt' = alt
      BY <2>2 DEF Submit, Load
    <3> QED BY <3>1 DEF OracleInv, MintRunInv
  <2> QED BY <2>1, <2>2 DEF MintNext, Deposit, Authorize, ConfirmDeposit
<1> QED BY <1>1, <1>2 DEF OracleInv

\* Every step preserves it.
LEMMA OracleInvNext == OracleInv /\ [Next]_vars => OracleInv'
<1> SUFFICES ASSUME OracleInv, [Next]_vars PROVE OracleInv'
  OBVIOUS
<1>1. CASE verdict = "idle" /\ MintNext /\ UNCHANGED oracleVars
  BY <1>1, OtherStep
<1>2. CASE verdict = "idle" /\ OracleNext /\ UNCHANGED mintVars
  <2>1. ASSUME NEW a \in Requests, NEW c \in coins, Attest(a, c)
        PROVE  OracleInv'
    BY <1>2, <2>1, AttestStep
  <2>2. ASSUME NEW c \in coins, Genesis(c)
        PROVE  OracleInv'
    BY <1>2, <2>2, GenesisStep
  <2>3. ASSUME NEW s \in OracleSpends, SubmitMint(s)
        PROVE  OracleInv'
    BY <1>2, <2>3, SubmitMintStep
  <2> QED BY <1>2, <2>1, <2>2, <2>3 DEF OracleNext
<1>3. CASE runCovenant /\ UNCHANGED <<mintVars, oracleVars>>
  BY <1>3, MintRunStep
<1>4. CASE UNCHANGED vars
  <2>1. /\ script' = script /\ spend' = spend /\ pc' = pc /\ stack' = stack /\ alt' = alt /\ verdict' = verdict
        /\ oracleTx' = oracleTx /\ UNCHANGED oracleVars
    BY <1>4 DEF vars, machineVars, oracleVars
  <2>2. AttestationsInv'
    BY <2>1, AttestationsKept DEF OracleInv
  <2>3. /\ MinterSignature(spend)' = MinterSignature(spend) /\ PubKey(spend.pubkey)' = PubKey(spend.pubkey)
        /\ Preimage(spend.shown)' = Preimage(spend.shown) /\ Preimage(spend.real)' = Preimage(spend.real)
        /\ toRaw(oracleTx[spend.auth])' = toRaw(oracleTx[spend.auth])
    BY <2>1 DEF MinterSignature, Preimage
  <2>4. MintPasses(spend, oracleTx[spend.auth])' <=> MintPasses(spend, oracleTx[spend.auth])
    BY <2>3 DEF MintPasses
  <2>5. ASSUME MintRuns(spend) PROVE MintRuns(spend)'
    <3>1. PICK v, w, x, y : /\ v = MinterSignature(spend) /\ w = PubKey(spend.pubkey)
                            /\ x = Preimage(spend.shown) /\ y = toRaw(oracleTx[spend.auth])
      OBVIOUS
    <3>2. OutscriptRun(v, w, x, y)
      BY <2>5, <3>1 DEF MintRuns
    <3>3. OutscriptRun(v, w, x, y)'
      BY <2>1, <3>2, OutscriptRunKept
    <3> QED BY <2>3, <3>1, <3>3 DEF MintRuns
  <2>6. MintRunInv'
    BY <2>1, <2>4, <2>5 DEF OracleInv, MintRunInv
  <2> QED BY <2>2, <2>6 DEF OracleInv
<1> QED BY <1>1, <1>2, <1>3, <1>4 DEF Next

\* It holds throughout.
LEMMA AlwaysOracleInv == Spec => []OracleInv
BY OracleInvInit, OracleInvNext, PTL DEF Spec

-----------------------------------------------------------------------------
(* What is accepted, what is refused, and what is read of an attestation *)

\* An attestation says of its first output what it is, and is of the ring of its key.
LEMMA AttestationOf ==
    ASSUME AttestationsInv, NEW a \in Requests, oracleTx[a] # << >>, NEW o, o = oracleTx[a]
    PROVE  \E key \in Keys, type \in {"in", "out", "genesis"} :
              /\ Attesting(o, a, o.ins[1], key, type)
              /\ PushedData(o.ins[1].ring[6]) = PubKey(key)
              /\ type # "out" =>
                    /\ o.outs = InOuts(a, key) /\ o.outs[1].kind = "in" /\ o.outs[1].to = Minted(a)
              /\ type = "out" => o.outs = OutOuts(a) /\ o.outs[1].kind = "out"
<1>1. PICK key \in Keys, type \in {"in", "out", "genesis"} : Attesting(o, a, o.ins[1], key, type)
  BY DEF AttestationsInv
<1>2. o.ins[1].ring = toOracleRing(key, "secret", type) /\ o = buildOracleTx(o.ins[1], Request[a])
  BY <1>1 DEF Attesting
<1>3. PushedData(o.ins[1].ring[6]) = PubKey(key)
  BY <1>2, SecretRing
<1>4. type # "out" => o.outs = InOuts(a, key)
  BY <1>2, Built
<1>5. type = "out" => o.outs = OutOuts(a)
  BY <1>2, Built
<1>6. InOuts(a, key)[1].kind = "in" /\ InOuts(a, key)[1].to = Minted(a)
  <2> DEFINE x == Oracle("in", Minted(a))
             y == Lock(<<"mintOutscript", PubKey(key)>>, STAMP_TX_SATS)
  <2>1. x.kind = "in" /\ x.to = Minted(a)
    BY DEF Oracle
  <2>2. InOuts(a, key) = <<x, y>>
    BY DEF InOuts, buildOracleInTx, Minted
  <2> HIDE DEF x, y
  <2>3. InOuts(a, key)[1] = x
    BY <2>2
  <2> QED BY <2>1, <2>3
<1>7. OutOuts(a)[1].kind = "out"
  <2> DEFINE x == Oracle("out", [amount |-> Request[a].amount, recipient |-> Request[a].recipient])
  <2>1. x.kind = "out"
    BY DEF Oracle
  <2>2. OutOuts(a) = <<x>>
    BY DEF OutOuts, buildOracleOutTx
  <2> HIDE DEF x
  <2>3. OutOuts(a)[1] = x
    BY <2>2
  <2> QED BY <2>1, <2>3
<1> QED BY <1>1, <1>3, <1>4, <1>5, <1>6, <1>7

\* What is accepted passes, so it is what was signed, of what was attested.
LEMMA InvOnlyAttested == OracleInv => AcceptsOnlyAttested
<1> SUFFICES ASSUME OracleInv, verdict = "accepted", script = "mintOutscript"
             PROVE  /\ \E a \in Requests : AttestedFor(a) /\ spend.real.tx.outs = oracleTx[a].outs[1].to
                    /\ spend.real.type.outputs = "ALL"
                    /\ SignsAlike(spend.real, spend.shown) /\ SignsAlike(spend.real, spend.over)
                    /\ spend.pubkey = spend.key
  BY DEF AcceptsOnlyAttested
<1> DEFINE a == spend.auth
           o == oracleTx[a]
           c == o.ins[1]
<1>1. MintPasses(spend, o) /\ spend \in OracleSpends /\ o # << >>
  BY DEF OracleInv, MintRunInv
<1>2. a \in Requests /\ IsSigning(spend.real) /\ IsSigning(spend.over) /\ IsSigning(spend.shown)
  BY <1>1, OracleAssumption
<1>3. PICK key \in Keys, type \in {"in", "out", "genesis"} :
         /\ Attesting(o, a, c, key, type) /\ PushedData(c.ring[6]) = PubKey(key)
         /\ type # "out" => o.outs[1].kind = "in" /\ o.outs[1].to = Minted(a)
  BY <1>1, <1>2, AttestationOf DEF OracleInv
<1>4. c.ring = toOracleRing(key, "secret", type) /\ o = buildOracleTx(c, Request[a])
  BY <1>3 DEF Attesting
<1>5. type # "out"
  <2>1. ASSUME type = "out" PROVE FALSE
    <3>1. c.ring = toOracleRing(key, "secret", "out")
      BY <1>4, <2>1
    <3> HIDE DEF a, c, o
    <3>2. ~MintPasses(spend, o)
      BY <1>2, <1>4, <3>1, PayoutFails
    <3> QED BY <1>1, <3>2
  <2> QED BY <2>1
<1>6. /\ key = AuthKey /\ c.value = ORACLE_TX_SATS /\ spend.key = spend.pubkey
      /\ Preimage(spend.over) = Preimage(spend.shown) /\ Preimage(spend.over) = Preimage(spend.real)
      /\ HASH256(Listed(a)) = HashOutputs(spend.shown.tx, spend.shown.index, spend.shown.type)
  <2> HIDE DEF a, c, o
  <2> QED BY <1>1, <1>2, <1>4, <1>5, MintPassesSays
<1>7. HASH256(Listed(a)) = HashOutputs(spend.real.tx, spend.real.index, spend.real.type)
  <2>1. HashOutputs(spend.real.tx, spend.real.index, spend.real.type)
          = HashOutputs(spend.shown.tx, spend.shown.index, spend.shown.type)
    BY <1>6, SamePreimage
  <2> QED BY <1>6, <2>1
<1>8. /\ spend.real.type.outputs = "ALL" /\ spend.real.tx.outs = Minted(a)
      /\ SignsAlike(spend.real, spend.shown) /\ SignsAlike(spend.real, spend.over)
  <2> DEFINE B == Listed(a)
             outs == Minted(a)
             r == spend.real
             v == spend.over
             w == spend.shown
  <2>1. /\ IsSigning(r) /\ IsSigning(v) /\ IsSigning(w)
        /\ Preimage(r) = Preimage(w) /\ Preimage(r) = Preimage(v)
        /\ HASH256(B) = HashOutputs(r.tx, r.index, r.type)
    BY <1>2, <1>6, <1>7
  <2>2. B = Concat([i \in DOMAIN outs |-> OutputBytes(outs[i])]) /\ AreOutputs(outs)
    BY <1>2, ListedWidth, MintedOf
  <2>3. Width(B) \in 76..127 \cup 129..200
    BY <1>2, ListedWidth
  <2> HIDE DEF B, outs, r, v, w
  <2>4. Width(B) > 64
    BY <2>3
  <2>5. r.type.outputs = "ALL" /\ r.tx.outs = outs /\ SignsAlike(r, w)
    BY <2>1, <2>2, <2>4, SignedAlike
  <2>6. SignsAlike(r, v)
    BY <2>1, <2>2, <2>4, SignedAlike
  <2> QED BY <2>5, <2>6 DEF r, v, w, outs
<1>9. AttestedFor(a) /\ oracleTx[a].outs[1].to = Minted(a)
  BY <1>1, <1>3, <1>5, <1>6 DEF AttestedFor, IsIn
<1> QED BY <1>2, <1>6, <1>8, <1>9

\* The outputs buildMintTx() makes of an attestation are the ones it lists.
LEMMA MintOutputsBytes ==
    ASSUME NEW a \in Requests, NEW tx,
           tx.outs = [i \in DOMAIN Minted(a) |-> Raw(OutputBytes(Minted(a)[i]))]
    PROVE  OutputsBytes(tx) = Listed(a)
<1> DEFINE m == Minted(a)
           b == [i \in DOMAIN m |-> OutputBytes(m[i])]
           r == [i \in DOMAIN m |-> Raw(OutputBytes(m[i]))]
<1>1. ASSUME NEW x PROVE OutputBytes(Raw(x)) = x
  <2> DEFINE y == Raw(x)
  <2>1. y.kind = "raw" /\ y.to = x
    BY DEF Raw
  <2> HIDE DEF y
  <2>2. PlainOutputBytes(y) = y.to
    BY <2>1 DEF PlainOutputBytes
  <2>3. OutputBytes(y) = PlainOutputBytes(y)
    BY <2>1 DEF OutputBytes
  <2> QED BY <2>1, <2>2, <2>3 DEF y
<1>2. [i \in DOMAIN r |-> OutputBytes(r[i])] = b
  <2> HIDE DEF m
  <2>1. DOMAIN r = DOMAIN m /\ \A i \in DOMAIN m : r[i] = Raw(OutputBytes(m[i]))
    OBVIOUS
  <2> HIDE DEF r
  <2>2. \A i \in DOMAIN m : OutputBytes(r[i]) = OutputBytes(m[i])
    BY <1>1, <2>1
  <2> QED BY <2>1, <2>2
<1>3. Listed(a) = Concat(b)
  BY ListedWidth
<1>4. tx.outs = r
  OBVIOUS
<1> HIDE DEF b, r
<1>5. OutputsBytes(tx) = Concat([i \in DOMAIN r |-> OutputBytes(r[i])])
  BY <1>4 DEF OutputsBytes
<1> QED BY <1>2, <1>3, <1>5

\* The transaction an attestation is for passes, so it is never rejected.
LEMMA InvAttestedAccepted == OracleInv => AttestedIsAccepted
<1> SUFFICES ASSUME OracleInv, verdict = "rejected", script = "mintOutscript", AttestedFor(spend.auth),
                    SameSigning(spend.real, buildMintTx(spend.auth)),
                    spend.over = spend.real, spend.shown = spend.real, spend.pubkey = spend.key
             PROVE  MintPasses(spend, oracleTx[spend.auth])
  BY DEF AttestedIsAccepted, OracleInv, MintRunInv
<1> DEFINE a == spend.auth
           o == oracleTx[a]
           c == o.ins[1]
<1>1. spend \in OracleSpends /\ o # << >>
  BY DEF OracleInv, MintRunInv
<1>2. a \in Requests
  BY <1>1, OracleAssumption
<1>3. PICK key \in Keys, type \in {"in", "out", "genesis"} :
         /\ Attesting(o, a, c, key, type) /\ PushedData(c.ring[6]) = PubKey(key)
         /\ type = "out" => o.outs[1].kind = "out"
  BY <1>1, <1>2, AttestationOf DEF OracleInv
<1>4. c.ring = toOracleRing(key, "secret", type) /\ o = buildOracleTx(c, Request[a])
  BY <1>3 DEF Attesting
<1>5. type # "out" /\ PubKey(key) = PubKey(AuthKey) /\ c.value = ORACLE_TX_SATS
  BY <1>3 DEF AttestedFor, IsIn
<1>6. key = AuthKey
  BY <1>5, HashSays
<1>7. parseOracleTx(o).content = [i \in DOMAIN Minted(a) |-> Raw(OutputBytes(Minted(a)[i]))]
  <2>1. parseOracleTx(o)
          = [type |-> "in", content |-> [i \in DOMAIN Minted(a) |-> Raw(OutputBytes(Minted(a)[i]))],
             authPubkey |-> PubKey(key), transactionId |-> DepositOf(a),
             signature |-> AttestingSignature(key, c, InOuts(a, key))]
    <3> HIDE DEF a, c, o
    <3> QED BY <1>2, <1>4, <1>5, ParsedIn
  <2> QED BY <2>1
<1>8. OutputsBytes(spend.real.tx) = Listed(a) /\ spend.real.type = SignsAll
  <2> DEFINE t == buildMintTx(a)
  <2>1. OutputsBytes(spend.real.tx) = OutputsBytes(t.tx) /\ spend.real.type = t.type
    BY DEF SameSigning
  <2>2. t.tx.outs = parseOracleTx(o).content /\ t.type = SignsAll
    BY DEF buildMintTx
  <2> HIDE DEF t, o
  <2>3. OutputsBytes(t.tx) = Listed(a)
    <3> HIDE DEF a
    <3>1. t.tx.outs = [i \in DOMAIN Minted(a) |-> Raw(OutputBytes(Minted(a)[i]))]
      BY <1>7, <2>2
    <3> QED BY <1>2, <3>1, MintOutputsBytes
  <2> QED BY <2>1, <2>2, <2>3
<1>9. HASH256(Listed(a)) = HashOutputs(spend.shown.tx, spend.shown.index, spend.shown.type)
  <2>1. spend.real.type.outputs = "ALL"
    BY <1>8 DEF SignsAll
  <2>2. HashOutputs(spend.real.tx, spend.real.index, spend.real.type) = HASH256(OutputsBytes(spend.real.tx))
    BY <2>1 DEF HashOutputs
  <2> QED BY <1>8, <2>2
<1>10. Preimage(spend.over) = Preimage(spend.shown) /\ Preimage(spend.over) = Preimage(spend.real)
  OBVIOUS
<1>11. MintPasses(spend, o)
  <2> HIDE DEF a, c, o
  <2> QED BY <1>1, <1>2, <1>4, <1>5, <1>6, <1>9, <1>10, MintPassesSays
<1> QED BY <1>11

\* What each reader reads of an attestation was shown above.
LEMMA ParsedRead ==
    ASSUME OracleInv, NEW a \in Requests, oracleTx[a] # << >>
    PROVE  LET o       == oracleTx[a]
               parsed  == parseOracleTx(o)
               minted  == OutputsToMint(Request[a])
           IN  /\ parsed # << >>
               /\ IF parsed.type = "in"
                    THEN /\ parsed.content = [i \in DOMAIN minted |-> Raw(OutputBytes(minted[i]))]
                         /\ parsed.transactionId = Piece("depositTx", Request[a].transactionId, 32)
                    ELSE parsed.content = [amount |-> BE(Request[a].amount, 8),
                                           ethAddress |-> Piece("ethAddress", Request[a].recipient, 20)]
               /\ Verifies(HASH256(getPreimage(SigningOracle(o.ins[1], o.outs), Concat(o.ins[1].ring), o.ins[1].value)),
                           First(parsed.signature, Width(parsed.signature) - 1), parsed.authPubkey)
<1> DEFINE o == oracleTx[a]
           c == o.ins[1]
           parsed == parseOracleTx(o)
           minted == OutputsToMint(Request[a])
           content == [i \in DOMAIN minted |-> Raw(OutputBytes(minted[i]))]
<1>1. PICK key \in Keys, type \in {"in", "out", "genesis"} :
         /\ Attesting(o, a, c, key, type)
         /\ type # "out" => o.outs = InOuts(a, key)
         /\ type = "out" => o.outs = OutOuts(a)
  BY AttestationOf DEF OracleInv
<1>2. c.ring = toOracleRing(key, "secret", type) /\ o = buildOracleTx(c, Request[a])
  BY <1>1 DEF Attesting
<1>3. Minted(a) = minted
  BY DEF Minted
<1> HIDE DEF c, o
<1>4. CASE type # "out"
  <2> DEFINE s == AttestingSignature(key, c, InOuts(a, key))
  <2>1. parsed = [type |-> "in", content |-> content, authPubkey |-> PubKey(key), transactionId |-> DepositOf(a),
                  signature |-> s]
    BY <1>2, <1>3, <1>4, ParsedIn
  <2>2. Verifies(HASH256(getPreimage(SigningOracle(c, o.outs), Concat(c.ring), c.value)),
                 First(s, Width(s) - 1), PubKey(key))
    BY <1>1, <1>4, SignatureVerifies
  <2> HIDE DEF s, content
  <2>3. parsed # << >>
    BY <2>1, ParsedIsSome
  <2> HIDE DEF parsed
  <2>4. /\ parsed.type = "in" /\ parsed.content = content /\ parsed.transactionId = DepositOf(a)
        /\ parsed.signature = s /\ parsed.authPubkey = PubKey(key)
    BY <2>1
  <2> QED BY <2>2, <2>3, <2>4 DEF DepositOf, parsed, content, c, o
<1>5. CASE type = "out"
  <2> DEFINE s == AttestingSignature(key, c, OutOuts(a))
             paid == [amount |-> BE(Request[a].amount, 8), ethAddress |-> Piece("ethAddress", Request[a].recipient, 20)]
  <2>1. c.ring = toOracleRing(key, "secret", "out")
    BY <1>2, <1>5
  <2>2. parsed = [type |-> "out", content |-> paid, authPubkey |-> PubKey(key), transactionId |-> << >>,
                  signature |-> s]
    BY <1>2, <2>1, ParsedOut
  <2>3. Verifies(HASH256(getPreimage(SigningOracle(c, o.outs), Concat(c.ring), c.value)),
                 First(s, Width(s) - 1), PubKey(key))
    BY <1>1, <1>5, SignatureVerifies
  <2> HIDE DEF s, paid
  <2>4. parsed # << >>
    BY <2>2, ParsedIsSome
  <2> HIDE DEF parsed
  <2>5. parsed.type = "out" /\ parsed.content = paid /\ parsed.signature = s /\ parsed.authPubkey = PubKey(key)
    BY <2>2
  <2> QED BY <2>3, <2>4, <2>5 DEF parsed, paid, c, o
<1> QED BY <1>4, <1>5

\* The script, as far as it holds the preimage, has read what the mirror reads.
LEMMA MirrorHeld ==
    ASSUME OracleInv, verdict = "running", script = "mintOutscript", pc = PreimageConstructed
    PROVE  LET mirror == buildPreImage(toRaw(oracleTx[spend.auth]))
           IN  /\ Top(0) = mirror.preimage /\ Top(1) = mirror.signature
               /\ alt = mirror.altStack
<1> DEFINE a == spend.auth
           o == oracleTx[a]
           c == o.ins[1]
           W == toRaw(o)
<1>1. spend \in OracleSpends /\ o # << >> /\ MintRuns(spend)
  BY DEF OracleInv, MintRunInv
<1>2. a \in Requests
  BY <1>1, OracleAssumption
<1>3. PICK key \in Keys, type \in {"in", "out", "genesis"} : Attesting(o, a, c, key, type)
  BY <1>1, <1>2, AttestationOf DEF OracleInv
<1>4. c.ring = toOracleRing(key, "secret", type) /\ o = buildOracleTx(c, Request[a])
  BY <1>3 DEF Attesting
<1>5. Reads(W) /\ Top(0) = AttestedPreimage(W) /\ Top(1) = SignatureOf(W) /\ Items(alt, <<MintedOutputs(W)>>)
  BY <1>1, PreimageRow DEF MintRuns
<1> HIDE DEF a, c, o
<1>6. type # "out"
  <2>1. ASSUME type = "out" PROVE FALSE
    <3>1. c.ring = toOracleRing(key, "secret", "out")
      BY <1>4, <2>1
    <3>2. ~IsNumber(LengthOfSignature(toRaw(o)))
      BY <1>2, <1>4, <3>1, PayoutRefused
    <3> QED BY <1>5, <3>2, ReadsNumber
  <2> QED BY <2>1
<1> DEFINE X == getPreimage(SigningOracle(c, InOuts(a, key)), Concat(c.ring), ORACLE_TX_SATS)
           s == AttestingSignature(key, c, InOuts(a, key))
           mirror == buildPreImage(W)
<1>7. AttestedPreimage(W) = X /\ SignatureOf(W) = s /\ MintedOutputs(W) = Listed(a)
  BY <1>2, <1>4, <1>6, AttestedRead
<1>8. mirror.preimage = X /\ mirror.signature = s /\ mirror.altStack = <<Listed(a)>>
  BY <1>2, <1>4, <1>6, MirrorAttested
<1>9. alt = <<MintedOutputs(W)>>
  <2> DEFINE x == MintedOutputs(W)
  <2>1. Items(alt, <<x>>)
    BY <1>5
  <2> HIDE DEF x
  <2>2. Len(alt) = 1 /\ alt[1] = x
    BY <2>1 DEF Items
  <2>3. PICK t : t = alt
    OBVIOUS
  <2>4. Len(t) = 1 /\ t[1] = x /\ t = [i \in 1..Len(t) |-> t[i]]
    BY <2>2, <2>3 DEF OracleInv, MintRunInv
  <2>5. t = [i \in 1..1 |-> t[i]]
    BY <2>4
  <2>6. t = <<x>>
    BY <2>4, <2>5
  <2> QED BY <2>3, <2>6 DEF x
<1> HIDE DEF X, s, mirror, W
<1>10. Top(0) = mirror.preimage /\ Top(1) = mirror.signature /\ alt = mirror.altStack
  BY <1>5, <1>7, <1>8, <1>9
<1> QED BY <1>10 DEF mirror, W, o, a

\* So the three agree.
LEMMA InvReadersAgree == OracleInv => ReadersAgree
BY ParsedRead, MirrorHeld DEF ReadersAgree

\* script.ts, mintOutscript: for every request, oracle, coin, hash type and spend, a spend
\* that the covenant accepts pays exactly the outputs its own oracle attested, and is what
\* the minter signed and showed.
THEOREM OnlyAttestedMints == Spec => []AcceptsOnlyAttested
BY AlwaysOracleInv, InvOnlyAttested, PTL

\* And the transaction buildMintTx() makes of an attestation is never refused.
THEOREM AttestedMintsAreAccepted == Spec => []AttestedIsAccepted
BY AlwaysOracleInv, InvAttestedAccepted, PTL

\* oracle.ts, script.ts: parseOracleTx(), the script and buildPreImage read the same of
\* every attestation's bytes, which is what was attested.
THEOREM ReadersAlwaysAgree == Spec => []ReadersAgree
BY AlwaysOracleInv, InvReadersAgree, PTL
=============================================================================
