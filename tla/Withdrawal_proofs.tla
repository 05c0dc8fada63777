-------------------------- MODULE Withdrawal_proofs --------------------------
(***************************************************************************)
(* What release() and the authorizer check of a withdrawal, for every      *)
(* value of the constants: first the properties of Withdrawal, then those  *)
(* of Inclusion, for blocks of any size and any branch, then those of      *)
(* Postage, for any number of concurrent calls, burns and stamps.          *)
(***************************************************************************)
EXTENDS Withdrawal, Inclusion, Postage, SumTheorems, SequenceTheorems

\* A transaction the service stamps can carry the stamp and be mined.
LEMMA StampableIsMinable ==
    ASSUME NEW t \in Transaction, Stampable(t)
    PROVE  Minable(t) /\ Appendable(t)
  BY DEF Stampable, ParseOutputZero, AssertValidBurnInput, AssertBurnInputSpendable,
         Minable, Appendable

\* A claim keeps the invariant, with a stamp on the burn or without one.
LEMMA ClaimKeeps ==
    ASSUME WithdrawalInv, NEW t \in Submissions, Claim(t),
           stamps' = stamps \cup {t.burn} \/ stamps' = stamps
    PROVE  WithdrawalInv'
<1> USE WithdrawalAssumption
<1>1. t \in Transaction /\ t.burn \in Burn /\ t.burn.coin \in Coins
  BY DEF Transaction, Burn
<1>2. /\ claims' = [claims EXCEPT ![t.burn.coin] = t]
      /\ released' = released
      /\ claims[t.burn.coin] = None
      /\ Stampable(t)
  BY DEF Claim, Unclaimed
<1>3. t # None
  BY <1>1
<1>4. TypeOK'
  BY <1>1, <1>2 DEF WithdrawalInv, TypeOK
<1>5. \A c \in Coins : claims'[c] # None => claims'[c].burn.coin = c /\ Stampable(claims'[c])
  BY <1>1, <1>2 DEF WithdrawalInv, TypeOK
<1>6. \A b \in stamps' : claims'[b.coin] # None /\ claims'[b.coin].burn = b
  <2> SUFFICES ASSUME NEW b \in stamps'
               PROVE  claims'[b.coin] # None /\ claims'[b.coin].burn = b
    OBVIOUS
  <2>1. CASE b \in stamps
    <3>1. claims[b.coin] # None /\ claims[b.coin].burn = b
      BY <2>1 DEF WithdrawalInv
    <3>2. b.coin # t.burn.coin
      BY <3>1, <1>2
    <3>3. b.coin \in Coins
      BY <2>1 DEF WithdrawalInv, TypeOK, Burn
    <3> QED  BY <3>1, <3>2, <3>3, <1>2 DEF WithdrawalInv, TypeOK
  <2>2. CASE b = t.burn
    BY <2>2, <1>1, <1>2, <1>3 DEF WithdrawalInv, TypeOK
  <2> QED  BY <2>1, <2>2
<1>7. \A c \in Coins :
        released'[c] # None => released'[c].burn.coin = c /\ Releasable(released[c])'
  <2> SUFFICES ASSUME NEW c \in Coins, released[c] # None
               PROVE  released[c].burn.coin = c /\ Releasable(released[c])'
    BY <1>2
  <2>1. released[c] \in Transaction /\ released[c].burn.coin = c /\ Releasable(released[c])
    BY DEF WithdrawalInv, TypeOK
  <2>2. Releasable(released[c])'
    BY <2>1, <1>2, stamps \subseteq stamps' DEF Releasable, VerifyStampInput, VerifyBurnInput,
       RecipientMatches, Pays, Digest, ParseBurnOpReturn, ReadPush, ParseDER, Decompress,
       VerifyAgainstPubkey
  <2> QED  BY <2>1, <2>2
<1> QED  BY <1>4, <1>5, <1>6, <1>7 DEF WithdrawalInv, Stampable

\* release() keeps the invariant, whatever scriptSig it is called with.
LEMMA ReleaseKeeps ==
    ASSUME WithdrawalInv, NEW t \in [burn : Burns, input0 : ScriptSig], Release(t)
    PROVE  WithdrawalInv'
<1>1. t \in Transaction /\ t.burn.coin \in Coins
  BY WithdrawalAssumption DEF Burns, Transaction, Burn
<1>2. /\ released' = [released EXCEPT ![t.burn.coin] = t]
      /\ claims' = claims /\ stamps' = stamps
      /\ Releasable(t)
  BY DEF Release
<1>3. TypeOK'
  BY <1>1, <1>2 DEF WithdrawalInv, TypeOK
<1>4. \A c \in Coins :
        released'[c] # None => released'[c].burn.coin = c /\ Releasable(released'[c])
  BY <1>1, <1>2 DEF WithdrawalInv, TypeOK
<1>5. \A c \in Coins :
        released'[c] # None => released'[c].burn.coin = c /\ Releasable(released[c])'
  BY <1>4, <1>2 DEF Releasable, VerifyStampInput, VerifyBurnInput, RecipientMatches, Pays,
     Digest, ParseBurnOpReturn, ReadPush, ParseDER, Decompress, VerifyAgainstPubkey
<1> QED  BY <1>2, <1>3, <1>5 DEF WithdrawalInv, Stampable

\* The invariant holds of every behaviour: claims passed every check of the service,
\* stamps are on what was claimed, payments passed every check of release().
THEOREM WithdrawalInvariance == Spec => []WithdrawalInv
<1>1. Init => WithdrawalInv
  BY DEF Init, WithdrawalInv, TypeOK
<1>2. WithdrawalInv /\ [Next]_vars => WithdrawalInv'
  <2> SUFFICES ASSUME WithdrawalInv, [Next]_vars
               PROVE  WithdrawalInv'
    OBVIOUS
  <2>1. ASSUME NEW t \in Submissions, CoSignPostage(t)
        PROVE  WithdrawalInv'
    BY <2>1, ClaimKeeps DEF CoSignPostage
  <2>2. ASSUME NEW t \in Submissions, HoldClaim(t)
        PROVE  WithdrawalInv'
    BY <2>2, ClaimKeeps DEF HoldClaim
  <2>3. ASSUME NEW b \in Burns, NEW i \in ScriptSig, Release([burn |-> b, input0 |-> i])
        PROVE  WithdrawalInv'
    BY <2>3, ReleaseKeeps
  <2>4. CASE UNCHANGED vars
    BY <2>4 DEF vars, WithdrawalInv, TypeOK, Stampable, Releasable, VerifyStampInput,
       VerifyBurnInput, RecipientMatches, Pays, Digest, ParseBurnOpReturn, ReadPush,
       ParseDER, Decompress, VerifyAgainstPubkey
  <2> QED  BY <2>1, <2>2, <2>3, <2>4 DEF Next
<1> QED  BY <1>1, <1>2, PTL DEF Spec

\* A released transaction is of the burn that claimed the coin: the stamp it carries
\* commits to that burn and to nothing else.
LEMMA ReleasedIsClaimed ==
    ASSUME WithdrawalInv, NEW c \in Coins, released[c] # None
    PROVE  /\ claims[c] # None /\ claims[c].burn = released[c].burn
           /\ Stampable(claims[c])
           /\ RecipientMatches(released[c])
<1>1. released[c].burn.coin = c /\ Releasable(released[c])
  BY DEF WithdrawalInv
<1>2. released[c].burn \in stamps
  BY <1>1 DEF Releasable, VerifyStampInput, Digest
<1>3. claims[c] # None /\ claims[c].burn = released[c].burn
  BY <1>1, <1>2 DEF WithdrawalInv
<1> QED  BY <1>1, <1>3 DEF WithdrawalInv, Releasable

\* release() pays the owner of the coin, for every set of submissions and every
\* scriptSig it is called with.
THEOREM PaidToOwnerHolds == Spec => []PaidToOwner
<1>1. WithdrawalInv => PaidToOwner
  <2> SUFFICES ASSUME WithdrawalInv, NEW c \in Coins, released[c] # None
               PROVE  released[c].input0.key = Owner[c]
    BY DEF PaidToOwner
  <2>1. released[c].input0.key = claims[c].burn.recipient
    BY ReleasedIsClaimed DEF RecipientMatches
  <2>2. Stampable(claims[c]) /\ claims[c].burn.coin = c
    BY ReleasedIsClaimed DEF WithdrawalInv
  <2>3. claims[c].burn.recipient = Owner[c]
    BY <2>2 DEF Stampable, AssertValidBurnInput, AssertBurnInputSpendable
  <2> QED  BY <2>1, <2>3
<1> QED  BY <1>1, WithdrawalInvariance, PTL

\* release() pays for no more than the tokens on the coin.
THEOREM PaidIsBackedHolds == Spec => []PaidIsBacked
<1>1. WithdrawalInv => PaidIsBacked
  <2> SUFFICES ASSUME WithdrawalInv, NEW c \in Coins, released[c] # None
               PROVE  released[c].burn.quantity <= Worth[c]
    BY DEF PaidIsBacked
  <2>1. claims[c].burn = released[c].burn /\ Stampable(claims[c]) /\ claims[c].burn.coin = c
    BY ReleasedIsClaimed DEF WithdrawalInv
  <2> QED  BY <2>1 DEF Stampable, AssertSlpValid
<1> QED  BY <1>1, WithdrawalInvariance, PTL

\* No coin is held by a transaction that can not be stamped and mined.
THEOREM HeldIsMinableHolds == Spec => []HeldIsMinable
<1>1. WithdrawalInv => HeldIsMinable
  BY StampableIsMinable DEF HeldIsMinable, WithdrawalInv, TypeOK
<1> QED  BY <1>1, WithdrawalInvariance, PTL

\* The checks of the service imply those of release(), but for the padding of the
\* address, uncompressed keys and quantities that pay nothing.
THEOREM ChecksAgreeHolds == Spec => []ChecksAgree
<1>1. WithdrawalInv => ChecksAgree
  <2> SUFFICES ASSUME WithdrawalInv, NEW b \in stamps,
                      ServiceAssetId = ContractAssetId,
                      claims[b.coin].input0.key \in Compressed,
                      Pays(b.quantity)
               PROVE  Releasable(claims[b.coin])
    BY DEF ChecksAgree
  <2> DEFINE t == claims[b.coin]
  <2>1. t.burn = b /\ t # None
    BY DEF WithdrawalInv
  <2>2. b.coin \in Coins
    BY DEF WithdrawalInv, TypeOK, Burn
  <2>3. Stampable(t) /\ t \in Transaction
    BY <2>1, <2>2 DEF WithdrawalInv, TypeOK
  <2>4. t.input0.scheme = "ECDSA"
    BY <2>3 DEF Stampable, AssertBurnInputSpendable, Transaction, ScriptSig
  <2>5. ParseBurnOpReturn(t.burn)
    BY <2>3 DEF Stampable, ParseOutputZero, ReadFields, ParseBurnOpReturn, ReadPush
  <2>6. VerifyBurnInput(t) /\ RecipientMatches(t)
    BY <2>3, <2>4 DEF Stampable, AssertBurnInputSpendable, AssertValidBurnInput,
       VerifyBurnInput, RecipientMatches, ParseDER, Decompress, VerifyAgainstPubkey
  <2>7. VerifyStampInput(t)
    BY <2>1, <2>3 DEF Stampable, AssertValidBurnInput, VerifyStampInput, Digest
  <2> QED  BY <2>1, <2>3, <2>5, <2>6, <2>7
           DEF Stampable, AssertMatchesDeployment, Releasable
<1> QED  BY <1>1, WithdrawalInvariance, PTL

\* A claim, with a stamp or without one, holds a coin that was free, and pays nobody.
LEMMA ClaimHolds ==
    ASSUME WithdrawalInv, NEW t \in Submissions, Claim(t)
    PROVE  Bridged!Hold(t.burn.coin)
<1>1. t # None /\ t.burn.coin \in Coins
  BY WithdrawalAssumption DEF Transaction, Burn
<1>2. /\ claims[t.burn.coin] = None
      /\ claims' = [claims EXCEPT ![t.burn.coin] = t]
      /\ released' = released
  BY DEF Claim, Unclaimed
<1>3. \A c \in Coins : claims'[c] = IF c = t.burn.coin THEN t ELSE claims[c]
  BY <1>2 DEF WithdrawalInv, TypeOK
<1>4. heldCoins' = heldCoins \cup {t.burn.coin}
  BY <1>1, <1>3 DEF heldCoins
<1>5. paymentOf' = paymentOf
  BY <1>2 DEF paymentOf
<1> QED  BY <1>1, <1>2, <1>4, <1>5 DEF Bridged!Hold, heldCoins

\* release() pays for a coin that is held and not yet paid for, to its owner and for no
\* more than its worth: the stamp says the first, the checks made before it the others.
LEMMA ReleasePays ==
    ASSUME WithdrawalInv, NEW t \in [burn : Burns, input0 : ScriptSig], Release(t)
    PROVE  Bridged!Pay(t.burn.coin)
<1> DEFINE c == t.burn.coin
<1>1. t \in Transaction /\ c \in Coins /\ t # None
  BY WithdrawalAssumption DEF Burns, Transaction, Burn
<1>2. /\ released[c] = None /\ Releasable(t)
      /\ released' = [released EXCEPT ![c] = t]
      /\ claims' = claims
  BY DEF Release
<1>3. claims[c] # None /\ claims[c].burn = t.burn /\ Stampable(claims[c])
  BY <1>1, <1>2 DEF WithdrawalInv, Releasable, VerifyStampInput, Digest
<1>4. t.input0.key = Owner[c]
  BY <1>2, <1>3 DEF Releasable, RecipientMatches, Stampable, AssertValidBurnInput,
     AssertBurnInputSpendable
<1>5. t.burn.quantity \in 0..Worth[c]
  BY <1>1, <1>3, WithdrawalAssumption DEF Stampable, AssertSlpValid, Transaction, Burn
<1>6. \A e \in Coins : released'[e] = IF e = c THEN t ELSE released[e]
  BY <1>1, <1>2 DEF WithdrawalInv, TypeOK
<1>7. paymentOf' = [paymentOf EXCEPT ![c] = [to |-> Owner[c], quantity |-> t.burn.quantity]]
  <2>1. \A e \in Coins : paymentOf'[e] =
            IF e = c THEN [to |-> Owner[c], quantity |-> t.burn.quantity] ELSE paymentOf[e]
    BY <1>1, <1>4, <1>6 DEF paymentOf
  <2>2. /\ paymentOf = [e \in Coins |-> paymentOf[e]]
        /\ paymentOf' = [e \in Coins |-> paymentOf'[e]]
    BY DEF paymentOf
  <2> HIDE DEF c
  <2> QED  BY <1>1, <2>1, <2>2
<1>8. c \in heldCoins /\ heldCoins' = heldCoins
  BY <1>1, <1>2, <1>3 DEF heldCoins
<1>9. paymentOf[c] = None
  BY <1>1, <1>2 DEF paymentOf
<1> QED  BY <1>5, <1>7, <1>8, <1>9 DEF Bridged!Pay

\* The service and release() together implement the abstract withdrawal, whatever is
\* submitted to either, and whichever way either pads the address.
THEOREM WithdrawalRefinement == Spec => ImplementsWithdrawal
<1>1. Init => Bridged!Init
  BY DEF Init, Bridged!Init, heldCoins, paymentOf
<1>2. WithdrawalInv /\ [Next]_vars => [Bridged!Next]_(Bridged!burnVars)
  <2> SUFFICES ASSUME WithdrawalInv, [Next]_vars
               PROVE  Bridged!Next \/ UNCHANGED <<heldCoins, paymentOf>>
    BY DEF Bridged!burnVars
  <2>1. ASSUME NEW t \in Submissions, CoSignPostage(t) \/ HoldClaim(t)
        PROVE  Bridged!Next
    <3>1. t.burn.coin \in Coins
      BY WithdrawalAssumption DEF Transaction, Burn
    <3> QED  BY <2>1, <3>1, ClaimHolds DEF CoSignPostage, HoldClaim, Bridged!Next
  <2>2. ASSUME NEW b \in Burns, NEW i \in ScriptSig, Release([burn |-> b, input0 |-> i])
        PROVE  Bridged!Next
    <3> DEFINE t == [burn |-> b, input0 |-> i]
    <3>1. t \in [burn : Burns, input0 : ScriptSig] /\ t.burn.coin \in Coins
      BY WithdrawalAssumption DEF Burns, Transaction, Burn
    <3>2. Bridged!Pay(t.burn.coin)
      BY <2>2, <3>1, ReleasePays
    <3> QED  BY <3>1, <3>2 DEF Bridged!Next
  <2>3. CASE UNCHANGED vars
    BY <2>3 DEF vars, heldCoins, paymentOf
  <2> QED  BY <2>1, <2>2, <2>3 DEF Next
<1> QED  BY <1>1, <1>2, WithdrawalInvariance, PTL
         DEF Spec, ImplementsWithdrawal, Bridged!Spec

-----------------------------------------------------------------------------
(* Inclusion: the functions that are defined level by level *)

\* The levels of the tree, from the leaves up.
LEMMA LevelsUnfold ==
    ASSUME NEW leaves, Len(leaves) \in Nat
    PROVE  /\ Levels(leaves)[0] = leaves
           /\ \A k \in 0..(Len(leaves) - 1) : Levels(leaves)[k + 1] = Parents(Levels(leaves)[k])
<1> DEFINE Is(g, n) == g = [k \in 0..n |-> IF k = 0 THEN leaves ELSE Parents(g[k - 1])]
           G == {n \in Nat : \E g : Is(g, n)}
<1>1. 0 \in G
  <2> DEFINE g == [k \in 0..0 |-> leaves]
  <2>1. Is(g, 0)
    OBVIOUS
  <2> QED
    BY <2>1, Zenon
<1>2. ASSUME NEW n \in Nat, n \in G PROVE n + 1 \in G
  <2>1. PICK g : Is(g, n)
    BY <1>2
  <2> DEFINE h == [k \in 0..(n + 1) |-> IF k <= n THEN g[k] ELSE Parents(g[n])]
  <2>2. ASSUME NEW k \in 0..(n + 1) PROVE h[k] = IF k = 0 THEN leaves ELSE Parents(h[k - 1])
    <3>1. CASE k <= n
      <4>1. k \in 0..n /\ (k # 0 => k - 1 \in 0..(n + 1) /\ k - 1 <= n)
        BY <3>1
      <4>2. h[k] = g[k] /\ (k # 0 => h[k - 1] = g[k - 1])
        BY <4>1
      <4>3. g[k] = IF k = 0 THEN leaves ELSE Parents(g[k - 1])
        BY <2>1, <4>1
      <4> HIDE DEF h
      <4> QED
        BY <4>2, <4>3
    <3>2. CASE k = n + 1
      <4>1. k # 0 /\ ~(k <= n) /\ k - 1 = n /\ n \in 0..(n + 1) /\ n <= n
        BY <3>2
      <4>2. h[k] = Parents(g[n]) /\ h[k - 1] = g[n]
        BY <4>1
      <4> HIDE DEF h
      <4> QED
        BY <4>1, <4>2
    <3> QED
      BY <3>1, <3>2
  <2>3. h = [k \in 0..(n + 1) |-> h[k]]
    OBVIOUS
  <2>4. Is(h, n + 1)
    <3> HIDE DEF h
    <3> QED
      BY <2>2, <2>3
  <2>5. n + 1 \in Nat
    OBVIOUS
  <2> QED
    BY <2>4, <2>5, Zenon
<1>3. \A n \in Nat : n \in G
  <2> HIDE DEF G
  <2> QED
    BY <1>1, <1>2, NatSetInduction
<1>4. \E g : Is(g, Len(leaves))
  BY <1>3
<1>5. Is(Levels(leaves), Len(leaves))
  BY <1>4, Zenon DEF Levels
<1> QED
  BY <1>5

\* A position is halved at every level.
LEMMA PositionsUnfold ==
    ASSUME NEW index, NEW depth \in Nat
    PROVE  /\ Positions(index, depth)[0] = index
           /\ \A k \in 0..(depth - 1) : Positions(index, depth)[k + 1] = Positions(index, depth)[k] \div 2
<1> DEFINE Is(g, n) == g = [k \in 0..n |-> IF k = 0 THEN index ELSE g[k - 1] \div 2]
           G == {n \in Nat : \E g : Is(g, n)}
<1>1. 0 \in G
  <2> DEFINE g == [k \in 0..0 |-> index]
  <2>1. Is(g, 0)
    OBVIOUS
  <2> QED
    BY <2>1, Zenon
<1>2. ASSUME NEW n \in Nat, n \in G PROVE n + 1 \in G
  <2>1. PICK g : Is(g, n)
    BY <1>2
  <2> DEFINE h == [k \in 0..(n + 1) |-> IF k <= n THEN g[k] ELSE g[n] \div 2]
  <2>2. ASSUME NEW k \in 0..(n + 1) PROVE h[k] = IF k = 0 THEN index ELSE h[k - 1] \div 2
    <3>1. CASE k <= n
      <4>1. k \in 0..n /\ (k # 0 => k - 1 \in 0..(n + 1) /\ k - 1 <= n)
        BY <3>1
      <4>2. h[k] = g[k] /\ (k # 0 => h[k - 1] = g[k - 1])
        BY <4>1
      <4>3. g[k] = IF k = 0 THEN index ELSE g[k - 1] \div 2
        BY <2>1, <4>1
      <4> HIDE DEF h
      <4> QED
        BY <4>2, <4>3
    <3>2. CASE k = n + 1
      <4>1. k # 0 /\ ~(k <= n) /\ k - 1 = n /\ n \in 0..(n + 1) /\ n <= n
        BY <3>2
      <4>2. h[k] = g[n] \div 2 /\ h[k - 1] = g[n]
        BY <4>1
      <4> HIDE DEF h
      <4> QED
        BY <4>1, <4>2
    <3> QED
      BY <3>1, <3>2
  <2>3. h = [k \in 0..(n + 1) |-> h[k]]
    OBVIOUS
  <2>4. Is(h, n + 1)
    <3> HIDE DEF h
    <3> QED
      BY <2>2, <2>3
  <2>5. n + 1 \in Nat
    OBVIOUS
  <2> QED
    BY <2>4, <2>5, Zenon
<1>3. \A n \in Nat : n \in G
  <2> HIDE DEF G
  <2> QED
    BY <1>1, <1>2, NatSetInduction
<1>4. \E g : Is(g, depth)
  BY <1>3
<1>5. Is(Positions(index, depth), depth)
  BY <1>4, Zenon DEF Positions
<1> QED
  BY <1>5

\* deriveRoot(), one sibling at a time.
LEMMA DeriveRootUnfold ==
    ASSUME NEW leaf, NEW branch, NEW index, Len(branch) \in Nat
    PROVE  \E r : /\ r[0] = leaf /\ deriveRoot(leaf, branch, index) = r[Len(branch)]
                  /\ \A k \in 0..(Len(branch) - 1) :
                        r[k + 1] = Climb(r[k], branch[k + 1], Positions(index, Len(branch))[k] % 2 = 1)
<1> DEFINE at == Positions(index, Len(branch))
           Is(g, n) == g = [k \in 0..n |-> IF k = 0 THEN leaf ELSE Climb(g[k - 1], branch[k], at[k - 1] % 2 = 1)]
           G == {n \in Nat : \E g : Is(g, n)}
<1>1. 0 \in G
  <2> DEFINE g == [k \in 0..0 |-> leaf]
  <2>1. Is(g, 0)
    OBVIOUS
  <2> QED
    BY <2>1, Zenon
<1>2. ASSUME NEW n \in Nat, n \in G PROVE n + 1 \in G
  <2>1. PICK g : Is(g, n)
    BY <1>2
  <2> DEFINE h == [k \in 0..(n + 1) |-> IF k <= n THEN g[k] ELSE Climb(g[n], branch[n + 1], at[n] % 2 = 1)]
  <2>2. ASSUME NEW k \in 0..(n + 1) PROVE h[k] = IF k = 0 THEN leaf ELSE Climb(h[k - 1], branch[k], at[k - 1] % 2 = 1)
    <3>1. CASE k <= n
      <4>1. k \in 0..n /\ (k # 0 => k - 1 \in 0..(n + 1) /\ k - 1 <= n)
        BY <3>1
      <4>2. h[k] = g[k] /\ (k # 0 => h[k - 1] = g[k - 1])
        BY <4>1
      <4>3. g[k] = IF k = 0 THEN leaf ELSE Climb(g[k - 1], branch[k], at[k - 1] % 2 = 1)
        BY <2>1, <4>1
      <4> HIDE DEF h
      <4> QED
        BY <4>2, <4>3
    <3>2. CASE k = n + 1
      <4>1. k # 0 /\ ~(k <= n) /\ k - 1 = n /\ n \in 0..(n + 1) /\ n <= n
        BY <3>2
      <4>2. h[k] = Climb(g[n], branch[n + 1], at[n] % 2 = 1) /\ h[k - 1] = g[n]
        BY <4>1
      <4> HIDE DEF h
      <4> QED
        BY <3>2, <4>1, <4>2
    <3> QED
      BY <3>1, <3>2
  <2>3. h = [k \in 0..(n + 1) |-> h[k]]
    OBVIOUS
  <2>4. Is(h, n + 1)
    <3> HIDE DEF h
    <3> QED
      BY <2>2, <2>3
  <2>5. n + 1 \in Nat
    OBVIOUS
  <2> QED
    BY <2>4, <2>5, Zenon
<1>3. \A n \in Nat : n \in G
  <2> HIDE DEF G
  <2> QED
    BY <1>1, <1>2, NatSetInduction
<1>4. \E g : Is(g, Len(branch))
  BY <1>3
<1> DEFINE r == CHOOSE g : Is(g, Len(branch))
<1>5. Is(r, Len(branch))
  BY <1>4, Zenon
<1>6. deriveRoot(leaf, branch, index) = r[Len(branch)]
  BY DEF deriveRoot
<1> HIDE DEF r
<1>7. r[0] = leaf
  BY <1>5
<1>8. ASSUME NEW k \in 0..(Len(branch) - 1)
      PROVE  r[k + 1] = Climb(r[k], branch[k + 1], Positions(index, Len(branch))[k] % 2 = 1)
  <2>1. k + 1 \in 0..Len(branch) /\ k + 1 # 0 /\ (k + 1) - 1 = k
    OBVIOUS
  <2> QED
    BY <1>5, <2>1
<1> QED
  BY <1>6, <1>7, <1>8

\* The function by which a shift is defined.
LEMMA ShiftExists ==
    ASSUME NEW m \in Nat
    PROVE  \E g : /\ g[0] = 1 /\ \A k \in 0..(m - 1) : g[k + 1] = ByteSize * g[k]
                  /\ Shift(m) = g[m]
<1> DEFINE Is(g, n) == g = [k \in 0..n |-> IF k = 0 THEN 1 ELSE ByteSize * g[k - 1]]
           G == {n \in Nat : \E g : Is(g, n)}
<1>1. 0 \in G
  <2> DEFINE g == [k \in 0..0 |-> 1]
  <2>1. Is(g, 0)
    OBVIOUS
  <2> QED
    BY <2>1, Zenon
<1>2. ASSUME NEW n \in Nat, n \in G PROVE n + 1 \in G
  <2>1. PICK g : Is(g, n)
    BY <1>2
  <2> DEFINE h == [k \in 0..(n + 1) |-> IF k <= n THEN g[k] ELSE ByteSize * g[n]]
  <2>2. ASSUME NEW k \in 0..(n + 1) PROVE h[k] = IF k = 0 THEN 1 ELSE ByteSize * h[k - 1]
    <3>1. CASE k <= n
      <4>1. k \in 0..n /\ (k # 0 => k - 1 \in 0..(n + 1) /\ k - 1 <= n)
        BY <3>1
      <4>2. h[k] = g[k] /\ (k # 0 => h[k - 1] = g[k - 1])
        BY <4>1
      <4>3. g[k] = IF k = 0 THEN 1 ELSE ByteSize * g[k - 1]
        BY <2>1, <4>1
      <4> HIDE DEF h
      <4> QED
        BY <4>2, <4>3
    <3>2. CASE k = n + 1
      <4>1. k # 0 /\ ~(k <= n) /\ k - 1 = n /\ n \in 0..(n + 1) /\ n <= n
        BY <3>2
      <4>2. h[k] = ByteSize * g[n] /\ h[k - 1] = g[n]
        BY <4>1
      <4> HIDE DEF h
      <4> QED
        BY <4>1, <4>2
    <3> QED
      BY <3>1, <3>2
  <2>3. h = [k \in 0..(n + 1) |-> h[k]]
    OBVIOUS
  <2>4. Is(h, n + 1)
    <3> HIDE DEF h
    <3> QED
      BY <2>2, <2>3
  <2>5. n + 1 \in Nat
    OBVIOUS
  <2> QED
    BY <2>4, <2>5, Zenon
<1>3. \A n \in Nat : n \in G
  <2> HIDE DEF G
  <2> QED
    BY <1>1, <1>2, NatSetInduction
<1>4. \E g : Is(g, m)
  BY <1>3
<1> DEFINE r == CHOOSE g : Is(g, m)
<1>5. Is(r, m)
  BY <1>4, Zenon
<1>6. Shift(m) = r[m]
  BY DEF Shift
<1> HIDE DEF r
<1>7. r[0] = 1
  BY <1>5
<1>8. ASSUME NEW k \in 0..(m - 1) PROVE r[k + 1] = ByteSize * r[k]
  <2>1. k + 1 \in 0..m /\ k + 1 # 0 /\ (k + 1) - 1 = k
    OBVIOUS
  <2> QED
    BY <1>5, <2>1
<1> QED
  BY <1>6, <1>7, <1>8

-----------------------------------------------------------------------------
(* The shape of the tree *)

\* The length of a sequence that is given position by position.
LEMMA LenOf ==
    ASSUME NEW f, NEW n \in Nat, f = [i \in 1..n |-> f[i]]
    PROVE  Len(f) = n
<1> DEFINE S == {f[i] : i \in 1..n}
<1>1. f \in [1..n -> S]
  OBVIOUS
<1>2. f \in Seq(S)
  BY <1>1
<1>3. Len(f) \in Nat /\ DOMAIN f = 1..Len(f)
  BY <1>2, LenProperties
<1>4. 1..Len(f) = 1..n
  BY <1>1, <1>3
<1> QED
  BY <1>3, <1>4

\* Of the numbers that have a property, one is the least.
LEMMA LeastNumber ==
    ASSUME NEW G, NEW n \in Nat, n \in G
    PROVE  \E m \in 0..n : m \in G /\ \A k \in 0..(m - 1) : k \notin G
<1> SUFFICES ASSUME \A m \in 0..n : m \in G => \E k \in 0..(m - 1) : k \in G PROVE FALSE
  OBVIOUS
<1> DEFINE H == {m \in Nat : \A k \in 0..m : k <= n => k \notin G}
<1>1. 0 \in H
  OBVIOUS
<1>2. ASSUME NEW m \in Nat, m \in H PROVE m + 1 \in H
  <2>1. ASSUME m + 1 <= n, m + 1 \in G PROVE FALSE
    <3>1. PICK k \in 0..((m + 1) - 1) : k \in G
      BY <2>1
    <3>2. k \in 0..m /\ k <= n
      BY <2>1
    <3> QED
      BY <1>2, <3>1, <3>2
  <2> QED
    BY <1>2, <2>1
<1>3. n \in H
  <2> HIDE DEF H
  <2> QED
    BY <1>1, <1>2, NatSetInduction
<1> QED
  BY <1>3

\* A level has half the nodes of the one below, rounded up.
LEMMA ParentsShape ==
    ASSUME NEW nodes, NEW m \in Nat \ {0}, Len(nodes) = m, NEW w \in Nat, w = (m + 1) \div 2
    PROVE  /\ w \in 1..m /\ (m > 1 => w < m)
           /\ Len(Parents(nodes)) = w
           /\ \A i \in 1..w :
                 /\ 2 * i - 1 \in 1..m
                 /\ Parents(nodes)[i] = <<nodes[2 * i - 1], nodes[IF 2 * i <= m THEN 2 * i ELSE 2 * i - 1]>>
<1>1. w \in 1..m /\ (m > 1 => w < m) /\ \A i \in 1..w : 2 * i - 1 \in 1..m
  OBVIOUS
<1>2. Parents(nodes) = [i \in 1..w |-> <<nodes[2 * i - 1], nodes[IF 2 * i <= m THEN 2 * i ELSE 2 * i - 1]>>]
  BY DEF Parents, Hash
<1> DEFINE p == Parents(nodes)
<1>3. p = [i \in 1..w |-> p[i]]
  BY <1>2
<1>4. Len(p) = w
  <2> HIDE DEF p
  <2> QED
    BY <1>3, LenOf
<1> QED
  BY <1>1, <1>2, <1>4

\* A pair is neither zero nor a txid.
LEMMA PairIsPair == \A a, b, t : <<a, b>> # << >> /\ <<a, b>> # <<t>>
<1>1. \A a, b, t : Len(<<a, b>>) = 2 /\ Len(<<t>>) = 1 /\ Len(<< >>) = 0
  OBVIOUS
<1> QED
  BY <1>1

\* The leaves of a block: a hash for each transaction.
Mined(leaves, n) == n \in Nat \ {0} /\ leaves = [i \in 1..n |-> <<i>>]

LEMMA MinedLen ==
    ASSUME NEW leaves, NEW n, Mined(leaves, n)
    PROVE  n \in Nat \ {0} /\ Len(leaves) = n /\ \A i \in 1..n : leaves[i] = <<i>>
<1>1. n \in Nat \ {0} /\ leaves = [i \in 1..n |-> leaves[i]] /\ \A i \in 1..n : leaves[i] = <<i>>
  BY DEF Mined
<1>2. Len(leaves) = n
  BY <1>1, LenOf
<1> QED
  BY <1>1, <1>2

\* A level of at least one node, no two of them alike and none of them zero.
Level(nodes) ==
    /\ Len(nodes) \in Nat \ {0}
    /\ \A i \in 1..Len(nodes) : nodes[i] # ZERO
    /\ \A i, j \in 1..Len(nodes) : nodes[i] = nodes[j] => i = j

LEMMA LevelAbove == ASSUME NEW nodes, Level(nodes) PROVE Level(Parents(nodes))
<1> DEFINE m == Len(nodes)
           w == (m + 1) \div 2
           p == Parents(nodes)
<1>1. m \in Nat \ {0} /\ w \in Nat /\ \A i, j \in 1..m : nodes[i] = nodes[j] => i = j
  BY DEF Level
<1>2. /\ w \in 1..m /\ Len(p) = w
      /\ \A i \in 1..w : /\ 2 * i - 1 \in 1..m
                         /\ p[i] = <<nodes[2 * i - 1], nodes[IF 2 * i <= m THEN 2 * i ELSE 2 * i - 1]>>
  <2> HIDE DEF m, p
  <2> QED
    BY <1>1, ParentsShape DEF m, p
<1> HIDE DEF m, w, p
<1>3. \A i \in 1..w : p[i] # ZERO
  BY <1>2, PairIsPair DEF ZERO
<1>4. ASSUME NEW i \in 1..w, NEW j \in 1..w, p[i] = p[j] PROVE i = j
  <2>1. nodes[2 * i - 1] = nodes[2 * j - 1]
    BY <1>2, <1>4
  <2>2. 2 * i - 1 = 2 * j - 1
    BY <1>1, <1>2, <2>1
  <2> QED
    BY <1>1, <2>2
<1> QED
  BY <1>1, <1>2, <1>3, <1>4 DEF Level, p

\* The tree over a block: its levels, and their sizes.
LEMMA TreeShape ==
    ASSUME NEW leaves, NEW n, Mined(leaves, n)
    PROVE  \A k \in 0..n : /\ Level(Levels(leaves)[k])
                           /\ Len(Levels(leaves)[k]) = 1 \/ Len(Levels(leaves)[k]) <= n - k
<1> DEFINE level == Levels(leaves)
           Shaped(k) == Level(level[k]) /\ (Len(level[k]) = 1 \/ Len(level[k]) <= n - k)
           G == {k \in Nat : k <= n => Shaped(k)}
<1>1. n \in Nat \ {0} /\ Len(leaves) = n /\ \A i \in 1..n : leaves[i] = <<i>>
  BY MinedLen
<1>2. level[0] = leaves /\ \A k \in 0..(n - 1) : level[k + 1] = Parents(level[k])
  BY <1>1, LevelsUnfold
<1> HIDE DEF level
<1>3. 0 \in G
  <2>1. Level(leaves)
    BY <1>1 DEF Level, ZERO
  <2> QED
    BY <1>1, <1>2, <2>1
<1>4. ASSUME NEW k \in Nat, k \in G PROVE k + 1 \in G
  <2> SUFFICES ASSUME k + 1 <= n PROVE Shaped(k + 1)
    OBVIOUS
  <2>1. Shaped(k) /\ k \in 0..(n - 1)
    BY <1>1, <1>4
  <2>2. level[k + 1] = Parents(level[k])
    BY <1>2, <2>1
  <2>3. Level(level[k + 1])
    BY <2>1, <2>2, LevelAbove
  <2> DEFINE m == Len(level[k])
             w == (m + 1) \div 2
  <2>4. m \in Nat \ {0}
    BY <2>1 DEF Level
  <2>9. w \in Nat
    <3> HIDE DEF m
    <3> QED
      BY <2>4
  <2>5. Len(level[k + 1]) = w /\ w \in 1..m /\ (m > 1 => w < m)
    <3> HIDE DEF m
    <3> QED
      BY <2>2, <2>4, <2>9, ParentsShape DEF m
  <2>6. m = 1 \/ m <= n - k
    BY <2>1
  <2>7. w = 1 \/ w <= n - (k + 1)
    <3> HIDE DEF m, w
    <3> QED
      BY <1>1, <2>4, <2>9, <2>5, <2>6
  <2> QED
    BY <2>3, <2>5, <2>7
<1>5. \A k \in Nat : k \in G
  <2> HIDE DEF G
  <2> QED
    BY <1>3, <1>4, NatSetInduction
<1> QED
  BY <1>1, <1>5 DEF level

\* There is a level of one node, the root, and none below it has so few.
LEMMA DepthShape ==
    ASSUME NEW leaves, NEW n, Mined(leaves, n)
    PROVE  /\ Depth(leaves) \in 0..n
           /\ Len(Levels(leaves)[Depth(leaves)]) = 1
           /\ \A j \in 0..(Depth(leaves) - 1) : Len(Levels(leaves)[j]) > 1
<1> DEFINE size(k) == Len(Levels(leaves)[k])
           Is(k) == size(k) <= 1 /\ \A j \in 0..(k - 1) : size(j) > 1
           G == {k \in 0..n : size(k) <= 1}
<1>1. n \in Nat \ {0} /\ Len(leaves) = n
  BY MinedLen
<1>2. \A k \in 0..n : size(k) \in Nat \ {0} /\ (size(k) = 1 \/ size(k) <= n - k)
  BY TreeShape DEF Level
<1>3. Depth(leaves) = CHOOSE k \in 0..n : Is(k)
  BY <1>1 DEF Depth
<1> HIDE DEF size
<1>4. n \in G
  BY <1>1, <1>2
<1>5. PICK m \in 0..n : m \in G /\ \A k \in 0..(m - 1) : k \notin G
  <2> HIDE DEF G
  <2> QED
    BY <1>1, <1>4, LeastNumber
<1>6. Is(m)
  BY <1>1, <1>2, <1>5
<1>7. Depth(leaves) \in 0..n /\ Is(Depth(leaves))
  <2> HIDE DEF Is
  <2> QED
    BY <1>3, <1>6
<1>8. size(Depth(leaves)) = 1
  BY <1>1, <1>2, <1>7
<1> QED
  BY <1>7, <1>8 DEF size

-----------------------------------------------------------------------------
(* What is accepted is included: down the tree, from the root *)

\* The ancestors of a node are those of its parent, one level on.
LEMMA PositionsShift ==
    ASSUME NEW j \in Nat, NEW i, NEW parent, parent = i \div 2
    PROVE  \A k \in 0..j : Positions(i, j + 1)[k + 1] = Positions(parent, j)[k]
<1> DEFINE a == Positions(i, j + 1)
           b == Positions(parent, j)
           G == {k \in Nat : k <= j => a[k + 1] = b[k]}
<1>1. j + 1 \in Nat
  OBVIOUS
<1>2. a[0] = i /\ \A k \in 0..j : a[k + 1] = a[k] \div 2
  BY <1>1, PositionsUnfold
<1>3. b[0] = parent /\ \A k \in 0..(j - 1) : b[k + 1] = b[k] \div 2
  BY PositionsUnfold
<1> HIDE DEF a, b
<1>4. 0 \in G
  BY <1>2, <1>3
<1>5. ASSUME NEW k \in Nat, k \in G PROVE k + 1 \in G
  <2>1. ASSUME k + 1 <= j PROVE a[(k + 1) + 1] = b[k + 1]
    <3>1. a[k + 1] = b[k] /\ k \in 0..(j - 1) /\ k + 1 \in 0..j
      BY <1>5, <2>1
    <3> QED
      BY <1>2, <1>3, <3>1
  <2> QED
    BY <2>1
<1>6. \A k \in Nat : k \in G
  <2> HIDE DEF G
  <2> QED
    BY <1>4, <1>5, NatSetInduction
<1> QED
  BY <1>6 DEF a, b

\* One step of deriveRoot() that did not fail.
LEMMA ClimbPair ==
    ASSUME NEW root, NEW sibling, NEW odd \in BOOLEAN, NEW above,
           above = Climb(root, sibling, odd), above # ZERO
    PROVE  /\ root # ZERO
           /\ odd => sibling # root /\ above = <<sibling, root>>
           /\ ~odd => above = <<root, sibling>>
BY DEF Climb, Hash

\* A node above the leaves is the hash of two.
LEMMA ParentIsPair ==
    ASSUME NEW nodes, Level(nodes), NEW q \in 0..(Len(Parents(nodes)) - 1)
    PROVE  \E a, b : Parents(nodes)[q + 1] = <<a, b>>
<1> DEFINE m == Len(nodes)
           w == (m + 1) \div 2
<1>1. m \in Nat \ {0}
  BY DEF Level
<1>2. w \in Nat
  <2> HIDE DEF m
  <2> QED
    BY <1>1
<1>3. /\ Len(Parents(nodes)) = w
      /\ \A i \in 1..w :
            Parents(nodes)[i] = <<nodes[2 * i - 1], nodes[IF 2 * i <= m THEN 2 * i ELSE 2 * i - 1]>>
  <2> HIDE DEF m
  <2> QED
    BY <1>1, <1>2, ParentsShape DEF m
<1>4. q + 1 \in 1..w
  <2> HIDE DEF m, w
  <2> QED
    BY <1>2, <1>3
<1> QED
  BY <1>3, <1>4

\* The children of the node q of a level (from 0), from one of which a step of
\* deriveRoot() came to it.
LEMMA ChildOf ==
    ASSUME NEW nodes, Level(nodes), NEW q \in 0..(Len(Parents(nodes)) - 1),
           NEW root, NEW sibling, NEW odd \in BOOLEAN,
           Parents(nodes)[q + 1] = Climb(root, sibling, odd)
    PROVE  \E i \in 0..(Len(nodes) - 1) :
              root = nodes[i + 1] /\ i \div 2 = q /\ (i % 2 = 1 <=> odd)
<1> DEFINE m == Len(nodes)
           w == (m + 1) \div 2
           p == Parents(nodes)
<1>1. m \in Nat \ {0}
  BY DEF Level
<1>2. w \in Nat
  <2> HIDE DEF m
  <2> QED
    BY <1>1
<1>3. /\ w \in 1..m /\ Len(p) = w
      /\ \A i \in 1..w : /\ 2 * i - 1 \in 1..m
                         /\ p[i] = <<nodes[2 * i - 1], nodes[IF 2 * i <= m THEN 2 * i ELSE 2 * i - 1]>>
  <2> HIDE DEF m, p
  <2> QED
    BY <1>1, <1>2, ParentsShape DEF m, p
<1>4. q \in 0..(Len(p) - 1) /\ p[q + 1] = Climb(root, sibling, odd)
  OBVIOUS
<1> HIDE DEF m, w, p
<1>5. q + 1 \in 1..w /\ 2 * (q + 1) - 1 = 2 * q + 1 /\ 2 * (q + 1) = 2 * q + 2
  BY <1>2, <1>3, <1>4
<1>6. /\ 2 * q + 1 \in 1..m
      /\ p[q + 1] = <<nodes[2 * q + 1], nodes[IF 2 * q + 2 <= m THEN 2 * q + 2 ELSE 2 * q + 1]>>
  BY <1>3, <1>5
<1>7. p[q + 1] # ZERO
  BY <1>6, PairIsPair DEF ZERO
<1>8. /\ odd => sibling # root /\ p[q + 1] = <<sibling, root>>
      /\ ~odd => p[q + 1] = <<root, sibling>>
  BY <1>4, <1>7, ClimbPair
<1>9. CASE odd
  <2>1. 2 * q + 2 <= m /\ root = nodes[2 * q + 2]
    BY <1>6, <1>8, <1>9
  <2>2. 2 * q + 1 \in 0..(m - 1) /\ (2 * q + 1) + 1 = 2 * q + 2 /\ (2 * q + 1) \div 2 = q /\ (2 * q + 1) % 2 = 1
    BY <1>1, <1>4, <1>6, <2>1
  <2> QED
    BY <1>9, <2>1, <2>2 DEF m
<1>10. CASE ~odd
  <2>1. root = nodes[2 * q + 1]
    BY <1>6, <1>8, <1>10
  <2>2. 2 * q \in 0..(m - 1) /\ (2 * q) \div 2 = q /\ (2 * q) % 2 = 0
    BY <1>1, <1>4, <1>6
  <2> QED
    BY <1>10, <2>1, <2>2 DEF m
<1> QED
  BY <1>9, <1>10

\* Whatever the branch and the index: what verify() takes is a transaction of the block, at
\* the index as far as the branch reaches, and the branch is as long as the tree is deep.
THEOREM VerifiedIsIncluded ==
    ASSUME NEW leaves, NEW n, Mined(leaves, n),
           NEW p, NEW t, p.txid = <<t>>, p.index \in Nat, Len(p.branch) \in Nat,
           verify(p, Root(leaves))
    PROVE  /\ Len(p.branch) = Depth(leaves)
           /\ \E i \in DOMAIN leaves : leaves[i] = p.txid /\ SameUpTo(Depth(leaves), i - 1, p.index)
<1> DEFINE level == Levels(leaves)
           D == Depth(leaves)
           L == Len(p.branch)
           at == Positions(p.index, L)
<1>1. /\ n \in Nat \ {0} /\ Len(leaves) = n /\ DOMAIN leaves = 1..n
      /\ \A i \in 1..n : leaves[i] = <<i>>
  BY MinedLen DEF Mined
<1>2. D \in 0..n /\ Len(level[D]) = 1
  BY DepthShape
<1>3. /\ level[0] = leaves
      /\ \A k \in 0..(n - 1) : level[k + 1] = Parents(level[k])
      /\ \A k \in 0..n : Level(level[k])
  BY <1>1, LevelsUnfold, TreeShape
<1>4. PICK r : /\ r[0] = <<t>> /\ deriveRoot(p.txid, p.branch, p.index) = r[L]
               /\ \A k \in 0..(L - 1) : r[k + 1] = Climb(r[k], p.branch[k + 1], at[k] % 2 = 1)
  BY DeriveRootUnfold
<1>5. r[L] = level[D][1]
  BY <1>4 DEF verify, Root
<1>6. L \in Nat
  OBVIOUS
<1>7. \A k \in 0..L : at[k] \in Nat
  <2> DEFINE G == {k \in Nat : k <= L => at[k] \in Nat}
  <2>1. at[0] \in Nat /\ \A k \in 0..(L - 1) : at[k + 1] = at[k] \div 2
    BY PositionsUnfold
  <2> HIDE DEF at, L
  <2>2. 0 \in G
    BY <2>1
  <2>3. ASSUME NEW k \in Nat, k \in G PROVE k + 1 \in G
    <3>1. ASSUME k + 1 <= L PROVE at[k + 1] \in Nat
      <4>1. at[k] \in Nat /\ k \in 0..(L - 1)
        BY <1>6, <2>3, <3>1
      <4> DEFINE x == at[k]
      <4>2. at[k + 1] = x \div 2 /\ x \in Nat
        BY <2>1, <4>1
      <4> HIDE DEF x
      <4> QED
        BY <4>2
    <3> QED
      BY <3>1
  <2>4. \A k \in Nat : k \in G
    <3> HIDE DEF G
    <3> QED
      BY <2>2, <2>3, NatSetInduction
  <2> QED
    BY <1>6, <2>4
<1> HIDE DEF level, D, L, at
<1> DEFINE Reached(j, q) == /\ q \in 0..(Len(level[D - j]) - 1)
                            /\ r[L - j] = level[D - j][q + 1]
                            /\ \A k \in 0..(j - 1) : Positions(q, j)[k] % 2 = at[(L - j) + k] % 2
           G == {j \in Nat : j <= L /\ j <= D => \E q : Reached(j, q)}
<1>8. 0 \in G
  <2>1. Reached(0, 0)
    BY <1>1, <1>2, <1>5, <1>6
  <2> QED
    BY <2>1
<1>9. ASSUME NEW j \in Nat, j \in G PROVE j + 1 \in G
  <2> SUFFICES ASSUME j + 1 <= L, j + 1 <= D PROVE \E q : Reached(j + 1, q)
    OBVIOUS
  <2>1. PICK q : Reached(j, q)
    BY <1>1, <1>2, <1>6, <1>9
  <2> DEFINE k == L - (j + 1)
             low == level[D - (j + 1)]
  <2>2. /\ k \in 0..(L - 1) /\ k + 1 = L - j
        /\ D - (j + 1) \in 0..(n - 1) /\ (D - (j + 1)) + 1 = D - j
    BY <1>1, <1>2, <1>6
  <2>3. level[D - j] = Parents(low) /\ Level(low)
    BY <1>1, <1>3, <2>2
  <2>4. r[L - j] = Climb(r[k], p.branch[k + 1], at[k] % 2 = 1)
    BY <1>4, <2>2
  <2>5. PICK i \in 0..(Len(low) - 1) : r[k] = low[i + 1] /\ i \div 2 = q /\ (i % 2 = 1 <=> at[k] % 2 = 1)
    <3> DEFINE odd == at[k] % 2 = 1
               root == r[k]
               sibling == p.branch[k + 1]
    <3>1. q \in 0..(Len(Parents(low)) - 1) /\ Parents(low)[q + 1] = Climb(root, sibling, odd)
      BY <2>1, <2>3, <2>4
    <3>2. odd \in BOOLEAN /\ Level(low)
      BY <2>3
    <3> HIDE DEF odd, root, sibling, low
    <3>3. \E i \in 0..(Len(low) - 1) : root = low[i + 1] /\ i \div 2 = q /\ (i % 2 = 1 <=> odd)
      BY <3>1, <3>2, ChildOf
    <3> QED
      BY <3>3 DEF odd, root
  <2>6. i \in Nat /\ i % 2 = at[k] % 2
    <3>1. i \in Nat
      BY <2>3 DEF Level
    <3>2. at[k] \in Nat
      BY <1>6, <1>7, <2>2
    <3> DEFINE x == at[k]
    <3> HIDE DEF x
    <3> QED
      BY <2>5, <3>1, <3>2 DEF x
  <2>7. ASSUME NEW m \in 0..j PROVE Positions(i, j + 1)[m] % 2 = at[k + m] % 2
    <3>1. CASE m = 0
      <4>1. j + 1 \in Nat
        OBVIOUS
      <4>2. Positions(i, j + 1)[0] = i /\ k + 0 = k
        BY <2>2, <4>1, PositionsUnfold
      <4> QED
        BY <2>6, <3>1, <4>2
    <3>2. CASE m # 0
      <4>1. m - 1 \in 0..(j - 1) /\ m - 1 \in 0..j /\ (m - 1) + 1 = m /\ (L - j) + (m - 1) = k + m
        BY <1>6, <3>2
      <4>2. Positions(i, j + 1)[m] = Positions(q, j)[m - 1]
        <5>1. q = i \div 2
          BY <2>5
        <5>2. Positions(i, j + 1)[(m - 1) + 1] = Positions(q, j)[m - 1]
          BY <4>1, <5>1, PositionsShift
        <5> QED
          BY <4>1, <5>2
      <4>3. Positions(q, j)[m - 1] % 2 = at[(L - j) + (m - 1)] % 2
        BY <2>1, <4>1
      <4> QED
        BY <4>1, <4>2, <4>3
    <3> QED
      BY <3>1, <3>2
  <2>8. Reached(j + 1, i)
    <3>1. (j + 1) - 1 = j
      OBVIOUS
    <3> QED
      BY <2>5, <2>7, <3>1
  <2> HIDE DEF Reached
  <2> QED
    BY <2>8
<1>10. \A j \in Nat : j \in G
  <2> HIDE DEF G
  <2> QED
    BY <1>8, <1>9, NatSetInduction
<1>11. ASSUME L < D PROVE FALSE
  <2>1. PICK q : Reached(L, q)
    BY <1>1, <1>2, <1>6, <1>10, <1>11
  <2> DEFINE low == level[(D - L) - 1]
  <2>2. (D - L) - 1 \in 0..(n - 1) /\ ((D - L) - 1) + 1 = D - L /\ L - L = 0
    BY <1>1, <1>2, <1>6, <1>11
  <2>3. level[D - L] = Parents(low) /\ Level(low)
    BY <1>1, <1>3, <2>2
  <2>4. Parents(low)[q + 1] = <<t>> /\ q \in 0..(Len(Parents(low)) - 1)
    BY <1>4, <2>1, <2>2, <2>3
  <2> HIDE DEF low
  <2>5. \E a, b : Parents(low)[q + 1] = <<a, b>>
    BY <2>3, <2>4, ParentIsPair
  <2> QED
    BY <2>4, <2>5, PairIsPair
<1>12. ASSUME D < L PROVE FALSE
  <2>1. PICK q : Reached(D, q)
    BY <1>1, <1>2, <1>6, <1>10, <1>12
  <2>2. r[L - D] = <<q + 1>>
    <3>1. D - D = 0 /\ Len(level[0]) = n
      BY <1>1, <1>2, <1>3
    <3>2. q \in 0..(n - 1) /\ q + 1 \in 1..n
      BY <1>1, <2>1, <3>1
    <3> QED
      BY <1>1, <1>3, <2>1, <3>1, <3>2
  <2> DEFINE k == (L - D) - 1
             odd == at[k] % 2 = 1
  <2>3. k \in 0..(L - 1) /\ k + 1 = L - D
    BY <1>2, <1>1, <1>6, <1>12
  <2>4. <<q + 1>> = Climb(r[k], p.branch[k + 1], odd) /\ odd \in BOOLEAN
    BY <1>4, <2>2, <2>3
  <2>5. <<q + 1>> # ZERO
    BY DEF ZERO
  <2> DEFINE root == r[k]
             sibling == p.branch[k + 1]
  <2> HIDE DEF odd, root, sibling
  <2>6. <<q + 1>> = <<sibling, root>> \/ <<q + 1>> = <<root, sibling>>
    BY <2>4, <2>5, ClimbPair DEF root, sibling
  <2> QED
    BY <2>6, PairIsPair
<1>13. L = D
  BY <1>1, <1>2, <1>6, <1>11, <1>12
<1>14. PICK q : Reached(D, q)
  <2>1. D \in Nat /\ D <= L /\ D <= D
    BY <1>1, <1>2, <1>13
  <2>2. D \in G
    <3> HIDE DEF G
    <3> QED
      BY <1>10, <2>1
  <2> HIDE DEF Reached
  <2> QED
    BY <2>1, <2>2
<1>15. q + 1 \in 1..n /\ leaves[q + 1] = <<t>> /\ (q + 1) - 1 = q
  <2>1. D - D = 0 /\ L - D = 0 /\ Len(level[0]) = n
    BY <1>1, <1>2, <1>3, <1>13
  <2>2. q \in 0..(n - 1)
    BY <1>14, <2>1
  <2> QED
    BY <1>1, <1>3, <1>4, <1>14, <2>1, <2>2
<1>16. SameUpTo(D, q, p.index)
  <2>1. ASSUME NEW k \in 0..(D - 1) PROVE Positions(q, D)[k] % 2 = Positions(p.index, D)[k] % 2
    <3>1. (L - D) + k = k
      BY <1>1, <1>2, <1>13
    <3> QED
      BY <1>13, <1>14, <3>1 DEF at
  <2> QED
    BY <2>1 DEF SameUpTo
<1>17. \E i \in DOMAIN leaves : leaves[i] = p.txid /\ SameUpTo(D, i - 1, p.index)
  BY <1>1, <1>15, <1>16
<1> QED
  BY <1>13, <1>17 DEF D, L

-----------------------------------------------------------------------------
(* What is built is accepted: up the tree, from the leaf *)

\* Where the ancestors of a leaf are: inside their levels.
LEMMA PositionsInside ==
    ASSUME NEW leaves, NEW n, Mined(leaves, n), NEW index \in 0..(n - 1)
    PROVE  \A k \in 0..Depth(leaves) :
              Positions(index, Depth(leaves))[k] \in 0..(Len(Levels(leaves)[k]) - 1)
<1> DEFINE level == Levels(leaves)
           D == Depth(leaves)
           at == Positions(index, D)
           G == {k \in Nat : k <= D => at[k] \in 0..(Len(level[k]) - 1)}
<1>1. n \in Nat \ {0} /\ Len(leaves) = n /\ D \in 0..n
  BY MinedLen, DepthShape
<1>2. /\ level[0] = leaves
      /\ \A k \in 0..(n - 1) : level[k + 1] = Parents(level[k])
      /\ \A k \in 0..n : Level(level[k])
  BY <1>1, LevelsUnfold, TreeShape
<1>3. at[0] = index /\ \A k \in 0..(D - 1) : at[k + 1] = at[k] \div 2
  BY <1>1, PositionsUnfold
<1> HIDE DEF level, D, at
<1>4. 0 \in G
  BY <1>1, <1>2, <1>3
<1>5. ASSUME NEW k \in Nat, k \in G PROVE k + 1 \in G
  <2> SUFFICES ASSUME k + 1 <= D PROVE at[k + 1] \in 0..(Len(level[k + 1]) - 1)
    OBVIOUS
  <2>1. k \in 0..(n - 1) /\ k \in 0..(D - 1) /\ at[k] \in 0..(Len(level[k]) - 1)
    BY <1>1, <1>5
  <2>2. at[k + 1] = at[k] \div 2 /\ Len(level[k]) \in Nat \ {0} /\ level[k + 1] = Parents(level[k])
    BY <1>2, <1>3, <2>1 DEF Level
  <2> DEFINE m == Len(level[k])
             w == (m + 1) \div 2
             a == at[k]
  <2>3. a \in 0..(m - 1) /\ m \in Nat \ {0}
    BY <2>1, <2>2
  <2>4. w \in Nat
    <3> HIDE DEF m
    <3> QED
      BY <2>3
  <2>5. Len(level[k + 1]) = w
    <3> DEFINE nodes == level[k]
    <3>1. Len(nodes) = m
      OBVIOUS
    <3> HIDE DEF m, nodes
    <3>2. Len(Parents(nodes)) = w
      BY <2>3, <2>4, <3>1, ParentsShape
    <3> QED
      BY <2>2, <3>2 DEF nodes
  <2>6. a \div 2 \in 0..(w - 1)
    <3> HIDE DEF a, m
    <3> QED
      BY <2>3
  <2> QED
    BY <2>2, <2>5, <2>6
<1>6. \A k \in Nat : k \in G
  <2> HIDE DEF G
  <2> QED
    BY <1>4, <1>5, NatSetInduction
<1> QED
  BY <1>1, <1>6 DEF level, D, at

\* The branch of a leaf has nodes of the tree, one for each level below the root.
Sibling(nodes, at) ==
    LET twin == IF at % 2 = 1 THEN at - 1 ELSE at + 1
    IN  nodes[1 + IF twin < Len(nodes) THEN twin ELSE Len(nodes) - 1]

LEMMA BranchUnfold ==
    ASSUME NEW leaves, NEW n, Mined(leaves, n), NEW index \in 0..(n - 1),
           NEW b, b = createBranch(index, leaves)
    PROVE  /\ Len(b) = Depth(leaves)
           /\ \A k \in 0..(Depth(leaves) - 1) :
                 b[k + 1] = Sibling(Levels(leaves)[k], Positions(index, Depth(leaves))[k])
<1> DEFINE D == Depth(leaves)
<1>1. D \in Nat
  BY MinedLen, DepthShape
<1>2. b = [k \in 1..D |-> Sibling(Levels(leaves)[k - 1], Positions(index, D)[k - 1])]
  BY DEF createBranch, Sibling
<1> HIDE DEF D
<1>3. Len(b) = D
  <2>1. b = [k \in 1..D |-> b[k]]
    BY <1>2
  <2> QED
    BY <1>1, <2>1, LenOf
<1>4. ASSUME NEW k \in 0..(D - 1)
      PROVE  b[k + 1] = Sibling(Levels(leaves)[k], Positions(index, D)[k])
  <2>1. k + 1 \in 1..D /\ (k + 1) - 1 = k
    BY <1>1
  <2> QED
    BY <1>2, <2>1
<1> QED
  BY <1>3, <1>4 DEF D

\* A node and its sibling make their parent.
LEMMA SiblingClimbs ==
    ASSUME NEW nodes, Level(nodes), NEW a \in 0..(Len(nodes) - 1), Len(nodes) > 1
    PROVE  Climb(nodes[a + 1], Sibling(nodes, a), a % 2 = 1) = Parents(nodes)[(a \div 2) + 1]
<1> DEFINE m == Len(nodes)
           w == (m + 1) \div 2
           q == a \div 2
           p == Parents(nodes)
<1>1. /\ m \in Nat \ {0} /\ \A i \in 1..m : nodes[i] # ZERO
      /\ \A i, j \in 1..m : nodes[i] = nodes[j] => i = j
  BY DEF Level
<1>2. w \in Nat /\ a \in 0..(m - 1)
  <2>1. a \in 0..(m - 1)
    OBVIOUS
  <2> HIDE DEF m
  <2> QED
    BY <1>1, <2>1
<1>3. \A i \in 1..w : p[i] = <<nodes[2 * i - 1], nodes[IF 2 * i <= m THEN 2 * i ELSE 2 * i - 1]>>
  <2> HIDE DEF m, p
  <2> QED
    BY <1>1, <1>2, ParentsShape DEF m, p
<1>4. Sibling(nodes, a) = nodes[1 + IF (IF a % 2 = 1 THEN a - 1 ELSE a + 1) < m
                                    THEN IF a % 2 = 1 THEN a - 1 ELSE a + 1 ELSE m - 1]
  BY DEF Sibling
<1> HIDE DEF m, p
<1>5. /\ q \in Nat /\ q + 1 \in 1..w /\ 2 * (q + 1) = 2 * q + 2 /\ 2 * (q + 1) - 1 = 2 * q + 1
      /\ a % 2 = 1 => a = 2 * q + 1
      /\ a % 2 # 1 => a = 2 * q
  BY <1>1, <1>2
<1>6. p[q + 1] = <<nodes[2 * q + 1], nodes[IF 2 * q + 2 <= m THEN 2 * q + 2 ELSE 2 * q + 1]>>
  BY <1>3, <1>5
<1>7. nodes[a + 1] # ZERO /\ a + 1 \in 1..m
  BY <1>1, <1>2
<1> HIDE DEF q, w
<1>8. CASE a % 2 = 1
  <2>1. a = 2 * q + 1 /\ 2 * q + 2 <= m /\ a \in 1..m /\ a + 1 = 2 * q + 2
    BY <1>1, <1>2, <1>5, <1>8
  <2>2. Sibling(nodes, a) = nodes[a]
    <3>1. a - 1 < m /\ 1 + (a - 1) = a
      BY <1>1, <1>2
    <3> QED
      BY <1>4, <1>8, <3>1
  <2>3. nodes[a] # nodes[a + 1]
    BY <1>1, <1>2, <1>7, <2>1
  <2>4. Climb(nodes[a + 1], Sibling(nodes, a), a % 2 = 1) = <<nodes[a], nodes[a + 1]>>
    BY <1>7, <1>8, <2>2, <2>3 DEF Climb, Hash
  <2>5. p[q + 1] = <<nodes[a], nodes[a + 1]>>
    BY <1>6, <2>1
  <2> QED
    BY <2>4, <2>5 DEF p, q
<1>9. CASE a % 2 # 1
  <2>1. a = 2 * q /\ a + 1 = 2 * q + 1
    BY <1>1, <1>2, <1>5, <1>9
  <2>2. Sibling(nodes, a) = nodes[IF 2 * q + 2 <= m THEN 2 * q + 2 ELSE 2 * q + 1]
    <3>1. CASE 2 * q + 2 <= m
      <4>1. a + 1 < m /\ 1 + (a + 1) = 2 * q + 2
        BY <1>1, <1>2, <2>1, <3>1
      <4> QED
        BY <1>4, <1>9, <3>1, <4>1
    <3>2. CASE ~(2 * q + 2 <= m)
      <4>1. ~(a + 1 < m) /\ 1 + (m - 1) = 2 * q + 1
        BY <1>1, <1>2, <2>1, <3>2
      <4> QED
        BY <1>4, <1>9, <3>2, <4>1
    <3> QED
      BY <3>1, <3>2
  <2>3. Climb(nodes[a + 1], Sibling(nodes, a), a % 2 = 1) = <<nodes[a + 1], Sibling(nodes, a)>>
    BY <1>7, <1>9 DEF Climb, Hash
  <2> QED
    BY <1>6, <2>1, <2>2, <2>3 DEF p, q
<1> QED
  BY <1>8, <1>9

\* The proof that is built for a transaction of a block has its root.
THEOREM BuiltIsVerified ==
    ASSUME NEW leaves, NEW n, Mined(leaves, n), NEW i \in DOMAIN leaves
    PROVE  verify(buildMerkleProof(leaves, leaves[i]), Root(leaves))
<1> DEFINE level == Levels(leaves)
           D == Depth(leaves)
           index == i - 1
           b == createBranch(index, leaves)
           at == Positions(index, D)
<1>1. /\ n \in Nat \ {0} /\ Len(leaves) = n /\ DOMAIN leaves = 1..n
      /\ \A k \in 1..n : leaves[k] = <<k>>
  BY MinedLen DEF Mined
<1>2. index \in 0..(n - 1) /\ index + 1 = i
  BY <1>1
<1>3. buildMerkleProof(leaves, leaves[i]) = [txid |-> leaves[i], index |-> index, branch |-> b]
  <2>1. \A k \in DOMAIN leaves : leaves[k] = leaves[i] <=> k = i
    <3>1. \A x, y : <<x>> = <<y>> => x = y
      OBVIOUS
    <3> QED
      BY <1>1, <3>1
  <2>2. (CHOOSE k \in DOMAIN leaves : leaves[k] = leaves[i]) = i
    BY <2>1
  <2> QED
    BY <2>2 DEF buildMerkleProof
<1>4. D \in 0..n /\ Len(level[D]) = 1 /\ \A k \in 0..(D - 1) : Len(level[k]) > 1
  BY DepthShape
<1>5. /\ level[0] = leaves
      /\ \A k \in 0..(n - 1) : level[k + 1] = Parents(level[k])
      /\ \A k \in 0..n : Level(level[k])
  BY <1>1, LevelsUnfold, TreeShape
<1>6. Len(b) = D /\ \A k \in 0..(D - 1) : b[k + 1] = Sibling(level[k], at[k])
  <2> HIDE DEF index
  <2> QED
    BY <1>2, BranchUnfold
<1>7. \A k \in 0..D : at[k] \in 0..(Len(level[k]) - 1)
  <2> HIDE DEF index
  <2> QED
    BY <1>2, PositionsInside
<1>8. at[0] = index /\ \A k \in 0..(D - 1) : at[k + 1] = at[k] \div 2
  <2> HIDE DEF index
  <2> QED
    BY <1>1, <1>4, PositionsUnfold
<1> HIDE DEF index, b
<1>9. PICK r : /\ r[0] = leaves[i] /\ deriveRoot(leaves[i], b, index) = r[Len(b)]
               /\ \A k \in 0..(Len(b) - 1) :
                     r[k + 1] = Climb(r[k], b[k + 1], Positions(index, Len(b))[k] % 2 = 1)
  <2>1. Len(b) \in Nat
    BY <1>1, <1>4, <1>6
  <2> QED
    BY <2>1, DeriveRootUnfold
<1>10. \A k \in 0..(D - 1) : r[k + 1] = Climb(r[k], b[k + 1], at[k] % 2 = 1)
  BY <1>6, <1>9
<1> HIDE DEF level, D, at
<1> DEFINE G == {k \in Nat : k <= D => r[k] = level[k][at[k] + 1]}
<1>11. 0 \in G
  BY <1>2, <1>5, <1>8, <1>9
<1>12. ASSUME NEW k \in Nat, k \in G PROVE k + 1 \in G
  <2> SUFFICES ASSUME k + 1 <= D PROVE r[k + 1] = level[k + 1][at[k + 1] + 1]
    OBVIOUS
  <2>1. k \in 0..(D - 1) /\ k \in 0..(n - 1) /\ k \in 0..D /\ k \in 0..n
    BY <1>1, <1>4
  <2>2. r[k] = level[k][at[k] + 1]
    BY <1>12, <2>1
  <2> DEFINE nodes == level[k]
             a == at[k]
  <2>3. Level(nodes) /\ Len(nodes) > 1 /\ a \in 0..(Len(nodes) - 1)
    BY <1>4, <1>5, <1>7, <2>1
  <2>4. r[k + 1] = Climb(nodes[a + 1], Sibling(nodes, a), a % 2 = 1)
    BY <1>6, <1>10, <2>1, <2>2
  <2>5. level[k + 1] = Parents(nodes) /\ at[k + 1] = a \div 2
    BY <1>5, <1>8, <2>1
  <2> HIDE DEF nodes, a
  <2>6. Climb(nodes[a + 1], Sibling(nodes, a), a % 2 = 1) = Parents(nodes)[(a \div 2) + 1]
    BY <2>3, SiblingClimbs
  <2> QED
    BY <2>4, <2>5, <2>6
<1>13. \A k \in Nat : k \in G
  <2> HIDE DEF G
  <2> QED
    BY <1>11, <1>12, NatSetInduction
<1>14. r[D] = level[D][1]
  <2>1. D \in Nat /\ D \in 0..D /\ D <= D
    BY <1>1, <1>4
  <2>2. at[D] \in 0..(1 - 1)
    BY <1>4, <1>7, <2>1
  <2>3. D \in G
    <3> HIDE DEF G
    <3> QED
      BY <1>13, <2>1
  <2>4. r[D] = level[D][at[D] + 1]
    BY <2>1, <2>3
  <2>5. at[D] = 0
    BY <2>2
  <2> QED
    BY <2>4, <2>5
<1> QED
  BY <1>3, <1>6, <1>9, <1>14 DEF verify, Root, level, D

-----------------------------------------------------------------------------
(* The header: the difficulty floor of the contract and the rule of eCash *)

\* Two functions that grow alike from 1 are alike.
LEMMA ShiftStep ==
    ASSUME NEW m \in Nat
    PROVE  Shift(0) = 1 /\ Shift(m + 1) = ByteSize * Shift(m)
<1>1. \E f : f[0] = 1 /\ Shift(0) = f[0]
  BY ShiftExists
<1>2. PICK g : /\ g[0] = 1 /\ \A k \in 0..(m - 1) : g[k + 1] = ByteSize * g[k]
               /\ Shift(m) = g[m]
  BY ShiftExists, Zenon
<1>3. m + 1 \in Nat /\ (m + 1) - 1 = m
  OBVIOUS
<1>4. PICK h : /\ h[0] = 1 /\ \A k \in 0..m : h[k + 1] = ByteSize * h[k]
               /\ Shift(m + 1) = h[m + 1]
  <2>1. \E h : /\ h[0] = 1 /\ \A k \in 0..((m + 1) - 1) : h[k + 1] = ByteSize * h[k]
               /\ Shift(m + 1) = h[m + 1]
    BY <1>3, ShiftExists, Zenon
  <2> QED
    BY <1>3, <2>1
<1> DEFINE G == {k \in Nat : k <= m => g[k] = h[k]}
<1>5. 0 \in G
  BY <1>2, <1>4
<1>6. ASSUME NEW k \in Nat, k \in G PROVE k + 1 \in G
  <2>1. ASSUME k + 1 <= m PROVE g[k + 1] = h[k + 1]
    <3>1. g[k] = h[k] /\ k \in 0..(m - 1) /\ k \in 0..m
      BY <1>6, <2>1
    <3>2. g[k + 1] = ByteSize * g[k] /\ h[k + 1] = ByteSize * h[k]
      BY <1>2, <1>4, <3>1
    <3> QED
      BY <3>1, <3>2
  <2> QED
    BY <2>1
<1>7. \A k \in Nat : k \in G
  <2> HIDE DEF G
  <2> QED
    BY <1>5, <1>6, NatSetInduction
<1>8. g[m] = h[m]
  BY <1>7
<1>9. m \in 0..m
  OBVIOUS
<1> QED
  BY <1>1, <1>2, <1>4, <1>8, <1>9

LEMMA ShiftPositive == \A m \in Nat : Shift(m) \in Nat \ {0}
<1> DEFINE G == {m \in Nat : Shift(m) \in Nat \ {0}}
<1>1. 0 \in G
  BY ShiftStep
<1>2. ASSUME NEW m \in Nat, m \in G PROVE m + 1 \in G
  <2> DEFINE s == Shift(m)
             t == Shift(m + 1)
  <2>1. t = ByteSize * s /\ s \in Nat \ {0} /\ ByteSize \in Nat \ {0}
    BY <1>2, ShiftStep, InclusionAssumption
  <2> HIDE DEF s, t
  <2>2. t \in Nat \ {0}
    BY <2>1
  <2> QED
    BY <2>2 DEF t
<1> HIDE DEF G
<1>3. \A m \in Nat : m \in G
  BY <1>1, <1>2, NatSetInduction
<1> QED
  BY <1>3 DEF G

\* Shifts add up.
LEMMA ShiftSum == \A a, b \in Nat : Shift(a + b) = Shift(a) * Shift(b)
<1> SUFFICES ASSUME NEW a \in Nat PROVE \A b \in Nat : Shift(a + b) = Shift(a) * Shift(b)
  OBVIOUS
<1> DEFINE G == {b \in Nat : Shift(a + b) = Shift(a) * Shift(b)}
<1>1. 0 \in G
  <2> DEFINE s == Shift(a)
  <2>1. a + 0 = a /\ Shift(0) = 1 /\ s \in Nat
    BY ShiftStep, ShiftPositive
  <2>2. s * 1 = s
    <3> HIDE DEF s
    <3> QED
      BY <2>1
  <2> QED
    BY <2>1, <2>2
<1>2. ASSUME NEW b \in Nat, b \in G PROVE b + 1 \in G
  <2> DEFINE s == Shift(a)
             t == Shift(b)
  <2>1. a + (b + 1) = (a + b) + 1 /\ a + b \in Nat /\ b + 1 \in Nat
    OBVIOUS
  <2>2. Shift((a + b) + 1) = ByteSize * (s * t)
    BY <1>2, <2>1, ShiftStep
  <2>3. Shift(b + 1) = ByteSize * t
    BY ShiftStep
  <2>4. ByteSize * (s * t) = s * (ByteSize * t)
    <3>1. s \in Nat /\ t \in Nat /\ ByteSize \in Nat
      BY ShiftPositive, InclusionAssumption
    <3> HIDE DEF s, t
    <3> QED
      BY <3>1
  <2> QED
    BY <2>1, <2>2, <2>3, <2>4
<1> HIDE DEF G
<1>3. \A b \in Nat : b \in G
  BY <1>1, <1>2, NatSetInduction
<1> QED
  BY <1>3 DEF G

LEMMA CancelLess ==
    ASSUME NEW a \in Nat, NEW b \in Nat, NEW c \in Nat \ {0}, a * c < b * c
    PROVE  a < b
<1> SUFFICES ASSUME b <= a PROVE FALSE
  OBVIOUS
<1>1. PICK d \in Nat : a = b + d
  <2>1. a - b \in Nat /\ a = b + (a - b)
    OBVIOUS
  <2> QED
    BY <2>1
<1>2. a * c = b * c + d * c /\ d * c \in Nat /\ b * c \in Nat
  BY <1>1
<1> DEFINE x == a * c
           y == b * c
           z == d * c
<1>3. x = y + z /\ z \in Nat /\ y \in Nat /\ x < y
  BY <1>2
<1> HIDE DEF x, y, z
<1> QED
  BY <1>3

LEMMA CancelLeq ==
    ASSUME NEW a \in Nat, NEW b \in Nat, NEW c \in Nat \ {0}, a * c <= b * c
    PROVE  a <= b
<1> SUFFICES ASSUME b < a PROVE FALSE
  OBVIOUS
<1>1. PICK d \in Nat : a = b + d /\ d # 0
  <2>1. a - b \in Nat /\ a = b + (a - b) /\ a - b # 0
    OBVIOUS
  <2> QED
    BY <2>1
<1>2. a * c = b * c + d * c /\ d * c \in Nat /\ b * c \in Nat /\ d * c # 0
  BY <1>1
<1> DEFINE x == a * c
           y == b * c
           z == d * c
<1>3. x = y + z /\ z \in Nat /\ z # 0 /\ y \in Nat /\ x <= y
  BY <1>2
<1> HIDE DEF x, y, z
<1> QED
  BY <1>3

\* The floor of a quotient: the numbers not above it, times the divisor, fit.
LEMMA QuotientBounds ==
    ASSUME NEW a \in Nat, NEW s \in Nat \ {0}
    PROVE  /\ a \div s \in Nat
           /\ \A x \in Nat : x * s <= a => x <= a \div s
           /\ \A x \in Nat : a < (x + 1) * s => a \div s <= x
<1> DEFINE q == a \div s
<1>1. q \in Nat /\ s * q <= a /\ a < s * q + s
  OBVIOUS
<1> HIDE DEF q
<1>2. ASSUME NEW x \in Nat, x * s <= a PROVE x <= q
  <2>1. (q + 1) * s = s * q + s /\ x * s \in Nat /\ (q + 1) * s \in Nat
    BY <1>1
  <2>2. x * s < (q + 1) * s
    BY <1>1, <1>2, <2>1
  <2>3. x < q + 1
    BY <1>1, <2>2, CancelLess
  <2> QED
    BY <1>1, <2>3
<1>3. ASSUME NEW x \in Nat, a < (x + 1) * s PROVE q <= x
  <2>1. q * s = s * q /\ q * s \in Nat /\ (x + 1) * s \in Nat
    BY <1>1
  <2>2. q * s < (x + 1) * s
    BY <1>1, <1>3, <2>1
  <2>3. q < x + 1
    BY <1>1, <2>2, CancelLess
  <2> QED
    BY <1>1, <2>3
<1> QED
  BY <1>1, <1>2, <1>3 DEF q

\* A header of a block that eCash takes, and that is as hard as the floor, meets the floor:
\* the target that the contract decodes is the one the compact form stands for, rounded down.
LEMMA ConsensusMeetsFloor ==
    ASSUME NEW h \in Headers, MeetsConsensus(h), Hard(h)
    PROVE  meetsFloor(h)
<1> DEFINE m == h.mantissa
           e == h.exponent
           x == h.hash
           s3 == Shift(3)
           se == Shift(e)
           d == MinDifficultyTarget
           tm == TargetMax
<1>1. m \in Nat /\ e \in Nat /\ x \in Nat /\ d \in Nat
  BY InclusionAssumption
<1>2. s3 \in Nat \ {0} /\ tm \in Nat \ {0} /\ se \in Nat \ {0}
  BY <1>1, ShiftPositive, InclusionAssumption DEF TargetMax
<1>3. m < SignBit /\ m * se < tm * s3 /\ x * s3 <= m * se /\ m * se < (d + 1) * s3
  BY DEF MeetsConsensus, Hard
<1>4. m % SignBit = m
  <2>1. SignBit \in Nat
    <3> HIDE DEF s3
    <3> QED
      BY <1>2 DEF SignBit, s3
  <2> HIDE DEF m
  <2> QED
    BY <1>1, <1>3, <2>1
<1> DEFINE t == bitsToTarget(h)
<1>5. t = IF e <= 3 THEN m \div Shift(3 - e) ELSE (m * Shift(e - 3)) % tm
  BY <1>4 DEF bitsToTarget
<1>6. meetsFloor(h) <=> t <= d /\ x <= t
  BY DEF meetsFloor
<1> HIDE DEF m, e, x, s3, se, d, tm, t
<1>7. CASE e <= 3
  <2> DEFINE s == Shift(3 - e)
  <2>1. 3 - e \in Nat /\ (3 - e) + e = 3
    BY <1>1, <1>7
  <2>2. s \in Nat \ {0} /\ s3 = s * se
    BY <1>1, <2>1, ShiftPositive, ShiftSum DEF s3, se
  <2>3. t = m \div s
    BY <1>5, <1>7
  <2> HIDE DEF s
  <2>4. x * s <= m
    <3>1. (x * s) * se = x * (s * se) /\ x * s \in Nat
      BY <1>1, <1>2, <2>2
    <3>2. (x * s) * se <= m * se
      BY <1>3, <2>2, <3>1
    <3> DEFINE y == x * s
    <3>3. y \in Nat /\ y * se <= m * se
      BY <3>1, <3>2
    <3> HIDE DEF y
    <3>4. y <= m
      BY <1>1, <1>2, <3>3, CancelLeq
    <3> QED
      BY <3>4 DEF y
  <2>5. m < (d + 1) * s
    <3>1. ((d + 1) * s) * se = (d + 1) * (s * se) /\ (d + 1) * s \in Nat
      BY <1>1, <1>2, <2>2
    <3>2. m * se < ((d + 1) * s) * se
      BY <1>3, <2>2, <3>1
    <3> DEFINE y == (d + 1) * s
    <3>3. y \in Nat /\ m * se < y * se
      BY <3>1, <3>2
    <3> HIDE DEF y
    <3>4. m < y
      BY <1>1, <1>2, <3>3, CancelLess
    <3> QED
      BY <3>4 DEF y
  <2>6. x <= m \div s /\ m \div s <= d
    BY <1>1, <2>2, <2>4, <2>5, QuotientBounds
  <2> QED
    BY <1>6, <2>3, <2>6
<1>8. CASE e > 3
  <2> DEFINE u == Shift(e - 3)
             y == m * u
  <2>1. e - 3 \in Nat /\ (e - 3) + 3 = e /\ ~(e <= 3)
    BY <1>1, <1>8
  <2>2. u \in Nat \ {0} /\ se = u * s3
    BY <2>1, ShiftPositive, ShiftSum DEF s3, se
  <2>3. t = y % tm
    BY <1>5, <2>1
  <2> HIDE DEF u
  <2>4. y \in Nat /\ y * s3 = m * (u * s3)
    BY <1>1, <1>2, <2>2
  <2>5. m * se = y * s3
    BY <2>2, <2>4
  <2> HIDE DEF y
  <2>6. y < tm
    BY <1>2, <1>3, <2>4, <2>5, CancelLess
  <2>7. x <= y
    BY <1>1, <1>2, <1>3, <2>4, <2>5, CancelLeq
  <2>8. y <= d
    <3> DEFINE z == d + 1
    <3>1. z \in Nat /\ y * s3 < z * s3
      BY <1>1, <1>3, <2>5
    <3> HIDE DEF z
    <3>2. y < z
      BY <1>2, <2>4, <3>1, CancelLess
    <3> QED
      BY <1>1, <2>4, <3>2 DEF z
  <2>9. y % tm = y
    BY <1>2, <2>4, <2>6
  <2> QED
    BY <1>6, <2>3, <2>7, <2>8, <2>9
<1> QED
  BY <1>1, <1>7, <1>8

\* A header that meets the floor was worth at least the work that the floor asks.
LEMMA FloorIsWork ==
    ASSUME NEW h \in Headers, meetsFloor(h)
    PROVE  h.hash <= MinDifficultyTarget
<1> DEFINE m == h.mantissa
           e == h.exponent
           x == h.hash
           t == bitsToTarget(h)
<1>1. m \in Nat /\ e \in Nat /\ x \in Nat /\ MinDifficultyTarget \in Nat
  BY InclusionAssumption
<1>2. t <= MinDifficultyTarget /\ x <= t
  BY DEF meetsFloor
<1>3. t \in Int
  <2> DEFINE s3 == Shift(3)
             b == SignBit
             tm == TargetMax
             k == m % b
  <2>1. s3 \in Nat /\ s3 > 1
    <3>1. Shift(0) = 1 /\ Shift(0 + 1) = ByteSize * Shift(0) /\ Shift(1 + 1) = ByteSize * Shift(1)
          /\ Shift(2 + 1) = ByteSize * Shift(2)
      BY ShiftStep
    <3> DEFINE a == Shift(2)
    <3>2. a \in Nat \ {0} /\ ByteSize \in Nat \ {0, 1} /\ s3 = ByteSize * a
      BY <3>1, ShiftPositive, InclusionAssumption
    <3> HIDE DEF a, s3
    <3>3. a <= a * ByteSize - a /\ ByteSize * a = a * ByteSize
      <4>1. PICK c \in Nat : ByteSize = c + 2
        <5>1. ByteSize - 2 \in Nat /\ ByteSize = (ByteSize - 2) + 2
          BY <3>2
        <5> QED
          BY <5>1
      <4>2. a * (c + 2) = a * c + 2 * a /\ a * c \in Nat
        BY <3>2
      <4> DEFINE z == a * c
      <4>3. a * ByteSize = z + 2 * a /\ z \in Nat
        BY <4>1, <4>2
      <4>4. ByteSize * a = a * ByteSize
        BY <3>2
      <4> HIDE DEF z
      <4> QED
        BY <3>2, <4>3, <4>4
    <3> DEFINE y == a * ByteSize
    <3>4. y \in Nat /\ a <= y - a /\ s3 = y
      BY <3>2, <3>3
    <3> HIDE DEF y
    <3> QED
      BY <3>2, <3>4
  <2>2. b \in Nat \ {0}
    <3> HIDE DEF s3
    <3> QED
      BY <2>1 DEF SignBit, s3
  <2>3. tm \in Nat \ {0}
    BY ShiftPositive, InclusionAssumption DEF TargetMax
  <2> HIDE DEF m, b, tm, e
  <2>4. k \in Nat
    BY <1>1, <2>2
  <2>5. t = IF e <= 3 THEN k \div Shift(3 - e) ELSE (k * Shift(e - 3)) % tm
    BY DEF bitsToTarget, m, b, tm, e
  <2> HIDE DEF k
  <2>6. CASE e <= 3
    <3> DEFINE s == Shift(3 - e)
    <3>1. s \in Nat \ {0}
      <4>1. 3 - e \in Nat
        BY <1>1, <2>6
      <4> QED
        BY <4>1, ShiftPositive
    <3>2. t = k \div s
      BY <2>5, <2>6
    <3> HIDE DEF s
    <3> QED
      BY <2>4, <3>1, <3>2
  <2>7. CASE e > 3
    <3> DEFINE s == Shift(e - 3)
               y == k * s
    <3>1. s \in Nat
      <4>1. e - 3 \in Nat
        BY <1>1, <2>7
      <4> QED
        BY <4>1, ShiftPositive
    <3>2. t = y % tm
      BY <1>1, <2>5, <2>7
    <3> HIDE DEF s
    <3>3. y \in Nat
      BY <2>4, <3>1
    <3> HIDE DEF y
    <3> QED
      BY <2>3, <3>2, <3>3
  <2> QED
    BY <1>1, <2>6, <2>7
<1> HIDE DEF m, e, t
<1> QED
  BY <1>1, <1>2, <1>3

-----------------------------------------------------------------------------
(* The specification *)

\* The branches that are tried are sequences.
LEMMA BranchesHaveLength ==
    ASSUME NEW n, Mined(txs, n), NEW b \in Branches
    PROVE  Len(b) \in Nat
<1>1. n \in Nat \ {0} /\ Len(txs) = n
  BY MinedLen
<1>2. PICK i \in 0..(n - 1) :
         LET a == createBranch(i, txs)
         IN  b \in {a} \cup {Append(a, x) : x \in Nodes}
                   \cup (IF a = << >> THEN {} ELSE {Tail(a), SubSeq(a, 1, Len(a) - 1)})
                   \cup {[a EXCEPT ![k] = x] : k \in DOMAIN a, x \in Nodes}
  BY <1>1 DEF Branches
<1> DEFINE a == createBranch(i, txs)
           D == Depth(txs)
           S == {a[k] : k \in 1..D}
<1>3. D \in Nat
  BY <1>1, DepthShape
<1>4. a = [k \in 1..D |-> a[k]]
  BY DEF createBranch
<1>5. \/ b = a
      \/ \E x \in Nodes : b = Append(a, x)
      \/ a # << >> /\ b = Tail(a)
      \/ a # << >> /\ b = SubSeq(a, 1, Len(a) - 1)
      \/ \E k \in DOMAIN a, x \in Nodes : b = [a EXCEPT ![k] = x]
  BY <1>2
<1> HIDE DEF a, D
<1>6. Len(a) = D
  BY <1>3, <1>4, LenOf
<1>7. a \in [1..D -> S]
  BY <1>4
<1>8. a \in Seq(S)
  BY <1>3, <1>7
<1>9. CASE b = a
  BY <1>3, <1>6, <1>9
<1>10. CASE \E x \in Nodes : b = Append(a, x)
  <2>1. PICK x : b = Append(a, x)
    BY <1>10
  <2> DEFINE T == S \cup {x}
  <2>2. a \in Seq(T) /\ x \in T
    <3>1. a \in [1..D -> T]
      BY <1>7
    <3> QED
      BY <1>3, <3>1
  <2> HIDE DEF T, S
  <2>3. Len(b) = Len(a) + 1
    BY <2>1, <2>2, AppendProperties
  <2> QED
    BY <1>3, <1>6, <2>3
<1>11. CASE a # << >> /\ b = Tail(a)
  <2>1. Tail(a) \in Seq(S)
    BY <1>8, <1>11, HeadTailProperties
  <2> HIDE DEF S
  <2> QED
    BY <1>11, <2>1, LenProperties
<1>12. CASE a # << >> /\ b = SubSeq(a, 1, Len(a) - 1)
  <2>1. b = [k \in 1..(D - 1) |-> a[k]]
    BY <1>3, <1>6, <1>12
  <2>2. D # 0
    <3>1. Len(a) # 0
      <4> HIDE DEF S
      <4> QED
        BY <1>8, <1>12, EmptySeq
    <3> QED
      BY <1>6, <3>1
  <2>3. D - 1 \in Nat /\ b = [k \in 1..(D - 1) |-> b[k]]
    BY <1>3, <2>1, <2>2
  <2> QED
    BY <2>3, LenOf
<1>13. CASE \E k \in DOMAIN a, x \in Nodes : b = [a EXCEPT ![k] = x]
  <2>1. PICK k, x : b = [a EXCEPT ![k] = x]
    BY <1>13
  <2>2. b = [j \in 1..D |-> b[j]]
    BY <1>7, <2>1
  <2> QED
    BY <1>3, <2>2, LenOf
<1> QED
  BY <1>5, <1>9, <1>10, <1>11, <1>12, <1>13

\* release() accepts exactly what meets the floor and verifies, of a block that was mined.
THEOREM InclusionInvariance == InclusionSpec => []InclusionInv
<1>1. InclusionInit => InclusionInv
  BY DEF InclusionInit, InclusionInv
<1>2. InclusionInv /\ [InclusionNext]_inclusionVars => InclusionInv'
  <2> SUFFICES ASSUME InclusionInv, [InclusionNext]_inclusionVars PROVE InclusionInv'
    OBVIOUS
  <2>1. ASSUME NEW n \in 1..MaxTxs, NEW h \in Headers, MakeBlock(n, h) PROVE InclusionInv'
    <3>1. proof' = << >> /\ ~accepted' /\ header' \in Headers
      BY <2>1 DEF MakeBlock, InclusionInv
    <3>2. Len(txs') = n /\ n \in Nat \ {0} /\ txs' = [i \in 1..n |-> <<i>>]
      <4>1. Mined(txs', n)
        BY <2>1, InclusionAssumption DEF MakeBlock, Mined
      <4> QED
        BY <4>1, MinedLen DEF Mined
    <3> QED
      BY <3>1, <3>2 DEF InclusionInv
  <2>2. ASSUME NEW p, Present(p), txs # << >>,
               p.txid = <<p.txid[1]>>, p.index \in Nat, Len(p.branch) \in Nat
        PROVE  InclusionInv'
    <3>1. proof' = p /\ txs' = txs /\ header' = header
      BY <2>2 DEF Present
    <3>2. accepted' <=> meetsFloor(header) /\ verify(p, Root(txs))
      BY <2>2 DEF Present
    <3>3. (txs # << >> => /\ Len(txs) \in Nat \ {0} /\ txs = [i \in 1..Len(txs) |-> <<i>>]
                          /\ header \in Headers)'
      BY <3>1 DEF InclusionInv
    <3>4. (accepted => /\ txs # << >> /\ meetsFloor(header) /\ verify(proof, Root(txs))
                       /\ proof.txid = <<proof.txid[1]>>
                       /\ proof.index \in Nat /\ Len(proof.branch) \in Nat)'
      BY <2>2, <3>1, <3>2
    <3>5. (proof # << >> /\ meetsFloor(header) /\ verify(proof, Root(txs)) => accepted)'
      BY <3>1, <3>2
    <3> QED
      BY <2>2, <3>1, <3>3, <3>4, <3>5 DEF InclusionInv
  <2>3. CASE PresentBuilt
    <3>1. PICK i \in DOMAIN txs : Present(buildMerkleProof(txs, txs[i]))
      BY <2>3 DEF PresentBuilt
    <3>2. txs # << >>
      BY <3>1
    <3> DEFINE n == Len(txs)
    <3>3. Mined(txs, n)
      BY <3>2 DEF InclusionInv, Mined
    <3>4. DOMAIN txs = 1..n /\ \A k \in 1..n : txs[k] = <<k>>
      BY <3>3 DEF Mined
    <3>5. (CHOOSE k \in DOMAIN txs : txs[k] = txs[i]) \in DOMAIN txs
      BY <3>1
    <3> DEFINE j == (CHOOSE k \in DOMAIN txs : txs[k] = txs[i])
               p == buildMerkleProof(txs, txs[i])
    <3>6. p.txid = txs[i] /\ p.index = j - 1 /\ p.branch = createBranch(j - 1, txs)
      BY DEF buildMerkleProof
    <3>7. j \in 1..n /\ n \in Nat \ {0}
      BY <3>3, <3>4, <3>5, MinedLen
    <3>8. p.txid = <<p.txid[1]>>
      BY <3>1, <3>4, <3>6
    <3> HIDE DEF j, p, n
    <3>9. j - 1 \in 0..(n - 1) /\ j - 1 \in Nat
      BY <3>7
    <3>10. Len(p.branch) = Depth(txs)
      <4> DEFINE index == j - 1
      <4>1. index \in 0..(n - 1) /\ p.branch = createBranch(index, txs)
        BY <3>6, <3>9
      <4> HIDE DEF index
      <4> QED
        BY <3>3, <4>1, BranchUnfold
    <3>11. Depth(txs) \in Nat
      BY <3>3, <3>7, DepthShape
    <3> QED
      BY <2>2, <3>1, <3>2, <3>6, <3>8, <3>9, <3>10, <3>11 DEF p
  <2>4. CASE PresentForged
    <3>1. PICK t \in 1..(MaxTxs + 1), b \in Branches, index \in 0..(4 * Len(txs)) :
             Present([txid |-> <<t>>, index |-> index, branch |-> b])
      BY <2>4 DEF PresentForged
    <3>2. txs # << >>
      BY <2>4 DEF PresentForged
    <3>3. Mined(txs, Len(txs))
      BY <3>2 DEF InclusionInv, Mined
    <3>4. Len(b) \in Nat
      BY <3>3, BranchesHaveLength
    <3>5. index \in Nat
      OBVIOUS
    <3> QED
      BY <2>2, <3>1, <3>2, <3>4, <3>5
  <2>5. CASE UNCHANGED inclusionVars
    BY <2>5 DEF inclusionVars, InclusionInv
  <2> QED
    BY <2>1, <2>3, <2>4, <2>5 DEF InclusionNext
<1> QED
  BY <1>1, <1>2, PTL DEF InclusionSpec

\* MerkleProof.sol: no proof is accepted but of a transaction of the block, at its index.
THEOREM AcceptedIsIncludedHolds == InclusionSpec => []AcceptedIsIncluded
<1>1. InclusionInv => AcceptedIsIncluded
  <2> SUFFICES ASSUME InclusionInv, accepted
               PROVE  /\ Len(proof.branch) = Depth(txs)
                      /\ \E i \in DOMAIN txs :
                            txs[i] = proof.txid /\ SameUpTo(Depth(txs), i - 1, proof.index)
                      /\ header.hash <= MinDifficultyTarget
    BY DEF AcceptedIsIncluded
  <2>1. /\ txs # << >> /\ meetsFloor(header) /\ verify(proof, Root(txs))
        /\ proof.txid = <<proof.txid[1]>> /\ proof.index \in Nat /\ Len(proof.branch) \in Nat
    BY DEF InclusionInv
  <2>2. Mined(txs, Len(txs)) /\ header \in Headers
    BY <2>1 DEF InclusionInv, Mined
  <2>3. /\ Len(proof.branch) = Depth(txs)
        /\ \E i \in DOMAIN txs :
              txs[i] = proof.txid /\ SameUpTo(Depth(txs), i - 1, proof.index)
    BY <2>1, <2>2, VerifiedIsIncluded
  <2>4. header.hash <= MinDifficultyTarget
    BY <2>1, <2>2, FloorIsWork
  <2> QED
    BY <2>3, <2>4
<1> QED
  BY <1>1, InclusionInvariance, PTL

\* merkle.ts, "must stay in sync": the proof that the SDK builds for a transaction of a
\* block is accepted, whatever its size, if the block is as hard as the floor.
THEOREM BuiltIsAcceptedHolds == InclusionSpec => []BuiltIsAccepted
<1>1. InclusionInv => BuiltIsAccepted
  <2> SUFFICES ASSUME InclusionInv, txs # << >>, proof # << >>, MeetsConsensus(header), Hard(header),
                      NEW i \in DOMAIN txs, proof = buildMerkleProof(txs, txs[i])
               PROVE  accepted
    BY DEF BuiltIsAccepted
  <2>1. Mined(txs, Len(txs)) /\ header \in Headers
    BY DEF InclusionInv, Mined
  <2>2. verify(proof, Root(txs))
    BY <2>1, BuiltIsVerified
  <2>3. meetsFloor(header)
    BY <2>1, ConsensusMeetsFloor
  <2> QED
    BY <2>2, <2>3 DEF InclusionInv
<1> QED
  BY <1>1, InclusionInvariance, PTL

-----------------------------------------------------------------------------
(* Postage: the owners of a burn and of a stamp *)

\* Initially no call runs and every stamp is in the pool.
LEMMA PostageInitInv == PostageInit => PostageInv
  BY PostageAssumption DEF PostageInit, PostageInv, PostageTypeOK, ClaimInv, StampInv, Steps, Answers, Holding, Using

\* Every step keeps the types.
LEMMA PostageTypeStep == PostageInv /\ [PostageNext]_postageVars => PostageTypeOK'
<1> SUFFICES ASSUME PostageInv, [PostageNext]_postageVars PROVE PostageTypeOK'
  OBVIOUS
<1> USE DEF PostageInv, PostageTypeOK, ClaimInv, StampInv, Goes, Fault, Steps, Answers, Using, Holding, chainVars, Inputs
<1>1. ASSUME NEW r \in Calls, NEW b \in BurnCoins, Submit(r, b) PROVE PostageTypeOK'
  BY <1>1 DEF Submit
<1>2. ASSUME NEW r \in Calls, Proceed(r) PROVE PostageTypeOK'
  <2>1. CASE Check(r)
    BY <2>1 DEF Check
  <2>2. CASE ClaimBurn(r)
    BY <2>2 DEF ClaimBurn
  <2>3. CASE FetchStamp(r)
    BY <2>3 DEF FetchStamp
  <2>4. CASE NoStamp(r)
    BY <2>4 DEF NoStamp
  <2>5. CASE AppendAndSign(r)
    BY <2>5 DEF AppendAndSign
  <2>6. CASE ReturnStamp(r)
    BY <2>6 DEF ReturnStamp
  <2>7. CASE Broadcast(r)
    BY <2>7 DEF Broadcast
  <2>8. CASE BroadcastRejected(r)
    BY <2>8 DEF BroadcastRejected
  <2>9. CASE DropStamp(r)
    BY <2>9 DEF DropStamp
  <2>10. CASE Unclaim(r)
    BY <2>10 DEF Unclaim
  <2> QED
    BY <1>2, <2>1, <2>2, <2>3, <2>4, <2>5, <2>6, <2>7, <2>8, <2>9, <2>10 DEF Proceed
<1>3. ASSUME NEW r \in Calls, Fails(r) PROVE PostageTypeOK'
  BY <1>3 DEF Fails, FetchFails, SignFails, BroadcastUnknown
<1>4. ASSUME NEW r \in Calls, Evict(r) PROVE PostageTypeOK'
  BY <1>4 DEF Evict
<1>5. ASSUME NEW b \in BurnCoins, SpendElsewhere(b) PROVE PostageTypeOK'
  BY <1>5 DEF SpendElsewhere
<1>6. CASE Crash
  BY <1>6 DEF Crash
<1>7. CASE UNCHANGED postageVars
  BY <1>7 DEF postageVars
<1> QED
  BY <1>1, <1>2, <1>3, <1>4, <1>5, <1>6, <1>7 DEF PostageNext

\* Every step keeps a burn with one owner.
LEMMA PostageClaimStep == PostageInv /\ [PostageNext]_postageVars => ClaimInv'
<1> SUFFICES ASSUME PostageInv, [PostageNext]_postageVars PROVE ClaimInv'
  OBVIOUS
<1> USE DEF PostageInv, PostageTypeOK, ClaimInv, Goes, Fault, Steps, Holding, chainVars
<1>1. ASSUME NEW r \in Calls, NEW b \in BurnCoins, Submit(r, b) PROVE ClaimInv'
  BY <1>1 DEF Submit
<1>2. ASSUME NEW r \in Calls, Proceed(r) PROVE ClaimInv'
  <2>1. CASE Check(r)
    BY <2>1 DEF Check
  <2>2. CASE ClaimBurn(r)
    BY <2>2 DEF ClaimBurn
  <2>3. CASE FetchStamp(r)
    BY <2>3 DEF FetchStamp
  <2>4. CASE NoStamp(r)
    BY <2>4 DEF NoStamp
  <2>5. CASE AppendAndSign(r)
    BY <2>5 DEF AppendAndSign
  <2>6. CASE ReturnStamp(r)
    BY <2>6 DEF ReturnStamp
  <2>7. CASE Broadcast(r)
    BY <2>7 DEF Broadcast
  <2>8. CASE BroadcastRejected(r)
    BY <2>8 DEF BroadcastRejected
  <2>9. CASE DropStamp(r)
    BY <2>9 DEF DropStamp
  <2>10. CASE Unclaim(r)
    BY <2>10 DEF Unclaim
  <2> QED
    BY <1>2, <2>1, <2>2, <2>3, <2>4, <2>5, <2>6, <2>7, <2>8, <2>9, <2>10 DEF Proceed
<1>3. ASSUME NEW r \in Calls, Fails(r) PROVE ClaimInv'
  <2>1. CASE FetchFails(r)
    BY <2>1 DEF FetchFails
  <2>2. CASE SignFails(r)
    BY <2>2 DEF SignFails
  <2>3. CASE BroadcastUnknown(r)
    BY <2>3 DEF BroadcastUnknown
  <2> QED
    BY <1>3, <2>1, <2>2, <2>3 DEF Fails
<1>4. ASSUME NEW r \in Calls, Evict(r) PROVE ClaimInv'
  BY <1>4 DEF Evict
<1>5. ASSUME NEW b \in BurnCoins, SpendElsewhere(b) PROVE ClaimInv'
  BY <1>5 DEF SpendElsewhere
<1>6. CASE Crash
  BY <1>6 DEF Crash
<1>7. CASE UNCHANGED postageVars
  BY <1>7 DEF postageVars
<1> QED
  BY <1>1, <1>2, <1>3, <1>4, <1>5, <1>6, <1>7 DEF PostageNext

\* Every step keeps a stamp with one owner.
LEMMA PostageStampStep == PostageInv /\ [PostageNext]_postageVars => StampInv'
<1> SUFFICES ASSUME PostageInv, [PostageNext]_postageVars PROVE StampInv'
  OBVIOUS
<1> USE PostageAssumption DEF PostageInv, PostageTypeOK, StampInv, Goes, Fault, Steps, Using, chainVars
<1>1. ASSUME NEW r \in Calls, NEW b \in BurnCoins, Submit(r, b) PROVE StampInv'
  BY <1>1 DEF Submit, ClaimInv
<1>2. ASSUME NEW r \in Calls, Proceed(r) PROVE StampInv'
  <2>1. CASE Check(r)
    BY <2>1 DEF Check
  <2>2. CASE ClaimBurn(r)
    BY <2>2 DEF ClaimBurn
  <2>3. CASE FetchStamp(r)
    BY <2>3 DEF FetchStamp, ClaimInv, Holding
  <2>4. CASE NoStamp(r)
    BY <2>4 DEF NoStamp
  <2>5. CASE AppendAndSign(r)
    BY <2>5 DEF AppendAndSign
  <2>6. CASE ReturnStamp(r)
    BY <2>6 DEF ReturnStamp, ClaimInv, Holding
  <2>7. CASE Broadcast(r)
    <3>1. burnOf[r] \in BurnCoins
      BY <2>7 DEF Broadcast, ClaimInv
    <3> QED
      BY <2>7, <3>1 DEF Broadcast, Inputs
  <2>8. CASE BroadcastRejected(r)
    BY <2>8 DEF BroadcastRejected
  <2>9. CASE DropStamp(r)
    BY <2>9 DEF DropStamp, ClaimInv, Holding
  <2>10. CASE Unclaim(r)
    BY <2>10 DEF Unclaim
  <2> QED
    BY <1>2, <2>1, <2>2, <2>3, <2>4, <2>5, <2>6, <2>7, <2>8, <2>9, <2>10 DEF Proceed
<1>3. ASSUME NEW r \in Calls, Fails(r) PROVE StampInv'
  <2>1. CASE FetchFails(r)
    BY <2>1 DEF FetchFails
  <2>2. CASE SignFails(r)
    BY <2>2 DEF SignFails
  <2>3. CASE BroadcastUnknown(r)
    <3>1. burnOf[r] \in BurnCoins
      BY <2>3 DEF BroadcastUnknown, ClaimInv
    <3> QED
      BY <2>3, <3>1 DEF BroadcastUnknown, Inputs
  <2> QED
    BY <1>3, <2>1, <2>2, <2>3 DEF Fails
<1>4. ASSUME NEW r \in Calls, Evict(r) PROVE StampInv'
  BY <1>4 DEF Evict
<1>5. ASSUME NEW b \in BurnCoins, SpendElsewhere(b) PROVE StampInv'
  BY <1>5 DEF SpendElsewhere
<1>6. CASE Crash
  BY <1>6 DEF Crash
<1>7. CASE UNCHANGED postageVars
  BY <1>7 DEF postageVars
<1> QED
  BY <1>1, <1>2, <1>3, <1>4, <1>5, <1>6, <1>7 DEF PostageNext

\* coSignPostage(): at every moment a burn and a stamp have one owner each.
THEOREM PostageInvariance == PostageSpec => []PostageInv
<1>1. PostageInv /\ [PostageNext]_postageVars => PostageInv'
  BY PostageTypeStep, PostageClaimStep, PostageStampStep DEF PostageInv
<1> QED
  BY PostageInitInv, <1>1, PTL DEF PostageSpec

\* SPEC.md IV.6: no two stamped transactions of one burn ever leave the service.
THEOREM OneStampPerBurnHolds == PostageSpec => []OneStampPerBurn
<1>1. PostageInv => OneStampPerBurn
  BY DEF PostageInv, PostageTypeOK, ClaimInv, OneStampPerBurn
<1> QED
  BY PostageInvariance, <1>1, PTL

\* No two transactions that leave the service spend one stamp coin.
THEOREM OneBurnPerStampHolds == PostageSpec => []OneBurnPerStamp
<1>1. PostageInv => OneBurnPerStamp
  BY DEF PostageInv, PostageTypeOK, StampInv, OneBurnPerStamp
<1> QED
  BY PostageInvariance, <1>1, PTL

\* A stamp in the pool, or about to be signed, is unspent.
THEOREM StampsAreFreshHolds == PostageSpec => []StampsAreFresh
<1>1. PostageInv => StampsAreFresh
  BY DEF PostageInv, PostageTypeOK, ClaimInv, StampInv, StampsAreFresh, Using, Holding
<1> QED
  BY PostageInvariance, <1>1, PTL
=============================================================================
