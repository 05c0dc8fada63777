--------------------------- MODULE Headroom_proofs ---------------------------
(***************************************************************************)
(* Proofs about the issuance headroom, for every number of deposits, burns *)
(* and issuances, every scale and either direction of the precision, and   *)
(* any number of reconciles: every step preserves HeadroomInv.             *)
(***************************************************************************)
EXTENDS Headroom, SumTheorems

USE HeadroomAssumption

-----------------------------------------------------------------------------
(* The conversion between token units and wrapped units *)

\* Below, C abbreviates collateralToXecUnits in the comments.
LEMMA FloorDiv ==
    ASSUME NEW a \in Int, NEW s \in Nat \ {0}
    PROVE  a \div s \in Int /\ s * (a \div s) <= a /\ a < s * (a \div s) + s
OBVIOUS

\* The quotient is the only integer whose multiple is so close.
LEMMA FloorDivUnique ==
    ASSUME NEW a \in Int, NEW s \in Nat \ {0}, NEW k \in Int, s * k <= a, a < s * k + s
    PROVE  a \div s = k
<1> DEFINE q == a \div s
<1>1. q \in Int /\ s * q <= a /\ a < s * q + s
  BY FloorDiv
<1> HIDE DEF q
<1>2. ASSUME q < k PROVE FALSE
  <2>1. q + 1 <= k
    BY <1>1, <1>2
  <2>2. s * (q + 1) <= s * k /\ s * (q + 1) = s * q + s
    BY <1>1, <2>1
  <2> QED
    BY <1>1, <2>2
<1>3. ASSUME k < q PROVE FALSE
  <2>1. k + 1 <= q
    BY <1>1, <1>3
  <2>2. s * (k + 1) <= s * q /\ s * (k + 1) = s * k + s
    BY <1>1, <2>1
  <2> QED
    BY <1>1, <2>2
<1>4. q = k
  BY <1>1, <1>2, <1>3
<1> QED
  BY <1>4 DEF q

\* Collateral in wrapped units, and it is no less than nothing if the collateral is.
LEMMA UnitsType ==
    ASSUME NEW c \in Int
    PROVE  collateralToXecUnits(c) \in Int /\ (c \in Nat => collateralToXecUnits(c) \in Nat)
<1>1. CASE XecHasMorePrecision
  BY <1>1 DEF collateralToXecUnits
<1>2. CASE ~XecHasMorePrecision
  <2> DEFINE q == c \div Scale
  <2>1. q \in Int /\ Scale * q <= c /\ c < Scale * q + Scale
    BY FloorDiv
  <2> HIDE DEF q
  <2>2. ASSUME c \in Nat, q < 0 PROVE FALSE
    <3>1. Scale * q <= Scale * (-1) /\ Scale * (-1) = -Scale
      BY <2>1, <2>2
    <3> QED
      BY <2>1, <2>2, <3>1
  <2> QED
    BY <1>2, <2>1, <2>2 DEF collateralToXecUnits, q
<1> QED
  BY <1>1, <1>2

\* Converted together, amounts are worth what they are apart, or one unit more.
LEMMA UnitsAdd ==
    ASSUME NEW a \in Int, NEW b \in Int
    PROVE  /\ collateralToXecUnits(a) + collateralToXecUnits(b) <= collateralToXecUnits(a + b)
           /\ collateralToXecUnits(a + b) <= collateralToXecUnits(a) + collateralToXecUnits(b) + 1
<1>1. CASE XecHasMorePrecision
  <2>1. (a + b) * Scale = a * Scale + b * Scale /\ a * Scale \in Int /\ b * Scale \in Int
    OBVIOUS
  <2> QED
    BY <1>1, <2>1 DEF collateralToXecUnits
<1>2. CASE ~XecHasMorePrecision
  <2> DEFINE p == a \div Scale
             q == b \div Scale
             r == (a + b) \div Scale
  <2>1. /\ p \in Int /\ Scale * p <= a /\ a < Scale * p + Scale
        /\ q \in Int /\ Scale * q <= b /\ b < Scale * q + Scale
        /\ r \in Int /\ Scale * r <= a + b /\ a + b < Scale * r + Scale
    BY FloorDiv
  <2> HIDE DEF p, q, r
  <2>2. ASSUME r < p + q PROVE FALSE
    <3>1. r + 1 <= p + q
      BY <2>1, <2>2
    <3>2. Scale * (r + 1) <= Scale * (p + q)
      BY <2>1, <3>1
    <3>3. Scale * (r + 1) = Scale * r + Scale /\ Scale * (p + q) = Scale * p + Scale * q
      BY <2>1
    <3> QED
      BY <2>1, <3>2, <3>3
  <2>3. ASSUME p + q + 1 < r PROVE FALSE
    <3>1. p + q + 2 <= r
      BY <2>1, <2>3
    <3>2. Scale * (p + q + 2) <= Scale * r
      BY <2>1, <3>1
    <3>3. Scale * (p + q + 2) = Scale * p + Scale * q + Scale + Scale
      BY <2>1
    <3> QED
      BY <2>1, <3>2, <3>3
  <2>4. p + q <= r /\ r <= p + q + 1
    BY <2>1, <2>2, <2>3
  <2> QED
    BY <1>2, <2>4 DEF collateralToXecUnits, p, q, r
<1> QED
  BY <1>1, <1>2

\* A release takes from the collateral what it is worth, wherever the collateral stands,
\* and never more than the burn.
LEMMA ReleaseDrop ==
    ASSUME NEW q \in Nat
    PROVE  /\ TokenAmount(q) \in Nat
           /\ \E drop \in 0..q : \A a \in Int :
                  collateralToXecUnits(a - TokenAmount(q)) = collateralToXecUnits(a) - drop
<1>1. CASE XecHasMorePrecision
  <2> DEFINE t == q \div Scale
  <2>1. t \in Int /\ Scale * t <= q /\ q < Scale * t + Scale
    BY FloorDiv
  <2>2. t \in Nat
    BY SMT
  <2> HIDE DEF t
  <2>3. TokenAmount(q) = t
    BY <1>1 DEF TokenAmount, t
  <2>4. t * Scale \in 0..q
    BY <2>1, <2>2
  <2>5. ASSUME NEW a \in Int PROVE (a - t) * Scale = a * Scale - t * Scale
    BY <2>2
  <2> QED
    BY <1>1, <2>2, <2>3, <2>4, <2>5 DEF collateralToXecUnits
<1>2. CASE ~XecHasMorePrecision
  <2>1. TokenAmount(q) = q * Scale /\ q * Scale \in Nat
    BY <1>2 DEF TokenAmount
  <2>2. ASSUME NEW a \in Int PROVE (a - q * Scale) \div Scale = a \div Scale - q
    <3> DEFINE k == a \div Scale
    <3>1. k \in Int /\ Scale * k <= a /\ a < Scale * k + Scale
      BY FloorDiv
    <3> HIDE DEF k
    <3>2. Scale * (k - q) = Scale * k - q * Scale
      BY <3>1
    <3> DEFINE rest == a - q * Scale
               m == k - q
    <3>3. /\ rest \in Int /\ m \in Int
          /\ Scale * m <= rest /\ rest < Scale * m + Scale
      BY <2>1, <3>1, <3>2
    <3> HIDE DEF rest, m
    <3>4. rest \div Scale = m
      BY <3>3, FloorDivUnique
    <3> QED
      BY <3>4 DEF k, rest, m
  <2>3. \A a \in Int : collateralToXecUnits(a - TokenAmount(q)) = collateralToXecUnits(a) - q
    BY <1>2, <2>1, <2>2 DEF collateralToXecUnits
  <2>4. q \in 0..q
    OBVIOUS
  <2> QED
    BY <2>1, <2>3, <2>4
<1> QED
  BY <1>1, <1>2

\* Converted together, many amounts are worth what they are apart, or one unit more each.
LEMMA UnitsSum ==
    ASSUME NEW S, IsFiniteSet(S), NEW f, NEW g, NEW a \in Int,
           \A x \in S : f[x] \in Int /\ g[x] = collateralToXecUnits(f[x]) + 1
    PROVE  collateralToXecUnits(a + SumFunctionOnSet(f, S)) <= collateralToXecUnits(a) + SumFunctionOnSet(g, S)
<1> DEFINE Within(T) == collateralToXecUnits(a + SumFunctionOnSet(f, T))
                            <= collateralToXecUnits(a) + SumFunctionOnSet(g, T)
           G == {T \in SUBSET S : Within(T)}
<1>1. ASSUME NEW T \in SUBSET S, \A x \in T : T \ {x} \in G PROVE Within(T)
  <2>1. CASE T = {}
    BY <2>1, SumEmpty, UnitsType
  <2>2. CASE T # {}
    <3>1. PICK x \in T : TRUE
      BY <2>2
    <3>2. IsFiniteSet(T) /\ IsFiniteSet(T \ {x})
      BY FS_Subset
    <3> DEFINE F == SumFunctionOnSet(f, T \ {x})
               K == SumFunctionOnSet(g, T \ {x})
               C(z) == collateralToXecUnits(z)
    <3>3. f[x] \in Int /\ C(f[x]) \in Int /\ g[x] = C(f[x]) + 1
      BY UnitsType
    <3>4. \A z \in T : f[z] \in Int /\ g[z] \in Int
      BY UnitsType
    <3>5. SumFunctionOnSet(f, T) = f[x] + F /\ SumFunctionOnSet(g, T) = g[x] + K
      BY <3>2, <3>4, SumRemove
    <3>6. F \in Int /\ K \in Int
      BY <3>2, <3>4, SumType
    <3>7. C(a + F) <= C(a) + K
      BY <1>1
    <3> HIDE DEF F, K
    <3>8. a + F \in Int /\ C(a + F) \in Int /\ C(a) \in Int
      BY <3>6, UnitsType
    <3>9. C((a + F) + f[x]) <= C(a + F) + C(f[x]) + 1
      BY <3>3, <3>8, UnitsAdd
    <3>10. (a + F) + f[x] = a + (f[x] + F) /\ C(a + (f[x] + F)) \in Int
      BY <3>3, <3>6, UnitsType
    <3> HIDE DEF C
    <3>11. C(a + (f[x] + F)) <= C(a) + (g[x] + K)
      BY <3>3, <3>6, <3>7, <3>8, <3>9, <3>10
    <3> QED
      BY <3>5, <3>11 DEF C
  <2> QED
    BY <2>1, <2>2
<1>2. \A T \in SUBSET S : T \in G
  <2>1. \A T \in SUBSET S : (\A x \in T : T \ {x} \in G) => T \in G
    <3> HIDE DEF Within
    <3> QED
      BY <1>1
  <2> HIDE DEF G
  <2> QED
    BY <2>1, SetInduction
<1> QED
  BY <1>2

-----------------------------------------------------------------------------
(* The sums, and what one move changes of them *)

\* Every sum is an integer.
LEMMA FigureParts ==
    ASSUME TypeOK
    PROVE  /\ \A d \in Deposits : net[d] \in Nat /\ minting[d] \in Nat /\ blur[d] \in Nat
           /\ \A b \in Burns : burnt[b] \in Nat
           /\ \A i \in Issuances : quantity[i] \in Nat
           /\ SumFunctionOnSet(net, Underway) \in Int
           /\ SumFunctionOnSet(minting, Minted) \in Int
           /\ SumFunctionOnSet(blur, exposed \cap Deposits) \in Int
           /\ SumFunctionOnSet(burnt, Burns) \in Int
           /\ SumFunctionOnSet(burnt, Burns \ released) \in Int
           /\ SumFunctionOnSet(burnt, exposed \cap Burns) \in Int
           /\ SumFunctionOnSet(burnt, exposed \cap LateBurns) \in Int
           /\ SumFunctionOnSet(quantity, issued) \in Int
           /\ SumFunctionOnSet(quantity, Issuances \ issued) \in Int
           /\ SumFunctionOnSet(quantity, exposed \cap Issuances) \in Int
           /\ SumFunctionOnSet(quantity, exposed \cap LateIssuances) \in Int
           /\ balance \in Int /\ rawBurnt \in Int
<1>1. /\ \A d \in Deposits : net[d] \in Nat /\ minting[d] \in Nat /\ blur[d] \in Nat
      /\ \A b \in Burns : burnt[b] \in Nat
      /\ \A i \in Issuances : quantity[i] \in Nat
  BY UnitsType DEF TypeOK, minting, blur
<1>2. ASSUME NEW S, NEW T \in SUBSET S, IsFiniteSet(S), NEW f, \A x \in S : f[x] \in Nat
      PROVE  SumFunctionOnSet(f, T) \in Int
  BY <1>2, FS_Subset, SumType
<1>3. /\ Underway \in SUBSET Deposits /\ Minted \in SUBSET Deposits /\ exposed \cap Deposits \in SUBSET Deposits
      /\ Burns \in SUBSET Burns /\ Burns \ released \in SUBSET Burns
      /\ exposed \cap Burns \in SUBSET Burns /\ exposed \cap LateBurns \in SUBSET Burns
      /\ issued \in SUBSET Issuances /\ Issuances \ issued \in SUBSET Issuances
      /\ exposed \cap Issuances \in SUBSET Issuances /\ exposed \cap LateIssuances \in SUBSET Issuances
  BY DEF Underway, Minted, LateBurns, LateIssuances, TypeOK
<1>4. /\ SumFunctionOnSet(net, Underway) \in Int /\ SumFunctionOnSet(minting, Minted) \in Int
      /\ SumFunctionOnSet(blur, exposed \cap Deposits) \in Int
  BY <1>1, <1>2, <1>3
<1>5. /\ SumFunctionOnSet(burnt, Burns) \in Int /\ SumFunctionOnSet(burnt, Burns \ released) \in Int
      /\ SumFunctionOnSet(burnt, exposed \cap Burns) \in Int /\ SumFunctionOnSet(burnt, exposed \cap LateBurns) \in Int
  BY <1>1, <1>2, <1>3
<1>6. /\ SumFunctionOnSet(quantity, issued) \in Int /\ SumFunctionOnSet(quantity, Issuances \ issued) \in Int
      /\ SumFunctionOnSet(quantity, exposed \cap Issuances) \in Int
      /\ SumFunctionOnSet(quantity, exposed \cap LateIssuances) \in Int
  BY <1>1, <1>2, <1>3
<1> QED
  BY <1>1, <1>4, <1>5, <1>6 DEF TypeOK

\* So is every figure made of them, before a step and after it.
LEMMA FiguresType ==
    TypeOK => /\ Refundable \in Int /\ Supply \in Int /\ Unreleased \in Int /\ Outstanding \in Int
              /\ Blurred \in Int /\ Missed \in Int /\ balance \in Int
BY FigureParts DEF Refundable, Supply, Unreleased, Outstanding, Blurred, Missed

LEMMA FiguresTypeNext ==
    TypeOK' => (/\ Refundable \in Int /\ Supply \in Int /\ Unreleased \in Int /\ Outstanding \in Int
                /\ Blurred \in Int /\ Missed \in Int /\ balance \in Int)'
BY FiguresType, PTL

\* A move of the deposit d.
LEMMA DepositMoves ==
    ASSUME TypeOK, TypeOK', NEW d \in Deposits,
           \A e \in Deposits \ {d} : stage'[e] = stage[e] /\ net'[e] = net[e],
           UNCHANGED <<burnt, released, rawBurnt, issueVars, reconcileVars>>,
           exposed \subseteq exposed' /\ exposed' \subseteq exposed \cup {d}
    PROVE  /\ Supply' = Supply + (Counts(minting', Minted', d) - Counts(minting, Minted, d))
           /\ Refundable' = Refundable + (Counts(net', Underway', d) - Counts(net, Underway, d))
           /\ Unreleased' = Unreleased /\ Outstanding' = Outstanding
           /\ Blurred' = Blurred + (Counts(blur', exposed', d) - Counts(blur, exposed, d))
           /\ Missed' = Missed + (Counts(blur', exposed', d) - Counts(blur, exposed, d))
<1>1. /\ \A e \in Deposits : net[e] \in Int /\ minting[e] \in Int /\ blur[e] \in Int
      /\ \A e \in Deposits : net'[e] \in Int /\ minting'[e] \in Int /\ blur'[e] \in Int
  BY UnitsType DEF TypeOK, minting, blur
<1>2. \A e \in Deposits \ {d} : /\ minting[e] = minting'[e] /\ blur[e] = blur'[e]
                                /\ e \in Minted <=> e \in Minted'
                                /\ e \in Underway <=> e \in Underway'
                                /\ e \in exposed <=> e \in exposed'
  BY DEF minting, blur, Minted, Underway, collateralToXecUnits
<1>3. /\ Minted \in SUBSET Deposits /\ Minted' \in SUBSET Deposits
      /\ Underway \in SUBSET Deposits /\ Underway' \in SUBSET Deposits
  BY DEF Minted, Underway
<1>4. SumFunctionOnSet(minting', Minted') = SumFunctionOnSet(minting, Minted)
                                                + (Counts(minting', Minted', d) - Counts(minting, Minted, d))
  BY <1>1, <1>2, <1>3, SumMove
<1>5. SumFunctionOnSet(net', Underway') = SumFunctionOnSet(net, Underway)
                                                + (Counts(net', Underway', d) - Counts(net, Underway, d))
  BY <1>1, <1>2, <1>3, SumMove
<1>6. SumFunctionOnSet(blur', exposed' \cap Deposits) = SumFunctionOnSet(blur, exposed \cap Deposits)
                                                + (Counts(blur', exposed', d) - Counts(blur, exposed, d))
  <2>1. /\ exposed \cap Deposits \in SUBSET Deposits /\ exposed' \cap Deposits \in SUBSET Deposits
        /\ \A e \in Deposits \ {d} : e \in exposed \cap Deposits <=> e \in exposed' \cap Deposits
    BY <1>2
  <2>2. /\ Counts(blur', exposed' \cap Deposits, d) = Counts(blur', exposed', d)
        /\ Counts(blur, exposed \cap Deposits, d) = Counts(blur, exposed, d)
    BY DEF Counts
  <2> QED
    BY <1>1, <1>2, <2>1, <2>2, SumMove
<1>7. /\ exposed' \cap Burns = exposed \cap Burns /\ exposed' \cap Issuances = exposed \cap Issuances
      /\ exposed' \cap LateBurns' = exposed \cap LateBurns
      /\ exposed' \cap LateIssuances' = exposed \cap LateIssuances
  BY DEF LateBurns, LateIssuances, Pending, reconcileVars, issueVars
<1>8. Unreleased' = Unreleased /\ Outstanding' = Outstanding
  BY DEF Unreleased, Outstanding, issueVars
<1>9. /\ Counts(minting', Minted', d) \in Int /\ Counts(minting, Minted, d) \in Int
      /\ Counts(blur', exposed', d) \in Int /\ Counts(blur, exposed, d) \in Int
  BY <1>1 DEF Counts
<1>10. Supply' = Supply + (Counts(minting', Minted', d) - Counts(minting, Minted, d))
  <2>1. /\ SumFunctionOnSet(quantity, issued)' = SumFunctionOnSet(quantity, issued)
        /\ SumFunctionOnSet(burnt, Burns)' = SumFunctionOnSet(burnt, Burns) /\ rawBurnt' = rawBurnt
    BY DEF issueVars
  <2> QED
    BY <1>4, <1>9, <2>1, FigureParts DEF Supply
<1>11. /\ SumFunctionOnSet(burnt', exposed' \cap Burns) = SumFunctionOnSet(burnt, exposed \cap Burns)
       /\ SumFunctionOnSet(burnt', exposed' \cap LateBurns') = SumFunctionOnSet(burnt, exposed \cap LateBurns)
       /\ SumFunctionOnSet(quantity', exposed' \cap Issuances) = SumFunctionOnSet(quantity, exposed \cap Issuances)
       /\ SumFunctionOnSet(quantity', exposed' \cap LateIssuances')
              = SumFunctionOnSet(quantity, exposed \cap LateIssuances)
  BY <1>7 DEF issueVars
<1>12. Blurred' = Blurred + (Counts(blur', exposed', d) - Counts(blur, exposed, d))
  BY <1>6, <1>9, <1>11, FigureParts DEF Blurred
<1>13. Missed' = Missed + (Counts(blur', exposed', d) - Counts(blur, exposed, d))
  BY <1>6, <1>9, <1>11, FigureParts DEF Missed
<1> QED
  BY <1>5, <1>8, <1>10, <1>12, <1>13 DEF Refundable

\* A move of the burn b.
LEMMA BurnMoves ==
    ASSUME TypeOK, TypeOK', NEW b \in Burns,
           \A c \in Burns \ {b} : burnt'[c] = burnt[c] /\ (c \in released <=> c \in released'),
           UNCHANGED <<stage, net, rawBurnt, issueVars, reconcileVars>>,
           exposed \subseteq exposed' /\ exposed' \subseteq exposed \cup {b}
    PROVE  /\ Supply' = Supply - (burnt'[b] - burnt[b])
           /\ Refundable' = Refundable /\ Outstanding' = Outstanding
           /\ Unreleased' = Unreleased + (Counts(burnt', Burns \ released', b) - Counts(burnt, Burns \ released, b))
           /\ Blurred' = Blurred + (Counts(burnt', exposed', b) - Counts(burnt, exposed, b))
           /\ Missed' = Missed + (Counts(burnt', exposed' \cap LateBurns', b)
                                      - Counts(burnt, exposed \cap LateBurns, b))
<1>1. /\ \A c \in Burns : burnt[c] \in Int /\ burnt'[c] \in Int
      /\ \A c \in Burns \ {b} : burnt[c] = burnt'[c]
  BY DEF TypeOK
<1>2. \A c \in Burns \ {b} : /\ c \in Burns \ released <=> c \in Burns \ released'
                             /\ c \in exposed \cap Burns <=> c \in exposed' \cap Burns
                             /\ c \in exposed \cap LateBurns <=> c \in exposed' \cap LateBurns'
  BY DEF LateBurns, Pending, reconcileVars
<1>3. /\ Burns \in SUBSET Burns
      /\ Burns \ released \in SUBSET Burns /\ Burns \ released' \in SUBSET Burns
      /\ exposed \cap Burns \in SUBSET Burns /\ exposed' \cap Burns \in SUBSET Burns
      /\ exposed \cap LateBurns \in SUBSET Burns /\ exposed' \cap LateBurns' \in SUBSET Burns
  BY DEF LateBurns
<1>4. SumFunctionOnSet(burnt', Burns) = SumFunctionOnSet(burnt, Burns) + (burnt'[b] - burnt[b])
  BY <1>1, SumChange
<1>5. SumFunctionOnSet(burnt', Burns \ released') = SumFunctionOnSet(burnt, Burns \ released)
          + (Counts(burnt', Burns \ released', b) - Counts(burnt, Burns \ released, b))
  BY <1>1, <1>2, <1>3, SumMove
<1>6. SumFunctionOnSet(burnt', exposed' \cap Burns) = SumFunctionOnSet(burnt, exposed \cap Burns)
          + (Counts(burnt', exposed', b) - Counts(burnt, exposed, b))
  <2>1. /\ Counts(burnt', exposed' \cap Burns, b) = Counts(burnt', exposed', b)
        /\ Counts(burnt, exposed \cap Burns, b) = Counts(burnt, exposed, b)
    BY DEF Counts
  <2> QED
    BY <1>1, <1>2, <1>3, <2>1, SumMove
<1>7. SumFunctionOnSet(burnt', exposed' \cap LateBurns') = SumFunctionOnSet(burnt, exposed \cap LateBurns)
          + (Counts(burnt', exposed' \cap LateBurns', b) - Counts(burnt, exposed \cap LateBurns, b))
  BY <1>1, <1>2, <1>3, SumMove
<1>8. minting' = minting /\ Minted' = Minted /\ Underway' = Underway /\ blur' = blur
  BY DEF minting, Minted, Underway, blur
<1>9. Refundable' = Refundable /\ Outstanding' = Outstanding
  BY <1>8 DEF Refundable, Outstanding, issueVars
<1>10. /\ exposed' \cap Deposits = exposed \cap Deposits /\ exposed' \cap Issuances = exposed \cap Issuances
       /\ exposed' \cap LateIssuances' = exposed \cap LateIssuances
  BY DEF LateIssuances, Pending, reconcileVars, issueVars
<1>11. /\ SumFunctionOnSet(blur', exposed' \cap Deposits) = SumFunctionOnSet(blur, exposed \cap Deposits)
       /\ SumFunctionOnSet(quantity', exposed' \cap Issuances) = SumFunctionOnSet(quantity, exposed \cap Issuances)
       /\ SumFunctionOnSet(quantity', exposed' \cap LateIssuances')
              = SumFunctionOnSet(quantity, exposed \cap LateIssuances)
       /\ SumFunctionOnSet(minting', Minted') = SumFunctionOnSet(minting, Minted)
       /\ SumFunctionOnSet(quantity', issued') = SumFunctionOnSet(quantity, issued)
  BY <1>8, <1>10 DEF issueVars
<1>12. /\ burnt'[b] \in Int /\ burnt[b] \in Int
       /\ Counts(burnt', exposed', b) \in Int /\ Counts(burnt, exposed, b) \in Int
       /\ Counts(burnt', exposed' \cap LateBurns', b) \in Int /\ Counts(burnt, exposed \cap LateBurns, b) \in Int
  BY <1>1 DEF Counts
<1>13. Supply' = Supply - (burnt'[b] - burnt[b])
  BY <1>4, <1>11, <1>12, FigureParts DEF Supply
<1>14. Blurred' = Blurred + (Counts(burnt', exposed', b) - Counts(burnt, exposed, b))
  BY <1>6, <1>11, <1>12, FigureParts DEF Blurred
<1>15. Missed' = Missed + (Counts(burnt', exposed' \cap LateBurns', b)
                               - Counts(burnt, exposed \cap LateBurns, b))
  BY <1>7, <1>11, <1>12, FigureParts DEF Missed
<1> QED
  BY <1>5, <1>9, <1>13, <1>14, <1>15 DEF Unreleased

\* A move of the issuance i.
LEMMA IssuanceMoves ==
    ASSUME TypeOK, TypeOK', NEW i \in Issuances,
           \A j \in Issuances \ {i} : quantity'[j] = quantity[j] /\ (j \in issued <=> j \in issued'),
           UNCHANGED <<chainVars, reconcileVars>>,
           exposed \subseteq exposed' /\ exposed' \subseteq exposed \cup {i}
    PROVE  /\ Supply' = Supply + (Counts(quantity', issued', i) - Counts(quantity, issued, i))
           /\ Refundable' = Refundable /\ Unreleased' = Unreleased
           /\ Outstanding' = Outstanding + (Counts(quantity', Issuances \ issued', i)
                                                - Counts(quantity, Issuances \ issued, i))
           /\ Blurred' = Blurred + (Counts(quantity', exposed', i) - Counts(quantity, exposed, i))
           /\ Missed' = Missed + (Counts(quantity', exposed' \cap LateIssuances', i)
                                      - Counts(quantity, exposed \cap LateIssuances, i))
<1>1. /\ \A j \in Issuances : quantity[j] \in Int /\ quantity'[j] \in Int
      /\ \A j \in Issuances \ {i} : quantity[j] = quantity'[j]
  BY DEF TypeOK
<1>2. \A j \in Issuances \ {i} : /\ j \in Issuances \ issued <=> j \in Issuances \ issued'
                                 /\ j \in issued <=> j \in issued'
                                 /\ j \in exposed \cap Issuances <=> j \in exposed' \cap Issuances
                                 /\ j \in exposed \cap LateIssuances <=> j \in exposed' \cap LateIssuances'
  BY DEF LateIssuances, Pending, reconcileVars
<1>3. /\ issued \in SUBSET Issuances /\ issued' \in SUBSET Issuances
      /\ Issuances \ issued \in SUBSET Issuances /\ Issuances \ issued' \in SUBSET Issuances
      /\ exposed \cap Issuances \in SUBSET Issuances /\ exposed' \cap Issuances \in SUBSET Issuances
      /\ exposed \cap LateIssuances \in SUBSET Issuances /\ exposed' \cap LateIssuances' \in SUBSET Issuances
  BY DEF LateIssuances, TypeOK
<1>4. SumFunctionOnSet(quantity', issued') = SumFunctionOnSet(quantity, issued)
          + (Counts(quantity', issued', i) - Counts(quantity, issued, i))
  BY <1>1, <1>2, <1>3, SumMove
<1>5. SumFunctionOnSet(quantity', Issuances \ issued') = SumFunctionOnSet(quantity, Issuances \ issued)
          + (Counts(quantity', Issuances \ issued', i) - Counts(quantity, Issuances \ issued, i))
  BY <1>1, <1>2, <1>3, SumMove
<1>6. SumFunctionOnSet(quantity', exposed' \cap Issuances) = SumFunctionOnSet(quantity, exposed \cap Issuances)
          + (Counts(quantity', exposed', i) - Counts(quantity, exposed, i))
  <2>1. /\ Counts(quantity', exposed' \cap Issuances, i) = Counts(quantity', exposed', i)
        /\ Counts(quantity, exposed \cap Issuances, i) = Counts(quantity, exposed, i)
    BY DEF Counts
  <2> QED
    BY <1>1, <1>2, <1>3, <2>1, SumMove
<1>7. SumFunctionOnSet(quantity', exposed' \cap LateIssuances') = SumFunctionOnSet(quantity, exposed \cap LateIssuances)
          + (Counts(quantity', exposed' \cap LateIssuances', i) - Counts(quantity, exposed \cap LateIssuances, i))
  BY <1>1, <1>2, <1>3, SumMove
<1>8. minting' = minting /\ Minted' = Minted /\ Underway' = Underway /\ blur' = blur
  BY DEF minting, Minted, Underway, blur, chainVars
<1>9. Refundable' = Refundable /\ Unreleased' = Unreleased
  BY <1>8 DEF Refundable, Unreleased, chainVars
<1>10. /\ exposed' \cap Deposits = exposed \cap Deposits /\ exposed' \cap Burns = exposed \cap Burns
       /\ exposed' \cap LateBurns' = exposed \cap LateBurns
  BY DEF LateBurns, Pending, reconcileVars, chainVars
<1>11. /\ SumFunctionOnSet(blur', exposed' \cap Deposits) = SumFunctionOnSet(blur, exposed \cap Deposits)
       /\ SumFunctionOnSet(burnt', exposed' \cap Burns) = SumFunctionOnSet(burnt, exposed \cap Burns)
       /\ SumFunctionOnSet(burnt', exposed' \cap LateBurns') = SumFunctionOnSet(burnt, exposed \cap LateBurns)
       /\ SumFunctionOnSet(minting', Minted') = SumFunctionOnSet(minting, Minted)
       /\ SumFunctionOnSet(burnt', Burns) = SumFunctionOnSet(burnt, Burns) /\ rawBurnt' = rawBurnt
  BY <1>8, <1>10 DEF chainVars
<1>12. /\ Counts(quantity', issued', i) \in Int /\ Counts(quantity, issued, i) \in Int
       /\ Counts(quantity', exposed', i) \in Int /\ Counts(quantity, exposed, i) \in Int
       /\ Counts(quantity', exposed' \cap LateIssuances', i) \in Int
       /\ Counts(quantity, exposed \cap LateIssuances, i) \in Int
  BY <1>1 DEF Counts
<1>13. Supply' = Supply + (Counts(quantity', issued', i) - Counts(quantity, issued, i))
  BY <1>4, <1>11, <1>12, FigureParts DEF Supply
<1>14. Blurred' = Blurred + (Counts(quantity', exposed', i) - Counts(quantity, exposed, i))
  BY <1>6, <1>11, <1>12, FigureParts DEF Blurred
<1>15. Missed' = Missed + (Counts(quantity', exposed' \cap LateIssuances', i)
                               - Counts(quantity, exposed \cap LateIssuances, i))
  BY <1>7, <1>11, <1>12, FigureParts DEF Missed
<1> QED
  BY <1>5, <1>9, <1>13, <1>14, <1>15 DEF Outstanding

-----------------------------------------------------------------------------
(* The initial state and the type *)

LEMMA InitInvariant == Init => HeadroomInv
<1> SUFFICES ASSUME Init PROVE HeadroomInv
  OBVIOUS
<1>1. TypeOK /\ Ordered /\ Estimated
  BY DEF Init, TypeOK, Ordered, Estimated, Reads
<1>2. /\ \A b \in Burns : burnt[b] = 0
      /\ \A i \in Issuances : quantity[i] = 0
      /\ Minted = {} /\ Underway = {} /\ exposed = {} /\ issued = {} /\ released = {}
  BY DEF Init, Minted, Underway
<1>3. Supply = 0 /\ Unreleased = 0 /\ Outstanding = 0 /\ Refundable = 0
  <2>1. Burns \ released = Burns /\ Issuances \ issued = Issuances
    BY <1>2
  <2>2. /\ SumFunctionOnSet(minting, Minted) = 0 /\ SumFunctionOnSet(net, Underway) = 0
        /\ SumFunctionOnSet(quantity, issued) = 0
    BY <1>2, SumEmpty
  <2>3. SumFunctionOnSet(burnt, Burns) = 0 /\ SumFunctionOnSet(quantity, Issuances) = 0
    BY <1>2, SumZero
  <2>4. rawBurnt = 0
    BY DEF Init
  <2> QED
    BY <2>1, <2>2, <2>3, <2>4 DEF Supply, Unreleased, Outstanding, Refundable
<1>4. Blurred = 0
  <2>1. exposed \cap Deposits = {} /\ exposed \cap Burns = {} /\ exposed \cap Issuances = {}
    BY <1>2
  <2> QED
    BY <2>1, SumEmpty DEF Blurred
<1>5. balance = 0 /\ headroom = 0 /\ collateralToXecUnits(0) \in Nat
  BY UnitsType DEF Init
<1>6. Backed
  BY <1>3, <1>4, <1>5 DEF Backed, Claimed
<1> QED
  BY <1>1, <1>6 DEF HeadroomInv

\* Every step keeps the types, and the order in which a burn or an issuance goes.
LEMMA TypeAndOrder == HeadroomInv /\ [Next]_vars => TypeOK' /\ Ordered'
<1> SUFFICES ASSUME HeadroomInv, [Next]_vars PROVE TypeOK' /\ Ordered'
  OBVIOUS
<1> USE DEF HeadroomInv, chainVars, issueVars, reconcileVars
<1>1. ASSUME NEW d \in Deposits, NEW a \in Amounts, Lock(d, a) PROVE TypeOK' /\ Ordered'
  <2>1. a \in Nat
    OBVIOUS
  <2> QED
    BY <1>1, <2>1 DEF Lock, Expose, TypeOK, Ordered
<1>2. ASSUME NEW d \in Deposits, Refund(d) PROVE TypeOK' /\ Ordered'
  BY <1>2 DEF Refund, TypeOK, Ordered
<1>3. ASSUME NEW d \in Deposits, ConfirmAndMint(d) PROVE TypeOK' /\ Ordered'
  BY <1>3 DEF ConfirmAndMint, TypeOK, Ordered
<1>4. ASSUME NEW b \in Burns, NEW q \in Amounts, Burn(b, q) PROVE TypeOK' /\ Ordered'
  <2>1. q \in Nat \ {0}
    OBVIOUS
  <2> QED
    BY <1>4, <2>1 DEF Burn, Expose, TypeOK, Ordered
<1>5. ASSUME NEW q \in Amounts, RawBurn(q) PROVE TypeOK' /\ Ordered'
  <2>1. q \in Nat
    OBVIOUS
  <2> QED
    BY <1>5, <2>1 DEF RawBurn, TypeOK, Ordered
<1>6. ASSUME NEW b \in Burns, Release(b) PROVE TypeOK' /\ Ordered'
  BY <1>6 DEF Release, Expose, TypeOK, Ordered
<1>7. ASSUME NEW i \in Issuances, NEW q \in Amounts, Reserve(i, q) PROVE TypeOK' /\ Ordered'
  <2>1. q \in Nat \ {0}
    OBVIOUS
  <2> QED
    BY <1>7, <2>1 DEF Reserve, Expose, TypeOK, Ordered
<1>8. ASSUME NEW i \in Issuances, MintIssuance(i) PROVE TypeOK' /\ Ordered'
  BY <1>8 DEF MintIssuance, Expose, TypeOK, Ordered
<1>9. CASE ReconcileStart
  BY <1>9 DEF ReconcileStart, Underway, TypeOK, Ordered
<1>10. ASSUME NEW x \in Reads, Answer(x) PROVE TypeOK' /\ Ordered'
  <2>1. collateralToXecUnits(balance) \in Int /\ Supply \in Int /\ Unreleased \in Int
    BY FiguresType, UnitsType
  <2>2. read' \in [Reads -> Int]
    BY <1>10, <2>1, Zenon DEF Answer, TypeOK
  <2> QED
    BY <1>10, <2>2 DEF Answer, TypeOK, Ordered
<1>11. CASE Judge
  BY <1>11 DEF Judge, TypeOK, Ordered
<1>12. CASE ReadOutstanding
  <2>1. Outstanding \in Int
    BY FiguresType
  <2> QED
    BY <1>12, <2>1 DEF ReadOutstanding, TypeOK, Ordered
<1>13. CASE Write
  <2>1. Bound \in Int /\ read["outstanding"] \in Int
    BY DEF Bound, TypeOK, Reads
  <2>2. headroom' \in Nat
    BY <1>13, <2>1 DEF Write
  <2> QED
    BY <1>13, <2>2 DEF Write, TypeOK, Ordered
<1>14. CASE UNCHANGED vars
  BY <1>14 DEF vars, TypeOK, Ordered
<1> QED
  BY <1>1, <1>2, <1>3, <1>4, <1>5, <1>6, <1>7, <1>8, <1>9, <1>10, <1>11, <1>12, <1>13, <1>14
     DEF Next, Chains, Issue, Reconcile

-----------------------------------------------------------------------------
(* What a step outside the reconcile may do to the two inequalities *)

\* The collateral no refund can take, in wrapped units.
Free == collateralToXecUnits(balance - Refundable)

\* It is an integer, like what else the two inequalities compare.
LEMMA FreeType ==
    TypeOK => /\ Free \in Int /\ Claimed \in Int /\ Estimate \in Int /\ collateralToXecUnits(balance) \in Int
<1> SUFFICES ASSUME TypeOK PROVE /\ Free \in Int /\ Claimed \in Int /\ Estimate \in Int
                                 /\ collateralToXecUnits(balance) \in Int
  OBVIOUS
<1>1. /\ Refundable \in Int /\ Supply \in Int /\ Unreleased \in Int /\ Outstanding \in Int /\ balance \in Int
  BY FiguresType
<1>2. Free \in Int /\ collateralToXecUnits(balance) \in Int
  BY <1>1, UnitsType DEF Free
<1>3. \A x \in Reads : read[x] \in Int
  BY DEF TypeOK
<1> QED
  BY <1>1, <1>2, <1>3 DEF Claimed, Estimate, Figure, Reads

\* What is left to read moves with the chain; what is read stays.
LEMMA EstimateMoves ==
    ASSUME TypeOK, TypeOK', UNCHANGED reconcileVars
    PROVE  Estimate' = Estimate
               + (IF Pending("collateral") THEN collateralToXecUnits(balance') - collateralToXecUnits(balance) ELSE 0)
               - (IF Pending("supply") THEN Supply' - Supply ELSE 0)
               - (IF Pending("unreleased") THEN Unreleased' - Unreleased ELSE 0)
               - (IF Pending("outstanding") THEN Outstanding' - Outstanding ELSE 0)
<1> DEFINE c == collateralToXecUnits(balance)
           cN == collateralToXecUnits(balance')
           s == Supply
           sN == Supply'
           u == Unreleased
           uN == Unreleased'
           o == Outstanding
           oN == Outstanding'
<1>1. c \in Int /\ s \in Int /\ u \in Int /\ o \in Int
  BY FiguresType, UnitsType
<1>2. cN \in Int /\ sN \in Int /\ uN \in Int /\ oN \in Int
  <2>1. (Supply \in Int /\ Unreleased \in Int /\ Outstanding \in Int /\ balance \in Int)'
    BY FiguresTypeNext
  <2> QED
    BY <2>1, UnitsType
<1>3. \A x \in Reads : /\ Pending(x)' = Pending(x) /\ read'[x] = read[x] /\ read[x] \in Int
  BY DEF Pending, reconcileVars, TypeOK
<1>4. /\ Estimate = Figure("collateral", c) - Figure("supply", s) - Figure("unreleased", u) - Figure("outstanding", o)
      /\ Estimate' = Figure("collateral", c)' - Figure("supply", s)' - Figure("unreleased", u)'
                          - Figure("outstanding", o)'
  BY DEF Estimate
<1>5. /\ Figure("collateral", c)' = IF Pending("collateral") THEN cN ELSE read["collateral"]
      /\ Figure("supply", s)' = IF Pending("supply") THEN sN ELSE read["supply"]
      /\ Figure("unreleased", u)' = IF Pending("unreleased") THEN uN ELSE read["unreleased"]
      /\ Figure("outstanding", o)' = IF Pending("outstanding") THEN oN ELSE read["outstanding"]
  BY <1>3 DEF Figure, Reads, collateralToXecUnits
<1>6. /\ Figure("collateral", c) = IF Pending("collateral") THEN c ELSE read["collateral"]
      /\ Figure("supply", s) = IF Pending("supply") THEN s ELSE read["supply"]
      /\ Figure("unreleased", u) = IF Pending("unreleased") THEN u ELSE read["unreleased"]
      /\ Figure("outstanding", o) = IF Pending("outstanding") THEN o ELSE read["outstanding"]
  BY DEF Figure
<1>7. /\ read["collateral"] \in Int /\ read["supply"] \in Int /\ read["unreleased"] \in Int
      /\ read["outstanding"] \in Int
  BY <1>3 DEF Reads
<1> DEFINE e == Estimate
           eN == Estimate'
<1>8. /\ e = (IF Pending("collateral") THEN c ELSE read["collateral"]) - (IF Pending("supply") THEN s ELSE read["supply"])
                  - (IF Pending("unreleased") THEN u ELSE read["unreleased"])
                  - (IF Pending("outstanding") THEN o ELSE read["outstanding"])
      /\ eN = (IF Pending("collateral") THEN cN ELSE read["collateral"]) - (IF Pending("supply") THEN sN ELSE read["supply"])
                  - (IF Pending("unreleased") THEN uN ELSE read["unreleased"])
                  - (IF Pending("outstanding") THEN oN ELSE read["outstanding"])
  BY <1>4, <1>5, <1>6
<1> HIDE DEF c, cN, s, sN, u, uN, o, oN, e, eN
<1>9. eN = e + (IF Pending("collateral") THEN cN - c ELSE 0) - (IF Pending("supply") THEN sN - s ELSE 0)
             - (IF Pending("unreleased") THEN uN - u ELSE 0) - (IF Pending("outstanding") THEN oN - o ELSE 0)
  BY <1>1, <1>2, <1>7, <1>8
<1> QED
  BY <1>9 DEF c, cN, s, sN, u, uN, o, oN, e, eN

\* A step keeps both inequalities when it keeps the balance of what it adds on either side:
\* v to the collateral and f to the free collateral, both in wrapped units, s, u and o to the
\* supply, the unreleased and the outstanding, k to the blur, h to the headroom, and m to what
\* the reconcile missed.  A figure that was read no longer follows.
LEMMA BalanceKept ==
    ASSUME HeadroomInv, TypeOK', UNCHANGED reconcileVars,
           NEW v \in Int, NEW f \in Int, NEW s \in Int, NEW u \in Int, NEW o \in Int,
           NEW k \in Int, NEW h \in Int, NEW m \in Int,
           collateralToXecUnits(balance') = collateralToXecUnits(balance) + v, Free' = Free + f,
           Supply' = Supply + s, Unreleased' = Unreleased + u, Outstanding' = Outstanding + o,
           Blurred' = Blurred + k, Missed' = Missed + m, headroom' = headroom + h,
           s + u + o + h <= f + k,
           step # "idle" => (IF Pending("collateral") THEN v ELSE 0) + (IF Pending("supply") THEN 0 ELSE s)
                                + (IF Pending("unreleased") THEN 0 ELSE u) + (IF Pending("outstanding") THEN 0 ELSE o)
                            <= f + m
    PROVE  Backed' /\ Estimated'
<1>1. TypeOK /\ Backed /\ Estimated
  BY DEF HeadroomInv
<1>2. /\ Free \in Int /\ Claimed \in Int /\ Estimate \in Int /\ Blurred \in Int /\ Missed \in Int /\ headroom \in Int
      /\ Supply \in Int /\ Unreleased \in Int /\ Outstanding \in Int /\ collateralToXecUnits(balance) \in Int
  BY <1>1, FreeType, FiguresType DEF TypeOK
<1> DEFINE e == (IF Pending("collateral") THEN v ELSE 0) - (IF Pending("supply") THEN s ELSE 0)
                    - (IF Pending("unreleased") THEN u ELSE 0) - (IF Pending("outstanding") THEN o ELSE 0)
<1>3. Claimed' = Claimed + (s + u + o)
  BY <1>2 DEF Claimed
<1>4. Estimate' = Estimate + e
  <2>1. /\ collateralToXecUnits(balance') - collateralToXecUnits(balance) = v /\ Supply' - Supply = s
        /\ Unreleased' - Unreleased = u /\ Outstanding' - Outstanding = o
    BY <1>2
  <2>2. Estimate' = Estimate + (IF Pending("collateral") THEN v ELSE 0) - (IF Pending("supply") THEN s ELSE 0)
                    - (IF Pending("unreleased") THEN u ELSE 0) - (IF Pending("outstanding") THEN o ELSE 0)
    BY <1>1, <2>1, EstimateMoves
  <2> QED
    BY <1>2, <2>2
<1>5. Free' + Blurred' >= Claimed' + headroom'
  <2>1. Free + Blurred >= Claimed + headroom
    BY <1>1 DEF Backed, Free
  <2> QED
    BY <1>2, <1>3, <2>1
<1>6. step' # "idle" => Estimate' <= Free' - Claimed' + Missed'
  <2>1. step' = step
    BY DEF reconcileVars
  <2>2. step # "idle" => Estimate <= Free - Claimed + Missed
    BY <1>1 DEF Estimated, Free
  <2>3. step # "idle" => e <= f + m - (s + u + o)
    OBVIOUS
  <2>4. e \in Int
    OBVIOUS
  <2> HIDE DEF e
  <2> QED
    BY <1>2, <1>3, <1>4, <2>1, <2>2, <2>3, <2>4
<1>7. headroom' \in Nat
  BY DEF TypeOK
<1> QED
  BY <1>5, <1>6, <1>7 DEF Backed, Estimated, Free

\* A deposit locks as much as it may have to refund; the lock may be read, and the blur is
\* what it is worth and one unit.
LEMMA LockBalances ==
    ASSUME HeadroomInv, TypeOK', NEW d \in Deposits, NEW a \in Amounts, Lock(d, a)
    PROVE  Backed' /\ Estimated'
<1> DEFINE n == collateralToXecUnits(a)
           v == collateralToXecUnits(balance') - collateralToXecUnits(balance)
           m == IF step = "idle" THEN 0 ELSE n + 1
<1>1. TypeOK /\ a \in Nat /\ n \in Nat /\ d \notin exposed
  BY UnitsType DEF HeadroomInv, Ordered, Lock
<1>2. /\ stage[d] = "unknown" /\ stage'[d] = "pending" /\ net'[d] = a /\ balance' = balance + a
      /\ \A x \in Deposits \ {d} : stage'[x] = stage[x] /\ net'[x] = net[x]
      /\ UNCHANGED <<burnt, released, rawBurnt, issueVars, reconcileVars, headroom>>
      /\ exposed' = IF step = "idle" THEN exposed ELSE exposed \cup {d}
  BY <1>1 DEF Lock, Expose, TypeOK
<1>3. /\ Counts(minting, Minted, d) = 0 /\ Counts(minting', Minted', d) = 0
      /\ Counts(net, Underway, d) = 0 /\ Counts(net', Underway', d) = a
      /\ Counts(blur, exposed, d) = 0 /\ Counts(blur', exposed', d) = m
  BY <1>1, <1>2 DEF Counts, Minted, Underway, blur, minting, collateralToXecUnits
<1>4. /\ Refundable \in Int /\ Unreleased \in Int /\ Outstanding \in Int /\ balance \in Int /\ headroom \in Int
      /\ collateralToXecUnits(balance) \in Int /\ collateralToXecUnits(balance') \in Int /\ Free \in Int
  BY <1>1, <1>2, FiguresType, FreeType, UnitsType DEF TypeOK
<1>5. m \in Nat
  BY <1>1
<1>6. v \in Int /\ v <= n + 1
  <2>1. collateralToXecUnits(balance + a) <= collateralToXecUnits(balance) + n + 1
    BY <1>1, <1>4, UnitsAdd
  <2> QED
    BY <1>1, <1>2, <1>4, <2>1
<1>7. step # "idle" => v <= m /\ 0 <= m
  BY <1>1, <1>6
<1> HIDE DEF m
<1>8. /\ Supply' = Supply + (0 - 0) /\ Refundable' = Refundable + (a - 0)
      /\ Unreleased' = Unreleased /\ Outstanding' = Outstanding
      /\ Blurred' = Blurred + (m - 0) /\ Missed' = Missed + (m - 0)
  <2>1. exposed \subseteq exposed' /\ exposed' \subseteq exposed \cup {d}
    BY <1>2
  <2> QED
    BY <1>1, <1>2, <1>3, <2>1, DepositMoves
<1>9. /\ Supply' = Supply + 0 /\ Unreleased' = Unreleased + 0 /\ Outstanding' = Outstanding + 0
      /\ Blurred' = Blurred + m /\ Missed' = Missed + m /\ headroom' = headroom + 0
  BY <1>2, <1>4, <1>5, <1>8
<1>10. Free' = Free + 0
  <2>1. balance' - Refundable' = balance - Refundable
    BY <1>1, <1>2, <1>4, <1>8
  <2> QED
    BY <1>4, <2>1 DEF Free, collateralToXecUnits
<1>11. collateralToXecUnits(balance') = collateralToXecUnits(balance) + v
  BY <1>4
<1> HIDE DEF v
<1>12. step # "idle" => (IF Pending("collateral") THEN v ELSE 0) + (IF Pending("supply") THEN 0 ELSE 0)
                                + (IF Pending("unreleased") THEN 0 ELSE 0) + (IF Pending("outstanding") THEN 0 ELSE 0)
                            <= 0 + m
  BY <1>5, <1>6, <1>7
<1>13. 0 \in Int /\ v \in Int /\ m \in Int /\ 0 + 0 + 0 + 0 <= 0 + m /\ UNCHANGED reconcileVars
  BY <1>2, <1>5, <1>6
<1> QED
  BY <1>9, <1>10, <1>11, <1>12, <1>13, BalanceKept

\* A refund pays out what was set aside for it.
LEMMA RefundBalances ==
    ASSUME HeadroomInv, TypeOK', NEW d \in Deposits, Refund(d)
    PROVE  Backed' /\ Estimated'
<1> DEFINE n == net[d]
           v == collateralToXecUnits(balance') - collateralToXecUnits(balance)
<1>1. TypeOK /\ n \in Nat
  BY DEF HeadroomInv, TypeOK
<1>2. /\ stage[d] = "pending" /\ stage'[d] = "refunded" /\ balance' = balance - n
      /\ \A x \in Deposits \ {d} : stage'[x] = stage[x]
      /\ UNCHANGED <<net, burnt, released, rawBurnt, issueVars, reconcileVars, headroom, exposed>>
  BY <1>1 DEF Refund, TypeOK
<1>3. /\ Counts(minting, Minted, d) = 0 /\ Counts(minting', Minted', d) = 0
      /\ Counts(net, Underway, d) = n /\ Counts(net', Underway', d) = 0
      /\ Counts(blur', exposed', d) = Counts(blur, exposed, d) /\ Counts(blur, exposed, d) \in Int
  <2>1. blur' = blur /\ blur[d] \in Int
    BY <1>1, <1>2, FigureParts DEF blur, minting
  <2> QED
    BY <1>1, <1>2, <2>1 DEF Counts, Minted, Underway
<1>4. /\ Refundable \in Int /\ Unreleased \in Int /\ Outstanding \in Int /\ balance \in Int /\ headroom \in Int
      /\ Supply \in Int /\ Blurred \in Int /\ Missed \in Int
      /\ collateralToXecUnits(balance) \in Int /\ collateralToXecUnits(balance') \in Int /\ Free \in Int
  BY <1>1, <1>2, FiguresType, FreeType, UnitsType DEF TypeOK
<1>5. v \in Int /\ v <= 0
  <2>1. balance - n \in Int /\ (balance - n) + n = balance
    BY <1>1, <1>4
  <2>2. collateralToXecUnits(balance - n) + collateralToXecUnits(n) <= collateralToXecUnits((balance - n) + n)
    BY <1>1, <2>1, UnitsAdd
  <2>3. collateralToXecUnits(n) \in Nat
    BY <1>1, UnitsType
  <2>4. collateralToXecUnits(balance') = collateralToXecUnits(balance - n)
    BY <1>2
  <2>5. collateralToXecUnits(balance - n) + collateralToXecUnits(n) <= collateralToXecUnits(balance)
    BY <2>1, <2>2
  <2> QED
    BY <1>4, <2>3, <2>4, <2>5
<1>6. /\ Supply' = Supply + (0 - 0) /\ Refundable' = Refundable + (0 - n)
      /\ Unreleased' = Unreleased /\ Outstanding' = Outstanding
      /\ Blurred' = Blurred + (Counts(blur, exposed, d) - Counts(blur, exposed, d))
      /\ Missed' = Missed + (Counts(blur, exposed, d) - Counts(blur, exposed, d))
  BY <1>1, <1>2, <1>3, DepositMoves
<1>7. /\ Supply' = Supply + 0 /\ Unreleased' = Unreleased + 0 /\ Outstanding' = Outstanding + 0
      /\ Blurred' = Blurred + 0 /\ Missed' = Missed + 0 /\ headroom' = headroom + 0
  BY <1>2, <1>3, <1>4, <1>6
<1>8. Free' = Free + 0
  <2>1. balance' - Refundable' = balance - Refundable
    BY <1>1, <1>2, <1>4, <1>6
  <2> QED
    BY <1>4, <2>1 DEF Free, collateralToXecUnits
<1>9. collateralToXecUnits(balance') = collateralToXecUnits(balance) + v
  BY <1>4
<1> HIDE DEF v
<1>10. (IF Pending("collateral") THEN v ELSE 0) + (IF Pending("supply") THEN 0 ELSE 0)
           + (IF Pending("unreleased") THEN 0 ELSE 0) + (IF Pending("outstanding") THEN 0 ELSE 0) <= 0 + 0
  BY <1>5
<1>11. 0 \in Int /\ v \in Int /\ 0 + 0 + 0 + 0 <= 0 + 0 /\ UNCHANGED reconcileVars
  BY <1>2, <1>5
<1> QED
  BY <1>7, <1>8, <1>9, <1>10, <1>11, BalanceKept

\* A mint turns what could be refunded into supply, and never for more.
LEMMA ConfirmBalances ==
    ASSUME HeadroomInv, TypeOK', NEW d \in Deposits, ConfirmAndMint(d)
    PROVE  Backed' /\ Estimated'
<1> DEFINE minted == stage[d] = "confirmed"
           n == IF minted THEN net[d] ELSE 0
           s == IF minted THEN minting[d] ELSE 0
           f == Free' - Free
           k == Counts(blur, exposed, d)
<1>1. TypeOK /\ net[d] \in Nat /\ minting[d] \in Nat
  BY FigureParts DEF HeadroomInv
<1>2. /\ stage[d] \in {"pending", "confirmed"}
      /\ stage'[d] = IF minted THEN "minted" ELSE "confirmed"
      /\ \A x \in Deposits \ {d} : stage'[x] = stage[x]
      /\ UNCHANGED <<net, balance, burnt, released, rawBurnt, issueVars, reconcileVars, headroom, exposed>>
  BY <1>1 DEF ConfirmAndMint, TypeOK
<1>3. /\ Counts(minting, Minted, d) = 0 /\ Counts(minting', Minted', d) = s
      /\ Counts(net, Underway, d) - Counts(net', Underway', d) = n
      /\ Counts(net, Underway, d) \in Int /\ Counts(net', Underway', d) \in Int
      /\ Counts(blur', exposed', d) = k /\ k \in Int
  <2>1. blur' = blur /\ blur[d] \in Int /\ minting' = minting
    BY <1>1, <1>2, FigureParts DEF blur, minting
  <2> QED
    BY <1>1, <1>2, <2>1 DEF Counts, Minted, Underway
<1>4. /\ Refundable \in Int /\ Unreleased \in Int /\ Outstanding \in Int /\ balance \in Int /\ headroom \in Int
      /\ Supply \in Int /\ Blurred \in Int /\ Missed \in Int
      /\ collateralToXecUnits(balance) \in Int /\ Free \in Int
  BY <1>1, <1>2, FiguresType, FreeType, UnitsType DEF TypeOK
<1>5. n \in Nat /\ s \in Nat /\ s = (IF minted THEN collateralToXecUnits(net[d]) ELSE 0)
  BY <1>1 DEF minting
<1> HIDE DEF s, k
<1>6. /\ Supply' = Supply + (s - 0)
      /\ Refundable' = Refundable + (Counts(net', Underway', d) - Counts(net, Underway, d))
      /\ Unreleased' = Unreleased /\ Outstanding' = Outstanding
      /\ Blurred' = Blurred + (k - k) /\ Missed' = Missed + (k - k)
  BY <1>1, <1>2, <1>3, DepositMoves DEF k
<1>7. /\ Supply' = Supply + s /\ Unreleased' = Unreleased + 0 /\ Outstanding' = Outstanding + 0
      /\ Blurred' = Blurred + 0 /\ Missed' = Missed + 0 /\ headroom' = headroom + 0
      /\ Refundable' = Refundable - n
  BY <1>2, <1>3, <1>4, <1>5, <1>6
<1>8. Free' \in Int /\ Free + s <= Free'
  <2>1. balance' - Refundable' = (balance - Refundable) + n /\ balance - Refundable \in Int
    BY <1>2, <1>4, <1>5, <1>7
  <2>2. Free' = collateralToXecUnits((balance - Refundable) + n)
    BY <2>1 DEF Free, collateralToXecUnits
  <2>3. CASE minted
    <3>1. n = net[d] /\ s = collateralToXecUnits(n) /\ n \in Int
      BY <1>5, <2>3
    <3> DEFINE x == balance - Refundable
    <3>2. collateralToXecUnits(x) + collateralToXecUnits(n) <= collateralToXecUnits(x + n)
      BY <2>1, <3>1, UnitsAdd
    <3>3. collateralToXecUnits(x + n) \in Int
      BY <2>1, <3>1, UnitsType
    <3> QED
      BY <2>2, <3>1, <3>2, <3>3 DEF Free
  <2>4. CASE ~minted
    <3>1. (balance - Refundable) + n = balance - Refundable
      BY <2>1, <2>4
    <3>2. Free' = Free
      BY <2>2, <3>1 DEF Free
    <3> QED
      BY <1>4, <1>5, <2>4, <3>2
  <2> QED
    BY <2>3, <2>4
<1>9. Free' = Free + f /\ f \in Int /\ s <= f
  <2> DEFINE x == Free
             xN == Free'
  <2>1. x \in Int /\ xN \in Int /\ s \in Int /\ x + s <= xN
    BY <1>4, <1>5, <1>8
  <2> HIDE DEF x, xN
  <2>2. xN = x + (xN - x) /\ xN - x \in Int /\ s <= xN - x
    BY <2>1
  <2> QED
    BY <2>2 DEF x, xN
<1>10. collateralToXecUnits(balance') = collateralToXecUnits(balance) + 0
  BY <1>2, <1>4 DEF collateralToXecUnits
<1> HIDE DEF f
<1>11. (IF Pending("collateral") THEN 0 ELSE 0) + (IF Pending("supply") THEN 0 ELSE s)
           + (IF Pending("unreleased") THEN 0 ELSE 0) + (IF Pending("outstanding") THEN 0 ELSE 0) <= f + 0
  BY <1>5, <1>9
<1>12. /\ 0 \in Int /\ s \in Int /\ f \in Int /\ s + 0 + 0 + 0 <= f + 0 /\ UNCHANGED reconcileVars
  BY <1>2, <1>5, <1>9
<1> QED
  BY <1>7, <1>9, <1>10, <1>11, <1>12, BalanceKept

\* A burn moves supply into what is unreleased: a reconcile that read the burns before it and
\* the supply after counts it nowhere, for its quantity and no more.
LEMMA BurnBalances ==
    ASSUME HeadroomInv, TypeOK', NEW b \in Burns, NEW q \in Amounts, Burn(b, q)
    PROVE  Backed' /\ Estimated'
<1> DEFINE k == Counts(burnt', exposed', b)
           m == Counts(burnt', exposed' \cap LateBurns', b)
<1>1. TypeOK /\ Ordered /\ q \in Nat /\ burnt[b] = 0 /\ b \notin released
  BY DEF HeadroomInv, Ordered, Burn
<1>2. /\ burnt'[b] = q /\ \A c \in Burns \ {b} : burnt'[c] = burnt[c]
      /\ UNCHANGED <<stage, net, balance, released, rawBurnt, issueVars, reconcileVars, headroom>>
      /\ exposed' = IF step = "idle" THEN exposed ELSE exposed \cup {b}
  BY <1>1 DEF Burn, Expose, TypeOK
<1>3. /\ Counts(burnt, exposed, b) = 0 /\ Counts(burnt, exposed \cap LateBurns, b) = 0
      /\ Counts(burnt, Burns \ released, b) = 0 /\ Counts(burnt', Burns \ released', b) = q
      /\ k \in Nat /\ m \in Nat
      /\ step # "idle" /\ ~Pending("unreleased") => m = q
  BY <1>1, <1>2 DEF Counts, LateBurns, Pending, reconcileVars
<1>4. /\ Refundable \in Int /\ Unreleased \in Int /\ Outstanding \in Int /\ headroom \in Int
      /\ Supply \in Int /\ collateralToXecUnits(balance) \in Int /\ Free \in Int
  BY <1>1, FiguresType, FreeType, UnitsType DEF TypeOK
<1> HIDE DEF k, m
<1>5. /\ Supply' = Supply - (q - 0) /\ Refundable' = Refundable /\ Unreleased' = Unreleased + (q - 0)
      /\ Outstanding' = Outstanding /\ Blurred' = Blurred + (k - 0) /\ Missed' = Missed + (m - 0)
  <2>1. exposed \subseteq exposed' /\ exposed' \subseteq exposed \cup {b}
    BY <1>2
  <2>2. \A c \in Burns \ {b} : burnt'[c] = burnt[c] /\ (c \in released <=> c \in released')
    BY <1>2
  <2> QED
    BY <1>1, <1>2, <1>3, <2>1, <2>2, BurnMoves DEF k, m
<1>6. /\ Supply' = Supply + (-q) /\ Unreleased' = Unreleased + q /\ Outstanding' = Outstanding + 0
      /\ Blurred' = Blurred + k /\ Missed' = Missed + m /\ headroom' = headroom + 0
  BY <1>1, <1>2, <1>3, <1>4, <1>5
<1>7. Free' = Free + 0 /\ collateralToXecUnits(balance') = collateralToXecUnits(balance) + 0
  <2>1. Free' = Free /\ collateralToXecUnits(balance') = collateralToXecUnits(balance)
    BY <1>2, <1>5 DEF Free, collateralToXecUnits
  <2> QED
    BY <1>4, <2>1
<1>8. step # "idle" => (IF Pending("collateral") THEN 0 ELSE 0) + (IF Pending("supply") THEN 0 ELSE -q)
           + (IF Pending("unreleased") THEN 0 ELSE q) + (IF Pending("outstanding") THEN 0 ELSE 0) <= 0 + m
  BY <1>1, <1>3
<1>9. /\ 0 \in Int /\ -q \in Int /\ q \in Int /\ k \in Int /\ m \in Int /\ (-q) + q + 0 + 0 <= 0 + k
      /\ UNCHANGED reconcileVars
  BY <1>1, <1>2, <1>3
<1> QED
  BY <1>6, <1>7, <1>8, <1>9, BalanceKept

\* Tokens destroyed without a bridge burn only free collateral.
LEMMA RawBurnBalances ==
    ASSUME HeadroomInv, TypeOK', NEW q \in Amounts, RawBurn(q)
    PROVE  Backed' /\ Estimated'
<1>1. TypeOK /\ q \in Nat
  BY DEF HeadroomInv
<1>2. /\ rawBurnt' = rawBurnt + q
      /\ UNCHANGED <<stage, net, balance, burnt, released, issueVars, headroom, reconcileVars, exposed>>
  BY DEF RawBurn
<1>3. /\ Refundable \in Int /\ Unreleased \in Int /\ Outstanding \in Int /\ headroom \in Int
      /\ Blurred \in Int /\ Missed \in Int
      /\ Supply \in Int /\ collateralToXecUnits(balance) \in Int /\ Free \in Int
  BY <1>1, FiguresType, FreeType, UnitsType DEF TypeOK
<1>4. /\ minting' = minting /\ Minted' = Minted /\ Underway' = Underway /\ blur' = blur
      /\ LateBurns' = LateBurns /\ LateIssuances' = LateIssuances
  BY <1>2 DEF minting, Minted, Underway, blur, LateBurns, LateIssuances, Pending, issueVars, reconcileVars
<1>5. /\ Refundable' = Refundable /\ Unreleased' = Unreleased /\ Outstanding' = Outstanding
      /\ Blurred' = Blurred /\ Missed' = Missed
  BY <1>2, <1>4 DEF Refundable, Unreleased, Outstanding, Blurred, Missed, issueVars
<1>6. Supply' = Supply + (-q)
  <2>1. /\ SumFunctionOnSet(minting', Minted') = SumFunctionOnSet(minting, Minted)
        /\ SumFunctionOnSet(quantity', issued') = SumFunctionOnSet(quantity, issued)
        /\ SumFunctionOnSet(burnt', Burns) = SumFunctionOnSet(burnt, Burns)
    BY <1>2, <1>4 DEF issueVars
  <2> QED
    BY <1>1, <1>2, <2>1, FigureParts DEF Supply
<1>7. Free' = Free /\ collateralToXecUnits(balance') = collateralToXecUnits(balance)
  BY <1>2, <1>5 DEF Free, collateralToXecUnits
<1>8. /\ Free' = Free + 0 /\ collateralToXecUnits(balance') = collateralToXecUnits(balance) + 0
      /\ Unreleased' = Unreleased + 0 /\ Outstanding' = Outstanding + 0
      /\ Blurred' = Blurred + 0 /\ Missed' = Missed + 0 /\ headroom' = headroom + 0
  BY <1>2, <1>3, <1>5, <1>7
<1>9. (IF Pending("collateral") THEN 0 ELSE 0) + (IF Pending("supply") THEN 0 ELSE -q)
           + (IF Pending("unreleased") THEN 0 ELSE 0) + (IF Pending("outstanding") THEN 0 ELSE 0) <= 0 + 0
  BY <1>1
<1>10. 0 \in Int /\ -q \in Int /\ (-q) + 0 + 0 + 0 <= 0 + 0 /\ UNCHANGED reconcileVars
  BY <1>1, <1>2
<1> QED
  BY <1>6, <1>8, <1>9, <1>10, BalanceKept

\* A release pays out what the burn had set aside: a reconcile that read the collateral
\* before it and the burns after counts it twice.
LEMMA ReleaseBalances ==
    ASSUME HeadroomInv, TypeOK', NEW b \in Burns, Release(b)
    PROVE  Backed' /\ Estimated'
<1> DEFINE q == burnt[b]
           k == Counts(burnt', exposed', b) - Counts(burnt, exposed, b)
           m == Counts(burnt', exposed' \cap LateBurns', b) - Counts(burnt, exposed \cap LateBurns, b)
<1>1. TypeOK /\ q \in Nat /\ b \notin released
  BY DEF HeadroomInv, TypeOK, Release
<1>2. /\ balance' = balance - TokenAmount(q) /\ released' = released \cup {b}
      /\ UNCHANGED <<stage, net, burnt, rawBurnt, issueVars, reconcileVars, headroom>>
      /\ exposed' = IF step = "idle" THEN exposed ELSE exposed \cup {b}
  BY DEF Release, Expose
<1>3. PICK drop \in 0..q : \A a \in Int :
          collateralToXecUnits(a - TokenAmount(q)) = collateralToXecUnits(a) - drop
  BY <1>1, ReleaseDrop
<1>4. drop \in Nat /\ drop <= q
  BY <1>1
<1>5. /\ Counts(burnt, Burns \ released, b) = q /\ Counts(burnt', Burns \ released', b) = 0
      /\ k \in Nat /\ m \in Nat
      /\ step # "idle" /\ Pending("unreleased") => m = q
      /\ Counts(burnt', exposed', b) \in Int /\ Counts(burnt, exposed, b) \in Int
  BY <1>1, <1>2 DEF Counts, LateBurns, Pending, reconcileVars
<1>6. /\ Refundable \in Int /\ Unreleased \in Int /\ Outstanding \in Int /\ headroom \in Int /\ balance \in Int
      /\ Supply \in Int /\ collateralToXecUnits(balance) \in Int /\ Free \in Int /\ TokenAmount(q) \in Nat
  <2>1. TokenAmount(q) \in Nat
    BY <1>1, ReleaseDrop
  <2> HIDE DEF q
  <2> QED
    BY <1>1, <2>1, FiguresType, FreeType, UnitsType DEF TypeOK
<1>7. /\ Supply' = Supply - (burnt'[b] - burnt[b]) /\ Refundable' = Refundable
      /\ Unreleased' = Unreleased + (0 - q)
      /\ Outstanding' = Outstanding /\ Blurred' = Blurred + k /\ Missed' = Missed + m
  <2>1. exposed \subseteq exposed' /\ exposed' \subseteq exposed \cup {b}
    BY <1>2
  <2>2. \A c \in Burns \ {b} : burnt'[c] = burnt[c] /\ (c \in released <=> c \in released')
    BY <1>2
  <2> QED
    BY <1>1, <1>2, <1>5, <2>1, <2>2, BurnMoves
<1> HIDE DEF k, m
<1>8. /\ Supply' = Supply + 0 /\ Unreleased' = Unreleased + (-q) /\ Outstanding' = Outstanding + 0
      /\ headroom' = headroom + 0
  BY <1>1, <1>2, <1>6, <1>7
<1>9. collateralToXecUnits(balance') = collateralToXecUnits(balance) + (-drop)
  <2>1. collateralToXecUnits(balance') = collateralToXecUnits(balance - TokenAmount(q))
    BY <1>2
  <2> QED
    BY <1>3, <1>4, <1>6, <2>1
<1>10. Free' = Free + (-drop)
  <2>1. balance' - Refundable' = (balance - Refundable) - TokenAmount(q) /\ balance - Refundable \in Int
    BY <1>2, <1>6, <1>7
  <2>2. Free' = collateralToXecUnits((balance - Refundable) - TokenAmount(q))
    BY <2>1 DEF Free, collateralToXecUnits
  <2> QED
    BY <1>3, <1>4, <1>6, <2>1, <2>2 DEF Free
<1> HIDE DEF q
<1>11. step # "idle" => (IF Pending("collateral") THEN -drop ELSE 0) + (IF Pending("supply") THEN 0 ELSE 0)
           + (IF Pending("unreleased") THEN 0 ELSE -q) + (IF Pending("outstanding") THEN 0 ELSE 0) <= (-drop) + m
  BY <1>1, <1>4, <1>5
<1>12. /\ 0 \in Int /\ -q \in Int /\ -drop \in Int /\ k \in Int /\ m \in Int /\ 0 + (-q) + 0 + 0 <= (-drop) + k
       /\ UNCHANGED reconcileVars
  BY <1>1, <1>2, <1>4, <1>5
<1> QED
  BY <1>7, <1>8, <1>9, <1>10, <1>11, <1>12, BalanceKept

\* A reservation moves headroom into what is outstanding.
LEMMA ReserveBalances ==
    ASSUME HeadroomInv, TypeOK', NEW i \in Issuances, NEW q \in Amounts, Reserve(i, q)
    PROVE  Backed' /\ Estimated'
<1> DEFINE k == Counts(quantity', exposed', i)
           m == Counts(quantity', exposed' \cap LateIssuances', i)
<1>1. TypeOK /\ q \in Nat /\ quantity[i] = 0 /\ i \notin issued
  BY DEF HeadroomInv, Ordered, Reserve
<1>2. /\ quantity'[i] = q /\ \A j \in Issuances \ {i} : quantity'[j] = quantity[j]
      /\ headroom' = headroom - q
      /\ UNCHANGED <<chainVars, issued, reconcileVars>>
      /\ exposed' = IF step = "idle" THEN exposed ELSE exposed \cup {i}
  BY <1>1 DEF Reserve, Expose, TypeOK
<1>3. /\ Counts(quantity, exposed, i) = 0 /\ Counts(quantity, exposed \cap LateIssuances, i) = 0
      /\ Counts(quantity, issued, i) = 0 /\ Counts(quantity', issued', i) = 0
      /\ Counts(quantity, Issuances \ issued, i) = 0 /\ Counts(quantity', Issuances \ issued', i) = q
      /\ k \in Nat /\ m \in Nat
      /\ step # "idle" /\ ~Pending("outstanding") => m = q
  BY <1>1, <1>2 DEF Counts, LateIssuances, Pending, reconcileVars
<1>4. /\ Refundable \in Int /\ Unreleased \in Int /\ Outstanding \in Int /\ headroom \in Int
      /\ Supply \in Int /\ collateralToXecUnits(balance) \in Int /\ Free \in Int
  BY <1>1, FiguresType, FreeType, UnitsType DEF TypeOK
<1> HIDE DEF k, m
<1>5. /\ Supply' = Supply + (0 - 0) /\ Refundable' = Refundable /\ Unreleased' = Unreleased
      /\ Outstanding' = Outstanding + (q - 0) /\ Blurred' = Blurred + (k - 0) /\ Missed' = Missed + (m - 0)
  <2>1. exposed \subseteq exposed' /\ exposed' \subseteq exposed \cup {i}
    BY <1>2
  <2>2. \A j \in Issuances \ {i} : quantity'[j] = quantity[j] /\ (j \in issued <=> j \in issued')
    BY <1>2
  <2> QED
    BY <1>1, <1>2, <1>3, <2>1, <2>2, IssuanceMoves DEF k, m
<1>6. /\ Supply' = Supply + 0 /\ Unreleased' = Unreleased + 0 /\ Outstanding' = Outstanding + q
      /\ Blurred' = Blurred + k /\ Missed' = Missed + m /\ headroom' = headroom + (-q)
  BY <1>1, <1>2, <1>3, <1>4, <1>5
<1>7. Free' = Free + 0 /\ collateralToXecUnits(balance') = collateralToXecUnits(balance) + 0
  <2>1. Free' = Free /\ collateralToXecUnits(balance') = collateralToXecUnits(balance)
    BY <1>2, <1>5 DEF Free, collateralToXecUnits, chainVars
  <2> QED
    BY <1>4, <2>1
<1>8. step # "idle" => (IF Pending("collateral") THEN 0 ELSE 0) + (IF Pending("supply") THEN 0 ELSE 0)
           + (IF Pending("unreleased") THEN 0 ELSE 0) + (IF Pending("outstanding") THEN 0 ELSE q) <= 0 + m
  BY <1>1, <1>3
<1>9. /\ 0 \in Int /\ -q \in Int /\ q \in Int /\ k \in Int /\ m \in Int /\ 0 + 0 + q + (-q) <= 0 + k
      /\ UNCHANGED reconcileVars
  BY <1>1, <1>2, <1>3
<1> QED
  BY <1>6, <1>7, <1>8, <1>9, BalanceKept

\* A mint against a reservation turns what is outstanding into supply; the supply is read
\* before what is outstanding, so a reconcile may count it nowhere, and never twice.
LEMMA IssuanceBalances ==
    ASSUME HeadroomInv, TypeOK', NEW i \in Issuances, MintIssuance(i)
    PROVE  Backed' /\ Estimated'
<1> DEFINE q == quantity[i]
           k == Counts(quantity', exposed', i) - Counts(quantity, exposed, i)
           m == Counts(quantity', exposed' \cap LateIssuances', i) - Counts(quantity, exposed \cap LateIssuances, i)
<1>1. TypeOK /\ q \in Nat /\ i \notin issued
  BY DEF HeadroomInv, TypeOK, MintIssuance
<1>2. /\ issued' = issued \cup {i}
      /\ UNCHANGED <<chainVars, quantity, headroom, reconcileVars>>
      /\ exposed' = IF step = "idle" THEN exposed ELSE exposed \cup {i}
  BY DEF MintIssuance, Expose
<1>3. /\ Counts(quantity, issued, i) = 0 /\ Counts(quantity', issued', i) = q
      /\ Counts(quantity, Issuances \ issued, i) = q /\ Counts(quantity', Issuances \ issued', i) = 0
      /\ k \in Nat /\ m \in Nat
      /\ step # "idle" /\ Pending("outstanding") => m = q
  BY <1>1, <1>2 DEF Counts, LateIssuances, Pending, reconcileVars
<1>4. step # "idle" /\ ~Pending("outstanding") => ~Pending("supply")
  BY <1>1 DEF Pending, TypeOK
<1>5. /\ Refundable \in Int /\ Unreleased \in Int /\ Outstanding \in Int /\ headroom \in Int
      /\ Supply \in Int /\ collateralToXecUnits(balance) \in Int /\ Free \in Int
  BY <1>1, FiguresType, FreeType, UnitsType DEF TypeOK
<1>6. /\ Supply' = Supply + (q - 0) /\ Refundable' = Refundable /\ Unreleased' = Unreleased
      /\ Outstanding' = Outstanding + (0 - q) /\ Blurred' = Blurred + k /\ Missed' = Missed + m
  <2>1. exposed \subseteq exposed' /\ exposed' \subseteq exposed \cup {i}
    BY <1>2
  <2>2. \A j \in Issuances \ {i} : quantity'[j] = quantity[j] /\ (j \in issued <=> j \in issued')
    BY <1>2
  <2> QED
    BY <1>1, <1>2, <1>3, <2>1, <2>2, IssuanceMoves
<1> HIDE DEF q, k, m
<1>7. /\ Supply' = Supply + q /\ Unreleased' = Unreleased + 0 /\ Outstanding' = Outstanding + (-q)
      /\ headroom' = headroom + 0
  BY <1>1, <1>2, <1>5, <1>6
<1>8. Free' = Free + 0 /\ collateralToXecUnits(balance') = collateralToXecUnits(balance) + 0
  <2>1. Free' = Free /\ collateralToXecUnits(balance') = collateralToXecUnits(balance)
    BY <1>2, <1>6 DEF Free, collateralToXecUnits, chainVars
  <2> QED
    BY <1>5, <2>1
<1>9. step # "idle" => (IF Pending("collateral") THEN 0 ELSE 0) + (IF Pending("supply") THEN 0 ELSE q)
           + (IF Pending("unreleased") THEN 0 ELSE 0) + (IF Pending("outstanding") THEN 0 ELSE -q) <= 0 + m
  BY <1>1, <1>3, <1>4
<1>10. /\ 0 \in Int /\ -q \in Int /\ q \in Int /\ k \in Int /\ m \in Int /\ q + 0 + (-q) + 0 <= 0 + k
       /\ UNCHANGED reconcileVars
  BY <1>1, <1>2, <1>3
<1> QED
  BY <1>6, <1>7, <1>8, <1>9, <1>10, BalanceKept

-----------------------------------------------------------------------------
(* The steps of the reconcile *)

\* More exposed, or more of it late: what may be blurred and what may be missed only grow.
LEMMA BlurGrows ==
    ASSUME TypeOK, TypeOK', UNCHANGED <<chainVars, issueVars>>, exposed \subseteq exposed'
    PROVE  /\ Blurred <= Blurred'
           /\ (LateBurns \subseteq LateBurns' /\ LateIssuances \subseteq LateIssuances' => Missed <= Missed')
<1>1. minting' = minting /\ blur' = blur /\ burnt' = burnt /\ quantity' = quantity
  BY DEF minting, blur, chainVars, issueVars
<1>2. /\ \A d \in Deposits : blur[d] \in Nat
      /\ \A b \in Burns : burnt[b] \in Nat
      /\ \A i \in Issuances : quantity[i] \in Nat
  BY FigureParts
<1>3. ASSUME NEW D, IsFiniteSet(D), NEW f, \A x \in D : f[x] \in Nat,
             NEW S, NEW T, S \subseteq T, T \subseteq D
      PROVE  SumFunctionOnSet(f, S) \in Int /\ SumFunctionOnSet(f, T) \in Int
             /\ SumFunctionOnSet(f, S) <= SumFunctionOnSet(f, T)
  BY <1>3, FS_Subset, SumGrows
<1>4. /\ SumFunctionOnSet(blur, exposed \cap Deposits) \in Int
      /\ SumFunctionOnSet(blur', exposed' \cap Deposits) \in Int
      /\ SumFunctionOnSet(blur, exposed \cap Deposits) <= SumFunctionOnSet(blur', exposed' \cap Deposits)
  BY <1>1, <1>2, <1>3
<1>5. /\ SumFunctionOnSet(burnt, exposed \cap Burns) \in Int
      /\ SumFunctionOnSet(burnt', exposed' \cap Burns) \in Int
      /\ SumFunctionOnSet(burnt, exposed \cap Burns) <= SumFunctionOnSet(burnt', exposed' \cap Burns)
  BY <1>1, <1>2, <1>3
<1>6. /\ SumFunctionOnSet(quantity, exposed \cap Issuances) \in Int
      /\ SumFunctionOnSet(quantity', exposed' \cap Issuances) \in Int
      /\ SumFunctionOnSet(quantity, exposed \cap Issuances) <= SumFunctionOnSet(quantity', exposed' \cap Issuances)
  BY <1>1, <1>2, <1>3
<1>7. Blurred <= Blurred'
  BY <1>4, <1>5, <1>6 DEF Blurred
<1>8. ASSUME LateBurns \subseteq LateBurns', LateIssuances \subseteq LateIssuances' PROVE Missed <= Missed'
  <2>1. /\ exposed' \cap LateBurns' \subseteq Burns /\ exposed' \cap LateIssuances' \subseteq Issuances
        /\ exposed \cap LateBurns \subseteq exposed' \cap LateBurns'
        /\ exposed \cap LateIssuances \subseteq exposed' \cap LateIssuances'
    BY <1>8 DEF LateBurns, LateIssuances
  <2>2. /\ SumFunctionOnSet(burnt, exposed \cap LateBurns) \in Int
        /\ SumFunctionOnSet(burnt', exposed' \cap LateBurns') \in Int
        /\ SumFunctionOnSet(burnt, exposed \cap LateBurns) <= SumFunctionOnSet(burnt', exposed' \cap LateBurns')
    BY <1>1, <1>2, <1>3, <2>1
  <2>3. /\ SumFunctionOnSet(quantity, exposed \cap LateIssuances) \in Int
        /\ SumFunctionOnSet(quantity', exposed' \cap LateIssuances') \in Int
        /\ SumFunctionOnSet(quantity, exposed \cap LateIssuances)
               <= SumFunctionOnSet(quantity', exposed' \cap LateIssuances')
    BY <1>1, <1>2, <1>3, <2>1
  <2> QED
    BY <1>4, <2>2, <2>3 DEF Missed
<1> QED
  BY <1>7, <1>8

\* What was missed is part of what is blurred.
LEMMA MissedIsBlurred == TypeOK => Missed <= Blurred
<1> SUFFICES ASSUME TypeOK PROVE Missed <= Blurred
  OBVIOUS
<1>1. /\ \A b \in Burns : burnt[b] \in Nat
      /\ \A i \in Issuances : quantity[i] \in Nat
  BY FigureParts
<1>2. ASSUME NEW D, IsFiniteSet(D), NEW f, \A x \in D : f[x] \in Nat,
             NEW S, NEW T, S \subseteq T, T \subseteq D
      PROVE  SumFunctionOnSet(f, S) <= SumFunctionOnSet(f, T)
  BY <1>2, FS_Subset, SumGrows
<1>3. /\ SumFunctionOnSet(burnt, exposed \cap LateBurns) <= SumFunctionOnSet(burnt, exposed \cap Burns)
      /\ SumFunctionOnSet(quantity, exposed \cap LateIssuances) <= SumFunctionOnSet(quantity, exposed \cap Issuances)
  <2>1. exposed \cap LateBurns \subseteq exposed \cap Burns /\ exposed \cap LateIssuances \subseteq exposed \cap Issuances
    BY DEF LateBurns, LateIssuances
  <2> QED
    BY <1>1, <1>2, <2>1
<1> QED
  BY <1>3, FigureParts DEF Missed, Blurred

\* When the chains and the store stay, so do the figures.
LEMMA FiguresStay ==
    ASSUME TypeOK, UNCHANGED <<chainVars, issueVars>>
    PROVE  /\ Free' = Free /\ Claimed' = Claimed
           /\ Supply' = Supply /\ Unreleased' = Unreleased /\ Outstanding' = Outstanding
           /\ collateralToXecUnits(balance)' = collateralToXecUnits(balance)
<1>1. minting' = minting /\ Minted' = Minted /\ Underway' = Underway
  BY DEF minting, Minted, Underway, chainVars
<1>2. Supply' = Supply /\ Unreleased' = Unreleased /\ Outstanding' = Outstanding /\ Refundable' = Refundable
  BY <1>1 DEF Supply, Unreleased, Outstanding, Refundable, chainVars, issueVars
<1> QED
  BY <1>2 DEF Free, Claimed, collateralToXecUnits, chainVars

\* A step of the reconcile that leaves the headroom and the estimate keeps both inequalities.
LEMMA ReadKeeps ==
    ASSUME HeadroomInv, TypeOK', UNCHANGED <<chainVars, issueVars, headroom, exposed>>,
           step' # "idle" => /\ step # "idle" /\ Estimate' = Estimate
                             /\ LateBurns \subseteq LateBurns' /\ LateIssuances \subseteq LateIssuances'
    PROVE  Backed' /\ Estimated'
<1>1. TypeOK /\ Backed /\ Estimated
  BY DEF HeadroomInv
<1>2. /\ Free \in Int /\ Claimed \in Int /\ Estimate \in Int /\ Blurred \in Int /\ Missed \in Int /\ headroom \in Int
      /\ Missed' \in Int /\ Blurred' \in Int
  BY <1>1, FreeType, FiguresType, FiguresTypeNext DEF TypeOK
<1>3. Free' = Free /\ Claimed' = Claimed
  BY <1>1, FiguresStay
<1>4. Blurred <= Blurred'
  BY <1>1, BlurGrows
<1>5. Free' + Blurred' >= Claimed' + headroom'
  <2>1. Free + Blurred >= Claimed + headroom
    BY <1>1 DEF Backed, Free
  <2> DEFINE bN == Blurred'
  <2>2. bN \in Int /\ Blurred <= bN
    BY <1>2, <1>4
  <2> HIDE DEF bN
  <2>3. Free + bN >= Claimed + headroom
    BY <1>2, <2>1, <2>2
  <2> QED
    BY <1>3, <2>3 DEF bN
<1>6. step' # "idle" => Estimate' <= Free' - Claimed' + Missed'
  <2> SUFFICES ASSUME step' # "idle" PROVE Estimate' <= Free' - Claimed' + Missed'
    OBVIOUS
  <2>1. Missed <= Missed' /\ Estimate' = Estimate
    BY <1>1, BlurGrows
  <2>2. Estimate <= Free - Claimed + Missed
    BY <1>1 DEF Estimated, Free
  <2> DEFINE mN == Missed'
  <2>3. mN \in Int /\ Missed <= mN
    BY <1>2, <2>1
  <2> HIDE DEF mN
  <2>4. Estimate <= Free - Claimed + mN
    BY <1>2, <2>2, <2>3
  <2> QED
    BY <1>3, <2>1, <2>4 DEF mN
<1>7. headroom' \in Nat
  BY DEF TypeOK
<1> QED
  BY <1>5, <1>6, <1>7 DEF Backed, Estimated, Free

\* A reconcile starts with the whole collateral: what of it may yet be refunded is what it is
\* exposed to.
LEMMA StartBalances == ASSUME HeadroomInv, TypeOK', ReconcileStart PROVE Backed' /\ Estimated'
<1>1. TypeOK /\ Backed
  BY DEF HeadroomInv
<1>2. /\ exposed' = exposed \cup Underway /\ step' = "read" /\ toRead' = Reads \ {"outstanding"}
      /\ UNCHANGED <<chainVars, issueVars, headroom, read>>
  BY DEF ReconcileStart
<1>3. /\ Free \in Int /\ Claimed \in Int /\ Blurred \in Int /\ headroom \in Int /\ Blurred' \in Int /\ Missed' \in Int
      /\ Supply \in Int /\ Unreleased \in Int /\ Outstanding \in Int /\ Refundable \in Int /\ balance \in Int
      /\ collateralToXecUnits(balance) \in Int
  BY <1>1, FreeType, FiguresType, FiguresTypeNext DEF TypeOK
<1>4. /\ Free' = Free /\ Claimed' = Claimed
      /\ Supply' = Supply /\ Unreleased' = Unreleased /\ Outstanding' = Outstanding
      /\ collateralToXecUnits(balance)' = collateralToXecUnits(balance)
  BY <1>1, <1>2, FiguresStay
<1>5. Backed'
  <2> DEFINE bN == Blurred'
  <2>1. bN \in Int /\ Blurred <= bN
    BY <1>1, <1>2, <1>3, BlurGrows
  <2>2. Free + Blurred >= Claimed + headroom
    BY <1>1 DEF Backed, Free
  <2> HIDE DEF bN
  <2>3. Free + bN >= Claimed + headroom
    BY <1>3, <2>1, <2>2
  <2>4. Free' + Blurred' >= Claimed' + headroom'
    BY <1>2, <1>4, <2>3 DEF bN
  <2> QED
    BY <2>4 DEF Backed, Free, TypeOK
<1>6. Estimate' = collateralToXecUnits(balance) - Claimed
  <2>1. Pending("collateral")' /\ Pending("supply")' /\ Pending("unreleased")' /\ Pending("outstanding")'
    BY <1>2 DEF Pending, Reads
  <2>2. Estimate' = collateralToXecUnits(balance)' - Supply' - Unreleased' - Outstanding'
    BY <2>1 DEF Estimate, Figure
  <2>3. Estimate' = collateralToXecUnits(balance) - Supply - Unreleased - Outstanding
    BY <1>4, <2>2
  <2> QED
    BY <1>3, <2>3 DEF Claimed
<1>7. collateralToXecUnits(balance) <= Free + Missed'
  <2> DEFINE worth == SumFunctionOnSet(blur, Underway)
             mN == Missed'
  <2>1. /\ \A d \in Deposits : net[d] \in Nat /\ minting[d] \in Nat /\ blur[d] \in Nat
        /\ blur' = blur /\ burnt' = burnt /\ quantity' = quantity
    BY <1>1, <1>2, FigureParts DEF blur, minting, chainVars, issueVars
  <2>2. /\ Underway \subseteq Deposits /\ IsFiniteSet(Underway)
        /\ Underway \subseteq exposed' \cap Deposits /\ IsFiniteSet(exposed' \cap Deposits)
    BY <1>2, FS_Subset DEF Underway
  <2>3. /\ balance - Refundable \in Int /\ (balance - Refundable) + Refundable = balance
    BY <1>3
  <2>4. collateralToXecUnits((balance - Refundable) + Refundable)
            <= collateralToXecUnits(balance - Refundable) + worth
    <3>1. \A d \in Underway : net[d] \in Int /\ blur[d] = collateralToXecUnits(net[d]) + 1
      BY <2>1, <2>2 DEF blur, minting
    <3> QED
      BY <2>2, <2>3, <3>1, UnitsSum DEF Refundable
  <2>5. collateralToXecUnits(balance) <= Free + worth
    BY <2>3, <2>4 DEF Free
  <2>6. worth \in Int /\ mN \in Int /\ worth <= mN
    <3>1. /\ worth \in Nat /\ SumFunctionOnSet(blur, exposed' \cap Deposits) \in Nat
          /\ worth <= SumFunctionOnSet(blur, exposed' \cap Deposits)
      <4>1. \A d \in exposed' \cap Deposits : blur[d] \in Nat
        BY <2>1
      <4> QED
        BY <2>2, <4>1, SumGrows
    <3>2. /\ exposed' \cap LateBurns' \subseteq Burns /\ IsFiniteSet(Burns)
          /\ exposed' \cap LateIssuances' \subseteq Issuances /\ IsFiniteSet(Issuances)
      BY DEF LateBurns, LateIssuances
    <3>3. /\ \A b \in Burns : burnt[b] \in Nat
          /\ \A i \in Issuances : quantity[i] \in Nat
      BY <1>1, FigureParts
    <3>4. SumFunctionOnSet(burnt, exposed' \cap LateBurns') \in Nat
      BY <3>2, <3>3, SumGrows
    <3>5. SumFunctionOnSet(quantity, exposed' \cap LateIssuances') \in Nat
      BY <3>2, <3>3, SumGrows
    <3>6. mN = SumFunctionOnSet(blur, exposed' \cap Deposits) + SumFunctionOnSet(burnt, exposed' \cap LateBurns')
                   + SumFunctionOnSet(quantity, exposed' \cap LateIssuances')
      BY <2>1 DEF Missed
    <3> QED
      BY <3>1, <3>4, <3>5, <3>6
  <2> HIDE DEF worth, mN
  <2>7. collateralToXecUnits(balance) <= Free + mN
    BY <1>3, <2>5, <2>6
  <2> QED
    BY <2>7 DEF mN
<1>8. Estimated'
  <2> DEFINE mN == Missed'
  <2>1. mN \in Int /\ collateralToXecUnits(balance) <= Free + mN
    BY <1>3, <1>7
  <2> HIDE DEF mN
  <2>2. collateralToXecUnits(balance) - Claimed <= Free - Claimed + mN
    BY <1>3, <2>1
  <2>3. Estimate' <= Free' - Claimed' + Missed'
    BY <1>4, <1>6, <2>2 DEF mN
  <2> QED
    BY <2>3 DEF Estimated, Free
<1> QED
  BY <1>5, <1>8

\* A read answers with the figure as it stands.
LEMMA AnswerBalances == ASSUME HeadroomInv, TypeOK', NEW x \in Reads, Answer(x) PROVE Backed' /\ Estimated'
<1>1. TypeOK
  BY DEF HeadroomInv
<1>2. /\ step = "read" /\ step' = "read" /\ x \in toRead /\ toRead' = toRead \ {x}
      /\ UNCHANGED <<chainVars, issueVars, headroom, exposed>>
  BY DEF Answer
<1>3. x # "outstanding"
  BY <1>1, <1>2 DEF TypeOK
<1>4. \A y \in Reads \ {x} : read'[y] = read[y]
  BY <1>1, Zenon DEF Answer, TypeOK
<1>5. /\ x = "collateral" => read'[x] = collateralToXecUnits(balance)
      /\ x = "supply" => read'[x] = Supply
      /\ x = "unreleased" => read'[x] = Unreleased
  <2>1. read'[x] = CASE x = "collateral" -> collateralToXecUnits(balance)
                     [] x = "supply"     -> Supply
                     [] OTHER            -> Unreleased
    BY <1>1, Zenon DEF Answer, TypeOK
  <2>2. "collateral" # "supply" /\ "collateral" # "unreleased" /\ "supply" # "unreleased"
    OBVIOUS
  <2> QED
    BY <2>1, <2>2, Zenon
<1>6. /\ Supply' = Supply /\ Unreleased' = Unreleased /\ Outstanding' = Outstanding
      /\ collateralToXecUnits(balance)' = collateralToXecUnits(balance)
  BY <1>1, <1>2, FiguresStay
<1>7. /\ Pending("collateral")' <=> Pending("collateral") /\ x # "collateral"
      /\ Pending("supply")' <=> Pending("supply") /\ x # "supply"
      /\ Pending("unreleased")' <=> Pending("unreleased") /\ x # "unreleased"
      /\ Pending("outstanding")' /\ Pending("outstanding") /\ Pending(x)
  BY <1>2, <1>3 DEF Pending
<1>8. /\ Figure("collateral", collateralToXecUnits(balance))' = Figure("collateral", collateralToXecUnits(balance))
      /\ Figure("supply", Supply)' = Figure("supply", Supply)
      /\ Figure("unreleased", Unreleased)' = Figure("unreleased", Unreleased)
      /\ Figure("outstanding", Outstanding)' = Figure("outstanding", Outstanding)
  BY <1>4, <1>5, <1>6, <1>7 DEF Figure, Reads
<1>9. Estimate' = Estimate
  BY <1>8 DEF Estimate
<1>10. LateBurns \subseteq LateBurns' /\ LateIssuances \subseteq LateIssuances'
  BY <1>2, <1>7 DEF LateBurns, LateIssuances, chainVars, issueVars
<1> QED
  BY <1>2, <1>9, <1>10, ReadKeeps

\* A judgement reads nothing.
LEMMA JudgeBalances == ASSUME HeadroomInv, TypeOK', Judge PROVE Backed' /\ Estimated'
<1>1. TypeOK
  BY DEF HeadroomInv
<1>2. /\ step = "read" /\ step' \in {"idle", "reserved"}
      /\ UNCHANGED <<chainVars, issueVars, headroom, toRead, read, exposed>>
  BY DEF Judge
<1>3. /\ Supply' = Supply /\ Unreleased' = Unreleased /\ Outstanding' = Outstanding
      /\ collateralToXecUnits(balance)' = collateralToXecUnits(balance)
  BY <1>1, <1>2, FiguresStay
<1>4. \A y \in Reads : Pending(y)' = Pending(y)
  BY <1>2 DEF Pending
<1>5. Estimate' = Estimate
  BY <1>2, <1>3, <1>4 DEF Estimate, Figure, Reads
<1>6. LateBurns' = LateBurns /\ LateIssuances' = LateIssuances
  BY <1>2, <1>4 DEF LateBurns, LateIssuances, Reads, chainVars, issueVars
<1> QED
  BY <1>2, <1>5, <1>6, ReadKeeps

\* What is outstanding is read last.
LEMMA OutstandingBalances == ASSUME HeadroomInv, TypeOK', ReadOutstanding PROVE Backed' /\ Estimated'
<1>1. TypeOK
  BY DEF HeadroomInv
<1>2. /\ step = "reserved" /\ step' = "write" /\ read' = [read EXCEPT !["outstanding"] = Outstanding]
      /\ UNCHANGED <<chainVars, issueVars, headroom, toRead, exposed>>
  BY DEF ReadOutstanding
<1>3. /\ Supply' = Supply /\ Unreleased' = Unreleased /\ Outstanding' = Outstanding
      /\ collateralToXecUnits(balance)' = collateralToXecUnits(balance)
  BY <1>1, <1>2, FiguresStay
<1>4. /\ Pending("collateral")' = Pending("collateral") /\ Pending("supply")' = Pending("supply")
      /\ Pending("unreleased")' = Pending("unreleased")
      /\ ~Pending("outstanding")' /\ Pending("outstanding")
  BY <1>2 DEF Pending
<1>5. /\ read'["collateral"] = read["collateral"] /\ read'["supply"] = read["supply"]
      /\ read'["unreleased"] = read["unreleased"] /\ read'["outstanding"] = Outstanding
  BY <1>1, <1>2 DEF TypeOK, Reads
<1>6. Estimate' = Estimate
  BY <1>3, <1>4, <1>5 DEF Estimate, Figure
<1>7. LateBurns \subseteq LateBurns' /\ LateIssuances \subseteq LateIssuances'
  BY <1>2, <1>4 DEF LateBurns, LateIssuances, chainVars, issueVars
<1> QED
  BY <1>2, <1>6, <1>7, ReadKeeps

\* The figure written is the estimate, and what it missed is blurred.
LEMMA WriteBalances == ASSUME HeadroomInv, TypeOK', Write PROVE Backed' /\ Estimated'
<1>1. TypeOK /\ Backed /\ Estimated
  BY DEF HeadroomInv
<1>2. /\ step = "write" /\ step' = "idle"
      /\ headroom' = IF Bound - read["outstanding"] > 0 THEN Bound - read["outstanding"] ELSE 0
      /\ UNCHANGED <<chainVars, issueVars, toRead, exposed>>
  BY DEF Write
<1>3. Estimate = Bound - read["outstanding"]
  <2>1. ~Pending("collateral") /\ ~Pending("supply") /\ ~Pending("unreleased") /\ ~Pending("outstanding")
    BY <1>1, <1>2 DEF Pending, TypeOK
  <2> QED
    BY <2>1 DEF Estimate, Figure, Bound
<1>4. /\ Free \in Int /\ Claimed \in Int /\ Estimate \in Int /\ Blurred \in Int /\ Missed \in Int /\ headroom \in Nat
      /\ Blurred' \in Int
  BY <1>1, FreeType, FiguresType, FiguresTypeNext DEF TypeOK
<1>5. Estimate <= Free - Claimed + Missed /\ Missed <= Blurred
  BY <1>1, <1>2, MissedIsBlurred DEF Estimated, Free
<1>6. Free + Blurred >= Claimed + headroom
  BY <1>1 DEF Backed, Free
<1> DEFINE bN == Blurred'
           written == IF Estimate > 0 THEN Estimate ELSE 0
<1>7. bN \in Int /\ Blurred <= bN
  BY <1>1, <1>2, <1>4, BlurGrows
<1> HIDE DEF bN
<1>8. Free + bN >= Claimed + written
  BY <1>4, <1>5, <1>6, <1>7
<1>9. Free' + Blurred' >= Claimed' + headroom'
  <2>1. Free' = Free /\ Claimed' = Claimed
    BY <1>1, <1>2, FiguresStay
  <2> QED
    BY <1>2, <1>3, <1>8, <2>1 DEF bN
<1> QED
  BY <1>2, <1>9 DEF Backed, Estimated, Free, TypeOK

-----------------------------------------------------------------------------
(* The theorems *)

\* Whatever the two chains do while a reconcile reads them, one figure after the other
\* (reconcileHeadroom, reserveIssuance), the figure it would write stays within what it ran
\* across, and so does the headroom.
THEOREM HeadroomInvariance == Spec => []HeadroomInv
<1>1. Init => HeadroomInv
  BY InitInvariant
<1>2. HeadroomInv /\ [Next]_vars => HeadroomInv'
  <2> SUFFICES ASSUME HeadroomInv, [Next]_vars PROVE HeadroomInv'
    OBVIOUS
  <2>1. TypeOK' /\ Ordered'
    BY TypeAndOrder
  <2>2. ASSUME Chains PROVE Backed' /\ Estimated'
    BY <2>1, <2>2, LockBalances, RefundBalances, ConfirmBalances, BurnBalances, RawBurnBalances, ReleaseBalances
       DEF Chains
  <2>3. ASSUME Issue PROVE Backed' /\ Estimated'
    BY <2>1, <2>3, ReserveBalances, IssuanceBalances DEF Issue
  <2>4. ASSUME Reconcile PROVE Backed' /\ Estimated'
    BY <2>1, <2>4, StartBalances, AnswerBalances, JudgeBalances, OutstandingBalances, WriteBalances DEF Reconcile
  <2>5. ASSUME UNCHANGED vars PROVE Backed' /\ Estimated'
    <3>1. UNCHANGED <<chainVars, issueVars, headroom, exposed>> /\ UNCHANGED reconcileVars
      BY <2>5 DEF vars
    <3>2. Estimate' = Estimate /\ LateBurns' = LateBurns /\ LateIssuances' = LateIssuances
      <4>1. /\ Supply' = Supply /\ Unreleased' = Unreleased /\ Outstanding' = Outstanding
            /\ collateralToXecUnits(balance)' = collateralToXecUnits(balance)
        BY <3>1, FiguresStay DEF HeadroomInv
      <4> QED
        BY <3>1, <4>1 DEF Estimate, Figure, Pending, LateBurns, LateIssuances, reconcileVars, chainVars, issueVars
    <3>3. step' = step
      BY <3>1 DEF reconcileVars
    <3> QED
      BY <2>1, <3>1, <3>2, <3>3, ReadKeeps
  <2>6. Chains \/ Issue \/ Reconcile \/ UNCHANGED vars
    BY DEF Next
  <2>7. Backed' /\ Estimated'
    BY <2>2, <2>3, <2>4, <2>5, <2>6, Zenon
  <2> QED
    BY <2>1, <2>7 DEF HeadroomInv
<1> QED
  BY <1>1, <1>2, PTL DEF Spec

\* The collateral pays at once every wrapped token there is, every one signed for or that may
\* be, every burn and every refund to come, up to what moved while a reconcile ran
\* (computeHeadroom, reserveIssuance).
THEOREM BackedHolds == Spec => []Backed
<1>1. HeadroomInv => Backed
  BY DEF HeadroomInv
<1> QED
  BY <1>1, HeadroomInvariance, PTL
=============================================================================
