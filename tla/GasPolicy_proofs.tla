--------------------------- MODULE GasPolicy_proofs ---------------------------
(***************************************************************************)
(* For every configuration that validateConfig() passes, and every node    *)
(* whose margin is no more than it assumes: a replacement's price is never *)
(* the reason for its refusal, no price exceeds the ceiling, and a price   *)
(* pays for every block of its horizon.                                    *)
(***************************************************************************)
EXTENDS GasPolicy, SumTheorems

-----------------------------------------------------------------------------
(* The worst case of the base fee *)

\* One full block, rounded up.
Step(fee) == (fee * 9 + 7) \div 8

\* The function by which worstCaseBaseFee is defined.
Growing(g, from) == g = [n \in Nat |-> IF n = 0 THEN from ELSE (g[n - 1] * 9 + 7) \div 8]

\* It exists.
LEMMA GrowingExists == ASSUME NEW from PROVE \E g : Growing(g, from)
<1> DEFINE UpTo(g, n) == g[0] = from /\ \A k \in Nat : k < n => g[k + 1] = Step(g[k])
           G == {n \in Nat : \E g : UpTo(g, n)}
<1>1. \A n \in Nat : n \in G
  <2>1. 0 \in G
    <3> DEFINE g == [n \in Nat |-> from]
    <3>1. UpTo(g, 0)
      OBVIOUS
    <3> QED
      BY <3>1, Zenon
  <2>2. ASSUME NEW n \in Nat, n \in G PROVE n + 1 \in G
    <3>1. PICK g : UpTo(g, n)
      BY <2>2
    <3> DEFINE h == [k \in Nat |-> IF k <= n THEN g[k] ELSE Step(g[n])]
    <3>2. h[0] = from
      BY <3>1
    <3>3. ASSUME NEW k \in Nat, k < n + 1 PROVE h[k + 1] = Step(h[k])
      <4>1. CASE k < n
        BY <3>1, <4>1
      <4>2. CASE k = n
        BY <4>2
      <4> QED
        BY <3>3, <4>1, <4>2
    <3>4. UpTo(h, n + 1)
      BY <3>2, <3>3
    <3>5. n + 1 \in Nat
      OBVIOUS
    <3> QED
      BY <3>4, <3>5, Zenon
  <2> HIDE DEF G
  <2> QED
    BY <2>1, <2>2, NatSetInduction
<1> DEFINE one(n) == CHOOSE g : UpTo(g, n)
           h == [n \in Nat |-> one(n)[n]]
<1>2. \A n \in Nat : UpTo(one(n), n)
  <2> TAKE n \in Nat
  <2>1. \E g : UpTo(g, n)
    BY <1>1
  <2> HIDE DEF UpTo
  <2> QED
    BY <2>1, Zenon
<1> HIDE DEF one
<1>3. ASSUME NEW n \in Nat PROVE one(n + 1)[n] = one(n)[n]
  <2> DEFINE Alike == {k \in Nat : k <= n => one(n + 1)[k] = one(n)[k]}
  <2>1. n + 1 \in Nat
    OBVIOUS
  <2>2. UpTo(one(n), n) /\ UpTo(one(n + 1), n + 1)
    BY <1>2, <2>1
  <2>3. 0 \in Alike
    BY <2>2
  <2>4. ASSUME NEW k \in Nat, k \in Alike PROVE k + 1 \in Alike
    <3>1. ASSUME k + 1 <= n PROVE one(n + 1)[k + 1] = one(n)[k + 1]
      <4>1. k < n /\ k < n + 1 /\ one(n + 1)[k] = one(n)[k]
        BY <2>4, <3>1
      <4> QED
        BY <2>2, <4>1
    <3> QED
      BY <3>1
  <2>5. \A k \in Nat : k \in Alike
    <3> HIDE DEF Alike
    <3> QED
      BY <2>3, <2>4, NatSetInduction
  <2> QED
    BY <2>5
<1>4. ASSUME NEW n \in Nat PROVE h[n] = IF n = 0 THEN from ELSE (h[n - 1] * 9 + 7) \div 8
  <2>1. CASE n = 0
    BY <1>2, <2>1
  <2>2. CASE n # 0
    <3>1. n - 1 \in Nat /\ (n - 1) + 1 = n
      BY <2>2
    <3>2. one(n)[n] = Step(one(n)[n - 1])
      BY <1>2, <3>1
    <3>3. one(n)[n - 1] = one(n - 1)[n - 1]
      BY <1>3, <3>1
    <3> QED
      BY <2>2, <3>1, <3>2, <3>3 DEF Step
  <2> QED
    BY <2>1, <2>2
<1>5. Growing(h, from)
  <2> HIDE DEF one
  <2>1. h = [n \in Nat |-> h[n]]
    OBVIOUS
  <2> QED
    BY <1>4, <2>1 DEF Growing
<1> QED
  BY <1>5, Zenon

\* worstCaseBaseFee(), block by block.
LEMMA WorstCaseUnfold ==
    ASSUME NEW from
    PROVE  /\ worstCaseBaseFee(from, 0) = from
           /\ \A n \in Nat : worstCaseBaseFee(from, n + 1) = Step(worstCaseBaseFee(from, n))
<1> DEFINE g == CHOOSE f : Growing(f, from)
<1>1. Growing(g, from)
  BY GrowingExists, Zenon
<1>2. \A n : worstCaseBaseFee(from, n) = g[n]
  BY DEF worstCaseBaseFee, Growing
<1> HIDE DEF g
<1>3. g[0] = from /\ \A n \in Nat : g[n + 1] = Step(g[n])
  BY <1>1 DEF Growing, Step
<1> QED
  BY <1>2, <1>3

\* A base fee after a full block is no less than before.
LEMMA StepType == ASSUME NEW fee \in Nat PROVE Step(fee) \in Nat /\ fee <= Step(fee)
BY DEF Step

\* Of two base fees the higher one stays no lower.
LEMMA StepMonotone == ASSUME NEW a \in Nat, NEW b \in Nat, a <= b PROVE Step(a) <= Step(b)
BY DEF Step

\* A fee stays a fee, a higher one stays higher, and to start one block later is to go on
\* one block longer.
LEMMA WorstCase ==
    ASSUME NEW n \in Nat
    PROVE  \A a \in Nat :
             /\ worstCaseBaseFee(a, n) \in Nat
             /\ \A b \in Nat : a <= b => worstCaseBaseFee(a, n) <= worstCaseBaseFee(b, n)
             /\ worstCaseBaseFee(Step(a), n) = worstCaseBaseFee(a, n + 1)
<1> DEFINE W(a, k) == worstCaseBaseFee(a, k)
           Holds(k) == \A a \in Nat : /\ W(a, k) \in Nat
                                       /\ \A b \in Nat : a <= b => W(a, k) <= W(b, k)
                                       /\ W(Step(a), k) = W(a, k + 1)
           G == {k \in Nat : Holds(k)}
<1>1. \A a : W(a, 0) = a /\ \A k \in Nat : W(a, k + 1) = Step(W(a, k))
  BY WorstCaseUnfold
<1> HIDE DEF W
<1>2. Holds(0)
  <2>1. \A a : W(a, 0 + 1) = Step(W(a, 0))
    BY <1>1, Zenon
  <2> QED
    BY <1>1, <2>1
<1>3. ASSUME NEW k \in Nat, Holds(k) PROVE Holds(k + 1)
  <2> SUFFICES ASSUME NEW a \in Nat
               PROVE  /\ W(a, k + 1) \in Nat
                      /\ \A b \in Nat : a <= b => W(a, k + 1) <= W(b, k + 1)
                      /\ W(Step(a), k + 1) = W(a, (k + 1) + 1)
    OBVIOUS
  <2>1. W(a, k + 1) = Step(W(a, k)) /\ W(a, k) \in Nat
    BY <1>1, <1>3
  <2>2. W(a, k + 1) \in Nat
    BY <2>1, StepType
  <2>3. ASSUME NEW b \in Nat, a <= b PROVE W(a, k + 1) <= W(b, k + 1)
    <3>1. W(b, k + 1) = Step(W(b, k)) /\ W(b, k) \in Nat /\ W(a, k) <= W(b, k)
      BY <1>1, <1>3, <2>3
    <3> QED
      BY <2>1, <3>1, StepMonotone
  <2>4. W(Step(a), k + 1) = Step(W(Step(a), k))
    BY <1>1
  <2>5. W(Step(a), k) = W(a, k + 1)
    BY <1>3
  <2>6. W(a, (k + 1) + 1) = Step(W(a, k + 1))
    <3>1. k + 1 \in Nat
      OBVIOUS
    <3> QED
      BY <1>1, <3>1
  <2> QED
    BY <2>2, <2>3, <2>4, <2>5, <2>6
<1>4. \A k \in Nat : k \in G
  <2>1. 0 \in G
    BY <1>2
  <2>2. ASSUME NEW k \in Nat, k \in G PROVE k + 1 \in G
    <3>1. Holds(k) /\ k + 1 \in Nat
      BY <2>2
    <3> HIDE DEF Holds
    <3> QED
      BY <1>3, <3>1
  <2> HIDE DEF G
  <2> QED
    BY <2>1, <2>2, NatSetInduction
<1> QED
  BY <1>4 DEF W

\* The worst case is never below the fee it starts from.
LEMMA WorstCaseGrows == ASSUME NEW n \in Nat, NEW a \in Nat PROVE a <= worstCaseBaseFee(a, n)
<1> DEFINE G == {k \in Nat : a <= worstCaseBaseFee(a, k)}
<1>1. 0 \in G
  BY WorstCaseUnfold
<1>2. ASSUME NEW k \in Nat, k \in G PROVE k + 1 \in G
  <2>1. worstCaseBaseFee(a, k + 1) = Step(worstCaseBaseFee(a, k)) /\ worstCaseBaseFee(a, k) \in Nat
    BY WorstCaseUnfold, WorstCase
  <2> QED
    BY <1>2, <2>1, StepType
<1>3. \A k \in Nat : k \in G
  <2> HIDE DEF G
  <2> QED
    BY <1>1, <1>2, NatSetInduction
<1> QED
  BY <1>3

\* The worst case over the horizon is a fee.
LEMMA WorstCaseType == \A b \in 1..MaxBase : worstCaseBaseFee(b, Horizon) \in Nat
<1>1. Horizon \in Nat /\ MaxBase \in Nat
  BY GasAssumption DEF validateConfig
<1>2. \A a \in Nat : worstCaseBaseFee(a, Horizon) \in Nat
  BY <1>1, WorstCase
<1>3. 1..MaxBase \subseteq Nat
  BY <1>1
<1> QED
  BY <1>2, <1>3

\* No block outruns the worst case.
LEMMA BlockWithinStep ==
    ASSUME NEW b \in Nat \ {0}, NEW c \in Nat, c <= b + Higher(b \div 8, 1)
    PROVE  c <= Step(b)
<1> DEFINE e == b \div 8
<1>1. e \in Nat /\ 8 * e <= b
  OBVIOUS
<1>2. Step(b) \in Nat /\ 8 * Step(b) >= b * 9
  BY DEF Step
<1> HIDE DEF e
<1>3. 8 * Step(b) >= 8 * (b + e)
  BY <1>1, <1>2
<1>4. Step(b) >= b + 1
  BY <1>2
<1> QED
  BY <1>1, <1>2, <1>3, <1>4 DEF Higher, e

-----------------------------------------------------------------------------
(* Prices *)

\* A fee raised by the configured percentage beats the node's margin, and the fee.
LEMMA BumpBeats ==
    ASSUME NEW v \in Nat \ {0}
    PROVE  /\ bumpBy(v, BumpPercent) \in Nat
           /\ bumpBy(v, BumpPercent) > v
           /\ bumpBy(v, BumpPercent) >= (v * (100 + NodeMargin)) \div 100
<1> DEFINE w == v * (100 + BumpPercent)
<1> DEFINE m == v * (100 + NodeMargin)
<1>1. BumpPercent \in Nat /\ BumpPercent > 10 /\ NodeMargin \in Nat /\ NodeMargin <= 10
    BY GasAssumption DEF validateConfig
<1>2. w \in Nat /\ m \in Nat
    BY <1>1
<1>3. w >= v * 111
    BY <1>1
<1>4. m <= v * 110
    BY <1>1
<1>5. bumpBy(v, BumpPercent) = (w + 99) \div 100
    BY DEF bumpBy
<1> HIDE DEF w, m
<1>6. (w + 99) \div 100 \in Nat /\ 100 * ((w + 99) \div 100) >= w
    BY <1>2
<1>7. (m \div 100) \in Nat /\ 100 * (m \div 100) <= m
    BY <1>2
<1>8. (w + 99) \div 100 > v
    BY <1>2, <1>3, <1>6
<1>9. (w + 99) \div 100 >= m \div 100
    BY <1>2, <1>3, <1>4, <1>6, <1>7
<1> QED BY <1>5, <1>6, <1>8, <1>9 DEF m

\* A bump of the recorded price, and of whatever it covers, is one the node accepts.
LEMMA BumpReplaces ==
    ASSUME NEW old \in Prices, recorded \in Prices, Covers(recorded, old),
           recorded.maxFee # 0, old.maxFee # 0, base \in 1..MaxBase, NEW suggested \in Tips
    PROVE  /\ confirmGasPolicy(suggested) \in [maxFee : Nat, tip : Nat \ {0}, age : Nat]
           /\ confirmGasPolicy(suggested).tip <= confirmGasPolicy(suggested).maxFee
           /\ Covers(confirmGasPolicy(suggested), recorded)
           /\ Replaces(confirmGasPolicy(suggested), old)
<1> DEFINE p == confirmGasPolicy(suggested)
<1> DEFINE market == worstCaseBaseFee(base, Horizon) + suggested
<1> DEFINE fee == bumpBy(recorded.maxFee, BumpPercent)
<1> DEFINE tip == bumpBy(recorded.tip, BumpPercent)
<1>1. suggested \in Nat \ {0} /\ NodeMargin \in Nat /\ Cap \in Nat
    BY GasAssumption DEF validateConfig
<1>2. market \in Nat
    BY <1>1, WorstCaseType
<1>3. recorded.maxFee \in Nat \ {0} /\ recorded.tip \in Nat \ {0}
      /\ old.maxFee \in Nat \ {0} /\ old.tip \in Nat \ {0}
    BY <1>1 DEF Prices
<1>4. /\ fee \in Nat /\ fee > recorded.maxFee
      /\ fee >= (recorded.maxFee * (100 + NodeMargin)) \div 100
    BY <1>3, BumpBeats
<1>5. /\ tip \in Nat /\ tip > recorded.tip
      /\ tip >= (recorded.tip * (100 + NodeMargin)) \div 100
    BY <1>3, BumpBeats
<1>6. p = Price(Higher(Higher(fee, market), Higher(tip, suggested)), Higher(tip, suggested))
    BY DEF confirmGasPolicy
<1> HIDE DEF market, fee, tip, p
<1>7. /\ p.maxFee \in Nat /\ p.tip \in Nat \ {0} /\ p.age = 0
      /\ p.maxFee >= fee /\ p.tip >= tip /\ p.tip <= p.maxFee
      /\ p \in [maxFee : Nat, tip : Nat \ {0}, age : Nat]
    BY <1>1, <1>2, <1>4, <1>5, <1>6 DEF Price, Higher
<1>8. recorded.maxFee >= old.maxFee /\ recorded.tip >= old.tip
    BY DEF Covers
<1>9. ASSUME NEW a \in Nat, NEW b \in Nat, a >= b
      PROVE  (a * (100 + NodeMargin)) \div 100 >= (b * (100 + NodeMargin)) \div 100
    <2> DEFINE x == a * (100 + NodeMargin)
    <2> DEFINE y == b * (100 + NodeMargin)
    <2>1. x \in Nat /\ y \in Nat /\ x >= y
        BY <1>1, <1>9
    <2> HIDE DEF x, y
    <2>2. x \div 100 >= y \div 100
        BY <2>1
    <2> QED BY <2>2 DEF x, y
<1>10. /\ (recorded.maxFee * (100 + NodeMargin)) \div 100 >= (old.maxFee * (100 + NodeMargin)) \div 100
       /\ (recorded.tip * (100 + NodeMargin)) \div 100 >= (old.tip * (100 + NodeMargin)) \div 100
    BY <1>3, <1>8, <1>9
<1>11. /\ (recorded.maxFee * (100 + NodeMargin)) \div 100 \in Nat
       /\ (old.maxFee * (100 + NodeMargin)) \div 100 \in Nat
       /\ (recorded.tip * (100 + NodeMargin)) \div 100 \in Nat
       /\ (old.tip * (100 + NodeMargin)) \div 100 \in Nat
    <2>1. ASSUME NEW a \in Nat PROVE (a * (100 + NodeMargin)) \div 100 \in Nat
        <3> DEFINE x == a * (100 + NodeMargin)
        <3>1. x \in Nat BY <1>1
        <3> HIDE DEF x
        <3>2. x \div 100 \in Nat BY <3>1
        <3> QED BY <3>2 DEF x
    <2> QED BY <1>3, <2>1
<1>12. Covers(p, recorded)
    BY <1>3, <1>4, <1>5, <1>7 DEF Covers
<1>13. p.maxFee > old.maxFee /\ p.tip > old.tip
    BY <1>3, <1>4, <1>5, <1>7, <1>8
<1>14. /\ p.maxFee >= (old.maxFee * (100 + NodeMargin)) \div 100
       /\ p.tip >= (old.tip * (100 + NodeMargin)) \div 100
    BY <1>4, <1>5, <1>7, <1>10, <1>11
<1> QED BY <1>7, <1>12, <1>13, <1>14 DEF Replaces, p
\* A price is not None; to age changes neither that nor its fees.
LEMMA NoneIsNoPrice == None \notin Prices
<1>1. Prices \subseteq [maxFee : Nat, tip : Nat, age : Nat]
    BY GasAssumption DEF Prices, validateConfig
<1> QED BY <1>1, GasAssumption

LEMMA OlderPrice ==
    ASSUME NEW p \in Prices \cup {None}
    PROVE  /\ Older(p) \in Prices \cup {None}
           /\ Older(p) = None <=> p = None
           /\ p # None => Older(p).maxFee = p.maxFee /\ Older(p).tip = p.tip
<1>1. CASE p = None
    BY <1>1 DEF Older
<1>2. CASE p \in Prices
    <2>1. BumpAfter \in Nat /\ Horizon \in Nat
        BY GasAssumption DEF validateConfig
    <2>2. Older(p) = [p EXCEPT !.age = IF p.age > Higher(BumpAfter, Horizon) THEN p.age ELSE p.age + 1]
        BY <1>2, NoneIsNoPrice DEF Older
    <2>3. /\ Older(p) \in Prices
          /\ Older(p).maxFee = p.maxFee /\ Older(p).tip = p.tip
        BY <1>2, <2>1, <2>2 DEF Prices, Higher
    <2> QED BY <1>2, <2>3, NoneIsNoPrice
<1> QED BY <1>1, <1>2

\* The first price, at any suggestion.
LEMMA InitialPrice ==
    ASSUME NEW suggested \in Tips, base \in 1..MaxBase
    PROVE  /\ initialConfirmGas(suggested) \in [maxFee : Nat, tip : Nat \ {0}, age : Nat]
           /\ initialConfirmGas(suggested).tip <= initialConfirmGas(suggested).maxFee
<1>1. suggested \in Nat \ {0} /\ worstCaseBaseFee(base, Horizon) \in Nat
    BY GasAssumption, WorstCaseType
<1> QED BY <1>1 DEF initialConfirmGas, Price, Higher

\* What is under the ceiling is a price.
LEMMA UnderCeiling ==
    ASSUME NEW p \in [maxFee : Nat, tip : Nat \ {0}, age : Nat], p.maxFee <= Cap
    PROVE  p \in Prices
BY GasAssumption DEF Prices, validateConfig

-----------------------------------------------------------------------------
(* The inductive invariant *)

LEMMA InitPriceInv == Init => PriceInv
<1> SUFFICES ASSUME Init PROVE PriceInv
    OBVIOUS
<1>1. 0 \in 0..MaxFaults
    BY GasAssumption
<1>2. TypeOK
    BY <1>1 DEF Init, TypeOK
<1> QED BY <1>2 DEF Init, PriceInv, BumpsAccepted

LEMMA PriceFirstStep == PriceInv /\ PriceFirst => PriceInv'
<1> SUFFICES ASSUME PriceInv, PriceFirst PROVE PriceInv'
    OBVIOUS
<1>1. PICK suggested \in Tips :
          initialConfirmGas(suggested).maxFee <= Cap /\ Record(initialConfirmGas(suggested))
    BY DEF PriceFirst
<1>2. initialConfirmGas(suggested) \in Prices
      /\ initialConfirmGas(suggested).tip <= initialConfirmGas(suggested).maxFee
    BY <1>1, InitialPrice, UnderCeiling DEF PriceInv, TypeOK
<1>3. recorded' \in Prices /\ recorded'.tip <= recorded'.maxFee /\ recorded' # None
    BY <1>1, <1>2, NoneIsNoPrice DEF Record
<1> QED BY <1>1, <1>3 DEF PriceInv, TypeOK, BumpsAccepted, PriceFirst, Record

LEMMA BumpStep == PriceInv /\ Bump => PriceInv'
<1> SUFFICES ASSUME PriceInv, Bump PROVE PriceInv'
    OBVIOUS
<1>1. PICK suggested \in Tips :
          confirmGasPolicy(suggested).maxFee <= Cap /\ Record(confirmGasPolicy(suggested))
    BY DEF Bump
<1>2. state = "CONFIRM_SENT" /\ pending # None
    BY DEF Bump, Stalled
<1>3. recorded \in Prices /\ pending \in Prices /\ Covers(recorded, pending) /\ base \in 1..MaxBase
      /\ recorded.tip <= recorded.maxFee /\ pending.tip <= pending.maxFee
    BY <1>2 DEF PriceInv, TypeOK
<1>4. recorded.maxFee # 0 /\ pending.maxFee # 0
    BY <1>3, GasAssumption DEF Prices, validateConfig
<1> DEFINE p == confirmGasPolicy(suggested)
<1>5. /\ p \in [maxFee : Nat, tip : Nat \ {0}, age : Nat]
      /\ p.tip <= p.maxFee /\ Covers(p, recorded) /\ Replaces(p, pending)
    BY <1>3, <1>4, BumpReplaces
<1>6. p \in Prices /\ p # None
    BY <1>1, <1>5, UnderCeiling, NoneIsNoPrice
<1>7. recorded' = p /\ step' = "send" /\ UNCHANGED <<state, pending, mined, base, faults>>
    BY <1>1 DEF Record
<1> HIDE DEF p
<1>8. Covers(p, pending)
    BY <1>3, <1>5, <1>6, GasAssumption DEF Covers, Prices, validateConfig
<1> QED BY <1>2, <1>5, <1>6, <1>7, <1>8 DEF PriceInv, TypeOK, BumpsAccepted, Covers

LEMMA SendStep == PriceInv /\ Send => PriceInv'
<1> SUFFICES ASSUME PriceInv, Send PROVE PriceInv'
    OBVIOUS
<1>1. recorded \in Prices /\ recorded.tip <= recorded.maxFee /\ state \in {"AUTHORIZED", "CONFIRM_SENT"}
    BY DEF PriceInv, TypeOK, Send
<1>2. Covers(recorded, recorded)
    BY <1>1, GasAssumption DEF Covers, Prices, validateConfig
<1> QED BY <1>1, <1>2 DEF PriceInv, TypeOK, BumpsAccepted, Covers, Send

LEMMA PersistStep == PriceInv /\ Persist => PriceInv'
BY DEF PriceInv, TypeOK, BumpsAccepted, Covers, Persist

\* The steps that leave the prices alone, or take the pending one away.
LEMMA OtherServiceStep == PriceInv /\ (Resolve \/ HaltAtCeiling) => PriceInv'
BY DEF PriceInv, TypeOK, BumpsAccepted, Covers, Resolve, HaltAtCeiling, Stalled

LEMMA FaultStep == PriceInv /\ (Crash \/ Evict) => PriceInv'
BY GasAssumption DEF PriceInv, TypeOK, BumpsAccepted, Covers, Crash, Evict

\* A block ages both prices, and may mine the pending one.
LEMMA NodeStep == PriceInv /\ (Block \/ Mine) => PriceInv'
<1> SUFFICES ASSUME PriceInv, Block \/ Mine PROVE PriceInv'
    OBVIOUS
<1>1. recorded \in Prices \cup {None} /\ pending \in Prices \cup {None}
    BY DEF PriceInv, TypeOK
<1>2. /\ recorded' \in Prices \cup {None}
      /\ recorded' = None <=> recorded = None
      /\ recorded # None => recorded'.maxFee = recorded.maxFee /\ recorded'.tip = recorded.tip
    BY <1>1, OlderPrice DEF Block, Mine
<1>3. UNCHANGED <<state, step, faults>>
    BY DEF Block, Mine
<1>4. CASE Block
    <2>1. /\ pending' \in Prices \cup {None}
          /\ pending' = None <=> pending = None
          /\ pending # None => pending'.maxFee = pending.maxFee /\ pending'.tip = pending.tip
        BY <1>1, <1>4, OlderPrice DEF Block
    <2>2. base' \in 1..MaxBase /\ mined' = mined
        BY <1>4 DEF Block, BaseFees
    <2> QED BY <1>2, <1>3, <2>1, <2>2 DEF PriceInv, TypeOK, BumpsAccepted, Covers, Replaces
<1>5. CASE Mine
    <2>1. pending' = None /\ mined' = TRUE /\ base' = base
        BY <1>5 DEF Mine
    <2> QED BY <1>2, <1>3, <2>1 DEF PriceInv, TypeOK, BumpsAccepted
<1> QED BY <1>4, <1>5

LEMMA PriceInvStep == PriceInv /\ [Next]_vars => PriceInv'
<1>1. PriceInv /\ UNCHANGED vars => PriceInv'
    BY DEF PriceInv, TypeOK, BumpsAccepted, Covers, Replaces, vars
<1> QED
    BY <1>1, PriceFirstStep, BumpStep, SendStep, PersistStep, OtherServiceStep, FaultStep, NodeStep
    DEF Next, Service

\* pipeline.ts, advanceAuthorized() and maybeBumpConfirmation(): what is recorded of a
\* confirmation that is recorded as sent covers what the node holds, through every crash.
THEOREM PriceInvariance == Spec => []PriceInv
BY InitPriceInv, PriceInvStep, PTL DEF Spec

\* gasPolicy.ts: no price above the ceiling is recorded or pending, and none below its tip.
THEOREM PricesWellFormed == Spec => []TypeOK
<1>1. PriceInv => TypeOK
    BY DEF PriceInv
<1> QED BY PriceInvariance, <1>1, PTL

\* gasPolicy.ts, REPLACEMENT floor: no replacement is refused for its price.
THEOREM BumpsAcceptedHolds == Spec => []BumpsAccepted
<1>1. PriceInv => BumpsAccepted
    BY DEF PriceInv
<1> QED BY PriceInvariance, <1>1, PTL

-----------------------------------------------------------------------------
(* A price outlasts its horizon *)

\* A price made now pays for the whole horizon.
LEMMA FreshPays ==
    ASSUME base \in 1..MaxBase, NEW price \in Prices, NEW suggested \in Tips, price.age = 0,
           worstCaseBaseFee(base, Horizon) + suggested <= price.maxFee
    PROVE  worstCaseBaseFee(base, Horizon - price.age) <= price.maxFee
<1>1. Horizon \in Nat /\ suggested \in Nat /\ Cap \in Nat
  BY GasAssumption DEF validateConfig
<1>2. worstCaseBaseFee(base, Horizon) \in Nat
  BY WorstCaseType
<1>3. price.maxFee \in Nat
  BY <1>1 DEF Prices
<1>4. Horizon - price.age = Horizon
  BY <1>1
<1> QED
  BY <1>1, <1>2, <1>3, <1>4

\* A block, with whatever base fee, takes one block from what the price was made for.
LEMMA AgeingPays ==
    ASSUME base \in 1..MaxBase, base' \in BaseFees \cup {base},
           NEW price \in Prices \cup {None}, PaysAhead(price),
           Older(price) # None, Older(price).age <= Horizon
    PROVE  worstCaseBaseFee(base', Horizon - Older(price).age) <= Older(price).maxFee
<1>1. Horizon \in Nat /\ BumpAfter \in Nat /\ Cap \in Nat /\ MaxBase \in Nat
  BY GasAssumption DEF validateConfig
<1>2. price # None /\ price \in Prices /\ Older(price).maxFee = price.maxFee
  BY OlderPrice
<1>3. Older(price).age = price.age + 1 /\ price.age \in Nat /\ price.age + 1 <= Horizon
  <2>1. Older(price) = [price EXCEPT !.age = IF price.age > Higher(BumpAfter, Horizon) THEN price.age ELSE price.age + 1]
    BY <1>2 DEF Older
  <2>2. price.age \in Nat
    BY <1>2 DEF Prices
  <2>3. Older(price).age = IF price.age > Higher(BumpAfter, Horizon) THEN price.age ELSE price.age + 1
    BY <1>2, <2>1 DEF Prices
  <2> QED
    BY <1>1, <2>2, <2>3 DEF Higher
<1> DEFINE left == Horizon - (price.age + 1)
           b == base
           c == base'
<1>4. left \in Nat /\ Horizon - price.age = left + 1
  BY <1>1, <1>3
<1>5. b \in Nat \ {0} /\ c \in Nat /\ c <= Step(b) /\ Step(b) \in Nat
  <2>1. b \in Nat \ {0}
    BY <1>1
  <2>2. c \in Nat
    <3>1. base' \in 1..MaxBase
      BY DEF BaseFees
    <3> QED
      BY <1>1, <3>1
  <2>3. CASE c = b
    BY <2>1, <2>3, StepType
  <2>4. CASE c # b
    <3>1. c <= b + Higher(b \div 8, 1)
      BY <2>4 DEF BaseFees
    <3> HIDE DEF b, c
    <3> QED
      BY <2>1, <2>2, <3>1, BlockWithinStep, StepType
  <2> QED
    BY <2>1, <2>2, <2>3, <2>4, StepType
<1> HIDE DEF left, b, c
<1>6. /\ worstCaseBaseFee(c, left) \in Nat /\ worstCaseBaseFee(b, left + 1) \in Nat
      /\ worstCaseBaseFee(c, left) <= worstCaseBaseFee(b, left + 1)
  <2>1. worstCaseBaseFee(c, left) <= worstCaseBaseFee(Step(b), left)
    BY <1>4, <1>5, WorstCase
  <2>2. worstCaseBaseFee(Step(b), left) = worstCaseBaseFee(b, left + 1)
    BY <1>4, <1>5, WorstCase
  <2>3. worstCaseBaseFee(c, left) \in Nat /\ worstCaseBaseFee(Step(b), left) \in Nat
    BY <1>4, <1>5, WorstCase
  <2> QED
    BY <2>1, <2>2, <2>3
<1>7. worstCaseBaseFee(b, left + 1) <= price.maxFee
  BY <1>1, <1>2, <1>3, <1>4 DEF PaysAhead, b
<1>8. price.maxFee \in Nat
  BY <1>1, <1>2 DEF Prices
<1>9. worstCaseBaseFee(c, left) <= price.maxFee
  BY <1>6, <1>7, <1>8
<1> QED
  BY <1>2, <1>3, <1>9 DEF left, c

\* gasPolicy.ts, worstCaseBaseFee(): what is recorded and what is pending pay for what is
\* left of their horizon, whatever the blocks do and whichever of the two is sent.
THEOREM HorizonInvariance == Spec => []HorizonInv
<1>1. Init => HorizonInv
  BY InitPriceInv DEF Init, HorizonInv, PaysAhead
<1>2. PriceInv /\ [Next]_vars => PriceInv'
  BY PriceInvStep
<1>3. HorizonInv /\ [Next]_vars => HorizonInv'
  <2> SUFFICES ASSUME HorizonInv, [Next]_vars PROVE PaysAhead(recorded)' /\ PaysAhead(pending)'
    BY <1>2 DEF HorizonInv
  <2>1. TypeOK /\ PaysAhead(recorded) /\ PaysAhead(pending) /\ TypeOK'
    BY <1>2 DEF HorizonInv, PriceInv
  <2>2. base \in 1..MaxBase /\ recorded \in Prices \cup {None} /\ pending \in Prices \cup {None}
    BY <2>1 DEF TypeOK
  <2>3. ASSUME NEW price, Record(price), price \in Prices,
               NEW suggested \in Tips, price.age = 0,
               worstCaseBaseFee(base, Horizon) + suggested <= price.maxFee
        PROVE  PaysAhead(recorded)' /\ PaysAhead(pending)'
    <3>1. worstCaseBaseFee(base, Horizon - price.age) <= price.maxFee
      BY <2>2, <2>3, FreshPays
    <3> QED
      BY <2>1, <2>3, <3>1 DEF Record, PaysAhead, worstCaseBaseFee
  <2>4. CASE PriceFirst
    <3>1. PICK suggested \in Tips :
              initialConfirmGas(suggested).maxFee <= Cap /\ Record(initialConfirmGas(suggested))
      BY <2>4 DEF PriceFirst
    <3> DEFINE price == initialConfirmGas(suggested)
    <3>2. price \in Prices
      BY <2>2, <3>1, InitialPrice, UnderCeiling
    <3>3. price.age = 0 /\ worstCaseBaseFee(base, Horizon) + suggested <= price.maxFee
      <4>1. suggested \in Nat /\ worstCaseBaseFee(base, Horizon) \in Nat
        BY <2>2, GasAssumption, WorstCaseType
      <4> QED
        BY <4>1 DEF initialConfirmGas, Price, Higher
    <3> HIDE DEF price
    <3> QED
      BY <2>3, <3>1, <3>2, <3>3 DEF price
  <2>5. CASE Bump
    <3>1. PICK suggested \in Tips :
              confirmGasPolicy(suggested).maxFee <= Cap /\ Record(confirmGasPolicy(suggested))
      BY <2>5 DEF Bump
    <3> DEFINE price == confirmGasPolicy(suggested)
    <3>2. price \in Prices
      <4>1. recorded \in Prices /\ pending \in Prices /\ Covers(recorded, pending)
            /\ recorded.maxFee # 0 /\ pending.maxFee # 0
        <5>1. state = "CONFIRM_SENT" /\ pending # None
          BY <2>5 DEF Bump, Stalled
        <5>2. recorded \in Prices /\ pending \in Prices /\ Covers(recorded, pending)
              /\ recorded.tip <= recorded.maxFee /\ pending.tip <= pending.maxFee
          BY <5>1 DEF HorizonInv, PriceInv, TypeOK
        <5> QED
          BY <5>2, GasAssumption DEF Prices, validateConfig
      <4>2. price \in [maxFee : Nat, tip : Nat \ {0}, age : Nat]
        BY <2>2, <4>1, BumpReplaces
      <4> QED
        BY <3>1, <4>2, UnderCeiling
    <3>3. price.age = 0 /\ worstCaseBaseFee(base, Horizon) + suggested <= price.maxFee
      <4> DEFINE market == worstCaseBaseFee(base, Horizon) + suggested
                 fee == bumpBy(recorded.maxFee, BumpPercent)
                 tip == Higher(bumpBy(recorded.tip, BumpPercent), suggested)
      <4>1. price = Price(Higher(Higher(fee, market), tip), tip)
        BY DEF confirmGasPolicy
      <4>2. market \in Int
        <5>1. suggested \in Int /\ worstCaseBaseFee(base, Horizon) \in Int
          BY <2>2, GasAssumption, WorstCaseType
        <5> QED
          BY <5>1
      <4>3. fee \in Int /\ tip \in Int
        <5>1. recorded.maxFee \in Nat /\ recorded.tip \in Nat /\ suggested \in Nat /\ BumpPercent \in Nat
          <6>1. recorded \in Prices
            BY <2>5 DEF Bump, Stalled, HorizonInv, PriceInv, TypeOK
          <6> QED
            BY <6>1, GasAssumption DEF Prices, validateConfig
        <5>2. bumpBy(recorded.tip, BumpPercent) \in Int /\ fee \in Int
          BY <5>1 DEF bumpBy
        <5> QED
          BY <5>1, <5>2 DEF Higher
      <4> HIDE DEF market, fee, tip, price
      <4>4. price.age = 0 /\ market <= price.maxFee
        BY <4>1, <4>2, <4>3 DEF Price, Higher
      <4> QED
        BY <4>4 DEF market
    <3> HIDE DEF price
    <3> QED
      BY <2>3, <3>1, <3>2, <3>3 DEF price
  <2>6. CASE Send
    BY <2>1, <2>6 DEF Send, PaysAhead, worstCaseBaseFee
  <2>7. CASE Persist \/ Resolve \/ HaltAtCeiling \/ Crash \/ UNCHANGED vars
    BY <2>1, <2>7 DEF Persist, Resolve, HaltAtCeiling, Crash, vars, PaysAhead, worstCaseBaseFee
  <2>8. CASE Evict
    BY <2>1, <2>8 DEF Evict, PaysAhead, worstCaseBaseFee
  <2>9. CASE Block
    <3>1. base' \in BaseFees \cup {base} /\ recorded' = Older(recorded) /\ pending' = Older(pending)
      BY <2>9 DEF Block
    <3>2. Older(recorded) # None /\ Older(recorded).age <= Horizon
              => worstCaseBaseFee(base', Horizon - Older(recorded).age) <= Older(recorded).maxFee
      BY <2>1, <2>2, <3>1, AgeingPays
    <3>3. Older(pending) # None /\ Older(pending).age <= Horizon
              => worstCaseBaseFee(base', Horizon - Older(pending).age) <= Older(pending).maxFee
      BY <2>1, <2>2, <3>1, AgeingPays
    <3> QED
      BY <3>1, <3>2, <3>3 DEF PaysAhead
  <2>10. CASE Mine
    <3>1. base' \in BaseFees \cup {base} /\ recorded' = Older(recorded) /\ pending' = None
      BY <2>10 DEF Mine
    <3>2. Older(recorded) # None /\ Older(recorded).age <= Horizon
              => worstCaseBaseFee(base', Horizon - Older(recorded).age) <= Older(recorded).maxFee
      BY <2>1, <2>2, <3>1, AgeingPays
    <3> QED
      BY <3>1, <3>2 DEF PaysAhead
  <2> QED
    BY <2>4, <2>5, <2>6, <2>7, <2>8, <2>9, <2>10 DEF Next, Service
<1> QED
  BY <1>1, <1>3, PTL DEF Spec

\* gasPolicy.ts, worstCaseBaseFee(): a transaction stays payable for as many blocks as it
\* was priced for.
THEOREM OutlastsHorizonHolds == Spec => []OutlastsHorizon
<1>1. HorizonInv => OutlastsHorizon
  <2> SUFFICES ASSUME HorizonInv, pending # None, pending.age <= Horizon PROVE base <= pending.maxFee
    BY DEF OutlastsHorizon
  <2>1. Horizon \in Nat /\ Cap \in Nat /\ MaxBase \in Nat
    BY GasAssumption DEF validateConfig
  <2>2. pending \in Prices /\ base \in 1..MaxBase
    BY DEF HorizonInv, PriceInv, TypeOK
  <2>3. pending.age \in Nat /\ pending.maxFee \in Nat /\ base \in Nat
    BY <2>1, <2>2 DEF Prices
  <2> DEFINE left == Horizon - pending.age
  <2>4. left \in Nat
    BY <2>1, <2>3
  <2>5. worstCaseBaseFee(base, left) <= pending.maxFee
    BY DEF HorizonInv, PaysAhead
  <2> HIDE DEF left
  <2>6. worstCaseBaseFee(base, left) \in Nat /\ base <= worstCaseBaseFee(base, left)
    BY <2>3, <2>4, WorstCase, WorstCaseGrows
  <2> QED
    BY <2>3, <2>5, <2>6
<1> QED
  BY <1>1, HorizonInvariance, PTL
=============================================================================
