--------------------------- MODULE SelfMint_proofs ---------------------------
(***************************************************************************)
(* For every set of deposits, amounts, keys and spends: what the current   *)
(* covenant, mintCovenantV2, accepts is what was authorized, what was      *)
(* authorized is accepted, and what is signed is what the contract         *)
(* digests.  The run of the script is followed opcode by opcode; the       *)
(* byte strings it takes apart are shown to be those that were put         *)
(* together.  So are those of a genesis, that the constructor of a lock    *)
(* takes apart.                                                            *)
(***************************************************************************)
EXTENDS SelfMint, Deployment, SumTheorems, SequenceTheorems

-----------------------------------------------------------------------------
(* Byte strings *)

\* A byte string: some pieces, none of them empty.
Bytes(says) == Seq([says : says, from : Nat, width : Nat \ {0}])

\* A byte string: a sequence of pieces, each of a whole number of bytes above 0.
IsBytes(s) == \E says : s \in Bytes(says)

\* Two byte strings are over the same pieces.
LEMMA Together ==
    ASSUME NEW a, NEW b, IsBytes(a), IsBytes(b)
    PROVE  \E says : a \in Bytes(says) /\ b \in Bytes(says)
<1>1. PICK A : a \in Bytes(A)
  BY DEF IsBytes
<1>2. PICK B : b \in Bytes(B)
  BY DEF IsBytes
<1>3. /\ [says : A, from : Nat, width : Nat \ {0}] \subseteq [says : A \cup B, from : Nat, width : Nat \ {0}]
      /\ [says : B, from : Nat, width : Nat \ {0}] \subseteq [says : A \cup B, from : Nat, width : Nat \ {0}]
  OBVIOUS
<1>4. a \in Bytes(A \cup B) /\ b \in Bytes(A \cup B)
  BY <1>1, <1>2, <1>3, SeqMonotonic DEF Bytes
<1> QED
  BY <1>4

\* One after the other.
LEMMA Joined ==
    ASSUME NEW a, NEW b, IsBytes(a), IsBytes(b)
    PROVE  /\ IsBytes(a \o b)
           /\ Len(a) \in Nat /\ Len(b) \in Nat /\ Len(a \o b) = Len(a) + Len(b)
           /\ \A i \in 1..Len(a) : (a \o b)[i] = a[i]
           /\ \A i \in 1..Len(b) : (a \o b)[Len(a) + i] = b[i]
<1>1. PICK says : a \in Bytes(says) /\ b \in Bytes(says)
  BY Together
<1>2. a \o b \in Bytes(says) /\ Len(a) \in Nat /\ Len(b) \in Nat
  BY <1>1, ConcatProperties, LenProperties DEF Bytes
<1>3. Len(a \o b) = Len(a) + Len(b)
  BY <1>1, ConcatProperties DEF Bytes
<1>4. \A i \in 1..(Len(a) + Len(b)) : (a \o b)[i] = IF i <= Len(a) THEN a[i] ELSE b[i - Len(a)]
  BY <1>1, ConcatProperties, Zenon DEF Bytes
<1>5. \A i \in 1..Len(a) : (a \o b)[i] = a[i]
  BY <1>2, <1>4
<1>6. \A i \in 1..Len(b) : (a \o b)[Len(a) + i] = b[i]
  BY <1>2, <1>4
<1> QED
  BY <1>2, <1>3, <1>5, <1>6 DEF IsBytes

\* Joining is associative.
LEMMA Associative ==
    ASSUME NEW a, NEW b, NEW c, IsBytes(a), IsBytes(b), IsBytes(c)
    PROVE  (a \o b) \o c = a \o (b \o c)
<1>1. Len(a) \in Nat /\ Len(b) \in Nat /\ Len(c) \in Nat
  BY Joined
<1> QED
  BY <1>1

\* Strings of the same pieces are the same.
LEMMA SameBytes ==
    ASSUME NEW a, NEW b, IsBytes(a), IsBytes(b), Len(a) = Len(b), \A i \in 1..Len(a) : a[i] = b[i]
    PROVE  a = b
<1>1. PICK says : a \in Bytes(says) /\ b \in Bytes(says)
  BY Together
<1> QED
  BY <1>1, SeqEqual DEF Bytes

\* A single piece is a string.
LEMMA PieceBytes ==
    ASSUME NEW tag, NEW value, NEW width \in Nat \ {0}
    PROVE  /\ IsBytes(Piece(tag, value, width))
           /\ Len(Piece(tag, value, width)) = 1
           /\ Piece(tag, value, width)[1] = [says |-> <<tag, value>>, from |-> 0, width |-> width]
<1>1. [says |-> <<tag, value>>, from |-> 0, width |-> width] \in
          [says : {<<tag, value>>}, from : Nat, width : Nat \ {0}]
  OBVIOUS
<1>2. Piece(tag, value, width) \in Bytes({<<tag, value>>})
  BY <1>1 DEF Bytes, Piece
<1> QED
  BY <1>2 DEF IsBytes, Piece

\* Equal pieces say the same.
LEMMA PieceSays ==
    ASSUME NEW tag1, NEW value1, NEW width1, NEW tag2, NEW value2, NEW width2,
           Piece(tag1, value1, width1) = Piece(tag2, value2, width2)
    PROVE  tag1 = tag2 /\ value1 = value2 /\ width1 = width2
<1> DEFINE p == [says |-> <<tag1, value1>>, from |-> 0, width |-> width1]
           q == [says |-> <<tag2, value2>>, from |-> 0, width |-> width2]
<1>1. <<p>> = <<q>>
  BY DEF Piece
<1>2. p = q
  <2> HIDE DEF p, q
  <2> QED BY <1>1
<1>3. p.says = q.says /\ p.width = q.width
  BY <1>2
<1>4. <<tag1, value1>> = <<tag2, value2>> /\ width1 = width2
  BY <1>3
<1> QED
  BY <1>4

\* So is the empty string.
LEMMA NoBytes == IsBytes(<< >>) /\ Len(<< >>) = 0
<1>1. << >> \in Bytes({})
  BY EmptySeq DEF Bytes
<1> QED
  BY <1>1 DEF IsBytes

-----------------------------------------------------------------------------
(* Recursive functions *)

\* g is what a step makes of a base, up to n times.
Iterated(g, n, V, base, step) ==
    g \in [0..n -> V] /\ g[0] = base /\ \A k \in 1..n : g[k] = step[<<k, g[k - 1]>>]

\* There is such a function.
LEMMA Iterates ==
    ASSUME NEW V, NEW base \in V, NEW n \in Nat, NEW step \in [(1..n) \X V -> V]
    PROVE  \E g : Iterated(g, n, V, base, step)
<1> DEFINE Is(g, m) == g \in [0..m -> V] /\ g[0] = base /\ \A k \in 1..m : g[k] = step[<<k, g[k - 1]>>]
           G == {m \in Nat : m <= n => \E g : Is(g, m)}
<1>1. 0 \in G
  <2> DEFINE g == [k \in 0..0 |-> base]
  <2>1. Is(g, 0)
    OBVIOUS
  <2> QED
    BY <2>1, Zenon
<1>2. ASSUME NEW m \in Nat, m \in G PROVE m + 1 \in G
  <2>1. SUFFICES ASSUME m + 1 <= n PROVE \E g : Is(g, m + 1)
    OBVIOUS
  <2>2. PICK g : Is(g, m)
    BY <1>2, <2>1
  <2> DEFINE h == [k \in 0..(m + 1) |-> IF k <= m THEN g[k] ELSE step[<<m + 1, g[m]>>]]
  <2>3. g[m] \in V /\ <<m + 1, g[m]>> \in (1..n) \X V
    BY <2>1, <2>2
  <2>4. step[<<m + 1, g[m]>>] \in V
    BY <2>3
  <2>5. h \in [0..(m + 1) -> V] /\ h[0] = base
    BY <2>2, <2>4
  <2>6. ASSUME NEW k \in 1..(m + 1) PROVE h[k] = step[<<k, h[k - 1]>>]
    <3>1. CASE k <= m
      <4>1. k \in 1..m /\ h[k] = g[k] /\ h[k - 1] = g[k - 1]
        BY <3>1
      <4> HIDE DEF h
      <4> QED
        BY <2>2, <4>1
    <3>2. CASE k = m + 1
      <4>1. h[k] = step[<<m + 1, g[m]>>] /\ h[k - 1] = g[m]
        BY <3>2
      <4> HIDE DEF h
      <4> QED
        BY <3>2, <4>1
    <3> QED
      BY <3>1, <3>2
  <2>7. Is(h, m + 1)
    <3> HIDE DEF h
    <3> QED
      BY <2>5, <2>6
  <2> QED
    BY <2>7, Zenon
<1>3. \A m \in Nat : m \in G
  <2> HIDE DEF G
  <2> QED
    BY <1>1, <1>2, NatSetInduction
<1> QED
  <2> HIDE DEF Is
  <2>1. \E g : Is(g, n)
    BY <1>3
  <2> QED
    BY <2>1 DEF Is, Iterated

\* The pieces of a string, one by one.
LEMMA EndsUnfold ==
    ASSUME NEW s, IsBytes(s)
    PROVE  /\ Len(s) \in Nat
           /\ Ends(s) \in [0..Len(s) -> Nat] /\ Ends(s)[0] = 0
           /\ \A k \in 1..Len(s) : Ends(s)[k] = Ends(s)[k - 1] + s[k].width
<1> DEFINE n == Len(s)
           step == [x \in (1..n) \X Nat |-> x[2] + s[x[1]].width]
           Is(g) == g = [i \in 0..n |-> IF i = 0 THEN 0 ELSE g[i - 1] + s[i].width]
<1>1. n \in Nat /\ \A k \in 1..n : s[k].width \in Nat
  <2>1. PICK says : s \in Bytes(says)
    BY DEF IsBytes
  <2>2. n \in Nat /\ \A k \in 1..n : s[k] \in [says : says, from : Nat, width : Nat \ {0}]
    BY <2>1, LenProperties, ElementOfSeq DEF Bytes
  <2> QED
    BY <2>2
<1>2. step \in [(1..n) \X Nat -> Nat]
  BY <1>1
<1>3. PICK g : Iterated(g, n, Nat, 0, step)
  <2> HIDE DEF step, n
  <2>1. 0 \in Nat
    OBVIOUS
  <2> QED BY <1>1, <1>2, <2>1, Iterates, Zenon
<1>4. ASSUME NEW k \in 1..n PROVE g[k] = g[k - 1] + s[k].width
  <2>1. k - 1 \in 0..n
    BY <1>1
  <2>2. <<k, g[k - 1]>> \in (1..n) \X Nat
    BY <1>3, <2>1 DEF Iterated
  <2> QED BY <1>3, <2>2 DEF Iterated
<1>5. Is(g)
  <2> HIDE DEF n
  <2>1. \A i \in 0..n : g[i] = IF i = 0 THEN 0 ELSE g[i - 1] + s[i].width
    BY <1>1, <1>3, <1>4 DEF Iterated
  <2> QED
    BY <1>3, <2>1 DEF Iterated
<1>6. Is(Ends(s))
  BY <1>5, Zenon DEF Ends
<1> DEFINE e == Ends(s)
<1>7. e = [i \in 0..n |-> IF i = 0 THEN 0 ELSE e[i - 1] + s[i].width]
  BY <1>6
<1> HIDE DEF e, n
<1>8. e[0] = 0 /\ \A k \in 1..n : e[k] = e[k - 1] + s[k].width
  BY <1>1, <1>7
<1>9. \A i \in Nat : i <= n => e[i] \in Nat
  <2> DEFINE G == {i \in Nat : i <= n => e[i] \in Nat}
  <2>1. 0 \in G
    BY <1>8
  <2>2. \A i \in Nat : i \in G => i + 1 \in G
    <3>1. ASSUME NEW i \in Nat, i + 1 <= n, e[i] \in Nat PROVE e[i + 1] \in Nat
      <4>1. i + 1 \in 1..n /\ (i + 1) - 1 = i
        BY <1>1, <3>1
      <4>2. e[i + 1] = e[i] + s[i + 1].width /\ s[i + 1].width \in Nat
        BY <1>1, <1>8, <4>1
      <4> QED BY <3>1, <4>2
    <3>2. \A i \in Nat : i + 1 <= n => i <= n
      BY <1>1
    <3> QED BY <3>1, <3>2
  <2>3. \A i \in Nat : i \in G
    <3> HIDE DEF G
    <3> QED BY <2>1, <2>2, NatSetInduction
  <2> QED BY <2>3
<1>10. e \in [0..n -> Nat]
  <2>1. \A i \in 0..n : e[i] \in Nat
    BY <1>1, <1>9
  <2>2. e = [i \in 0..n |-> e[i]]
    BY <1>7
  <2> QED BY <2>1, <2>2
<1> QED
  BY <1>1, <1>8, <1>10 DEF e, n

\* Strings together, one by one.
LEMMA JoinsUnfold ==
    ASSUME NEW seqs, Len(seqs) \in Nat, \A i \in 1..Len(seqs) : IsBytes(seqs[i])
    PROVE  /\ Joins(seqs)[0] = << >>
           /\ \A k \in 1..Len(seqs) : Joins(seqs)[k] = Joins(seqs)[k - 1] \o seqs[k]
           /\ \A k \in 0..Len(seqs) : IsBytes(Joins(seqs)[k])
<1> DEFINE n == Len(seqs)
           SaysOf(i) == CHOOSE says : seqs[i] \in Bytes(says)
           S == UNION {SaysOf(i) : i \in 1..n}
           step == [x \in (1..n) \X Bytes(S) |-> x[2] \o seqs[x[1]]]
           Is(g) == g = [k \in 0..n |-> IF k = 0 THEN << >> ELSE g[k - 1] \o seqs[k]]
<1>1. ASSUME NEW i \in 1..n PROVE seqs[i] \in Bytes(S)
  <2>1. \E says : seqs[i] \in Bytes(says)
    BY DEF IsBytes
  <2>0. seqs[i] \in Bytes(SaysOf(i))
    BY <2>1, Zenon
  <2>2. SaysOf(i) \subseteq S
    OBVIOUS
  <2> HIDE DEF S, SaysOf
  <2> DEFINE P == [says : SaysOf(i), from : Nat, width : Nat \ {0}]
             Q == [says : S, from : Nat, width : Nat \ {0}]
  <2>3. P \subseteq Q
    BY <2>2
  <2>4. seqs[i] \in Seq(P)
    BY <2>0 DEF Bytes
  <2>5. seqs[i] \in Seq(Q)
    <3> HIDE DEF P, Q
    <3> QED BY <2>3, <2>4, SeqMonotonic
  <2> QED
    BY <2>5 DEF Bytes
<1> HIDE DEF S
<1>2. step \in [(1..n) \X Bytes(S) -> Bytes(S)]
  <2>1. ASSUME NEW x \in (1..n) \X Bytes(S) PROVE x[2] \o seqs[x[1]] \in Bytes(S)
    <3>1. x[1] \in 1..n /\ x[2] \in Bytes(S)
      OBVIOUS
    <3> QED
      BY <1>1, <3>1, ConcatProperties DEF Bytes
  <2> QED
    BY <2>1
<1>3. << >> \in Bytes(S)
  BY EmptySeq DEF Bytes
<1>4. PICK g : Iterated(g, n, Bytes(S), << >>, step)
  <2> HIDE DEF step, n
  <2>1. n \in Nat
    BY DEF n
  <2> QED BY <1>2, <1>3, <2>1, Iterates, Zenon
<1>5. ASSUME NEW k \in 1..n PROVE g[k] = g[k - 1] \o seqs[k]
  <2>1. k - 1 \in 0..n
    OBVIOUS
  <2>2. <<k, g[k - 1]>> \in (1..n) \X Bytes(S)
    BY <1>4, <2>1 DEF Iterated
  <2> QED BY <1>4, <2>2 DEF Iterated
<1>6. Is(g)
  <2> HIDE DEF n
  <2>1. n \in Nat
    BY DEF n
  <2>2. g[0] = << >> /\ g \in [0..n -> Bytes(S)]
    BY <1>4, Zenon DEF Iterated
  <2>3. \A k \in 0..n : k # 0 => k \in 1..n
    BY <2>1
  <2>4. ASSUME NEW k \in 0..n PROVE g[k] = IF k = 0 THEN << >> ELSE g[k - 1] \o seqs[k]
    <3>1. CASE k = 0
      BY <2>2, <3>1, Zenon
    <3>2. CASE k # 0
      <4>1. k \in 1..n
        BY <2>3, <3>2, Zenon
      <4>2. g[k] = g[k - 1] \o seqs[k]
        BY <1>5, <4>1, Zenon
      <4> QED
        BY <3>2, <4>2, Zenon
    <3> QED
      BY <3>1, <3>2, Zenon
  <2> QED
    BY <2>2, <2>4, Zenon
<1>7. Is(Joins(seqs))
  BY <1>6, Zenon DEF Joins
<1> DEFINE j == Joins(seqs)
<1>8. j = [k \in 0..n |-> IF k = 0 THEN << >> ELSE j[k - 1] \o seqs[k]]
  BY <1>7
<1>9. n \in Nat
  OBVIOUS
<1>10. \A i \in 1..n : IsBytes(seqs[i])
  OBVIOUS
<1> HIDE DEF j, n
<1>11. j[0] = << >> /\ \A k \in 1..n : j[k] = j[k - 1] \o seqs[k]
  <2>1. \A k \in 0..n : j[k] = IF k = 0 THEN << >> ELSE j[k - 1] \o seqs[k]
    BY <1>8
  <2>2. 0 \in 0..n /\ \A k \in 1..n : k \in 0..n /\ k # 0
    BY <1>9
  <2> QED BY <2>1, <2>2
<1> DEFINE G == {i \in Nat : i <= n => IsBytes(j[i])}
<1>12. 0 \in G
  BY <1>11, NoBytes
<1>13. ASSUME NEW i \in Nat, i \in G PROVE i + 1 \in G
  <2>1. SUFFICES ASSUME i + 1 <= n PROVE IsBytes(j[i + 1])
    OBVIOUS
  <2>2. i + 1 \in 1..n /\ (i + 1) - 1 = i /\ i <= n
    BY <1>9, <2>1
  <2>3. j[i + 1] = j[i] \o seqs[i + 1] /\ IsBytes(j[i]) /\ IsBytes(seqs[i + 1])
    BY <1>10, <1>11, <1>13, <2>2
  <2> QED BY <2>3, Joined
<1>14. \A i \in Nat : i \in G
  <2> HIDE DEF G
  <2> QED BY <1>12, <1>13, NatSetInduction
<1>15. \A k \in 0..n : IsBytes(j[k])
  BY <1>9, <1>14
<1> QED
  BY <1>11, <1>15 DEF j, n

\* A place where a string can be cut.
At(whole, part) == [whole |-> whole, part |-> part]

\* Where a string is cut, piece by piece.
LEMMA CutsUnfold ==
    ASSUME NEW s, IsBytes(s)
    PROVE  \A i \in 0..Len(s), n \in Nat :
              Cuts(s)[At(i, n)] = IF i < Len(s) /\ s[i + 1].width <= n THEN Cuts(s)[At(i + 1, n - s[i + 1].width)]
                                  ELSE At(i, n)
<1> DEFINE L == Len(s)
           D == [whole : 0..L, part : Nat]
           V == [Nat -> D]
           base == [n \in Nat |-> At(L, n)]
           w(k) == s[(L - k) + 1].width
           step == [x \in (1..L) \X V |->
                      [n \in Nat |-> IF w(x[1]) <= n THEN x[2][n - w(x[1])] ELSE At(L - x[1], n)]]
           Is(g) == g = [at \in D |-> IF at.whole < L /\ s[at.whole + 1].width <= at.part
                                        THEN g[[whole |-> at.whole + 1, part |-> at.part - s[at.whole + 1].width]]
                                        ELSE at]
<1>1. L \in Nat /\ \A k \in 1..L : s[k].width \in Nat
  <2>1. PICK says : s \in Bytes(says)
    BY DEF IsBytes
  <2>2. L \in Nat /\ \A k \in 1..L : s[k] \in [says : says, from : Nat, width : Nat \ {0}]
    BY <2>1, LenProperties, ElementOfSeq DEF Bytes
  <2> QED
    BY <2>2
<1>2. base \in V
  <2>1. \A n \in Nat : At(L, n) \in D
    BY <1>1 DEF At
  <2> HIDE DEF D
  <2> QED BY <2>1
<1>3. step \in [(1..L) \X V -> V]
  <2>1. ASSUME NEW k \in 1..L, NEW f \in V, NEW n \in Nat
        PROVE  (IF w(k) <= n THEN f[n - w(k)] ELSE At(L - k, n)) \in D
    <3>1. (L - k) + 1 \in 1..L /\ L - k \in 0..L
      <4> HIDE DEF L
      <4> QED BY <1>1
    <3>2. w(k) \in Nat
      BY <1>1, <3>1
    <3>3. At(L - k, n) \in D
      BY <3>1 DEF At
    <3> HIDE DEF w, D
    <3>4. w(k) <= n => n - w(k) \in Nat
      BY <3>2
    <3> QED
      BY <3>3, <3>4
  <2> HIDE DEF w, D
  <2> QED
    BY <2>1
<1>4. PICK h : Iterated(h, L, V, base, step)
  <2> HIDE DEF step, L, V, base
  <2> QED BY <1>1, <1>2, <1>3, Iterates, Zenon
<1>5. ASSUME NEW i \in 0..L, NEW n \in Nat
      PROVE  h[L - i][n] = IF i < L /\ s[i + 1].width <= n THEN h[L - (i + 1)][n - s[i + 1].width]
                           ELSE At(i, n)
  <2>1. CASE i = L
    <3>1. h[L - i] = base /\ ~(i < L)
      BY <1>1, <1>4, <2>1 DEF Iterated
    <3> QED BY <2>1, <3>1
  <2>2. CASE i < L
    <3> DEFINE k == L - i
    <3>1. k \in 1..L /\ k - 1 = L - (i + 1) /\ k - 1 \in 0..L /\ (L - k) + 1 = i + 1 /\ L - k = i
      BY <1>1, <2>2
    <3>2. h[k] = step[<<k, h[k - 1]>>] /\ h[k - 1] \in V
      BY <1>4, <3>1 DEF Iterated
    <3>3. <<k, h[k - 1]>> \in (1..L) \X V
      BY <3>1, <3>2
    <3> HIDE DEF V, k
    <3>4. h[k][n] = IF w(k) <= n THEN h[k - 1][n - w(k)] ELSE At(L - k, n)
      BY <3>2, <3>3
    <3>5. w(k) = s[i + 1].width
      BY <3>1
    <3> QED
      BY <2>2, <3>1, <3>4, <3>5 DEF k
  <2> QED BY <1>1, <2>1, <2>2
<1> DEFINE g == [at \in D |-> h[L - at.whole][at.part]]
<1>6. Is(g)
  <2>1. ASSUME NEW at \in D
        PROVE  g[at] = IF at.whole < L /\ s[at.whole + 1].width <= at.part
                         THEN g[[whole |-> at.whole + 1, part |-> at.part - s[at.whole + 1].width]]
                         ELSE at
    <3> DEFINE i == at.whole
               n == at.part
    <3>1. i \in 0..L /\ n \in Nat /\ at = At(i, n)
      BY DEF At
    <3>2. g[at] = h[L - i][n]
      OBVIOUS
    <3>3. CASE i < L /\ s[i + 1].width <= n
      <4>1. i + 1 \in 1..L
        BY <1>1, <3>1, <3>3
      <4>2. s[i + 1].width \in Nat
        BY <1>1, <4>1
      <4>3. i + 1 \in 0..L /\ n - s[i + 1].width \in Nat
        BY <1>1, <3>1, <3>3, <4>1, <4>2
      <4> DEFINE m == n - s[i + 1].width
      <4> HIDE DEF i, n, L, m
      <4>4. g[[whole |-> i + 1, part |-> m]] = h[L - (i + 1)][m]
        BY <4>3 DEF m
      <4>5. g[at] = h[L - (i + 1)][m]
        BY <1>5, <3>1, <3>2, <3>3 DEF m
      <4> HIDE DEF g
      <4> QED
        BY <3>3, <4>4, <4>5 DEF i, n, m
    <3>4. CASE ~(i < L /\ s[i + 1].width <= n)
      <4> HIDE DEF i, n, L
      <4>1. g[at] = At(i, n)
        BY <1>5, <3>1, <3>2, <3>4
      <4> HIDE DEF g
      <4> QED BY <3>1, <3>4, <4>1 DEF i, n
    <3> QED BY <3>3, <3>4
  <2>2. g = [at \in D |-> g[at]]
    OBVIOUS
  <2> HIDE DEF g, L, D
  <2> QED
    BY <2>1, <2>2
<1>7. Is(Cuts(s))
  BY <1>6, Zenon DEF Cuts
<1> QED
  <2> DEFINE c == Cuts(s)
  <2>1. c = [at \in D |-> IF at.whole < L /\ s[at.whole + 1].width <= at.part
                             THEN c[[whole |-> at.whole + 1, part |-> at.part - s[at.whole + 1].width]]
                             ELSE at]
    BY <1>7
  <2> HIDE DEF c
  <2>2. ASSUME NEW i \in 0..L, NEW n \in Nat
        PROVE  c[At(i, n)] = IF i < L /\ s[i + 1].width <= n THEN c[At(i + 1, n - s[i + 1].width)] ELSE At(i, n)
    <3>1. At(i, n) \in D /\ At(i, n).whole = i /\ At(i, n).part = n
      BY DEF At
    <3> HIDE DEF D, L
    <3>2. c[At(i, n)] = IF At(i, n).whole < L /\ s[At(i, n).whole + 1].width <= At(i, n).part
                             THEN c[At(At(i, n).whole + 1, At(i, n).part - s[At(i, n).whole + 1].width)]
                             ELSE At(i, n)
      BY <2>1, <3>1 DEF At
    <3> QED BY <3>1, <3>2
  <2> QED BY <2>2 DEF c

-----------------------------------------------------------------------------
(* Widths, and strings cut where they were put together *)

\* The pieces of two strings end where each one's do.
LEMMA EndsOfJoined ==
    ASSUME NEW a, NEW b, IsBytes(a), IsBytes(b)
    PROVE  /\ \A k \in 0..Len(a) : Ends(a \o b)[k] = Ends(a)[k]
           /\ \A k \in 0..Len(b) : Ends(a \o b)[Len(a) + k] = Width(a) + Ends(b)[k]
<1> DEFINE s == a \o b
           A == Len(a)
           B == Len(b)
           e == Ends(s)
           ea == Ends(a)
           eb == Ends(b)
<1>1. /\ IsBytes(s) /\ A \in Nat /\ B \in Nat /\ Len(s) = A + B
      /\ \A i \in 1..A : s[i] = a[i]
      /\ \A i \in 1..B : s[A + i] = b[i]
  BY Joined
<1>2. /\ e[0] = 0 /\ \A i \in 1..(A + B) : e[i] = e[i - 1] + s[i].width
      /\ ea[0] = 0 /\ \A i \in 1..A : ea[i] = ea[i - 1] + a[i].width
      /\ eb[0] = 0 /\ \A i \in 1..B : eb[i] = eb[i - 1] + b[i].width
      /\ ea[A] = Width(a) /\ Width(a) \in Nat /\ \A i \in 0..B : eb[i] \in Nat
      /\ \A i \in 1..B : b[i].width \in Nat
  <2>1. \A i \in 1..(A + B) : e[i] = e[i - 1] + s[i].width
    BY <1>1, EndsUnfold
  <2>2. PICK says : b \in Bytes(says)
    BY DEF IsBytes
  <2>3. \A i \in 1..B : b[i] \in [says : says, from : Nat, width : Nat \ {0}]
    BY <2>2, ElementOfSeq DEF Bytes
  <2>4. \A i \in 1..B : b[i].width \in Nat
    BY <2>3
  <2>5. e[0] = 0 /\ ea[0] = 0 /\ eb[0] = 0
    BY <1>1, EndsUnfold
  <2>6. /\ \A i \in 1..A : ea[i] = ea[i - 1] + a[i].width
        /\ \A i \in 1..B : eb[i] = eb[i - 1] + b[i].width
    BY EndsUnfold
  <2>7. ea \in [0..A -> Nat] /\ eb \in [0..B -> Nat]
    BY EndsUnfold
  <2>8. ea[A] = Width(a) /\ Width(a) \in Nat /\ \A i \in 0..B : eb[i] \in Nat
    <3> HIDE DEF A, B, ea, eb
    <3>1. A \in 0..A
      BY <1>1
    <3> QED BY <2>7, <3>1 DEF Width, ea, A
  <2> HIDE DEF e, ea, eb, s, A, B
  <2> QED BY <2>1, <2>4, <2>5, <2>6, <2>8
<1> HIDE DEF s, A, B, e, ea, eb
<1> DEFINE G == {k \in Nat : k <= A => e[k] = ea[k]}
<1>3. 0 \in G
  BY <1>2
<1>4. ASSUME NEW k \in Nat, k \in G PROVE k + 1 \in G
  <2>1. SUFFICES ASSUME k + 1 <= A PROVE e[k + 1] = ea[k + 1]
    OBVIOUS
  <2>2. k + 1 \in 1..A /\ k + 1 \in 1..(A + B) /\ (k + 1) - 1 = k /\ k <= A
    BY <1>1, <2>1
  <2> QED BY <1>1, <1>2, <1>4, <2>2
<1>5. \A k \in Nat : k \in G
  <2> HIDE DEF G
  <2> QED BY <1>3, <1>4, NatSetInduction
<1>6. \A k \in 0..A : e[k] = ea[k]
  BY <1>1, <1>5
<1> DEFINE H == {k \in Nat : k <= B => e[A + k] = Width(a) + eb[k]}
<1>7. 0 \in H
  <2>1. A + 0 = A /\ A \in 0..A
    BY <1>1
  <2> QED BY <1>2, <1>6, <2>1
<1>8. ASSUME NEW k \in Nat, k \in H PROVE k + 1 \in H
  <2>1. SUFFICES ASSUME k + 1 <= B PROVE e[A + (k + 1)] = Width(a) + eb[k + 1]
    OBVIOUS
  <2>2. k + 1 \in 1..B /\ A + (k + 1) \in 1..(A + B) /\ (A + (k + 1)) - 1 = A + k /\ (k + 1) - 1 = k
        /\ k <= B /\ k \in 0..B
    BY <1>1, <2>1
  <2>3. e[A + (k + 1)] = e[A + k] + s[A + (k + 1)].width /\ s[A + (k + 1)] = b[k + 1]
    BY <1>1, <1>2, <2>2
  <2>4. eb[k + 1] = eb[k] + b[k + 1].width /\ eb[k] \in Nat /\ b[k + 1].width \in Nat
    BY <1>2, <2>2
  <2>5. e[A + k] = Width(a) + eb[k]
    BY <1>8, <2>2
  <2> DEFINE x == b[k + 1].width
             y == eb[k]
             z == Width(a)
  <2>6. x \in Nat /\ y \in Nat /\ z \in Nat
    BY <1>2, <2>4
  <2>7. e[A + (k + 1)] = (z + y) + x /\ eb[k + 1] = y + x
    BY <2>3, <2>4, <2>5
  <2> HIDE DEF x, y, z
  <2>8. (z + y) + x = z + (y + x)
    BY <2>6
  <2> QED BY <2>7, <2>8 DEF z
<1>9. \A k \in Nat : k \in H
  <2> HIDE DEF H
  <2> QED BY <1>7, <1>8, NatSetInduction
<1>10. \A k \in 0..B : e[A + k] = Width(a) + eb[k]
  BY <1>1, <1>9
<1> QED
  BY <1>6, <1>10 DEF e, s, ea, eb, A, B

\* A string has a whole number of bytes.
LEMMA WidthIsNat ==
    ASSUME NEW a, IsBytes(a)
    PROVE  Width(a) \in Nat
<1>1. Len(a) \in Nat /\ Ends(a) \in [0..Len(a) -> Nat]
  BY EndsUnfold
<1>2. Len(a) \in 0..Len(a)
  BY <1>1
<1> QED BY <1>1, <1>2 DEF Width

\* The bytes of two strings joined are those of the one and the other.
LEMMA WidthOfJoined ==
    ASSUME NEW a, NEW b, IsBytes(a), IsBytes(b)
    PROVE  Width(a \o b) = Width(a) + Width(b)
<1>1. Len(a \o b) = Len(a) + Len(b) /\ Len(a) \in Nat /\ Len(b) \in Nat
  BY Joined
<1>2. Len(b) \in 0..Len(b)
  BY <1>1
<1> QED
  BY <1>1, <1>2, EndsOfJoined DEF Width

\* The bytes of a single piece.
LEMMA WidthOfPiece ==
    ASSUME NEW tag, NEW value, NEW width \in Nat \ {0}
    PROVE  Width(Piece(tag, value, width)) = width
<1> DEFINE s == Piece(tag, value, width)
<1>1. IsBytes(s) /\ Len(s) = 1 /\ s[1].width = width
  <2>1. s[1] = [says |-> <<tag, value>>, from |-> 0, width |-> width] /\ IsBytes(s) /\ Len(s) = 1
    BY PieceBytes
  <2> HIDE DEF s
  <2> QED BY <2>1
<1> HIDE DEF s
<1>2. Ends(s)[0] = 0 /\ \A k \in 1..Len(s) : Ends(s)[k] = Ends(s)[k - 1] + s[k].width
  BY <1>1, EndsUnfold
<1>3. Ends(s)[1] = Ends(s)[0] + s[1].width
  BY <1>1, <1>2
<1>4. Width(s) = width
  BY <1>1, <1>2, <1>3 DEF Width
<1> QED BY <1>4 DEF s

\* The empty string has none.
LEMMA WidthOfNone == Width(<< >>) = 0
BY NoBytes, EndsUnfold DEF Width

\* No piece is empty, so that a string ends where its pieces say and goes on after them.
LEMMA CutOfJoined ==
    ASSUME NEW a, NEW b, IsBytes(a), IsBytes(b)
    PROVE  Cut(a \o b, Width(a)) = At(Len(a), 0)
<1> DEFINE s == a \o b
           A == Len(a)
           B == Len(b)
           e == Ends(a)
           W == Width(a)
           c == Cuts(s)
<1>1. /\ IsBytes(s) /\ A \in Nat /\ B \in Nat /\ Len(s) = A + B
      /\ \A i \in 1..A : s[i] = a[i]
      /\ \A i \in 1..B : s[A + i] = b[i]
  BY Joined
<1>2. /\ e[0] = 0 /\ \A i \in 1..A : e[i] = e[i - 1] + a[i].width
      /\ e[A] = W /\ W \in Nat /\ \A i \in 0..A : e[i] \in Nat
  BY EndsUnfold, WidthIsNat DEF Width
<1>3. /\ \A i \in 1..A : a[i].width \in Nat \ {0}
      /\ \A i \in 1..B : b[i].width \in Nat \ {0}
  <2>1. PICK says : a \in Bytes(says) /\ b \in Bytes(says)
    BY Together
  <2>2. /\ \A i \in 1..A : a[i] \in [says : says, from : Nat, width : Nat \ {0}]
        /\ \A i \in 1..B : b[i] \in [says : says, from : Nat, width : Nat \ {0}]
    BY <2>1, ElementOfSeq DEF Bytes
  <2> QED BY <2>2
<1>4. \A i \in 0..(A + B), n \in Nat :
          c[At(i, n)] = IF i < A + B /\ s[i + 1].width <= n THEN c[At(i + 1, n - s[i + 1].width)] ELSE At(i, n)
  BY <1>1, CutsUnfold
<1> HIDE DEF s, A, B, e, W, c
\* What is left to cut falls piece by piece.
<1> DEFINE G == {k \in Nat : k <= A => e[A - k] <= W}
<1>5. 0 \in G
  BY <1>1, <1>2
<1>6. ASSUME NEW k \in Nat, k \in G PROVE k + 1 \in G
  <2>1. SUFFICES ASSUME k + 1 <= A PROVE e[A - (k + 1)] <= W
    OBVIOUS
  <2>2. A - k \in 1..A /\ (A - k) - 1 = A - (k + 1) /\ k <= A /\ A - (k + 1) \in 0..A
    BY <1>1, <2>1
  <2>3. e[A - k] = e[A - (k + 1)] + a[A - k].width /\ e[A - k] <= W
    BY <1>2, <1>6, <2>2
  <2>4. e[A - (k + 1)] \in Nat /\ a[A - k].width \in Nat
    BY <1>2, <1>3, <2>2
  <2> QED BY <1>2, <2>3, <2>4
<1>7. \A k \in Nat : k \in G
  <2> HIDE DEF G
  <2> QED BY <1>5, <1>6, NatSetInduction
<1>8. \A i \in 0..A : e[i] <= W
  <2>1. ASSUME NEW i \in 0..A PROVE e[i] <= W
    <3>1. A - i \in Nat /\ A - i <= A /\ A - (A - i) = i
      BY <1>1
    <3> QED BY <1>7, <3>1
  <2> QED BY <2>1
<1> DEFINE H == {i \in Nat : i <= A => c[At(0, W)] = c[At(i, W - e[i])]}
<1>9. 0 \in H
  BY <1>2
<1>10. ASSUME NEW i \in Nat, i \in H PROVE i + 1 \in H
  <2>1. SUFFICES ASSUME i + 1 <= A PROVE c[At(0, W)] = c[At(i + 1, W - e[i + 1])]
    OBVIOUS
  <2>2. i + 1 \in 1..A /\ i \in 0..A /\ i + 1 \in 0..A /\ i \in 0..(A + B) /\ i < A + B /\ (i + 1) - 1 = i
    BY <1>1, <2>1
  <2> DEFINE x == a[i + 1].width
             y == e[i]
             z == e[i + 1]
  <2>3. x \in Nat /\ y \in Nat /\ z \in Nat /\ z <= W /\ z = y + x /\ s[i + 1].width = x
    BY <1>1, <1>2, <1>3, <1>8, <2>2
  <2>4. c[At(0, W)] = c[At(i, W - y)]
    BY <1>10, <2>2
  <2> HIDE DEF x, y, z
  <2>5. W - y \in Nat /\ x <= W - y /\ (W - y) - x = W - z
    BY <1>2, <2>3
  <2>6. c[At(i, W - y)] = c[At(i + 1, W - z)]
    BY <1>4, <2>2, <2>3, <2>5
  <2> QED BY <2>4, <2>6 DEF z
<1>11. \A i \in Nat : i \in H
  <2> HIDE DEF H
  <2> QED BY <1>9, <1>10, NatSetInduction
<1>12. c[At(0, W)] = c[At(A, 0)]
  <2>1. A <= A /\ W - e[A] = 0
    BY <1>1, <1>2
  <2> QED BY <1>1, <1>11, <2>1
<1>13. c[At(A, 0)] = At(A, 0)
  <2>1. A \in 0..(A + B) /\ 0 \in Nat
    BY <1>1
  <2>2. A < A + B => ~(s[A + 1].width <= 0)
    <3>1. SUFFICES ASSUME A < A + B PROVE ~(s[A + 1].width <= 0)
      OBVIOUS
    <3>2. 1 \in 1..B
      BY <1>1, <3>1
    <3>3. s[A + 1].width = b[1].width /\ b[1].width \in Nat \ {0}
      BY <1>1, <1>3, <3>2
    <3> QED BY <3>3
  <2> QED BY <1>4, <2>1, <2>2
<1> QED
  BY <1>12, <1>13 DEF Cut, At, c, s, W, A

\* Cut between two pieces, what is left is the pieces that follow.
LEMMA WholePieces ==
    ASSUME NEW s, NEW n, Cut(s, n).part = 0
    PROVE  Rest(s, n) = SubSeq(s, Cut(s, n).whole + 1, Len(s))
BY DEF Rest

\* Cut where two strings were joined, the first and the second come back.
LEMMA CutBetween ==
    ASSUME NEW a, NEW b, IsBytes(a), IsBytes(b)
    PROVE  First(a \o b, Width(a)) = a /\ Rest(a \o b, Width(a)) = b
<1> DEFINE s == a \o b
<1>1. PICK says : a \in Bytes(says) /\ b \in Bytes(says)
  BY Together
<1>2. /\ s \in Bytes(says) /\ Len(a) \in Nat /\ Len(b) \in Nat /\ Len(s) = Len(a) + Len(b)
      /\ \A i \in 1..Len(a) : s[i] = a[i]
      /\ \A i \in 1..Len(b) : s[Len(a) + i] = b[i]
  BY <1>1, Joined, ConcatProperties DEF Bytes
<1>3. Cut(s, Width(a)).whole = Len(a) /\ Cut(s, Width(a)).part = 0
  BY CutOfJoined DEF At
<1> HIDE DEF s
<1>4. First(s, Width(a)) = SubSeq(s, 1, Len(a)) \o << >> /\ Rest(s, Width(a)) = SubSeq(s, Len(a) + 1, Len(s))
  <2>1. First(s, Width(a)) = SubSeq(s, 1, Len(a)) \o << >>
    BY <1>3, Zenon DEF First
  <2>2. Rest(s, Width(a)) = SubSeq(s, Len(a) + 1, Len(s))
    <3>1. SubSeq(s, Cut(s, Width(a)).whole + 1, Len(s)) = SubSeq(s, Len(a) + 1, Len(s))
      BY <1>3
    <3> QED BY <1>3, <3>1, WholePieces
  <2> QED BY <2>1, <2>2
<1> DEFINE P == [says : says, from : Nat, width : Nat \ {0}]
<1>5. \A i \in 1..Len(s) : s[i] \in P
  BY <1>2, ElementOfSeq DEF Bytes
<1>6. SubSeq(s, 1, Len(a)) = a
  <2>1. \A i \in 1..Len(a) : s[i] \in P
    BY <1>2, <1>5
  <2> DEFINE t == SubSeq(s, 1, Len(a))
  <2> HIDE DEF P
  <2>2. t \in Seq(P) /\ Len(t) = Len(a) /\ \A i \in 1..Len(a) : t[i] = s[i]
    BY <1>2, <2>1, SubSeqProperties
  <2> HIDE DEF t
  <2>3. a \in Seq(P)
    BY <1>1 DEF Bytes, P
  <2>4. t = a
    BY <1>2, <2>2, <2>3, SeqEqual
  <2> QED BY <2>4 DEF t
<1>7. SubSeq(s, Len(a) + 1, Len(s)) = b
  <2>1. \A i \in (Len(a) + 1)..Len(s) : s[i] \in P
    BY <1>2, <1>5
  <2> DEFINE t == SubSeq(s, Len(a) + 1, Len(s))
  <2> HIDE DEF P
  <2>2. t \in Seq(P) /\ Len(t) = Len(b) /\ \A i \in 1..Len(b) : t[i] = s[Len(a) + i]
    BY <1>2, <2>1, SubSeqProperties
  <2> HIDE DEF t
  <2>3. b \in Seq(P)
    BY <1>1 DEF Bytes, P
  <2>4. t = b
    BY <1>2, <2>2, <2>3, SeqEqual
  <2> QED BY <2>4 DEF t
<1>8. a \o << >> = a
  BY <1>1, ConcatEmptySeq DEF Bytes
<1> QED
  BY <1>4, <1>6, <1>7, <1>8 DEF s

-----------------------------------------------------------------------------
(* The opcodes of the covenant mintCovenantV2 *)

\* The items of two sequences joined, one by one.
LEMMA Appended ==
    ASSUME NEW s, NEW t, Len(s) \in Nat, Len(t) \in Nat
    PROVE  /\ Len(s \o t) = Len(s) + Len(t)
           /\ \A i \in 1..Len(s) : (s \o t)[i] = s[i]
           /\ \A i \in 1..Len(t) : (s \o t)[Len(s) + i] = t[i]
<1>1. Len(s \o t) = Len(s) + Len(t)
  OBVIOUS
<1>2. \A i \in 1..Len(s) : (s \o t)[i] = s[i]
  OBVIOUS
<1>3. \A i \in 1..Len(t) : (s \o t)[Len(s) + i] = t[i]
  OBVIOUS
<1> QED BY <1>1, <1>2, <1>3

\* The opcodes of the section that checks the authorizer's signature, one by one,
LEMMA Ops_AuthorizerSigned ==
    /\ Len(AuthorizerSigned) = 6
    /\ AuthorizerSigned[1] = [op |-> "dup", arg |-> << >>]
    /\ AuthorizerSigned[2] = [op |-> "sha256", arg |-> << >>]
    /\ AuthorizerSigned[3] = [op |-> "rot", arg |-> << >>]
    /\ AuthorizerSigned[4] = [op |-> "swap", arg |-> << >>]
    /\ AuthorizerSigned[5] = [op |-> "push", arg |-> PubKey(AuthKey)]
    /\ AuthorizerSigned[6] = [op |-> "checkdatasigverify", arg |-> << >>]
BY DEF AuthorizerSigned, Syms, data, sym, int, SplitAt, Skip

\* The section that takes the message apart,
LEMMA Ops_SplitMessage ==
    /\ Len(SplitMessage) = 13
    /\ SplitMessage[1] = [op |-> "push", arg |-> Number(32)]
    /\ SplitMessage[2] = [op |-> "split", arg |-> << >>]
    /\ SplitMessage[3] = [op |-> "nip", arg |-> << >>]
    /\ SplitMessage[4] = [op |-> "push", arg |-> Number(32)]
    /\ SplitMessage[5] = [op |-> "split", arg |-> << >>]
    /\ SplitMessage[6] = [op |-> "nip", arg |-> << >>]
    /\ SplitMessage[7] = [op |-> "push", arg |-> Number(32)]
    /\ SplitMessage[8] = [op |-> "split", arg |-> << >>]
    /\ SplitMessage[9] = [op |-> "push", arg |-> Number(4)]
    /\ SplitMessage[10] = [op |-> "split", arg |-> << >>]
    /\ SplitMessage[11] = [op |-> "toaltstack", arg |-> << >>]
    /\ SplitMessage[12] = [op |-> "cat", arg |-> << >>]
    /\ SplitMessage[13] = [op |-> "toaltstack", arg |-> << >>]
BY DEF SplitMessage, Syms, data, sym, int, SplitAt, Skip

\* that checks the signature over the preimage,
LEMMA Ops_PreimageSigned ==
    /\ Len(PreimageSigned) = 11
    /\ PreimageSigned[1] = [op |-> "3dup", arg |-> << >>]
    /\ PreimageSigned[2] = [op |-> "sha256", arg |-> << >>]
    /\ PreimageSigned[3] = [op |-> "rot", arg |-> << >>]
    /\ PreimageSigned[4] = [op |-> "size", arg |-> << >>]
    /\ PreimageSigned[5] = [op |-> "push", arg |-> Number(1)]
    /\ PreimageSigned[6] = [op |-> "sub", arg |-> << >>]
    /\ PreimageSigned[7] = [op |-> "split", arg |-> << >>]
    /\ PreimageSigned[8] = [op |-> "drop", arg |-> << >>]
    /\ PreimageSigned[9] = [op |-> "swap", arg |-> << >>]
    /\ PreimageSigned[10] = [op |-> "rot", arg |-> << >>]
    /\ PreimageSigned[11] = [op |-> "checkdatasigverify", arg |-> << >>]
BY DEF PreimageSigned, Syms, data, sym, int, SplitAt, Skip

\* that takes the hash of the outputs from the preimage,
LEMMA Ops_PreimageOutputs ==
    /\ Len(PreimageOutputs) = 9
    /\ PreimageOutputs[1] = [op |-> "dup", arg |-> << >>]
    /\ PreimageOutputs[2] = [op |-> "size", arg |-> << >>]
    /\ PreimageOutputs[3] = [op |-> "push", arg |-> Number(40)]
    /\ PreimageOutputs[4] = [op |-> "sub", arg |-> << >>]
    /\ PreimageOutputs[5] = [op |-> "split", arg |-> << >>]
    /\ PreimageOutputs[6] = [op |-> "push", arg |-> Number(32)]
    /\ PreimageOutputs[7] = [op |-> "split", arg |-> << >>]
    /\ PreimageOutputs[8] = [op |-> "drop", arg |-> << >>]
    /\ PreimageOutputs[9] = [op |-> "nip", arg |-> << >>]
BY DEF PreimageOutputs, Syms, data, sym, int, SplitAt, Skip

\* that compares the outpoints,
LEMMA Ops_SameOutpoint ==
    /\ Len(SameOutpoint) = 9
    /\ SameOutpoint[1] = [op |-> "swap", arg |-> << >>]
    /\ SameOutpoint[2] = [op |-> "push", arg |-> Number(68)]
    /\ SameOutpoint[3] = [op |-> "split", arg |-> << >>]
    /\ SameOutpoint[4] = [op |-> "push", arg |-> Number(36)]
    /\ SameOutpoint[5] = [op |-> "split", arg |-> << >>]
    /\ SameOutpoint[6] = [op |-> "drop", arg |-> << >>]
    /\ SameOutpoint[7] = [op |-> "nip", arg |-> << >>]
    /\ SameOutpoint[8] = [op |-> "fromaltstack", arg |-> << >>]
    /\ SameOutpoint[9] = [op |-> "equalverify", arg |-> << >>]
BY DEF SameOutpoint, Syms, data, sym, int, SplitAt, Skip

\* and that compares the outputs.
LEMMA Ops_SameOutputs ==
    /\ Len(SameOutputs) = 3
    /\ SameOutputs[1] = [op |-> "fromaltstack", arg |-> << >>]
    /\ SameOutputs[2] = [op |-> "hash256", arg |-> << >>]
    /\ SameOutputs[3] = [op |-> "equalverify", arg |-> << >>]
BY DEF SameOutputs, Syms, data, sym, int, SplitAt, Skip

\* Where each section of mintCovenantV2Ops begins.
LEMMA OpsV2 ==
    /\ Len(mintCovenantV2Ops) = 52
    /\ \A i \in 1..6 : mintCovenantV2Ops[i] = AuthorizerSigned[i]
    /\ \A i \in 1..13 : mintCovenantV2Ops[6 + i] = SplitMessage[i]
    /\ \A i \in 1..11 : mintCovenantV2Ops[19 + i] = PreimageSigned[i]
    /\ \A i \in 1..9 : mintCovenantV2Ops[30 + i] = PreimageOutputs[i]
    /\ \A i \in 1..9 : mintCovenantV2Ops[39 + i] = SameOutpoint[i]
    /\ \A i \in 1..3 : mintCovenantV2Ops[48 + i] = SameOutputs[i]
    /\ mintCovenantV2Ops[52] = [op |-> "checksig", arg |-> << >>]
<1> DEFINE a == AuthorizerSigned
           b == SplitMessage
           c == PreimageSigned
           d == PreimageOutputs
           e == SameOutpoint
           f == SameOutputs
           g == sym("checksig")
<1>1. Len(a) = 6 /\ Len(b) = 13 /\ Len(c) = 11 /\ Len(d) = 9 /\ Len(e) = 9 /\ Len(f) = 3
  BY Ops_AuthorizerSigned, Ops_SplitMessage, Ops_PreimageSigned, Ops_PreimageOutputs, Ops_SameOutpoint,
     Ops_SameOutputs
<1>2. Len(g) = 1 /\ g[1] = [op |-> "checksig", arg |-> << >>]
  BY DEF sym
<1> HIDE DEF a, b, c, d, e, f, g
<1> DEFINE s2 == a \o b
           s3 == s2 \o c
           s4 == s3 \o d
           s5 == s4 \o e
           s6 == s5 \o f
           s7 == s6 \o g
<1>3. mintCovenantV2Ops = s7
  BY DEF mintCovenantV2Ops, a, b, c, d, e, f, g
<1> HIDE DEF s2, s3, s4, s5, s6, s7
<1>4. Len(s2) = 19 /\ (\A i \in 1..6 : s2[i] = a[i]) /\ \A i \in 1..13 : s2[6 + i] = b[i]
  <2>1. Len(a) = 6 /\ Len(b) = 13
    BY <1>1
  <2>2. Len(a) \in Nat /\ Len(b) \in Nat
    BY <2>1
  <2>3. /\ Len(s2) = Len(a) + Len(b)
      /\ (\A i \in 1..Len(a) : s2[i] = a[i])
      /\ \A i \in 1..Len(b) : s2[Len(a) + i] = b[i]
    BY <2>2, Appended DEF s2
  <2> QED BY <2>1, <2>3
<1> HIDE DEF s2
<1>5. Len(s3) = 30 /\ (\A i \in 1..19 : s3[i] = s2[i]) /\ \A i \in 1..11 : s3[19 + i] = c[i]
  <2>1. Len(s2) = 19 /\ Len(c) = 11
    BY <1>1, <1>2, <1>4
  <2>2. Len(s2) \in Nat /\ Len(c) \in Nat
    BY <2>1
  <2>3. /\ Len(s3) = Len(s2) + Len(c)
      /\ (\A i \in 1..Len(s2) : s3[i] = s2[i])
      /\ \A i \in 1..Len(c) : s3[Len(s2) + i] = c[i]
    BY <2>2, Appended DEF s3
  <2> QED BY <2>1, <2>3
<1> HIDE DEF s3
<1>6. Len(s4) = 39 /\ (\A i \in 1..30 : s4[i] = s3[i]) /\ \A i \in 1..9 : s4[30 + i] = d[i]
  <2>1. Len(s3) = 30 /\ Len(d) = 9
    BY <1>1, <1>2, <1>5
  <2>2. Len(s3) \in Nat /\ Len(d) \in Nat
    BY <2>1
  <2>3. /\ Len(s4) = Len(s3) + Len(d)
      /\ (\A i \in 1..Len(s3) : s4[i] = s3[i])
      /\ \A i \in 1..Len(d) : s4[Len(s3) + i] = d[i]
    BY <2>2, Appended DEF s4
  <2> QED BY <2>1, <2>3
<1> HIDE DEF s4
<1>7. Len(s5) = 48 /\ (\A i \in 1..39 : s5[i] = s4[i]) /\ \A i \in 1..9 : s5[39 + i] = e[i]
  <2>1. Len(s4) = 39 /\ Len(e) = 9
    BY <1>1, <1>2, <1>6
  <2>2. Len(s4) \in Nat /\ Len(e) \in Nat
    BY <2>1
  <2>3. /\ Len(s5) = Len(s4) + Len(e)
      /\ (\A i \in 1..Len(s4) : s5[i] = s4[i])
      /\ \A i \in 1..Len(e) : s5[Len(s4) + i] = e[i]
    BY <2>2, Appended DEF s5
  <2> QED BY <2>1, <2>3
<1> HIDE DEF s5
<1>8. Len(s6) = 51 /\ (\A i \in 1..48 : s6[i] = s5[i]) /\ \A i \in 1..3 : s6[48 + i] = f[i]
  <2>1. Len(s5) = 48 /\ Len(f) = 3
    BY <1>1, <1>2, <1>7
  <2>2. Len(s5) \in Nat /\ Len(f) \in Nat
    BY <2>1
  <2>3. /\ Len(s6) = Len(s5) + Len(f)
      /\ (\A i \in 1..Len(s5) : s6[i] = s5[i])
      /\ \A i \in 1..Len(f) : s6[Len(s5) + i] = f[i]
    BY <2>2, Appended DEF s6
  <2> QED BY <2>1, <2>3
<1> HIDE DEF s6
<1>9. Len(s7) = 52 /\ (\A i \in 1..51 : s7[i] = s6[i]) /\ \A i \in 1..1 : s7[51 + i] = g[i]
  <2>1. Len(s6) = 51 /\ Len(g) = 1
    BY <1>1, <1>2, <1>8
  <2>2. Len(s6) \in Nat /\ Len(g) \in Nat
    BY <2>1
  <2>3. /\ Len(s7) = Len(s6) + Len(g)
      /\ (\A i \in 1..Len(s6) : s7[i] = s6[i])
      /\ \A i \in 1..Len(g) : s7[Len(s6) + i] = g[i]
    BY <2>2, Appended DEF s7
  <2> QED BY <2>1, <2>3
<1> HIDE DEF s7
<1>10. \A i \in 1..6 : s7[i] = a[i]
  BY <1>4, <1>5, <1>6, <1>7, <1>8, <1>9
<1>11. \A i \in 1..13 : s7[6 + i] = b[i]
  BY <1>4, <1>5, <1>6, <1>7, <1>8, <1>9
<1>12. \A i \in 1..11 : s7[19 + i] = c[i]
  BY <1>5, <1>6, <1>7, <1>8, <1>9
<1>13. \A i \in 1..9 : s7[30 + i] = d[i]
  BY <1>6, <1>7, <1>8, <1>9
<1>14. \A i \in 1..9 : s7[39 + i] = e[i]
  BY <1>7, <1>8, <1>9
<1>15. \A i \in 1..3 : s7[48 + i] = f[i]
  BY <1>8, <1>9
<1>16. s7[52] = [op |-> "checksig", arg |-> << >>]
  BY <1>2, <1>9
<1> QED
  BY <1>3, <1>9, <1>10, <1>11, <1>12, <1>13, <1>14, <1>15, <1>16 DEF a, b, c, d, e, f

\* s has the items of t.
Items(s, t) == Len(s) = Len(t) /\ \A i \in 1..Len(t) : s[i] = t[i]

\* The machine is before opcode k, with these items on its stacks.
Row(k, items, alts) == pc = k /\ Items(stack, items) /\ Items(alt, alts)

\* A number on the stack is read as it was written.
LEMMA NumberRead == \A n \in Int : IsNumber(Number(n)) /\ NumberOf(Number(n)) = n
<1>1. ASSUME NEW n \in Int, n < 128 PROVE IsNumber(Number(n)) /\ NumberOf(Number(n)) = n
  <2>1. Number(n) = <<[says |-> <<"byte", n>>, from |-> 0, width |-> 1]>>
    BY <1>1 DEF Number, Byte, Piece
  <2> QED BY <1>1, <2>1 DEF IsNumber, NumberOf
<1>2. ASSUME NEW n \in Int, ~(n < 128) PROVE IsNumber(Number(n)) /\ NumberOf(Number(n)) = n
  <2> DEFINE x == n % 256
             y == n \div 256
             s == Number(n)
  <2>1. x + 256 * y = n /\ x \in Int /\ y \in Int
    OBVIOUS
  <2>2. s = <<[says |-> <<"byte", x>>, from |-> 0, width |-> 1]>>
            \o <<[says |-> <<"byte", y>>, from |-> 0, width |-> 1]>>
    BY <1>2 DEF Number, Byte, Piece
  <2> HIDE DEF x, y, s
  <2>3. Len(s) = 2 /\ s[1].says = <<"byte", x>> /\ s[2].says = <<"byte", y>> /\ DOMAIN s = 1..2
    BY <2>2
  <2>4. s # << >>
    BY <2>3
  <2>5. \A i \in DOMAIN s : s[i].says[1] = "byte"
    BY <2>3
  <2> QED BY <2>1, <2>3, <2>4, <2>5 DEF IsNumber, NumberOf, s
<1> QED BY <1>1, <1>2

\* A step of the machine is the one of the opcode it is at.
LEMMA OnlyOpcode ==
    ASSUME runCovenant
    PROVE  /\ Ops[script][pc].op = "dup" => Dup
           /\ Ops[script][pc].op = "swap" => Swap
           /\ Ops[script][pc].op = "rot" => Rot
           /\ Ops[script][pc].op = "3dup" => ThreeDup
           /\ Ops[script][pc].op = "sha256" => Sha256
           /\ Ops[script][pc].op = "hash256" => Hash256
           /\ Ops[script][pc].op = "nip" => Nip
           /\ Ops[script][pc].op = "drop" => DropTop
           /\ Ops[script][pc].op = "cat" => Cat
           /\ Ops[script][pc].op = "size" => Size
           /\ Ops[script][pc].op = "sub" => Sub
           /\ Ops[script][pc].op = "split" => Split
           /\ Ops[script][pc].op = "toaltstack" => ToAltStack
           /\ Ops[script][pc].op = "fromaltstack" => FromAltStack
           /\ Ops[script][pc].op = "equalverify" => EqualVerify
           /\ Ops[script][pc].op = "checkdatasigverify" => CheckDataSigVerify
           /\ Ops[script][pc].op = "checksig" => CheckSig
           /\ Ops[script][pc].op = "push" => Push
           /\ Ops[script][pc].op = "equal" => Equal
           /\ Ops[script][pc].op = "1sub" => OneSub
           /\ Ops[script][pc].op = "lessthan" => LessThan
           /\ Ops[script][pc].op = "roll" => Roll
           /\ Ops[script][pc].op = "if" => If
           /\ Ops[script][pc].op = "endif" => EndIf
BY DEF runCovenant, Opcode, Dup, Swap, Rot, ThreeDup, Sha256, Hash256, Nip, DropTop, Cat, Size, Sub,
   Split, ToAltStack, FromAltStack, EqualVerify, CheckDataSigVerify, CheckSig, Push, Equal, OneSub,
   LessThan, Roll, If, EndIf

\* Before which opcode the authorizer's signature is checked.
LEMMA AuthorizerSignedOpcodes ==
    ASSUME runCovenant, script = "mintCovenantV2"
    PROVE  /\ pc = 1 => Dup
           /\ pc = 2 => Sha256
           /\ pc = 3 => Rot
           /\ pc = 4 => Swap
           /\ pc = 5 => Push /\ Arg = PubKey(AuthKey)
           /\ pc = 6 => CheckDataSigVerify
<1>1. Ops[script] = mintCovenantV2Ops
  BY DEF Ops, Covenants
<1>2. pc = 1 => Ops[script][pc] = [op |-> "dup", arg |-> << >>]
  BY <1>1, OpsV2, Ops_AuthorizerSigned
<1>3. pc = 2 => Ops[script][pc] = [op |-> "sha256", arg |-> << >>]
  BY <1>1, OpsV2, Ops_AuthorizerSigned
<1>4. pc = 3 => Ops[script][pc] = [op |-> "rot", arg |-> << >>]
  BY <1>1, OpsV2, Ops_AuthorizerSigned
<1>5. pc = 4 => Ops[script][pc] = [op |-> "swap", arg |-> << >>]
  BY <1>1, OpsV2, Ops_AuthorizerSigned
<1>6. pc = 5 => Ops[script][pc] = [op |-> "push", arg |-> PubKey(AuthKey)]
  BY <1>1, OpsV2, Ops_AuthorizerSigned
<1>7. pc = 6 => Ops[script][pc] = [op |-> "checkdatasigverify", arg |-> << >>]
  BY <1>1, OpsV2, Ops_AuthorizerSigned
<1> QED
  BY <1>2, <1>3, <1>4, <1>5, <1>6, <1>7, OnlyOpcode DEF Arg

\* Before which opcode the message is taken apart.
LEMMA SplitMessageOpcodes ==
    ASSUME runCovenant, script = "mintCovenantV2"
    PROVE  /\ pc = 7 => Push /\ Arg = Number(32)
           /\ pc = 8 => Split
           /\ pc = 9 => Nip
           /\ pc = 10 => Push /\ Arg = Number(32)
           /\ pc = 11 => Split
           /\ pc = 12 => Nip
           /\ pc = 13 => Push /\ Arg = Number(32)
           /\ pc = 14 => Split
           /\ pc = 15 => Push /\ Arg = Number(4)
           /\ pc = 16 => Split
           /\ pc = 17 => ToAltStack
           /\ pc = 18 => Cat
           /\ pc = 19 => ToAltStack
<1>1. Ops[script] = mintCovenantV2Ops
  BY DEF Ops, Covenants
<1>2. pc = 7 => Ops[script][pc] = [op |-> "push", arg |-> Number(32)]
  BY <1>1, OpsV2, Ops_SplitMessage
<1>3. pc = 8 => Ops[script][pc] = [op |-> "split", arg |-> << >>]
  BY <1>1, OpsV2, Ops_SplitMessage
<1>4. pc = 9 => Ops[script][pc] = [op |-> "nip", arg |-> << >>]
  BY <1>1, OpsV2, Ops_SplitMessage
<1>5. pc = 10 => Ops[script][pc] = [op |-> "push", arg |-> Number(32)]
  BY <1>1, OpsV2, Ops_SplitMessage
<1>6. pc = 11 => Ops[script][pc] = [op |-> "split", arg |-> << >>]
  BY <1>1, OpsV2, Ops_SplitMessage
<1>7. pc = 12 => Ops[script][pc] = [op |-> "nip", arg |-> << >>]
  BY <1>1, OpsV2, Ops_SplitMessage
<1>8. pc = 13 => Ops[script][pc] = [op |-> "push", arg |-> Number(32)]
  BY <1>1, OpsV2, Ops_SplitMessage
<1>9. pc = 14 => Ops[script][pc] = [op |-> "split", arg |-> << >>]
  BY <1>1, OpsV2, Ops_SplitMessage
<1>10. pc = 15 => Ops[script][pc] = [op |-> "push", arg |-> Number(4)]
  BY <1>1, OpsV2, Ops_SplitMessage
<1>11. pc = 16 => Ops[script][pc] = [op |-> "split", arg |-> << >>]
  BY <1>1, OpsV2, Ops_SplitMessage
<1>12. pc = 17 => Ops[script][pc] = [op |-> "toaltstack", arg |-> << >>]
  BY <1>1, OpsV2, Ops_SplitMessage
<1>13. pc = 18 => Ops[script][pc] = [op |-> "cat", arg |-> << >>]
  BY <1>1, OpsV2, Ops_SplitMessage
<1>14. pc = 19 => Ops[script][pc] = [op |-> "toaltstack", arg |-> << >>]
  BY <1>1, OpsV2, Ops_SplitMessage
<1> QED
  BY <1>2, <1>3, <1>4, <1>5, <1>6, <1>7, <1>8, <1>9, <1>10, <1>11, <1>12, <1>13, <1>14, OnlyOpcode DEF Arg

\* Before which opcode the signature over the preimage is checked.
LEMMA PreimageSignedOpcodes ==
    ASSUME runCovenant, script = "mintCovenantV2"
    PROVE  /\ pc = 20 => ThreeDup
           /\ pc = 21 => Sha256
           /\ pc = 22 => Rot
           /\ pc = 23 => Size
           /\ pc = 24 => Push /\ Arg = Number(1)
           /\ pc = 25 => Sub
           /\ pc = 26 => Split
           /\ pc = 27 => DropTop
           /\ pc = 28 => Swap
           /\ pc = 29 => Rot
           /\ pc = 30 => CheckDataSigVerify
<1>1. Ops[script] = mintCovenantV2Ops
  BY DEF Ops, Covenants
<1>2. pc = 20 => Ops[script][pc] = [op |-> "3dup", arg |-> << >>]
  BY <1>1, OpsV2, Ops_PreimageSigned
<1>3. pc = 21 => Ops[script][pc] = [op |-> "sha256", arg |-> << >>]
  BY <1>1, OpsV2, Ops_PreimageSigned
<1>4. pc = 22 => Ops[script][pc] = [op |-> "rot", arg |-> << >>]
  BY <1>1, OpsV2, Ops_PreimageSigned
<1>5. pc = 23 => Ops[script][pc] = [op |-> "size", arg |-> << >>]
  BY <1>1, OpsV2, Ops_PreimageSigned
<1>6. pc = 24 => Ops[script][pc] = [op |-> "push", arg |-> Number(1)]
  BY <1>1, OpsV2, Ops_PreimageSigned
<1>7. pc = 25 => Ops[script][pc] = [op |-> "sub", arg |-> << >>]
  BY <1>1, OpsV2, Ops_PreimageSigned
<1>8. pc = 26 => Ops[script][pc] = [op |-> "split", arg |-> << >>]
  BY <1>1, OpsV2, Ops_PreimageSigned
<1>9. pc = 27 => Ops[script][pc] = [op |-> "drop", arg |-> << >>]
  BY <1>1, OpsV2, Ops_PreimageSigned
<1>10. pc = 28 => Ops[script][pc] = [op |-> "swap", arg |-> << >>]
  BY <1>1, OpsV2, Ops_PreimageSigned
<1>11. pc = 29 => Ops[script][pc] = [op |-> "rot", arg |-> << >>]
  BY <1>1, OpsV2, Ops_PreimageSigned
<1>12. pc = 30 => Ops[script][pc] = [op |-> "checkdatasigverify", arg |-> << >>]
  BY <1>1, OpsV2, Ops_PreimageSigned
<1> QED
  BY <1>2, <1>3, <1>4, <1>5, <1>6, <1>7, <1>8, <1>9, <1>10, <1>11, <1>12, OnlyOpcode DEF Arg

\* Before which opcode the hash of the outputs is taken.
LEMMA PreimageOutputsOpcodes ==
    ASSUME runCovenant, script = "mintCovenantV2"
    PROVE  /\ pc = 31 => Dup
           /\ pc = 32 => Size
           /\ pc = 33 => Push /\ Arg = Number(40)
           /\ pc = 34 => Sub
           /\ pc = 35 => Split
           /\ pc = 36 => Push /\ Arg = Number(32)
           /\ pc = 37 => Split
           /\ pc = 38 => DropTop
           /\ pc = 39 => Nip
<1>1. Ops[script] = mintCovenantV2Ops
  BY DEF Ops, Covenants
<1>2. pc = 31 => Ops[script][pc] = [op |-> "dup", arg |-> << >>]
  BY <1>1, OpsV2, Ops_PreimageOutputs
<1>3. pc = 32 => Ops[script][pc] = [op |-> "size", arg |-> << >>]
  BY <1>1, OpsV2, Ops_PreimageOutputs
<1>4. pc = 33 => Ops[script][pc] = [op |-> "push", arg |-> Number(40)]
  BY <1>1, OpsV2, Ops_PreimageOutputs
<1>5. pc = 34 => Ops[script][pc] = [op |-> "sub", arg |-> << >>]
  BY <1>1, OpsV2, Ops_PreimageOutputs
<1>6. pc = 35 => Ops[script][pc] = [op |-> "split", arg |-> << >>]
  BY <1>1, OpsV2, Ops_PreimageOutputs
<1>7. pc = 36 => Ops[script][pc] = [op |-> "push", arg |-> Number(32)]
  BY <1>1, OpsV2, Ops_PreimageOutputs
<1>8. pc = 37 => Ops[script][pc] = [op |-> "split", arg |-> << >>]
  BY <1>1, OpsV2, Ops_PreimageOutputs
<1>9. pc = 38 => Ops[script][pc] = [op |-> "drop", arg |-> << >>]
  BY <1>1, OpsV2, Ops_PreimageOutputs
<1>10. pc = 39 => Ops[script][pc] = [op |-> "nip", arg |-> << >>]
  BY <1>1, OpsV2, Ops_PreimageOutputs
<1> QED
  BY <1>2, <1>3, <1>4, <1>5, <1>6, <1>7, <1>8, <1>9, <1>10, OnlyOpcode DEF Arg

\* Before which opcode the outpoints are compared.
LEMMA SameOutpointOpcodes ==
    ASSUME runCovenant, script = "mintCovenantV2"
    PROVE  /\ pc = 40 => Swap
           /\ pc = 41 => Push /\ Arg = Number(68)
           /\ pc = 42 => Split
           /\ pc = 43 => Push /\ Arg = Number(36)
           /\ pc = 44 => Split
           /\ pc = 45 => DropTop
           /\ pc = 46 => Nip
           /\ pc = 47 => FromAltStack
           /\ pc = 48 => EqualVerify
<1>1. Ops[script] = mintCovenantV2Ops
  BY DEF Ops, Covenants
<1>2. pc = 40 => Ops[script][pc] = [op |-> "swap", arg |-> << >>]
  BY <1>1, OpsV2, Ops_SameOutpoint
<1>3. pc = 41 => Ops[script][pc] = [op |-> "push", arg |-> Number(68)]
  BY <1>1, OpsV2, Ops_SameOutpoint
<1>4. pc = 42 => Ops[script][pc] = [op |-> "split", arg |-> << >>]
  BY <1>1, OpsV2, Ops_SameOutpoint
<1>5. pc = 43 => Ops[script][pc] = [op |-> "push", arg |-> Number(36)]
  BY <1>1, OpsV2, Ops_SameOutpoint
<1>6. pc = 44 => Ops[script][pc] = [op |-> "split", arg |-> << >>]
  BY <1>1, OpsV2, Ops_SameOutpoint
<1>7. pc = 45 => Ops[script][pc] = [op |-> "drop", arg |-> << >>]
  BY <1>1, OpsV2, Ops_SameOutpoint
<1>8. pc = 46 => Ops[script][pc] = [op |-> "nip", arg |-> << >>]
  BY <1>1, OpsV2, Ops_SameOutpoint
<1>9. pc = 47 => Ops[script][pc] = [op |-> "fromaltstack", arg |-> << >>]
  BY <1>1, OpsV2, Ops_SameOutpoint
<1>10. pc = 48 => Ops[script][pc] = [op |-> "equalverify", arg |-> << >>]
  BY <1>1, OpsV2, Ops_SameOutpoint
<1> QED
  BY <1>2, <1>3, <1>4, <1>5, <1>6, <1>7, <1>8, <1>9, <1>10, OnlyOpcode DEF Arg

\* Before which opcode the outputs are compared.
LEMMA SameOutputsOpcodes ==
    ASSUME runCovenant, script = "mintCovenantV2"
    PROVE  /\ pc = 49 => FromAltStack
           /\ pc = 50 => Hash256
           /\ pc = 51 => EqualVerify
<1>1. Ops[script] = mintCovenantV2Ops
  BY DEF Ops, Covenants
<1>2. pc = 49 => Ops[script][pc] = [op |-> "fromaltstack", arg |-> << >>]
  BY <1>1, OpsV2, Ops_SameOutputs
<1>3. pc = 50 => Ops[script][pc] = [op |-> "hash256", arg |-> << >>]
  BY <1>1, OpsV2, Ops_SameOutputs
<1>4. pc = 51 => Ops[script][pc] = [op |-> "equalverify", arg |-> << >>]
  BY <1>1, OpsV2, Ops_SameOutputs
<1> QED
  BY <1>2, <1>3, <1>4, OnlyOpcode DEF Arg

\* The last opcode decides.
LEMMA LastOpcodes ==
    ASSUME runCovenant, script = "mintCovenantV2"
    PROVE  /\ pc = 52 => CheckSig
<1>1. Ops[script] = mintCovenantV2Ops
  BY DEF Ops, Covenants
<1>2. pc = 52 => Ops[script][pc] = [op |-> "checksig", arg |-> << >>]
  BY <1>1, OpsV2
<1> QED
  BY <1>2, OnlyOpcode DEF Arg

-----------------------------------------------------------------------------
(* A run of the covenant: every row, and every section of the script *)

\* The items of a sequence with one more.
LEMMA AppendedItem ==
    ASSUME NEW s, NEW e, Len(s) \in Nat
    PROVE  /\ Len(Append(s, e)) = Len(s) + 1
           /\ \A i \in 1..Len(s) : Append(s, e)[i] = s[i]
           /\ Append(s, e)[Len(s) + 1] = e
<1>1. Len(Append(s, e)) = Len(s) + 1
  OBVIOUS
<1>2. \A i \in 1..Len(s) : Append(s, e)[i] = s[i]
  OBVIOUS
<1>3. Append(s, e)[Len(s) + 1] = e
  OBVIOUS
<1> QED BY <1>1, <1>2, <1>3

\* What the script takes out of a message M, a preimage X and a signature S.
AfterIds(M) == Rest(Rest(M, 32), 32)
MessageOutpoint(M) == First(AfterIds(M), 32) \o First(Rest(AfterIds(M), 32), 4)
MessageOutputs(M) == Rest(Rest(AfterIds(M), 32), 4)
Kept(M) == <<MessageOutputs(M), MessageOutpoint(M)>>
PreimageHash(X) == First(Rest(X, Width(X) - 40), 32)
PreimageOutpoint(X) == First(Rest(X, 68), 36)
Signed(S) == First(S, Width(S) - 1)

\* What each section of the script requires.
Authorized(A, M) == Verifies(SHA256(SHA256(M)), A, PubKey(AuthKey))
MessageSplits(M) ==
    /\ 32 \in 0..Width(M)
    /\ 32 \in 0..Width(Rest(M, 32))
    /\ 32 \in 0..Width(AfterIds(M))
    /\ 4 \in 0..Width(Rest(AfterIds(M), 32))
SignedByMinter(S, P, X) ==
    /\ Width(S) - 1 \in 0..Width(S)
    /\ Verifies(SHA256(SHA256(X)), Signed(S), P)
OutputsCut(X) ==
    /\ Width(X) - 40 \in 0..Width(X)
    /\ 32 \in 0..Width(Rest(X, Width(X) - 40))
OutpointMatches(X, M) ==
    /\ 68 \in 0..Width(X)
    /\ 36 \in 0..Width(Rest(X, 68))
    /\ MessageOutpoint(M) = PreimageOutpoint(X)
OutputsMatch(X, M) == HASH256(MessageOutputs(M)) = PreimageHash(X)

\* The rows of the run of a spend that presents S, P, X, A and M, in order.
R1(S, P, X, A, M) == Row(1, <<S, P, X, A, M>>, << >>)
R2(S, P, X, A, M) == Row(2, <<S, P, X, A, M, M>>, << >>)
R3(S, P, X, A, M) == Row(3, <<S, P, X, A, M, SHA256(M)>>, << >>)
R4(S, P, X, A, M) == Row(4, <<S, P, X, M, SHA256(M), A>>, << >>)
R5(S, P, X, A, M) == Row(5, <<S, P, X, M, A, SHA256(M)>>, << >>)
R6(S, P, X, A, M) == Row(6, <<S, P, X, M, A, SHA256(M), PubKey(AuthKey)>>, << >>)
R7(S, P, X, M) == Row(7, <<S, P, X, M>>, << >>)
R8(S, P, X, M) == Row(8, <<S, P, X, M, Number(32)>>, << >>)
R9(S, P, X, M) == Row(9, <<S, P, X, First(M, 32), Rest(M, 32)>>, << >>)
R10(S, P, X, M) == Row(10, <<S, P, X, Rest(M, 32)>>, << >>)
R11(S, P, X, M) == Row(11, <<S, P, X, Rest(M, 32), Number(32)>>, << >>)
R12(S, P, X, M) == Row(12, <<S, P, X, First(Rest(M, 32), 32), AfterIds(M)>>, << >>)
R13(S, P, X, M) == Row(13, <<S, P, X, AfterIds(M)>>, << >>)
R14(S, P, X, M) == Row(14, <<S, P, X, AfterIds(M), Number(32)>>, << >>)
R15(S, P, X, M) == Row(15, <<S, P, X, First(AfterIds(M), 32), Rest(AfterIds(M), 32)>>, << >>)
R16(S, P, X, M) == Row(16, <<S, P, X, First(AfterIds(M), 32), Rest(AfterIds(M), 32), Number(4)>>, << >>)
R17(S, P, X, M) ==
    Row(17, <<S, P, X, First(AfterIds(M), 32), First(Rest(AfterIds(M), 32), 4), MessageOutputs(M)>>, << >>)
R18(S, P, X, M) ==
    Row(18, <<S, P, X, First(AfterIds(M), 32), First(Rest(AfterIds(M), 32), 4)>>, <<MessageOutputs(M)>>)
R19(S, P, X, M) == Row(19, <<S, P, X, MessageOutpoint(M)>>, <<MessageOutputs(M)>>)
R20(S, P, X, M) == Row(20, <<S, P, X>>, Kept(M))
R21(S, P, X, M) == Row(21, <<S, P, X, S, P, X>>, Kept(M))
R22(S, P, X, M) == Row(22, <<S, P, X, S, P, SHA256(X)>>, Kept(M))
R23(S, P, X, M) == Row(23, <<S, P, X, P, SHA256(X), S>>, Kept(M))
R24(S, P, X, M) == Row(24, <<S, P, X, P, SHA256(X), S, Number(Width(S))>>, Kept(M))
R25(S, P, X, M) == Row(25, <<S, P, X, P, SHA256(X), S, Number(Width(S)), Number(1)>>, Kept(M))
R26(S, P, X, M) == Row(26, <<S, P, X, P, SHA256(X), S, Number(Width(S) - 1)>>, Kept(M))
R27(S, P, X, M) == Row(27, <<S, P, X, P, SHA256(X), Signed(S), Rest(S, Width(S) - 1)>>, Kept(M))
R28(S, P, X, M) == Row(28, <<S, P, X, P, SHA256(X), Signed(S)>>, Kept(M))
R29(S, P, X, M) == Row(29, <<S, P, X, P, Signed(S), SHA256(X)>>, Kept(M))
R30(S, P, X, M) == Row(30, <<S, P, X, Signed(S), SHA256(X), P>>, Kept(M))
R31(S, P, X, M) == Row(31, <<S, P, X>>, Kept(M))
R32(S, P, X, M) == Row(32, <<S, P, X, X>>, Kept(M))
R33(S, P, X, M) == Row(33, <<S, P, X, X, Number(Width(X))>>, Kept(M))
R34(S, P, X, M) == Row(34, <<S, P, X, X, Number(Width(X)), Number(40)>>, Kept(M))
R35(S, P, X, M) == Row(35, <<S, P, X, X, Number(Width(X) - 40)>>, Kept(M))
R36(S, P, X, M) == Row(36, <<S, P, X, First(X, Width(X) - 40), Rest(X, Width(X) - 40)>>, Kept(M))
R37(S, P, X, M) == Row(37, <<S, P, X, First(X, Width(X) - 40), Rest(X, Width(X) - 40), Number(32)>>, Kept(M))
R38(S, P, X, M) ==
    Row(38, <<S, P, X, First(X, Width(X) - 40), PreimageHash(X), Rest(Rest(X, Width(X) - 40), 32)>>, Kept(M))
R39(S, P, X, M) == Row(39, <<S, P, X, First(X, Width(X) - 40), PreimageHash(X)>>, Kept(M))
R40(S, P, X, M) == Row(40, <<S, P, X, PreimageHash(X)>>, Kept(M))
R41(S, P, X, M) == Row(41, <<S, P, PreimageHash(X), X>>, Kept(M))
R42(S, P, X, M) == Row(42, <<S, P, PreimageHash(X), X, Number(68)>>, Kept(M))
R43(S, P, X, M) == Row(43, <<S, P, PreimageHash(X), First(X, 68), Rest(X, 68)>>, Kept(M))
R44(S, P, X, M) == Row(44, <<S, P, PreimageHash(X), First(X, 68), Rest(X, 68), Number(36)>>, Kept(M))
R45(S, P, X, M) ==
    Row(45, <<S, P, PreimageHash(X), First(X, 68), PreimageOutpoint(X), Rest(Rest(X, 68), 36)>>, Kept(M))
R46(S, P, X, M) == Row(46, <<S, P, PreimageHash(X), First(X, 68), PreimageOutpoint(X)>>, Kept(M))
R47(S, P, X, M) == Row(47, <<S, P, PreimageHash(X), PreimageOutpoint(X)>>, Kept(M))
R48(S, P, X, M) == Row(48, <<S, P, PreimageHash(X), PreimageOutpoint(X), MessageOutpoint(M)>>, <<MessageOutputs(M)>>)
R49(S, P, X, M) == Row(49, <<S, P, PreimageHash(X)>>, <<MessageOutputs(M)>>)
R50(S, P, X, M) == Row(50, <<S, P, PreimageHash(X), MessageOutputs(M)>>, << >>)
R51(S, P, X, M) == Row(51, <<S, P, PreimageHash(X), HASH256(MessageOutputs(M))>>, << >>)
R52(S, P, X, M) == Row(52, <<S, P>>, << >>)

\* The rows of each section, with what has passed a check within it.
AuthorizerSignedRun(S, P, X, A, M) ==
    \/ R1(S, P, X, A, M) \/ R2(S, P, X, A, M) \/ R3(S, P, X, A, M)
    \/ R4(S, P, X, A, M) \/ R5(S, P, X, A, M) \/ R6(S, P, X, A, M)
SplitMessageRun(S, P, X, M) ==
    \/ R7(S, P, X, M) \/ R8(S, P, X, M)
    \/ 32 \in 0..Width(M)
       /\ (R9(S, P, X, M) \/ R10(S, P, X, M) \/ R11(S, P, X, M))
    \/ 32 \in 0..Width(M) /\ 32 \in 0..Width(Rest(M, 32))
       /\ (R12(S, P, X, M) \/ R13(S, P, X, M) \/ R14(S, P, X, M))
    \/ 32 \in 0..Width(M) /\ 32 \in 0..Width(Rest(M, 32)) /\ 32 \in 0..Width(AfterIds(M))
       /\ (R15(S, P, X, M) \/ R16(S, P, X, M))
    \/ 32 \in 0..Width(M) /\ 32 \in 0..Width(Rest(M, 32)) /\ 32 \in 0..Width(AfterIds(M))
       /\ 4 \in 0..Width(Rest(AfterIds(M), 32))
       /\ (R17(S, P, X, M) \/ R18(S, P, X, M) \/ R19(S, P, X, M))
PreimageSignedRun(S, P, X, M) ==
    \/ R20(S, P, X, M) \/ R21(S, P, X, M) \/ R22(S, P, X, M) \/ R23(S, P, X, M)
    \/ R24(S, P, X, M) \/ R25(S, P, X, M) \/ R26(S, P, X, M)
    \/ Width(S) - 1 \in 0..Width(S)
       /\ (R27(S, P, X, M) \/ R28(S, P, X, M) \/ R29(S, P, X, M) \/ R30(S, P, X, M))
PreimageOutputsRun(S, P, X, M) ==
    \/ R31(S, P, X, M) \/ R32(S, P, X, M) \/ R33(S, P, X, M) \/ R34(S, P, X, M) \/ R35(S, P, X, M)
    \/ Width(X) - 40 \in 0..Width(X)
       /\ (R36(S, P, X, M) \/ R37(S, P, X, M))
    \/ Width(X) - 40 \in 0..Width(X) /\ 32 \in 0..Width(Rest(X, Width(X) - 40))
       /\ (R38(S, P, X, M) \/ R39(S, P, X, M))
SameOutpointRun(S, P, X, M) ==
    \/ R40(S, P, X, M) \/ R41(S, P, X, M) \/ R42(S, P, X, M)
    \/ 68 \in 0..Width(X)
       /\ (R43(S, P, X, M) \/ R44(S, P, X, M))
    \/ 68 \in 0..Width(X) /\ 36 \in 0..Width(Rest(X, 68))
       /\ (R45(S, P, X, M) \/ R46(S, P, X, M) \/ R47(S, P, X, M) \/ R48(S, P, X, M))
SameOutputsRun(S, P, X, M) ==
    \/ R49(S, P, X, M) \/ R50(S, P, X, M) \/ R51(S, P, X, M)
LastRun(S, P, X, M) ==
    \/ R52(S, P, X, M)

\* One step, from a row of a section: to the next row, out of the section once what it
\* requires holds, or to a rejection because it does not.
LEMMA AuthorizerSignedStep ==
    ASSUME NEW S, NEW P, NEW X, NEW A, NEW M, script = "mintCovenantV2", verdict = "running", runCovenant,
           AuthorizerSignedRun(S, P, X, A, M)
    PROVE  \/ verdict' = "running" /\ AuthorizerSignedRun(S, P, X, A, M)'
           \/ verdict' = "running" /\ Authorized(A, M) /\ R7(S, P, X, M)'
           \/ verdict' = "rejected" /\ ~Authorized(A, M)
<1>1. R1(S, P, X, A, M) => verdict' = "running" /\ R2(S, P, X, A, M)'
  BY AuthorizerSignedOpcodes DEF R1, R2, Row, Items, Dup, GoTo, Drop, Replace, Top
<1>2. R2(S, P, X, A, M) => verdict' = "running" /\ R3(S, P, X, A, M)'
  BY AuthorizerSignedOpcodes DEF R2, R3, Row, Items, Sha256, GoTo, Drop, Replace, Top
<1>3. R3(S, P, X, A, M) => verdict' = "running" /\ R4(S, P, X, A, M)'
  BY AuthorizerSignedOpcodes DEF R3, R4, Row, Items, Rot, GoTo, Drop, Replace, Top
<1>4. R4(S, P, X, A, M) => verdict' = "running" /\ R5(S, P, X, A, M)'
  BY AuthorizerSignedOpcodes DEF R4, R5, Row, Items, Swap, GoTo, Drop, Replace, Top
<1>5. R5(S, P, X, A, M) => verdict' = "running" /\ R6(S, P, X, A, M)'
  BY AuthorizerSignedOpcodes DEF R5, R6, Row, Items, Push, GoTo, Drop, Replace
<1>6. R6(S, P, X, A, M) =>
         \/ verdict' = "running" /\ Verifies(SHA256(SHA256(M)), A, PubKey(AuthKey)) /\ R7(S, P, X, M)'
         \/ verdict' = "rejected" /\ ~(Verifies(SHA256(SHA256(M)), A, PubKey(AuthKey)))
  BY AuthorizerSignedOpcodes DEF R6, R7, Row, Items, CheckDataSigVerify, GoTo, Drop, Top, Require,
     Authorized
<1> QED
  BY <1>1, <1>2, <1>3, <1>4, <1>5, <1>6 DEF AuthorizerSignedRun, Authorized

\* The message is long enough to be taken apart, or the spend is rejected.
LEMMA SplitMessageStep ==
    ASSUME NEW S, NEW P, NEW X, NEW M, script = "mintCovenantV2", verdict = "running", runCovenant,
           SplitMessageRun(S, P, X, M)
    PROVE  \/ verdict' = "running" /\ SplitMessageRun(S, P, X, M)'
           \/ verdict' = "running" /\ MessageSplits(M) /\ R20(S, P, X, M)'
           \/ verdict' = "rejected" /\ ~MessageSplits(M)
<1>7. R7(S, P, X, M) => verdict' = "running" /\ R8(S, P, X, M)'
  BY SplitMessageOpcodes DEF R7, R8, Row, Items, Push, GoTo, Drop, Replace
<1>8. R8(S, P, X, M) =>
         \/ verdict' = "running" /\ 32 \in 0..Width(M) /\ R9(S, P, X, M)'
         \/ verdict' = "rejected" /\ ~(32 \in 0..Width(M))
  BY SplitMessageOpcodes, NumberRead DEF R8, R9, Row, Items, Split, GoTo, Drop, Replace, Top
<1>9. R9(S, P, X, M) => verdict' = "running" /\ R10(S, P, X, M)'
  BY SplitMessageOpcodes DEF R9, R10, Row, Items, Nip, GoTo, Drop, Replace, Top
<1>10. R10(S, P, X, M) => verdict' = "running" /\ R11(S, P, X, M)'
  BY SplitMessageOpcodes DEF R10, R11, Row, Items, Push, GoTo, Drop, Replace
<1>11. R11(S, P, X, M) =>
         \/ verdict' = "running" /\ 32 \in 0..Width(Rest(M, 32)) /\ R12(S, P, X, M)'
         \/ verdict' = "rejected" /\ ~(32 \in 0..Width(Rest(M, 32)))
  BY SplitMessageOpcodes, NumberRead DEF R11, R12, Row, Items, Split, GoTo, Drop, Replace, Top, AfterIds
<1>12. R12(S, P, X, M) => verdict' = "running" /\ R13(S, P, X, M)'
  BY SplitMessageOpcodes DEF R12, R13, Row, Items, Nip, GoTo, Drop, Replace, Top
<1>13. R13(S, P, X, M) => verdict' = "running" /\ R14(S, P, X, M)'
  BY SplitMessageOpcodes DEF R13, R14, Row, Items, Push, GoTo, Drop, Replace
<1>14. R14(S, P, X, M) =>
         \/ verdict' = "running" /\ 32 \in 0..Width(AfterIds(M)) /\ R15(S, P, X, M)'
         \/ verdict' = "rejected" /\ ~(32 \in 0..Width(AfterIds(M)))
  BY SplitMessageOpcodes, NumberRead DEF R14, R15, Row, Items, Split, GoTo, Drop, Replace, Top
<1>15. R15(S, P, X, M) => verdict' = "running" /\ R16(S, P, X, M)'
  BY SplitMessageOpcodes DEF R15, R16, Row, Items, Push, GoTo, Drop, Replace
<1>16. R16(S, P, X, M) =>
         \/ verdict' = "running" /\ 4 \in 0..Width(Rest(AfterIds(M), 32)) /\ R17(S, P, X, M)'
         \/ verdict' = "rejected" /\ ~(4 \in 0..Width(Rest(AfterIds(M), 32)))
  BY SplitMessageOpcodes, NumberRead DEF R16, R17, Row, Items, Split, GoTo, Drop, Replace, Top,
     MessageOutputs
<1>17. R17(S, P, X, M) => verdict' = "running" /\ R18(S, P, X, M)'
  BY SplitMessageOpcodes DEF R17, R18, Row, Items, ToAltStack, GoTo, Drop, Top
<1>18. R18(S, P, X, M) => verdict' = "running" /\ R19(S, P, X, M)'
  <2> SUFFICES ASSUME R18(S, P, X, M) PROVE verdict' = "running" /\ R19(S, P, X, M)'
    OBVIOUS
  <2>1. Top(1) \o Top(0) = MessageOutpoint(M)
    BY DEF R18, Row, Items, MessageOutpoint, Top
  <2>2. Replace(2, <<MessageOutpoint(M)>>)
    BY <2>1, SplitMessageOpcodes DEF Cat, R18, Row
  <2> QED
    BY <2>2 DEF R18, R19, Row, Items, GoTo, Drop, Replace
<1>19. R19(S, P, X, M) => verdict' = "running" /\ R20(S, P, X, M)'
  <2> SUFFICES ASSUME R19(S, P, X, M) PROVE verdict' = "running" /\ R20(S, P, X, M)'
    OBVIOUS
  <2>1. Len(alt) \in Nat
    BY DEF R19, Row, Items
  <2>2. /\ Len(Append(alt, Top(0))) = Len(alt) + 1
        /\ \A i \in 1..Len(alt) : Append(alt, Top(0))[i] = alt[i]
        /\ Append(alt, Top(0))[Len(alt) + 1] = Top(0)
    BY <2>1, AppendedItem
  <2>3. Top(0) = MessageOutpoint(M) /\ ToAltStack
    BY SplitMessageOpcodes DEF R19, Row, Items, Top
  <2> QED
    BY <2>2, <2>3 DEF R19, R20, Row, Kept, Items, ToAltStack, GoTo, Drop
<1> QED
  BY <1>7, <1>8, <1>9, <1>10, <1>11, <1>12, <1>13, <1>14, <1>15, <1>16, <1>17, <1>18,
     <1>19 DEF SplitMessageRun, MessageSplits

\* The minter signed the preimage that is shown, or the spend is rejected.
LEMMA PreimageSignedStep ==
    ASSUME NEW S, NEW P, NEW X, NEW M, script = "mintCovenantV2", verdict = "running", runCovenant,
           Width(S) \in Nat, PreimageSignedRun(S, P, X, M)
    PROVE  \/ verdict' = "running" /\ PreimageSignedRun(S, P, X, M)'
           \/ verdict' = "running" /\ SignedByMinter(S, P, X) /\ R31(S, P, X, M)'
           \/ verdict' = "rejected" /\ ~SignedByMinter(S, P, X)
<1>20. R20(S, P, X, M) => verdict' = "running" /\ R21(S, P, X, M)'
  BY PreimageSignedOpcodes DEF R20, R21, Row, Kept, Items, ThreeDup, GoTo, Drop, Replace, Top
<1>21. R21(S, P, X, M) => verdict' = "running" /\ R22(S, P, X, M)'
  BY PreimageSignedOpcodes DEF R21, R22, Row, Kept, Items, Sha256, GoTo, Drop, Replace, Top
<1>22. R22(S, P, X, M) => verdict' = "running" /\ R23(S, P, X, M)'
  BY PreimageSignedOpcodes DEF R22, R23, Row, Kept, Items, Rot, GoTo, Drop, Replace, Top
<1>23. R23(S, P, X, M) => verdict' = "running" /\ R24(S, P, X, M)'
  BY PreimageSignedOpcodes DEF R23, R24, Row, Kept, Items, Size, GoTo, Drop, Replace, Top
<1>24. R24(S, P, X, M) => verdict' = "running" /\ R25(S, P, X, M)'
  BY PreimageSignedOpcodes DEF R24, R25, Row, Kept, Items, Push, GoTo, Drop, Replace
<1>25. R25(S, P, X, M) => verdict' = "running" /\ R26(S, P, X, M)'
  BY PreimageSignedOpcodes, NumberRead DEF R25, R26, Row, Kept, Items, Sub, GoTo, Drop, Replace, Top
<1>26. R26(S, P, X, M) =>
         \/ verdict' = "running" /\ Width(S) - 1 \in 0..Width(S) /\ R27(S, P, X, M)'
         \/ verdict' = "rejected" /\ ~(Width(S) - 1 \in 0..Width(S))
  BY PreimageSignedOpcodes, NumberRead DEF R26, R27, Row, Kept, Items, Split, GoTo, Drop, Replace, Top,
     Signed
<1>27. R27(S, P, X, M) => verdict' = "running" /\ R28(S, P, X, M)'
  BY PreimageSignedOpcodes DEF R27, R28, Row, Kept, Items, DropTop, GoTo, Drop, Replace
<1>28. R28(S, P, X, M) => verdict' = "running" /\ R29(S, P, X, M)'
  BY PreimageSignedOpcodes DEF R28, R29, Row, Kept, Items, Swap, GoTo, Drop, Replace, Top
<1>29. R29(S, P, X, M) => verdict' = "running" /\ R30(S, P, X, M)'
  BY PreimageSignedOpcodes DEF R29, R30, Row, Kept, Items, Rot, GoTo, Drop, Replace, Top
<1>30. R30(S, P, X, M) =>
         \/ verdict' = "running" /\ Verifies(SHA256(SHA256(X)), Signed(S), P) /\ R31(S, P, X, M)'
         \/ verdict' = "rejected" /\ ~(Verifies(SHA256(SHA256(X)), Signed(S), P))
  BY PreimageSignedOpcodes DEF R30, R31, Row, Kept, Items, CheckDataSigVerify, GoTo, Drop, Top, Require
<1> QED
  BY <1>20, <1>21, <1>22, <1>23, <1>24, <1>25, <1>26, <1>27, <1>28, <1>29, <1>30 DEF PreimageSignedRun,
     SignedByMinter

\* The preimage is long enough, or the spend is rejected.
LEMMA PreimageOutputsStep ==
    ASSUME NEW S, NEW P, NEW X, NEW M, script = "mintCovenantV2", verdict = "running", runCovenant,
           Width(X) \in Nat, PreimageOutputsRun(S, P, X, M)
    PROVE  \/ verdict' = "running" /\ PreimageOutputsRun(S, P, X, M)'
           \/ verdict' = "running" /\ OutputsCut(X) /\ R40(S, P, X, M)'
           \/ verdict' = "rejected" /\ ~OutputsCut(X)
<1>31. R31(S, P, X, M) => verdict' = "running" /\ R32(S, P, X, M)'
  BY PreimageOutputsOpcodes DEF R31, R32, Row, Kept, Items, Dup, GoTo, Drop, Replace, Top
<1>32. R32(S, P, X, M) => verdict' = "running" /\ R33(S, P, X, M)'
  BY PreimageOutputsOpcodes DEF R32, R33, Row, Kept, Items, Size, GoTo, Drop, Replace, Top
<1>33. R33(S, P, X, M) => verdict' = "running" /\ R34(S, P, X, M)'
  BY PreimageOutputsOpcodes DEF R33, R34, Row, Kept, Items, Push, GoTo, Drop, Replace
<1>34. R34(S, P, X, M) => verdict' = "running" /\ R35(S, P, X, M)'
  BY PreimageOutputsOpcodes, NumberRead DEF R34, R35, Row, Kept, Items, Sub, GoTo, Drop, Replace, Top
<1>35. R35(S, P, X, M) =>
         \/ verdict' = "running" /\ Width(X) - 40 \in 0..Width(X) /\ R36(S, P, X, M)'
         \/ verdict' = "rejected" /\ ~(Width(X) - 40 \in 0..Width(X))
  BY PreimageOutputsOpcodes, NumberRead DEF R35, R36, Row, Kept, Items, Split, GoTo, Drop, Replace, Top
<1>36. R36(S, P, X, M) => verdict' = "running" /\ R37(S, P, X, M)'
  BY PreimageOutputsOpcodes DEF R36, R37, Row, Kept, Items, Push, GoTo, Drop, Replace
<1>37. R37(S, P, X, M) =>
         \/ verdict' = "running" /\ 32 \in 0..Width(Rest(X, Width(X) - 40)) /\ R38(S, P, X, M)'
         \/ verdict' = "rejected" /\ ~(32 \in 0..Width(Rest(X, Width(X) - 40)))
  BY PreimageOutputsOpcodes, NumberRead DEF R37, R38, Row, Kept, Items, Split, GoTo, Drop, Replace, Top,
     PreimageHash
<1>38. R38(S, P, X, M) => verdict' = "running" /\ R39(S, P, X, M)'
  BY PreimageOutputsOpcodes DEF R38, R39, Row, Kept, Items, DropTop, GoTo, Drop, Replace
<1>39. R39(S, P, X, M) => verdict' = "running" /\ R40(S, P, X, M)'
  BY PreimageOutputsOpcodes DEF R39, R40, Row, Kept, Items, Nip, GoTo, Drop, Replace, Top
<1> QED
  BY <1>31, <1>32, <1>33, <1>34, <1>35, <1>36, <1>37, <1>38, <1>39 DEF PreimageOutputsRun, OutputsCut

\* The message names the outpoint that is spent, or the spend is rejected.
LEMMA SameOutpointStep ==
    ASSUME NEW S, NEW P, NEW X, NEW M, script = "mintCovenantV2", verdict = "running", runCovenant,
           SameOutpointRun(S, P, X, M)
    PROVE  \/ verdict' = "running" /\ SameOutpointRun(S, P, X, M)'
           \/ verdict' = "running" /\ OutpointMatches(X, M) /\ R49(S, P, X, M)'
           \/ verdict' = "rejected" /\ ~OutpointMatches(X, M)
<1>40. R40(S, P, X, M) => verdict' = "running" /\ R41(S, P, X, M)'
  BY SameOutpointOpcodes DEF R40, R41, Row, Kept, Items, Swap, GoTo, Drop, Replace, Top
<1>41. R41(S, P, X, M) => verdict' = "running" /\ R42(S, P, X, M)'
  BY SameOutpointOpcodes DEF R41, R42, Row, Kept, Items, Push, GoTo, Drop, Replace
<1>42. R42(S, P, X, M) =>
         \/ verdict' = "running" /\ 68 \in 0..Width(X) /\ R43(S, P, X, M)'
         \/ verdict' = "rejected" /\ ~(68 \in 0..Width(X))
  BY SameOutpointOpcodes, NumberRead DEF R42, R43, Row, Kept, Items, Split, GoTo, Drop, Replace, Top
<1>43. R43(S, P, X, M) => verdict' = "running" /\ R44(S, P, X, M)'
  BY SameOutpointOpcodes DEF R43, R44, Row, Kept, Items, Push, GoTo, Drop, Replace
<1>44. R44(S, P, X, M) =>
         \/ verdict' = "running" /\ 36 \in 0..Width(Rest(X, 68)) /\ R45(S, P, X, M)'
         \/ verdict' = "rejected" /\ ~(36 \in 0..Width(Rest(X, 68)))
  BY SameOutpointOpcodes, NumberRead DEF R44, R45, Row, Kept, Items, Split, GoTo, Drop, Replace, Top,
     PreimageOutpoint
<1>45. R45(S, P, X, M) => verdict' = "running" /\ R46(S, P, X, M)'
  BY SameOutpointOpcodes DEF R45, R46, Row, Kept, Items, DropTop, GoTo, Drop, Replace
<1>46. R46(S, P, X, M) => verdict' = "running" /\ R47(S, P, X, M)'
  BY SameOutpointOpcodes DEF R46, R47, Row, Kept, Items, Nip, GoTo, Drop, Replace, Top
<1>47. R47(S, P, X, M) => verdict' = "running" /\ R48(S, P, X, M)'
  BY SameOutpointOpcodes DEF R47, R48, Row, Kept, Items, FromAltStack, GoTo, Drop
<1>48. R48(S, P, X, M) =>
         \/ verdict' = "running" /\ MessageOutpoint(M) = PreimageOutpoint(X) /\ R49(S, P, X, M)'
         \/ verdict' = "rejected" /\ ~(MessageOutpoint(M) = PreimageOutpoint(X))
  BY SameOutpointOpcodes DEF R48, R49, Row, Kept, Items, EqualVerify, GoTo, Drop, Top, Require
<1> QED
  BY <1>40, <1>41, <1>42, <1>43, <1>44, <1>45, <1>46, <1>47, <1>48 DEF SameOutpointRun, OutpointMatches

\* The message lists the outputs that are signed, or the spend is rejected.
LEMMA SameOutputsStep ==
    ASSUME NEW S, NEW P, NEW X, NEW M, script = "mintCovenantV2", verdict = "running", runCovenant,
           SameOutputsRun(S, P, X, M)
    PROVE  \/ verdict' = "running" /\ SameOutputsRun(S, P, X, M)'
           \/ verdict' = "running" /\ OutputsMatch(X, M) /\ R52(S, P, X, M)'
           \/ verdict' = "rejected" /\ ~OutputsMatch(X, M)
<1>49. R49(S, P, X, M) => verdict' = "running" /\ R50(S, P, X, M)'
  BY SameOutputsOpcodes DEF R49, R50, Row, Items, FromAltStack, GoTo, Drop
<1>50. R50(S, P, X, M) => verdict' = "running" /\ R51(S, P, X, M)'
  BY SameOutputsOpcodes DEF R50, R51, Row, Items, Hash256, GoTo, Drop, Replace, Top
<1>51. R51(S, P, X, M) =>
         \/ verdict' = "running" /\ HASH256(MessageOutputs(M)) = PreimageHash(X) /\ R52(S, P, X, M)'
         \/ verdict' = "rejected" /\ ~(HASH256(MessageOutputs(M)) = PreimageHash(X))
  BY SameOutputsOpcodes DEF R51, R52, Row, Items, EqualVerify, GoTo, Drop, Top, Require
<1> QED
  BY <1>49, <1>50, <1>51 DEF SameOutputsRun, OutputsMatch

\* The rows of the whole run, with what the sections before required.
V2Run(S, P, X, A, M) ==
    \/ AuthorizerSignedRun(S, P, X, A, M)
    \/ /\ Authorized(A, M)
       /\ \/ SplitMessageRun(S, P, X, M)
          \/ /\ MessageSplits(M)
             /\ \/ PreimageSignedRun(S, P, X, M)
                \/ /\ SignedByMinter(S, P, X)
                   /\ \/ PreimageOutputsRun(S, P, X, M)
                      \/ /\ OutputsCut(X)
                         /\ \/ SameOutpointRun(S, P, X, M)
                            \/ /\ OutpointMatches(X, M)
                               /\ \/ SameOutputsRun(S, P, X, M)
                                  \/ OutputsMatch(X, M) /\ R52(S, P, X, M)

\* What the whole script requires.
V2Passes(S, P, X, A, M, R) ==
    /\ Authorized(A, M) /\ MessageSplits(M) /\ SignedByMinter(S, P, X) /\ OutputsCut(X)
    /\ OutpointMatches(X, M) /\ OutputsMatch(X, M)
    /\ Verifies(HASH256(R), Signed(S), P)

\* A run goes on or ends; it is accepted when everything required holds and rejected when
\* something does not.
LEMMA V2Step ==
    ASSUME NEW S, NEW P, NEW X, NEW A, NEW M, NEW R, script = "mintCovenantV2", verdict = "running", runCovenant,
           Width(S) \in Nat, Width(X) \in Nat, R = Preimage(spend.real), V2Run(S, P, X, A, M)
    PROVE  \/ verdict' = "running" /\ V2Run(S, P, X, A, M)'
           \/ verdict' = "rejected" /\ ~V2Passes(S, P, X, A, M, R)
           \/ verdict' = "accepted" /\ V2Passes(S, P, X, A, M, R)
<1>1. CASE AuthorizerSignedRun(S, P, X, A, M)
  <2>1. R7(S, P, X, M)' => SplitMessageRun(S, P, X, M)'
    BY DEF SplitMessageRun
  <2> QED BY <1>1, <2>1, AuthorizerSignedStep DEF V2Run, V2Passes
<1>2. CASE Authorized(A, M) /\ SplitMessageRun(S, P, X, M)
  <2>1. R20(S, P, X, M)' => PreimageSignedRun(S, P, X, M)'
    BY DEF PreimageSignedRun
  <2> QED BY <1>2, <2>1, SplitMessageStep DEF V2Run, V2Passes
<1>3. CASE Authorized(A, M) /\ MessageSplits(M) /\ PreimageSignedRun(S, P, X, M)
  <2>1. R31(S, P, X, M)' => PreimageOutputsRun(S, P, X, M)'
    BY DEF PreimageOutputsRun
  <2> QED BY <1>3, <2>1, PreimageSignedStep DEF V2Run, V2Passes
<1>4. CASE /\ Authorized(A, M) /\ MessageSplits(M) /\ SignedByMinter(S, P, X)
           /\ PreimageOutputsRun(S, P, X, M)
  <2>1. R40(S, P, X, M)' => SameOutpointRun(S, P, X, M)'
    BY DEF SameOutpointRun
  <2> QED BY <1>4, <2>1, PreimageOutputsStep DEF V2Run, V2Passes
<1>5. CASE /\ Authorized(A, M) /\ MessageSplits(M) /\ SignedByMinter(S, P, X) /\ OutputsCut(X)
           /\ SameOutpointRun(S, P, X, M)
  <2>1. R49(S, P, X, M)' => SameOutputsRun(S, P, X, M)'
    BY DEF SameOutputsRun
  <2> QED BY <1>5, <2>1, SameOutpointStep DEF V2Run, V2Passes
<1>6. CASE /\ Authorized(A, M) /\ MessageSplits(M) /\ SignedByMinter(S, P, X) /\ OutputsCut(X)
           /\ OutpointMatches(X, M) /\ SameOutputsRun(S, P, X, M)
  BY <1>6, SameOutputsStep DEF V2Run, V2Passes
<1>7. CASE /\ Authorized(A, M) /\ MessageSplits(M) /\ SignedByMinter(S, P, X) /\ OutputsCut(X)
           /\ OutpointMatches(X, M) /\ OutputsMatch(X, M) /\ R52(S, P, X, M)
  <2>1. CheckSig /\ Top(0) = P /\ Top(1) = S
    BY <1>7, LastOpcodes DEF R52, Row, Items, Top
  <2>2. verdict' = IF Verifies(HASH256(R), Signed(S), P) THEN "accepted" ELSE "rejected"
    BY <2>1 DEF CheckSig, Signed
  <2> QED BY <1>7, <2>2 DEF V2Passes
<1> QED BY <1>1, <1>2, <1>3, <1>4, <1>5, <1>6, <1>7 DEF V2Run

-----------------------------------------------------------------------------
(* The outputs of a mint, piece by piece *)

\* A piece, as Piece makes a string of it.
PieceOf(tag, value, width) == [says |-> <<tag, value>>, from |-> 0, width |-> width]
ByteOf(n) == PieceOf("byte", n, 1)

\* The outputs a transaction may have, piece by piece.
MintPieces(token, quantity) ==
    <<PieceOf("LE", 0, 8), ByteOf(55), ByteOf(106), ByteOf(4), PieceOf("ascii", "SLP", 4), ByteOf(1), ByteOf(2),
      ByteOf(4), PieceOf("ascii", "MINT", 4), ByteOf(32), PieceOf("tokenId", token, 32), ByteOf(8),
      PieceOf("BE", quantity, 8)>>
PayPieces(recipient, sats) ==
    <<PieceOf("LE", sats, 8), ByteOf(25), ByteOf(118), ByteOf(169), ByteOf(20), PieceOf("hash160", recipient, 20),
      ByteOf(136), ByteOf(172)>>
ScriptPieces(name, sats) ==
    <<PieceOf("LE", sats, 8), ByteOf(23), ByteOf(169), ByteOf(20), PieceOf("hash160", name, 20), ByteOf(135)>>

\* Strings joined are a string.
LEMMA JoinedBytes == \A a, b : IsBytes(a) /\ IsBytes(b) => IsBytes(a \o b)
BY Joined

\* The strings everything else is built from.
LEMMA BytesOfPieces ==
    /\ \A n : IsBytes(Byte(n)) /\ Width(Byte(n)) = 1
    /\ \A n, m : IsBytes(Byte(n) \o Byte(m)) /\ Width(Byte(n) \o Byte(m)) = 2
    /\ \A tag, value : \A width \in Nat \ {0} :
          IsBytes(Piece(tag, value, width)) /\ Width(Piece(tag, value, width)) = width
<1>1. \A tag, value : \A width \in Nat \ {0} :
         IsBytes(Piece(tag, value, width)) /\ Width(Piece(tag, value, width)) = width
  BY PieceBytes, WidthOfPiece
<1>2. \A n : IsBytes(Byte(n)) /\ Width(Byte(n)) = 1
  BY <1>1 DEF Byte
<1>3. \A n, m : IsBytes(Byte(n) \o Byte(m)) /\ Width(Byte(n) \o Byte(m)) = 2
  BY <1>2, JoinedBytes, WidthOfJoined
<1> QED BY <1>1, <1>2, <1>3

\* The shortest push of 2 to 75 bytes is its length and the bytes.
LEMMA PushOf == \A x : Width(x) \in 2..75 => PushData(x) = Data(x)
<1>1. ASSUME NEW x, NEW w, w = Width(x), w \in 2..75 PROVE PushData(x) = Data(x)
  <2>1. ~(w = 1) /\ w <= 75
    BY <1>1
  <2> QED BY <1>1, <2>1, Zenon DEF PushData, HasOpcode
<1> QED BY <1>1

\* A script after the value and its length.
LEMMA SerializedScript ==
    ASSUME NEW value, NEW r, IsBytes(r), NEW w, w = Width(r), w < 253
    PROVE  /\ IsBytes(Serialize(value, r)) /\ Len(Serialize(value, r)) = 2 + Len(r) /\ Len(r) \in Nat
           /\ Serialize(value, r)[1] = PieceOf("LE", value, 8) /\ Serialize(value, r)[2] = ByteOf(w)
           /\ \A i \in 1..Len(r) : Serialize(value, r)[2 + i] = r[i]
           /\ Width(Serialize(value, r)) = 9 + w
<1> DEFINE q1 == PieceOf("LE", value, 8)
           q2 == ByteOf(w)
           x == <<q2>> \o r
           y == <<q1>> \o x
<1>1. Serialize(value, r) = y
  BY DEF Serialize, VarBytes, Data, LE, Byte, PieceOf, ByteOf, Piece
<1>2. IsBytes(<<q1>>) /\ IsBytes(<<q2>>) /\ Width(<<q1>>) = 8 /\ Width(<<q2>>) = 1
  BY BytesOfPieces DEF Piece, Byte, PieceOf, ByteOf
<1> HIDE DEF q1, q2
<1>3. IsBytes(y) /\ Len(r) \in Nat /\ Width(y) = 8 + (1 + Width(r)) /\ Width(r) \in Nat
  <2>1. IsBytes(x) /\ Width(x) = 1 + Width(r)
    BY <1>2, Joined, WidthOfJoined
  <2> HIDE DEF x
  <2>2. IsBytes(y) /\ Width(y) = 8 + Width(x)
    BY <1>2, <2>1, Joined, WidthOfJoined
  <2>3. Len(r) \in Nat /\ Width(r) \in Nat
    BY EndsUnfold, WidthIsNat
  <2> QED BY <2>1, <2>2, <2>3
<1>4. /\ Len(x) = 1 + Len(r) /\ x[1] = q2
      /\ \A i \in 1..Len(r) : x[1 + i] = r[i]
  <2>1. Len(r) \in Nat
    BY <1>3
  <2>2. Len(x) = 1 + Len(r)
    BY <2>1
  <2>3. x[1] = q2
    BY <2>1
  <2>4. \A i \in 1..Len(r) : x[1 + i] = r[i]
    BY <2>1
  <2> HIDE DEF x
  <2> QED BY <2>2, <2>3, <2>4
<1> HIDE DEF x
<1>5. /\ Len(y) = 1 + Len(x) /\ y[1] = q1
      /\ \A i \in 1..Len(x) : y[1 + i] = x[i]
  <2>1. Len(x) \in Nat
    BY <1>3, <1>4
  <2>2. Len(y) = 1 + Len(x)
    BY <2>1
  <2>3. y[1] = q1
    BY <2>1
  <2>4. \A i \in 1..Len(x) : y[1 + i] = x[i]
    BY <2>1
  <2> HIDE DEF y
  <2> QED BY <2>2, <2>3, <2>4
<1> HIDE DEF y
<1>6. Len(y) = 2 + Len(r) /\ y[1] = q1 /\ y[2] = q2
  <2>1. 1 \in 1..Len(x) /\ Len(r) \in Nat
    BY <1>3, <1>4
  <2>2. y[1 + 1] = x[1]
    BY <1>5, <2>1
  <2> QED BY <1>4, <1>5, <2>1, <2>2
<1>7. \A i \in 1..Len(r) : y[2 + i] = r[i]
  <2>1. ASSUME NEW i \in 1..Len(r) PROVE y[2 + i] = r[i]
    <3>1. 1 + i \in 1..Len(x) /\ 1 + (1 + i) = 2 + i
      BY <1>3, <1>4
    <3>2. y[1 + (1 + i)] = x[1 + i] /\ x[1 + i] = r[i]
      BY <1>4, <1>5, <3>1
    <3> QED BY <3>1, <3>2
  <2> QED BY <2>1
<1>8. Width(y) = 9 + w
  BY <1>3
<1> QED BY <1>1, <1>3, <1>6, <1>7, <1>8 DEF q1, q2

\* The OP_RETURN of a mint.
LEMMA MintOutputBytes ==
    ASSUME NEW token, NEW quantity
    PROVE  /\ IsBytes(Serialize(0, buildMintOpReturnV2(TokenId(token), quantity)))
           /\ Width(Serialize(0, buildMintOpReturnV2(TokenId(token), quantity))) = 64
           /\ Items(Serialize(0, buildMintOpReturnV2(TokenId(token), quantity)), MintPieces(token, quantity))
<1> DEFINE p1 == ByteOf(106)
           p2 == ByteOf(4)
           p3 == PieceOf("ascii", "SLP", 4)
           p4 == ByteOf(1)
           p5 == ByteOf(2)
           p6 == PieceOf("ascii", "MINT", 4)
           p7 == ByteOf(32)
           p8 == PieceOf("tokenId", token, 32)
           p9 == ByteOf(8)
           p10 == PieceOf("BE", quantity, 8)
           r == <<p1>> \o (<<p2>> \o <<p3>>) \o (<<p4>> \o <<p5>>) \o (<<p2>> \o <<p6>>) \o (<<p7>> \o <<p8>>)
                    \o (<<p9>> \o <<p10>>)
           rs == <<p1, p2, p3, p4, p5, p2, p6, p7, p8, p9, p10>>
<1>1. /\ IsBytes(<<p1>>) /\ Width(<<p1>>) = 1
      /\ IsBytes(<<p2>>) /\ Width(<<p2>>) = 1
      /\ IsBytes(<<p3>>) /\ Width(<<p3>>) = 4
      /\ IsBytes(<<p4>>) /\ Width(<<p4>>) = 1
      /\ IsBytes(<<p5>>) /\ Width(<<p5>>) = 1
      /\ IsBytes(<<p6>>) /\ Width(<<p6>>) = 4
      /\ IsBytes(<<p7>>) /\ Width(<<p7>>) = 1
      /\ IsBytes(<<p8>>) /\ Width(<<p8>>) = 32
      /\ IsBytes(<<p9>>) /\ Width(<<p9>>) = 1
      /\ IsBytes(<<p10>>) /\ Width(<<p10>>) = 8
  BY BytesOfPieces DEF Piece, Byte, PieceOf, ByteOf
<1>2. /\ Byte(106) = <<p1>>
      /\ Byte(4) = <<p2>>
      /\ Piece("ascii", "SLP", 4) = <<p3>>
      /\ Byte(1) = <<p4>>
      /\ Byte(2) = <<p5>>
      /\ Piece("ascii", "MINT", 4) = <<p6>>
      /\ Byte(32) = <<p7>>
      /\ TokenId(token) = <<p8>>
      /\ Byte(8) = <<p9>>
      /\ BE(quantity, 8) = <<p10>>
  BY DEF Byte, BE, TokenId, Piece, PieceOf, ByteOf
<1> HIDE DEF p1, p2, p3, p4, p5, p6, p7, p8, p9, p10
<1>3. buildMintOpReturnV2(TokenId(token), quantity) = r
  <2>1. /\ PushData(<<p3>>) = Byte(4) \o <<p3>> /\ PushData(<<p6>>) = Byte(4) \o <<p6>>
        /\ PushData(<<p8>>) = Byte(32) \o <<p8>> /\ PushData(<<p10>>) = Byte(8) \o <<p10>>
        /\ PushPush(<<p5>>) = Byte(1) \o <<p5>>
    <3>1. /\ PushData(<<p3>>) = Data(<<p3>>) /\ PushData(<<p6>>) = Data(<<p6>>)
          /\ PushData(<<p8>>) = Data(<<p8>>) /\ PushData(<<p10>>) = Data(<<p10>>)
      BY <1>1, PushOf
    <3>2. /\ Data(<<p3>>) = Byte(4) \o <<p3>> /\ Data(<<p6>>) = Byte(4) \o <<p6>>
          /\ Data(<<p8>>) = Byte(32) \o <<p8>> /\ Data(<<p10>>) = Byte(8) \o <<p10>>
          /\ Data(<<p5>>) = Byte(1) \o <<p5>>
      BY <1>1, Zenon DEF Data
    <3> QED BY <3>1, <3>2, Zenon DEF PushPush
  <2> QED BY <1>2, <2>1 DEF buildMintOpReturnV2
<1>4. IsBytes(r)
  BY <1>1, JoinedBytes, Zenon
<1>5. Items(r, rs)
  BY DEF Items
<1> HIDE DEF r
<1>6. Width(r) = 55
  <2> DEFINE w == [k \in 1..11 |-> r[k].width]
             e == Ends(r)
  <2>1. Len(r) = 11 /\ \A k \in 1..11 : r[k] = rs[k]
    BY <1>5 DEF Items
  <2>2. /\ w[1] = 1
        /\ w[2] = 1
        /\ w[3] = 4
        /\ w[4] = 1
        /\ w[5] = 1
        /\ w[6] = 1
        /\ w[7] = 4
        /\ w[8] = 1
        /\ w[9] = 32
        /\ w[10] = 1
        /\ w[11] = 8
    BY <2>1 DEF PieceOf, ByteOf, p1, p2, p3, p4, p5, p6, p7, p8, p9, p10
  <2>3. e[0] = 0 /\ \A k \in 1..Len(r) : e[k] = e[k - 1] + r[k].width
    BY <1>4, EndsUnfold
  <2>4. \A k \in 1..11 : e[k] = e[k - 1] + w[k]
    BY <2>1, <2>3
  <2> HIDE DEF w, e
  <2>5. e[11] = 55
    BY <2>2, <2>3, <2>4
  <2> QED BY <2>1, <2>5 DEF Width, e
<1> DEFINE s == Serialize(0, r)
<1>7. /\ IsBytes(s) /\ Len(s) = 2 + Len(r)
      /\ s[1] = PieceOf("LE", 0, 8) /\ s[2] = ByteOf(55)
      /\ \A i \in 1..Len(r) : s[2 + i] = r[i]
      /\ Width(s) = 64
  <2> DEFINE w == 55
  <2>1. w = Width(r) /\ w < 253 /\ 9 + w = 64
    BY <1>6
  <2> HIDE DEF w
  <2>2. /\ IsBytes(s) /\ Len(s) = 2 + Len(r)
        /\ s[1] = PieceOf("LE", 0, 8) /\ s[2] = ByteOf(w)
        /\ \A i \in 1..Len(r) : s[2 + i] = r[i]
        /\ Width(s) = 9 + w
    BY <1>4, <2>1, SerializedScript
  <2> HIDE DEF s
  <2> QED BY <2>1, <2>2 DEF w
<1> HIDE DEF s
<1>8. Items(s, MintPieces(token, quantity))
  <2> DEFINE q1 == PieceOf("LE", 0, 8)
             q2 == ByteOf(55)
  <2> HIDE DEF q1, q2
  <2>1. Items(s, <<q1, q2, p1, p2, p3, p4, p5, p2, p6, p7, p8, p9, p10>>)
    BY <1>5, <1>7 DEF Items, q1, q2
  <2>2. MintPieces(token, quantity) = <<q1, q2, p1, p2, p3, p4, p5, p2, p6, p7, p8, p9, p10>>
    BY DEF MintPieces, q1, q2, p1, p2, p3, p4, p5, p6, p7, p8, p9, p10
  <2> QED BY <2>1, <2>2
<1> QED
  BY <1>3, <1>7, <1>8 DEF s

\* An output to a recipient.
LEMMA PayOutputBytes ==
    ASSUME NEW recipient, NEW sats
    PROVE  /\ IsBytes(Serialize(sats, P2PKH(recipient))) /\ Width(Serialize(sats, P2PKH(recipient))) = 34
           /\ Items(Serialize(sats, P2PKH(recipient)), PayPieces(recipient, sats))
<1> DEFINE p1 == ByteOf(118)
           p2 == ByteOf(169)
           p3 == ByteOf(20)
           p4 == PieceOf("hash160", recipient, 20)
           p5 == ByteOf(136)
           p6 == ByteOf(172)
           r == <<p1>> \o <<p2>> \o (<<p3>> \o <<p4>>) \o <<p5>> \o <<p6>>
           rs == <<p1, p2, p3, p4, p5, p6>>
<1>1. /\ IsBytes(<<p1>>) /\ Width(<<p1>>) = 1
      /\ IsBytes(<<p2>>) /\ Width(<<p2>>) = 1
      /\ IsBytes(<<p3>>) /\ Width(<<p3>>) = 1
      /\ IsBytes(<<p4>>) /\ Width(<<p4>>) = 20
      /\ IsBytes(<<p5>>) /\ Width(<<p5>>) = 1
      /\ IsBytes(<<p6>>) /\ Width(<<p6>>) = 1
  BY BytesOfPieces DEF Piece, Byte, PieceOf, ByteOf
<1>2. /\ Byte(118) = <<p1>>
      /\ Byte(169) = <<p2>>
      /\ Byte(20) = <<p3>>
      /\ Piece("hash160", recipient, 20) = <<p4>>
      /\ Byte(136) = <<p5>>
      /\ Byte(172) = <<p6>>
  BY DEF Byte, BE, TokenId, Piece, PieceOf, ByteOf
<1> HIDE DEF p1, p2, p3, p4, p5, p6
<1>3. P2PKH(recipient) = r
  <2>1. Data(<<p4>>) = Byte(20) \o <<p4>>
    BY <1>1, Zenon DEF Data
  <2> QED BY <1>2, <2>1 DEF P2PKH
<1>4. IsBytes(r)
  BY <1>1, JoinedBytes, Zenon
<1>5. Items(r, rs)
  BY DEF Items
<1> HIDE DEF r
<1>6. Width(r) = 25
  <2> DEFINE w == [k \in 1..6 |-> r[k].width]
             e == Ends(r)
  <2>1. Len(r) = 6 /\ \A k \in 1..6 : r[k] = rs[k]
    BY <1>5 DEF Items
  <2>2. /\ w[1] = 1
        /\ w[2] = 1
        /\ w[3] = 1
        /\ w[4] = 20
        /\ w[5] = 1
        /\ w[6] = 1
    BY <2>1 DEF PieceOf, ByteOf, p1, p2, p3, p4, p5, p6
  <2>3. e[0] = 0 /\ \A k \in 1..Len(r) : e[k] = e[k - 1] + r[k].width
    BY <1>4, EndsUnfold
  <2>4. \A k \in 1..6 : e[k] = e[k - 1] + w[k]
    BY <2>1, <2>3
  <2> HIDE DEF w, e
  <2>5. e[6] = 25
    BY <2>2, <2>3, <2>4
  <2> QED BY <2>1, <2>5 DEF Width, e
<1> DEFINE s == Serialize(sats, r)
<1>7. /\ IsBytes(s) /\ Len(s) = 2 + Len(r)
      /\ s[1] = PieceOf("LE", sats, 8) /\ s[2] = ByteOf(25)
      /\ \A i \in 1..Len(r) : s[2 + i] = r[i]
      /\ Width(s) = 34
  <2> DEFINE w == 25
  <2>1. w = Width(r) /\ w < 253 /\ 9 + w = 34
    BY <1>6
  <2> HIDE DEF w
  <2>2. /\ IsBytes(s) /\ Len(s) = 2 + Len(r)
        /\ s[1] = PieceOf("LE", sats, 8) /\ s[2] = ByteOf(w)
        /\ \A i \in 1..Len(r) : s[2 + i] = r[i]
        /\ Width(s) = 9 + w
    BY <1>4, <2>1, SerializedScript
  <2> HIDE DEF s
  <2> QED BY <2>1, <2>2 DEF w
<1> HIDE DEF s
<1>8. Items(s, PayPieces(recipient, sats))
  <2> DEFINE q1 == PieceOf("LE", sats, 8)
             q2 == ByteOf(25)
  <2> HIDE DEF q1, q2
  <2>1. Items(s, <<q1, q2, p1, p2, p3, p4, p5, p6>>)
    BY <1>5, <1>7 DEF Items, q1, q2
  <2>2. PayPieces(recipient, sats) = <<q1, q2, p1, p2, p3, p4, p5, p6>>
    BY DEF PayPieces, q1, q2, p1, p2, p3, p4, p5, p6
  <2> QED BY <2>1, <2>2
<1> QED
  BY <1>3, <1>7, <1>8 DEF s

\* An output to a script.
LEMMA ScriptOutputBytes ==
    ASSUME NEW name, NEW sats
    PROVE  /\ IsBytes(Serialize(sats, P2SH(name))) /\ Width(Serialize(sats, P2SH(name))) = 32
           /\ Items(Serialize(sats, P2SH(name)), ScriptPieces(name, sats))
<1> DEFINE p1 == ByteOf(169)
           p2 == ByteOf(20)
           p3 == PieceOf("hash160", name, 20)
           p4 == ByteOf(135)
           r == <<p1>> \o (<<p2>> \o <<p3>>) \o <<p4>>
           rs == <<p1, p2, p3, p4>>
<1>1. /\ IsBytes(<<p1>>) /\ Width(<<p1>>) = 1
      /\ IsBytes(<<p2>>) /\ Width(<<p2>>) = 1
      /\ IsBytes(<<p3>>) /\ Width(<<p3>>) = 20
      /\ IsBytes(<<p4>>) /\ Width(<<p4>>) = 1
  BY BytesOfPieces DEF Piece, Byte, PieceOf, ByteOf
<1>2. /\ Byte(169) = <<p1>>
      /\ Byte(20) = <<p2>>
      /\ Piece("hash160", name, 20) = <<p3>>
      /\ Byte(135) = <<p4>>
  BY DEF Byte, BE, TokenId, Piece, PieceOf, ByteOf
<1> HIDE DEF p1, p2, p3, p4
<1>3. P2SH(name) = r
  <2>1. Data(<<p3>>) = Byte(20) \o <<p3>>
    BY <1>1, Zenon DEF Data
  <2> QED BY <1>2, <2>1 DEF P2SH
<1>4. IsBytes(r)
  BY <1>1, JoinedBytes, Zenon
<1>5. Items(r, rs)
  BY DEF Items
<1> HIDE DEF r
<1>6. Width(r) = 23
  <2> DEFINE w == [k \in 1..4 |-> r[k].width]
             e == Ends(r)
  <2>1. Len(r) = 4 /\ \A k \in 1..4 : r[k] = rs[k]
    BY <1>5 DEF Items
  <2>2. /\ w[1] = 1
        /\ w[2] = 1
        /\ w[3] = 20
        /\ w[4] = 1
    BY <2>1 DEF PieceOf, ByteOf, p1, p2, p3, p4
  <2>3. e[0] = 0 /\ \A k \in 1..Len(r) : e[k] = e[k - 1] + r[k].width
    BY <1>4, EndsUnfold
  <2>4. \A k \in 1..4 : e[k] = e[k - 1] + w[k]
    BY <2>1, <2>3
  <2> HIDE DEF w, e
  <2>5. e[4] = 23
    BY <2>2, <2>3, <2>4
  <2> QED BY <2>1, <2>5 DEF Width, e
<1> DEFINE s == Serialize(sats, r)
<1>7. /\ IsBytes(s) /\ Len(s) = 2 + Len(r)
      /\ s[1] = PieceOf("LE", sats, 8) /\ s[2] = ByteOf(23)
      /\ \A i \in 1..Len(r) : s[2 + i] = r[i]
      /\ Width(s) = 32
  <2> DEFINE w == 23
  <2>1. w = Width(r) /\ w < 253 /\ 9 + w = 32
    BY <1>6
  <2> HIDE DEF w
  <2>2. /\ IsBytes(s) /\ Len(s) = 2 + Len(r)
        /\ s[1] = PieceOf("LE", sats, 8) /\ s[2] = ByteOf(w)
        /\ \A i \in 1..Len(r) : s[2 + i] = r[i]
        /\ Width(s) = 9 + w
    BY <1>4, <2>1, SerializedScript
  <2> HIDE DEF s
  <2> QED BY <2>1, <2>2 DEF w
<1> HIDE DEF s
<1>8. Items(s, ScriptPieces(name, sats))
  <2> DEFINE q1 == PieceOf("LE", sats, 8)
             q2 == ByteOf(23)
  <2> HIDE DEF q1, q2
  <2>1. Items(s, <<q1, q2, p1, p2, p3, p4>>)
    BY <1>5, <1>7 DEF Items, q1, q2
  <2>2. ScriptPieces(name, sats) = <<q1, q2, p1, p2, p3, p4>>
    BY DEF ScriptPieces, q1, q2, p1, p2, p3, p4
  <2> QED BY <2>1, <2>2
<1> QED
  BY <1>3, <1>7, <1>8 DEF s

\* The outputs of an authorized mint, piece by piece.
AuthorizedPieces(quantity, recipient) ==
    <<PieceOf("LE", 0, 8), ByteOf(55), ByteOf(106), ByteOf(4), PieceOf("ascii", "SLP", 4), ByteOf(1), ByteOf(2),
      ByteOf(4), PieceOf("ascii", "MINT", 4), ByteOf(32), PieceOf("tokenId", Token, 32), ByteOf(8),
      PieceOf("BE", quantity, 8),
      PieceOf("LE", SLP_DUST_SATS, 8), ByteOf(25), ByteOf(118), ByteOf(169), ByteOf(20),
      PieceOf("hash160", recipient, 20), ByteOf(136), ByteOf(172)>>

\* What the contract writes for the outputs.
LEMMA ContractOutputs ==
    ASSUME NEW quantity, NEW recipient
    PROVE  LET s == _buildMintTxOutputs(quantity, recipient)
           IN  IsBytes(s) /\ Items(s, AuthorizedPieces(quantity, recipient))
<1> DEFINE p1 == PieceOf("LE", 0, 8)
           p2 == ByteOf(55)
           p3 == ByteOf(106)
           p4 == ByteOf(4)
           p5 == PieceOf("ascii", "SLP", 4)
           p6 == ByteOf(1)
           p7 == ByteOf(2)
           p8 == PieceOf("ascii", "MINT", 4)
           p9 == ByteOf(32)
           p10 == PieceOf("tokenId", Token, 32)
           p11 == ByteOf(8)
           p12 == PieceOf("BE", quantity, 8)
           p13 == PieceOf("LE", SLP_DUST_SATS, 8)
           p14 == ByteOf(25)
           p15 == ByteOf(118)
           p16 == ByteOf(169)
           p17 == ByteOf(20)
           p18 == PieceOf("hash160", recipient, 20)
           p19 == ByteOf(136)
           p20 == ByteOf(172)
           r == <<p1>> \o <<p2>> \o <<p3>> \o <<p4>> \o <<p5>> \o <<p6>> \o <<p7>> \o <<p4>> \o <<p8>> \o <<p9>>
                    \o <<p10>> \o <<p11>> \o <<p12>> \o <<p13>> \o <<p14>> \o <<p15>> \o <<p16>> \o <<p17>>
                    \o <<p18>> \o <<p19>> \o <<p20>>
<1>1. /\ IsBytes(<<p1>>) /\ IsBytes(<<p2>>) /\ IsBytes(<<p3>>) /\ IsBytes(<<p4>>) /\ IsBytes(<<p5>>)
      /\ IsBytes(<<p6>>) /\ IsBytes(<<p7>>) /\ IsBytes(<<p8>>) /\ IsBytes(<<p9>>) /\ IsBytes(<<p10>>)
      /\ IsBytes(<<p11>>) /\ IsBytes(<<p12>>) /\ IsBytes(<<p13>>) /\ IsBytes(<<p14>>) /\ IsBytes(<<p15>>)
      /\ IsBytes(<<p16>>) /\ IsBytes(<<p17>>) /\ IsBytes(<<p18>>) /\ IsBytes(<<p19>>) /\ IsBytes(<<p20>>)
  <2>1. \A tag, value : \A width \in Nat \ {0} : IsBytes(<<PieceOf(tag, value, width)>>)
    BY BytesOfPieces DEF Piece, PieceOf
  <2>2. \A n : IsBytes(<<ByteOf(n)>>)
    BY <2>1 DEF ByteOf
  <2>3. 4 \in Nat \ {0} /\ 8 \in Nat \ {0} /\ 20 \in Nat \ {0} /\ 32 \in Nat \ {0}
    OBVIOUS
  <2> QED BY <2>1, <2>2, <2>3, Zenon
<1>2. _buildMintTxOutputs(quantity, recipient) = r
  BY DEF _buildMintTxOutputs, LE, BE, Byte, TokenId, Piece, PieceOf, ByteOf
<1> HIDE DEF p1, p2, p3, p4, p5, p6, p7, p8, p9, p10, p11, p12, p13, p14, p15, p16, p17, p18, p19, p20
<1>3. IsBytes(r)
  <2> DEFINE a == <<p1>> \o <<p2>> \o <<p3>> \o <<p4>> \o <<p5>> \o <<p6>> \o <<p7>> \o <<p4>> \o <<p8>> \o <<p9>>
             b == a \o <<p10>> \o <<p11>> \o <<p12>> \o <<p13>> \o <<p14>> \o <<p15>> \o <<p16>>
  <2>1. IsBytes(a)
    BY <1>1, JoinedBytes, Zenon
  <2> HIDE DEF a
  <2>2. IsBytes(b)
    BY <1>1, <2>1, JoinedBytes, Zenon
  <2> HIDE DEF b
  <2>3. IsBytes(b \o <<p17>> \o <<p18>> \o <<p19>> \o <<p20>>)
    BY <1>1, <2>2, JoinedBytes, Zenon
  <2> QED BY <2>3 DEF a, b
<1>4. Items(r, <<p1, p2, p3, p4, p5, p6, p7, p4, p8, p9, p10, p11, p12, p13, p14, p15, p16, p17, p18, p19, p20>>)
  BY DEF Items
<1>5. AuthorizedPieces(quantity, recipient) =
          <<p1, p2, p3, p4, p5, p6, p7, p4, p8, p9, p10, p11, p12, p13, p14, p15, p16, p17, p18, p19, p20>>
  BY DEF AuthorizedPieces, p1, p2, p3, p4, p5, p6, p7, p8, p9, p10, p11, p12, p13, p14, p15, p16, p17,
     p18, p19, p20
<1> HIDE DEF r
<1> QED BY <1>2, <1>3, <1>4, <1>5

\* What the SDK writes for the outputs.
LEMMA ServiceOutputs ==
    ASSUME NEW quantity, NEW recipient
    PROVE  LET s == buildMintV2TxOutputs(TokenId(Token), quantity, recipient)
           IN  IsBytes(s) /\ Items(s, AuthorizedPieces(quantity, recipient))
<1> DEFINE a == Serialize(0, buildMintOpReturnV2(TokenId(Token), quantity))
           b == Serialize(SLP_DUST_SATS, P2PKH(recipient))
           s == a \o b
<1>1. IsBytes(a) /\ Items(a, MintPieces(Token, quantity))
  BY MintOutputBytes
<1>2. IsBytes(b) /\ Items(b, PayPieces(recipient, SLP_DUST_SATS))
  BY PayOutputBytes
<1>3. buildMintV2TxOutputs(TokenId(Token), quantity, recipient) = s
  BY DEF buildMintV2TxOutputs
<1> HIDE DEF a, b
<1>4. /\ IsBytes(s) /\ Len(s) = Len(a) + Len(b)
      /\ \A i \in 1..Len(a) : s[i] = a[i]
      /\ \A i \in 1..Len(b) : s[Len(a) + i] = b[i]
  BY <1>1, <1>2, Joined
<1> HIDE DEF s
<1>5. Len(a) = 13 /\ Len(b) = 8
  BY <1>1, <1>2 DEF Items, MintPieces, PayPieces
<1>6. (\A i \in 1..13 : s[i] = a[i]) /\ (\A i \in 1..8 : s[13 + i] = b[i]) /\ Len(s) = 21
  BY <1>4, <1>5
<1>7. /\ \A i \in 1..13 : a[i] = MintPieces(Token, quantity)[i]
      /\ \A i \in 1..8 : b[i] = PayPieces(recipient, SLP_DUST_SATS)[i]
  <2>1. Len(MintPieces(Token, quantity)) = 13 /\ Len(PayPieces(recipient, SLP_DUST_SATS)) = 8
    BY DEF MintPieces, PayPieces
  <2> QED BY <1>1, <1>2, <2>1 DEF Items
<1>8. Items(s, AuthorizedPieces(quantity, recipient))
  <2>1. \A i \in 1..13 : AuthorizedPieces(quantity, recipient)[i] = MintPieces(Token, quantity)[i]
    BY DEF AuthorizedPieces, MintPieces
  <2>2. \A i \in 1..8 : AuthorizedPieces(quantity, recipient)[13 + i] = PayPieces(recipient, SLP_DUST_SATS)[i]
    BY DEF AuthorizedPieces, PayPieces
  <2>3. Len(AuthorizedPieces(quantity, recipient)) = 21
    BY DEF AuthorizedPieces
  <2>4. \A i \in 1..21 : s[i] = AuthorizedPieces(quantity, recipient)[i]
    <3>1. ASSUME NEW i \in 1..21 PROVE s[i] = AuthorizedPieces(quantity, recipient)[i]
      <4>1. CASE i <= 13
        <5>1. i \in 1..13
          BY <4>1
        <5> QED BY <1>6, <1>7, <2>1, <5>1
      <4>2. CASE ~(i <= 13)
        <5>1. i - 13 \in 1..8 /\ 13 + (i - 13) = i
          BY <4>2
        <5> QED BY <1>6, <1>7, <2>2, <5>1
      <4> QED BY <4>1, <4>2
    <3> QED BY <3>1
  <2> QED BY <1>6, <2>3, <2>4 DEF Items
<1> QED BY <1>3, <1>4, <1>8

\* The service writes the outputs as the contract does.
LEMMA OutputsAgree ==
    \A quantity, recipient :
        buildMintV2TxOutputs(TokenId(Token), quantity, recipient) = _buildMintTxOutputs(quantity, recipient)
<1>1. ASSUME NEW quantity, NEW recipient
      PROVE  buildMintV2TxOutputs(TokenId(Token), quantity, recipient) = _buildMintTxOutputs(quantity, recipient)
  <2> DEFINE s == buildMintV2TxOutputs(TokenId(Token), quantity, recipient)
             t == _buildMintTxOutputs(quantity, recipient)
             items == AuthorizedPieces(quantity, recipient)
  <2>1. IsBytes(s) /\ Items(s, items) /\ IsBytes(t) /\ Items(t, items)
    BY ServiceOutputs, ContractOutputs
  <2> HIDE DEF s, t, items
  <2>2. Len(s) = Len(t) /\ \A i \in 1..Len(s) : s[i] = t[i]
    BY <2>1 DEF Items
  <2>3. s = t
    BY <2>1, <2>2, SameBytes
  <2> QED BY <2>3 DEF s, t
<1> QED BY <1>1

-----------------------------------------------------------------------------

\* What is hashed, from the hash.
LEMMA HashSays ==
    /\ \A a, b : HASH256(a) = HASH256(b) => a = b
    /\ \A a : HASH256(a) # ZERO_HASH
    /\ \A k, l, a, b : Signature(k, a) = Signature(l, b) => k = l /\ a = b
    /\ \A k, l : PubKey(k) = PubKey(l) => k = l
<1>1. \A a, b : SHA256(a) = SHA256(b) => a = b
  BY PieceSays DEF SHA256
<1>2. \A a, b : HASH256(a) = HASH256(b) => a = b
  BY <1>1 DEF HASH256
<1>3. \A a : HASH256(a) # ZERO_HASH
  <2>1. ASSUME NEW a, HASH256(a) = ZERO_HASH PROVE FALSE
    <3>1. HASH256(a)[1].says[1] = "SHA256" /\ ZERO_HASH[1].says[1] = "zero"
      BY DEF HASH256, SHA256, ZERO_HASH, Piece
    <3>2. "SHA256" = "zero"
      BY <2>1, <3>1
    <3> QED BY <3>2
  <2> QED BY <2>1
<1>4. ASSUME NEW k, NEW l, NEW a, NEW b, Signature(k, a) = Signature(l, b) PROVE k = l /\ a = b
  <2> DEFINE u == <<k, a>>
             v == <<l, b>>
  <2>1. Piece("signature", u, 71) = Piece("signature", v, 71)
    BY <1>4 DEF Signature
  <2>2. u = v
    <3> HIDE DEF u, v
    <3> QED BY <2>1, PieceSays
  <2> QED BY <2>2
<1>5. \A k, l : PubKey(k) = PubKey(l) => k = l
  BY PieceSays DEF PubKey
<1> QED BY <1>2, <1>3, <1>4, <1>5

-----------------------------------------------------------------------------
(* Strings cut where they were joined *)

\* One string and then another, for proofs that look into neither.
Then(a, b) == a \o b

\* Joining, restated for the name Then: a string,
LEMMA ThenBytes == \A a, b : IsBytes(a) /\ IsBytes(b) => IsBytes(Then(a, b))
BY JoinedBytes DEF Then

\* whichever way it is grouped,
LEMMA ThenRegrouped ==
    \A a, b, c : IsBytes(a) /\ IsBytes(b) /\ IsBytes(c) => Then(Then(a, b), c) = Then(a, Then(b, c))
BY Associative DEF Then

\* of the bytes of both,
LEMMA ThenWidth ==
    /\ \A a : IsBytes(a) => Width(a) \in Nat
    /\ \A a, b : IsBytes(a) /\ IsBytes(b) => Width(Then(a, b)) = Width(a) + Width(b)
<1>1. \A a : IsBytes(a) => Width(a) \in Nat
  BY WidthIsNat
<1>2. \A a, b : IsBytes(a) /\ IsBytes(b) => Width(Then(a, b)) = Width(a) + Width(b)
  BY WidthOfJoined DEF Then
<1> QED BY <1>1, <1>2

\* that is cut where it was joined,
LEMMA ThenCut ==
    \A a, b, n : IsBytes(a) /\ IsBytes(b) /\ n = Width(a) => First(Then(a, b), n) = a /\ Rest(Then(a, b), n) = b
BY CutBetween DEF Then

\* and says of both parts what they are, when one is known to be as long in each.
LEMMA ThenSame ==
    \A a, b, c, d :
        /\ IsBytes(a) /\ IsBytes(b) /\ IsBytes(c) /\ IsBytes(d)
        /\ Then(a, b) = Then(c, d)
        /\ Width(a) = Width(c) \/ Width(b) = Width(d)
        => a = c /\ b = d
<1>1. ASSUME NEW a, NEW b, NEW c, NEW d, IsBytes(a), IsBytes(b), IsBytes(c), IsBytes(d),
             Then(a, b) = Then(c, d), Width(a) = Width(c) \/ Width(b) = Width(d)
      PROVE  a = c /\ b = d
  <2>1. Width(a) = Width(c)
    BY <1>1, ThenWidth
  <2> QED BY <1>1, <2>1, ThenCut
<1> QED BY <1>1

\* The parts of a message.
LEMMA MessageRead ==
    ASSUME NEW D, NEW C, NEW T, NEW I, NEW B, IsBytes(D), IsBytes(C), IsBytes(T), IsBytes(I), IsBytes(B),
           Width(D) = 32, Width(C) = 32, Width(T) = 32, Width(I) = 4,
           NEW M, M = Then(Then(Then(Then(D, C), T), I), B)
    PROVE  /\ MessageSplits(M) /\ MessageOutpoint(M) = T \o I /\ MessageOutputs(M) = B
<1> DEFINE DC == Then(D, C)
           DCT == Then(DC, T)
           x == Then(I, B)
           y == Then(T, x)
           z == Then(C, y)
<1>1. IsBytes(DC) /\ IsBytes(DCT) /\ IsBytes(x) /\ IsBytes(y) /\ IsBytes(z)
  BY ThenBytes
<1>2. M = Then(D, z)
  <2>1. M = Then(DCT, x)
    BY <1>1, ThenRegrouped
  <2>2. Then(DCT, x) = Then(DC, y)
    BY <1>1, ThenRegrouped
  <2>3. Then(DC, y) = Then(D, z)
    BY <1>1, ThenRegrouped
  <2> QED BY <2>1, <2>2, <2>3
<1>3. Rest(M, 32) = z /\ Rest(z, 32) = y /\ First(y, 32) = T /\ Rest(y, 32) = x /\ First(x, 4) = I /\ Rest(x, 4) = B
  BY <1>1, <1>2, ThenCut
<1>4. /\ Width(M) = 32 + Width(z) /\ Width(z) = 32 + Width(y) /\ Width(y) = 32 + Width(x) /\ Width(x) = 4 + Width(B)
      /\ Width(z) \in Nat /\ Width(y) \in Nat /\ Width(x) \in Nat /\ Width(B) \in Nat
  BY <1>1, <1>2, ThenWidth
<1> HIDE DEF DC, DCT, x, y, z
<1>5. AfterIds(M) = y
  BY <1>3 DEF AfterIds
<1>6. MessageSplits(M)
  BY <1>3, <1>4, <1>5 DEF MessageSplits
<1>7. MessageOutpoint(M) = T \o I
  BY <1>3, <1>5, Zenon DEF MessageOutpoint
<1>8. MessageOutputs(M) = B
  BY <1>3, <1>5 DEF MessageOutputs
<1> QED BY <1>6, <1>7, <1>8

\* The parts of a preimage, from either end.
LEMMA PreimageRead ==
    ASSUME NEW a, NEW b, NEW c, NEW d, NEW e, NEW f, NEW g, NEW h,
           IsBytes(a), IsBytes(b), IsBytes(c), IsBytes(d), IsBytes(e), IsBytes(f), IsBytes(g), IsBytes(h),
           Width(a) = 68, Width(b) = 36, Width(f) = 32, Width(g) = 4, Width(h) = 4,
           NEW X, X = Then(Then(Then(Then(Then(Then(Then(a, b), c), d), e), f), g), h)
    PROVE  /\ IsBytes(X) /\ OutputsCut(X) /\ 68 \in 0..Width(X) /\ 36 \in 0..Width(Rest(X, 68))
           /\ PreimageOutpoint(X) = b /\ PreimageHash(X) = f
<1> DEFINE ab == Then(a, b)
           abc == Then(ab, c)
           abcd == Then(abc, d)
           front == Then(abcd, e)
           ff == Then(front, f)
           fg == Then(ff, g)
           gh == Then(g, h)
           back == Then(f, gh)
           c3 == Then(c, back)
           de == Then(d, e)
           deb == Then(de, back)
           q == Then(c, deb)
           bq == Then(b, q)
<1>1. /\ IsBytes(ab) /\ IsBytes(abc) /\ IsBytes(abcd) /\ IsBytes(front) /\ IsBytes(ff) /\ IsBytes(fg)
      /\ IsBytes(gh) /\ IsBytes(back) /\ IsBytes(de) /\ IsBytes(deb) /\ IsBytes(q) /\ IsBytes(bq)
  BY ThenBytes
<1>2. X = Then(front, back)
  <2>1. X = Then(fg, h)
    OBVIOUS
  <2>2. Then(fg, h) = Then(ff, gh) /\ Then(ff, gh) = Then(front, back)
    BY <1>1, ThenRegrouped
  <2> QED BY <2>1, <2>2
<1>3. Then(front, back) = Then(a, bq)
  <2>1. front = Then(abc, de)
    BY <1>1, ThenRegrouped
  <2>2. Then(Then(abc, de), back) = Then(abc, deb)
    BY <1>1, ThenRegrouped
  <2>3. Then(abc, deb) = Then(ab, q)
    BY <1>1, ThenRegrouped
  <2>4. Then(ab, q) = Then(a, bq)
    BY <1>1, ThenRegrouped
  <2> QED BY <2>1, <2>2, <2>3, <2>4
<1> HIDE DEF ab, abc, abcd, front, ff, fg, de, deb, q
<1>4. Width(gh) = 8 /\ Width(back) = 40 /\ Width(bq) = 36 + Width(q) /\ Width(q) \in Nat /\ Width(front) \in Nat
  <2>1. Width(gh) = Width(g) + Width(h) /\ Width(bq) = Width(b) + Width(q)
    BY <1>1, ThenWidth
  <2>2. Width(back) = Width(f) + Width(gh)
    BY <1>1, ThenWidth
  <2>3. Width(q) \in Nat /\ Width(front) \in Nat
    BY <1>1, ThenWidth
  <2> QED BY <2>1, <2>2, <2>3
<1>5. First(back, 32) = f /\ First(bq, 36) = b
  BY <1>1, ThenCut
<1> HIDE DEF gh, back, bq
<1>6. Width(X) = Width(front) + 40 /\ Rest(X, Width(front)) = back
  BY <1>1, <1>2, <1>4, ThenWidth, ThenCut
<1>7. Width(X) = 68 + Width(bq) /\ Rest(X, 68) = bq
  BY <1>1, <1>2, <1>3, <1>4, ThenWidth, ThenCut
<1>8. IsBytes(X)
  BY <1>1, <1>2, ThenBytes
<1>9. Width(X) - 40 = Width(front)
  BY <1>4, <1>6
<1>10. OutputsCut(X) /\ PreimageHash(X) = f
  BY <1>4, <1>5, <1>6, <1>9 DEF OutputsCut, PreimageHash
<1>11. 68 \in 0..Width(X) /\ 36 \in 0..Width(Rest(X, 68)) /\ PreimageOutpoint(X) = b
  BY <1>4, <1>5, <1>7 DEF PreimageOutpoint
<1> QED BY <1>8, <1>10, <1>11

\* Of two strings of ten parts, one as wide as the other from the second on.
LEMMA SameTen ==
    ASSUME NEW a1, NEW a2, NEW a3, NEW a4, NEW a5, NEW a6, NEW a7, NEW a8, NEW a9, NEW a10,
           NEW b1, NEW b2, NEW b3, NEW b4, NEW b5, NEW b6, NEW b7, NEW b8, NEW b9, NEW b10,
           IsBytes(a1), IsBytes(a2), IsBytes(a3), IsBytes(a4), IsBytes(a5),
           IsBytes(a6), IsBytes(a7), IsBytes(a8), IsBytes(a9), IsBytes(a10),
           IsBytes(b1), IsBytes(b2), IsBytes(b3), IsBytes(b4), IsBytes(b5),
           IsBytes(b6), IsBytes(b7), IsBytes(b8), IsBytes(b9), IsBytes(b10),
           Width(a2) = Width(b2), Width(a3) = Width(b3), Width(a4) = Width(b4), Width(a5) = Width(b5),
           Width(a6) = Width(b6), Width(a7) = Width(b7), Width(a8) = Width(b8), Width(a9) = Width(b9),
           Width(a10) = Width(b10),
           Then(Then(Then(Then(Then(Then(Then(Then(Then(a1, a2), a3), a4), a5), a6), a7), a8), a9), a10)
               = Then(Then(Then(Then(Then(Then(Then(Then(Then(b1, b2), b3), b4), b5), b6), b7), b8), b9), b10)
    PROVE  a2 = b2 /\ a3 = b3 /\ a4 = b4 /\ a8 = b8 /\ a10 = b10
<1> DEFINE c2 == Then(a1, a2)
           c3 == Then(c2, a3)
           c4 == Then(c3, a4)
           c5 == Then(c4, a5)
           c6 == Then(c5, a6)
           c7 == Then(c6, a7)
           c8 == Then(c7, a8)
           c9 == Then(c8, a9)
           d2 == Then(b1, b2)
           d3 == Then(d2, b3)
           d4 == Then(d3, b4)
           d5 == Then(d4, b5)
           d6 == Then(d5, b6)
           d7 == Then(d6, b7)
           d8 == Then(d7, b8)
           d9 == Then(d8, b9)
<1>0. Then(c9, a10) = Then(d9, b10)
  OBVIOUS
<1>1. /\ IsBytes(c2) /\ IsBytes(d2) /\ IsBytes(c3) /\ IsBytes(d3) /\ IsBytes(c4) /\ IsBytes(d4)
      /\ IsBytes(c5) /\ IsBytes(d5) /\ IsBytes(c6) /\ IsBytes(d6) /\ IsBytes(c7) /\ IsBytes(d7)
      /\ IsBytes(c8) /\ IsBytes(d8) /\ IsBytes(c9) /\ IsBytes(d9)
  BY ThenBytes
<1>10. a10 = b10 /\ c9 = d9
  BY <1>0, <1>1, ThenSame
<1>11. c8 = d8
  BY <1>1, <1>10, ThenSame
<1>12. a8 = b8 /\ c7 = d7
  BY <1>1, <1>11, ThenSame
<1>13. c6 = d6
  BY <1>1, <1>12, ThenSame
<1>14. c5 = d5
  BY <1>1, <1>13, ThenSame
<1>15. c4 = d4
  BY <1>1, <1>14, ThenSame
<1>16. a4 = b4 /\ c3 = d3
  BY <1>1, <1>15, ThenSame
<1>17. a3 = b3 /\ c2 = d2
  BY <1>1, <1>16, ThenSame
<1>18. a2 = b2
  BY <1>17, ThenSame
<1> QED BY <1>10, <1>12, <1>16, <1>17, <1>18

-----------------------------------------------------------------------------
(* The preimage of a spend *)

\* An outpoint is 36 bytes.
LEMMA OutpointWidth ==
    ASSUME NEW u
    PROVE  IsBytes(OutpointBytes(u)) /\ Width(OutpointBytes(u)) = 36
<1>1. /\ IsBytes(Txid(u.txid, "internal")) /\ Width(Txid(u.txid, "internal")) = 32
      /\ IsBytes(LE(u.index, 4)) /\ Width(LE(u.index, 4)) = 4
  BY BytesOfPieces DEF Txid, LE
<1>2. OutpointBytes(u) = Then(Txid(u.txid, "internal"), LE(u.index, 4))
  BY DEF OutpointBytes, Then
<1> QED BY <1>1, <1>2, ThenBytes, ThenWidth

\* Its bytes say which it is.
LEMMA OutpointSays ==
    ASSUME NEW u, NEW v, OutpointBytes(u) = OutpointBytes(v)
    PROVE  u.txid = v.txid /\ u.index = v.index
<1> DEFINE a == Txid(u.txid, "internal")
           b == LE(u.index, 4)
           c == Txid(v.txid, "internal")
           d == LE(v.index, 4)
<1>1. Then(a, b) = Then(c, d)
  BY DEF OutpointBytes, Then
<1>2. IsBytes(a) /\ IsBytes(b) /\ IsBytes(c) /\ IsBytes(d) /\ Width(b) = Width(d)
  BY BytesOfPieces DEF Txid, LE
<1> HIDE DEF a, b, c, d
<1>3. a = c /\ b = d
  BY <1>1, <1>2, ThenSame
<1>4. u.index = v.index
  BY <1>3, PieceSays DEF b, d, LE
<1>5. u.txid = v.txid
  <2> DEFINE x == <<u.txid, "internal">>
             y == <<v.txid, "internal">>
  <2>1. Piece("txid", x, 32) = Piece("txid", y, 32)
    BY <1>3 DEF a, c, Txid
  <2>2. x = y
    <3> HIDE DEF x, y
    <3> QED BY <2>1, PieceSays
  <2>3. x[1] = u.txid /\ y[1] = v.txid
    OBVIOUS
  <2> HIDE DEF x, y
  <2> QED BY <2>2, <2>3
<1> QED BY <1>4, <1>5

\* The hashes of a preimage are 32 bytes each.
LEMMA HashParts ==
    /\ \A tx, type : IsBytes(HashPrevouts(tx, type)) /\ Width(HashPrevouts(tx, type)) = 32
    /\ \A tx, type : IsBytes(HashSequence(tx, type)) /\ Width(HashSequence(tx, type)) = 32
    /\ \A tx, index, type : IsBytes(HashOutputs(tx, index, type)) /\ Width(HashOutputs(tx, index, type)) = 32
<1>1. \A a : IsBytes(HASH256(a)) /\ Width(HASH256(a)) = 32
  BY BytesOfPieces DEF HASH256, SHA256
<1>2. IsBytes(ZERO_HASH) /\ Width(ZERO_HASH) = 32
  BY BytesOfPieces DEF ZERO_HASH
<1>3. \A tx, type : HashPrevouts(tx, type) = ZERO_HASH \/ \E a : HashPrevouts(tx, type) = HASH256(a)
  BY DEF HashPrevouts
<1>4. \A tx, type : HashSequence(tx, type) = ZERO_HASH \/ \E a : HashSequence(tx, type) = HASH256(a)
  BY DEF HashSequence
<1>5. \A tx, index, type :
         HashOutputs(tx, index, type) = ZERO_HASH \/ \E a : HashOutputs(tx, index, type) = HASH256(a)
  <2>1. ASSUME NEW tx, NEW index, NEW type
        PROVE  HashOutputs(tx, index, type) = ZERO_HASH \/ \E a : HashOutputs(tx, index, type) = HASH256(a)
    <3>1. CASE type.outputs = "ALL"
      BY <3>1 DEF HashOutputs
    <3>2. CASE type.outputs # "ALL" /\ type.outputs = "SINGLE" /\ index <= Len(tx.outs)
      BY <3>2 DEF HashOutputs
    <3>3. CASE type.outputs # "ALL" /\ ~(type.outputs = "SINGLE" /\ index <= Len(tx.outs))
      BY <3>3 DEF HashOutputs
    <3> QED BY <3>1, <3>2, <3>3
  <2> QED BY <2>1
<1> QED BY <1>1, <1>2, <1>3, <1>4, <1>5, Zenon

\* The locking script of a coin, with its length.
LEMMA LockingBytes ==
    ASSUME NEW c
    PROVE  IsBytes(Data(LockingScript(c))) /\ Width(Data(LockingScript(c))) = 201
<1> DEFINE p == LockingScript(c)
           b == Byte(200)
<1>1. IsBytes(p) /\ Width(p) = 200 /\ IsBytes(b) /\ Width(b) = 1
  BY BytesOfPieces DEF LockingScript
<1> HIDE DEF p
<1>2. Data(p) = Then(b, p)
  BY <1>1, Zenon DEF Data, Then
<1> HIDE DEF b
<1> QED BY <1>1, <1>2, ThenBytes, ThenWidth DEF p

\* What a script reads of the preimage of a spend.
LEMMA PreimageOf ==
    ASSUME NEW s
    PROVE  LET X == Preimage(s)
           IN  /\ IsBytes(X) /\ OutputsCut(X) /\ 68 \in 0..Width(X) /\ 36 \in 0..Width(Rest(X, 68))
               /\ PreimageOutpoint(X) = OutpointBytes(s.tx.ins[s.index])
               /\ PreimageHash(X) = HashOutputs(s.tx, s.index, s.type)
<1> DEFINE v == Piece("version", 2, 4)
           p == HashPrevouts(s.tx, s.type)
           q == HashSequence(s.tx, s.type)
           a == Then(Then(v, p), q)
           b == OutpointBytes(s.tx.ins[s.index])
           c == Data(LockingScript(script))
           d == LE(CoinValue(script), 8)
           e == Piece("sequence", 0, 4)
           f == HashOutputs(s.tx, s.index, s.type)
           g == Piece("locktime", 0, 4)
           h == TypeBytes(s.type, 4)
<1>1. Preimage(s) = Then(Then(Then(Then(Then(Then(Then(a, b), c), d), e), f), g), h)
  BY DEF Preimage, getPreimage, Then
<1>2. /\ IsBytes(v) /\ IsBytes(d) /\ IsBytes(e) /\ IsBytes(g) /\ IsBytes(h)
      /\ Width(v) = 4 /\ Width(g) = 4 /\ Width(h) = 4
  BY BytesOfPieces DEF LE, TypeBytes
<1>3. IsBytes(p) /\ IsBytes(q) /\ IsBytes(f) /\ Width(p) = 32 /\ Width(q) = 32 /\ Width(f) = 32
  BY HashParts
<1>4. IsBytes(b) /\ Width(b) = 36 /\ IsBytes(c)
  BY OutpointWidth, LockingBytes
<1> HIDE DEF v, p, q, b, c, d, e, f, g, h
<1>5. IsBytes(a) /\ Width(a) = 68
  BY <1>2, <1>3, ThenBytes, ThenWidth
<1> HIDE DEF a
<1> DEFINE X == Preimage(s)
<1> HIDE DEF X
<1>6. X = Then(Then(Then(Then(Then(Then(Then(a, b), c), d), e), f), g), h)
  BY <1>1 DEF X
<1>7. /\ IsBytes(X) /\ OutputsCut(X) /\ 68 \in 0..Width(X) /\ 36 \in 0..Width(Rest(X, 68))
      /\ PreimageOutpoint(X) = b /\ PreimageHash(X) = f
  BY <1>2, <1>3, <1>4, <1>5, <1>6, PreimageRead
<1> QED BY <1>7 DEF X, b, f

\* Spends with the same preimage sign the same.
LEMMA SamePreimage ==
    ASSUME NEW s, NEW t, Preimage(s) = Preimage(t)
    PROVE  /\ HashPrevouts(s.tx, s.type) = HashPrevouts(t.tx, t.type)
           /\ OutpointBytes(s.tx.ins[s.index]) = OutpointBytes(t.tx.ins[t.index])
           /\ HashOutputs(s.tx, s.index, s.type) = HashOutputs(t.tx, t.index, t.type)
           /\ s.type = t.type
<1> DEFINE Part2(x) == HashPrevouts(x.tx, x.type)
           Part3(x) == HashSequence(x.tx, x.type)
           Part4(x) == OutpointBytes(x.tx.ins[x.index])
           Part8(x) == HashOutputs(x.tx, x.index, x.type)
           Part10(x) == TypeBytes(x.type, 4)
           v == Piece("version", 2, 4)
           c == Data(LockingScript(script))
           d == LE(CoinValue(script), 8)
           e == Piece("sequence", 0, 4)
           g == Piece("locktime", 0, 4)
           P(x) == Then(Then(Then(Then(Then(Then(Then(Then(Then(v, Part2(x)), Part3(x)), Part4(x)), c), d), e),
                                             Part8(x)), g), Part10(x))
<1>1. Preimage(s) = P(s) /\ Preimage(t) = P(t)
  BY DEF Preimage, getPreimage, Then
<1>2. /\ IsBytes(v) /\ IsBytes(c) /\ IsBytes(d) /\ IsBytes(e) /\ IsBytes(g)
      /\ \A x : IsBytes(Part10(x)) /\ Width(Part10(x)) = 4
  BY BytesOfPieces, LockingBytes DEF LE, TypeBytes
<1>3. \A x : /\ IsBytes(Part2(x)) /\ IsBytes(Part3(x)) /\ IsBytes(Part4(x)) /\ IsBytes(Part8(x))
             /\ Width(Part2(x)) = 32 /\ Width(Part3(x)) = 32 /\ Width(Part4(x)) = 36 /\ Width(Part8(x)) = 32
  BY HashParts, OutpointWidth
<1>4. P(s) = P(t)
  BY <1>1
<1> HIDE DEF v, c, d, e, g, Part2, Part3, Part4, Part8, Part10
<1> DEFINE s2 == Part2(s)
           s3 == Part3(s)
           s4 == Part4(s)
           s8 == Part8(s)
           s10 == Part10(s)
           t2 == Part2(t)
           t3 == Part3(t)
           t4 == Part4(t)
           t8 == Part8(t)
           t10 == Part10(t)
<1>5. Then(Then(Then(Then(Then(Then(Then(Then(Then(v, s2), s3), s4), c), d), e), s8), g), s10)
        = Then(Then(Then(Then(Then(Then(Then(Then(Then(v, t2), t3), t4), c), d), e), t8), g), t10)
  BY <1>4
<1>6. /\ IsBytes(s2) /\ IsBytes(s3) /\ IsBytes(s4) /\ IsBytes(s8) /\ IsBytes(s10)
      /\ IsBytes(t2) /\ IsBytes(t3) /\ IsBytes(t4) /\ IsBytes(t8) /\ IsBytes(t10)
      /\ Width(s2) = Width(t2) /\ Width(s3) = Width(t3) /\ Width(s4) = Width(t4) /\ Width(s8) = Width(t8)
      /\ Width(s10) = Width(t10)
  BY <1>2, <1>3
<1> HIDE DEF s2, s3, s4, s8, s10, t2, t3, t4, t8, t10
<1>7. s2 = t2 /\ s4 = t4 /\ s8 = t8 /\ s10 = t10
  BY <1>2, <1>5, <1>6, SameTen
<1>8. Part2(s) = Part2(t) /\ Part4(s) = Part4(t) /\ Part8(s) = Part8(t) /\ Part10(s) = Part10(t)
  BY <1>7 DEF s2, s4, s8, s10, t2, t4, t8, t10
<1>9. s.type = t.type
  BY <1>8, PieceSays DEF Part10, TypeBytes
<1> QED BY <1>8, <1>9 DEF Part2, Part4, Part8

-----------------------------------------------------------------------------
(* Outputs and outpoints, known by their bytes *)

\* The bytes of an output by its kind.
LEMMA OutputPieces ==
    ASSUME NEW o, o.kind \in {"mint", "pay", "script"}
    PROVE  /\ IsBytes(OutputBytes(o))
           /\ o.kind = "mint" => Items(OutputBytes(o), MintPieces(o.to, o.amount)) /\ Width(OutputBytes(o)) = 64
           /\ o.kind = "pay" => Items(OutputBytes(o), PayPieces(o.to, o.amount)) /\ Width(OutputBytes(o)) = 34
           /\ o.kind = "script" => Items(OutputBytes(o), ScriptPieces(o.to, o.amount)) /\ Width(OutputBytes(o)) = 32
<1>1. CASE o.kind = "mint"
  <2>1. OutputBytes(o) = Serialize(0, buildMintOpReturnV2(TokenId(o.to), o.amount))
    BY <1>1 DEF OutputBytes, PlainOutputBytes
  <2> QED BY <1>1, <2>1, MintOutputBytes
<1>2. CASE o.kind = "pay"
  <2>1. OutputBytes(o) = Serialize(o.amount, P2PKH(o.to))
    BY <1>2 DEF OutputBytes, PlainOutputBytes
  <2> QED BY <1>2, <2>1, PayOutputBytes
<1>3. CASE o.kind = "script"
  <2>1. OutputBytes(o) = Serialize(o.amount, P2SH(o.to))
    BY <1>3 DEF OutputBytes, PlainOutputBytes
  <2> QED BY <1>3, <2>1, ScriptOutputBytes
<1> QED BY <1>1, <1>2, <1>3

\* The last piece of an output says what it is for.
LEMMA OutputEnd ==
    ASSUME NEW o, o.kind \in {"mint", "pay", "script"}, NEW b, b = OutputBytes(o)
    PROVE  /\ IsBytes(b) /\ Len(b) \in {6, 8, 13}
           /\ o.kind = "mint" => Len(b) = 13 /\ b[Len(b)].says = <<"BE", o.amount>> /\ Width(b) = 64
           /\ o.kind = "pay" => Len(b) = 8 /\ b[Len(b)].says = <<"byte", 172>> /\ Width(b) = 34
           /\ o.kind = "script" => Len(b) = 6 /\ b[Len(b)].says = <<"byte", 135>> /\ Width(b) = 32
<1>1. CASE o.kind = "mint"
  <2>1. Items(b, MintPieces(o.to, o.amount)) /\ IsBytes(b) /\ Width(b) = 64
    BY <1>1, OutputPieces
  <2>2. Len(b) = 13 /\ b[13] = PieceOf("BE", o.amount, 8)
    BY <2>1 DEF Items, MintPieces
  <2> QED BY <1>1, <2>1, <2>2 DEF PieceOf
<1>2. CASE o.kind = "pay"
  <2>1. Items(b, PayPieces(o.to, o.amount)) /\ IsBytes(b) /\ Width(b) = 34
    BY <1>2, OutputPieces
  <2>2. Len(b) = 8 /\ b[8] = ByteOf(172)
    BY <2>1 DEF Items, PayPieces
  <2> QED BY <1>2, <2>1, <2>2 DEF PieceOf, ByteOf
<1>3. CASE o.kind = "script"
  <2>1. Items(b, ScriptPieces(o.to, o.amount)) /\ IsBytes(b) /\ Width(b) = 32
    BY <1>3, OutputPieces
  <2>2. Len(b) = 6 /\ b[6] = ByteOf(135)
    BY <2>1 DEF Items, ScriptPieces
  <2> QED BY <1>3, <2>1, <2>2 DEF PieceOf, ByteOf
<1> QED BY <1>1, <1>2, <1>3

\* The last of some strings joined ends what they are joined to.
LEMMA JoinedEnd ==
    ASSUME NEW a, NEW b, IsBytes(a), IsBytes(b), Len(b) \in Nat \ {0}
    PROVE  /\ Len(Then(a, b)) \in Nat \ {0} /\ Len(Then(a, b)) >= Len(b)
           /\ Then(a, b)[Len(Then(a, b))] = b[Len(b)]
<1>1. Len(a) \in Nat /\ Len(a \o b) = Len(a) + Len(b) /\ \A i \in 1..Len(b) : (a \o b)[Len(a) + i] = b[i]
  BY Joined
<1>2. Len(b) \in 1..Len(b)
  OBVIOUS
<1> DEFINE t == Then(a, b)
<1>3. Len(t) = Len(a) + Len(b) /\ \A i \in 1..Len(b) : t[Len(a) + i] = b[i]
  BY <1>1 DEF Then
<1> HIDE DEF t
<1>4. t[Len(t)] = b[Len(b)]
  BY <1>2, <1>3
<1>5. Len(t) \in Nat \ {0} /\ Len(t) >= Len(b)
  BY <1>1, <1>3
<1> QED BY <1>4, <1>5 DEF t

\* Every output is written as something, whose last piece is as above.
LEMMA OutputOf ==
    \A o : IsOutput(o) =>
        /\ IsBytes(OutputBytes(o)) /\ Len(OutputBytes(o)) \in Nat \ {0}
        /\ o.kind = "mint" =>
              OutputBytes(o)[Len(OutputBytes(o))].says = <<"BE", o.amount>> /\ Width(OutputBytes(o)) = 64
        /\ o.kind = "pay" =>
              OutputBytes(o)[Len(OutputBytes(o))].says = <<"byte", 172>> /\ Width(OutputBytes(o)) = 34
        /\ o.kind = "script" =>
              OutputBytes(o)[Len(OutputBytes(o))].says = <<"byte", 135>> /\ Width(OutputBytes(o)) = 32
<1>1. ASSUME NEW o, IsOutput(o), NEW b, b = OutputBytes(o)
      PROVE  /\ IsBytes(b) /\ Len(b) \in Nat \ {0}
             /\ o.kind = "mint" => b[Len(b)].says = <<"BE", o.amount>> /\ Width(b) = 64
             /\ o.kind = "pay" => b[Len(b)].says = <<"byte", 172>> /\ Width(b) = 34
             /\ o.kind = "script" => b[Len(b)].says = <<"byte", 135>> /\ Width(b) = 32
  <2>1. o.kind \in {"mint", "pay", "script"}
    BY <1>1 DEF IsOutput
  <2>2. /\ IsBytes(b) /\ Len(b) \in {6, 8, 13}
        /\ o.kind = "mint" => Len(b) = 13 /\ b[Len(b)].says = <<"BE", o.amount>> /\ Width(b) = 64
        /\ o.kind = "pay" => Len(b) = 8 /\ b[Len(b)].says = <<"byte", 172>> /\ Width(b) = 34
        /\ o.kind = "script" => Len(b) = 6 /\ b[Len(b)].says = <<"byte", 135>> /\ Width(b) = 32
    BY <1>1, <2>1, OutputEnd
  <2> QED BY <2>2
<1> QED BY <1>1

\* An authorized mint is written as its outputs are.
LEMMA EncodedOutputs ==
    ASSUME NEW outs, NEW quantity, NEW recipient, outs = <<Mint(quantity), Pay(recipient, SLP_DUST_SATS)>>
    PROVE  Concat([i \in DOMAIN outs |-> OutputBytes(outs[i])])
               = buildMintV2TxOutputs(TokenId(Token), quantity, recipient)
<1> DEFINE seqs == [i \in DOMAIN outs |-> OutputBytes(outs[i])]
           j == Joins(seqs)
           mb == Serialize(0, buildMintOpReturnV2(TokenId(Token), quantity))
           pb == Serialize(SLP_DUST_SATS, P2PKH(recipient))
<1>1. OutputBytes(Mint(quantity)) = mb /\ OutputBytes(Pay(recipient, SLP_DUST_SATS)) = pb
  BY DEF OutputBytes, PlainOutputBytes, Mint, Pay
<1> DEFINE x == Mint(quantity)
           y == Pay(recipient, SLP_DUST_SATS)
<1> HIDE DEF mb, pb, x, y
<1>2. Len(seqs) = 2 /\ seqs[1] = mb /\ seqs[2] = pb
  <2>1. outs = <<x, y>> /\ OutputBytes(x) = mb /\ OutputBytes(y) = pb
    BY <1>1 DEF x, y
  <2>2. DOMAIN outs = 1..2 /\ outs[1] = x /\ outs[2] = y
    BY <2>1
  <2> QED BY <2>1, <2>2
<1>3. IsBytes(mb) /\ IsBytes(pb)
  BY MintOutputBytes, PayOutputBytes DEF mb, pb
<1>4. j[0] = << >> /\ j[1] = Then(j[0], seqs[1]) /\ j[2] = Then(j[1], seqs[2])
  <2> HIDE DEF seqs
  <2>1. Len(seqs) \in Nat /\ \A i \in 1..Len(seqs) : IsBytes(seqs[i])
    <3>1. \A i \in 1..2 : i = 1 \/ i = 2
      OBVIOUS
    <3> QED BY <1>2, <1>3, <3>1
  <2>2. j[0] = << >> /\ \A k \in 1..Len(seqs) : j[k] = Then(j[k - 1], seqs[k])
    BY <2>1, JoinsUnfold DEF Then
  <2> QED BY <1>2, <2>2
<1>5. j[1] = mb
  <2>1. PICK says : mb \in Bytes(says)
    BY <1>3 DEF IsBytes
  <2>2. << >> \o mb = mb
    BY <2>1, ConcatEmptySeq DEF Bytes
  <2>3. j[1] = Then(<< >>, mb)
    BY <1>2, <1>4
  <2> QED BY <2>2, <2>3 DEF Then
<1>6. Concat(seqs) = Then(mb, pb)
  BY <1>2, <1>4, <1>5 DEF Concat
<1> QED BY <1>6 DEF buildMintV2TxOutputs, Then, mb, pb

\* So many strings of each, not empty, that are told apart where others end with them: what ends
\* with one of each ends with strings of the same width.
AreTold(s, n, t, m) ==
    /\ Len(s) = n /\ \A i \in 1..n : IsBytes(s[i]) /\ Width(s[i]) # 0
    /\ Len(t) = m /\ \A i \in 1..m : IsBytes(t[i]) /\ Width(t[i]) # 0
    /\ \A i \in 1..n, k \in 1..m : \A a, c :
          IsBytes(a) /\ IsBytes(c) /\ Then(a, s[i]) = Then(c, t[k]) => Width(s[i]) = Width(t[k])

\* Such strings are told from what they are joined to.
LEMMA ToldJoined ==
    ASSUME NEW s, NEW t, NEW n \in Nat, NEW m \in Nat, AreTold(s, n, t, m), Concat(s) = Concat(t)
    PROVE  n = m /\ \A i \in 1..n : s[i] = t[i]
<1> DEFINE j == Joins(s)
           k == Joins(t)
<1>0. /\ Len(s) = n /\ \A i \in 1..n : IsBytes(s[i]) /\ Width(s[i]) # 0
      /\ Len(t) = m /\ \A i \in 1..m : IsBytes(t[i]) /\ Width(t[i]) # 0
  BY DEF AreTold
<1>1. /\ j[0] = << >> /\ \A i \in 1..n : j[i] = Then(j[i - 1], s[i])
      /\ \A i \in 0..n : IsBytes(j[i])
  BY <1>0, JoinsUnfold DEF Then
<1>2. /\ k[0] = << >> /\ \A i \in 1..m : k[i] = Then(k[i - 1], t[i])
      /\ \A i \in 0..m : IsBytes(k[i])
  BY <1>0, JoinsUnfold DEF Then
<1>3. j[n] = k[m]
  BY <1>0 DEF Concat
<1> HIDE DEF j, k
<1>4. \A i \in 1..n : j[i] # << >>
  <2>1. ASSUME NEW i \in 1..n PROVE Width(j[i]) # 0
    <3> DEFINE a == j[i - 1]
               b == s[i]
    <3>1. i - 1 \in 0..n /\ IsBytes(a) /\ IsBytes(b) /\ Width(b) # 0 /\ j[i] = Then(a, b)
      BY <1>0, <1>1
    <3> HIDE DEF a, b
    <3>2. Width(j[i]) = Width(a) + Width(b) /\ Width(a) \in Nat /\ Width(b) \in Nat
      BY <3>1, ThenWidth
    <3> QED BY <3>1, <3>2
  <2> QED BY <2>1, WidthOfNone
<1>5. \A i \in 1..m : k[i] # << >>
  <2>1. ASSUME NEW i \in 1..m PROVE Width(k[i]) # 0
    <3> DEFINE a == k[i - 1]
               b == t[i]
    <3>1. i - 1 \in 0..m /\ IsBytes(a) /\ IsBytes(b) /\ Width(b) # 0 /\ k[i] = Then(a, b)
      BY <1>0, <1>2
    <3> HIDE DEF a, b
    <3>2. Width(k[i]) = Width(a) + Width(b) /\ Width(a) \in Nat /\ Width(b) \in Nat
      BY <3>1, ThenWidth
    <3> QED BY <3>1, <3>2
  <2> QED BY <2>1, WidthOfNone
<1> DEFINE G == {d \in Nat : d <= n /\ d <= m => j[n - d] = k[m - d]}
<1>6. 0 \in G
  BY <1>3
<1>7. \A d \in Nat : d + 1 <= n /\ d + 1 <= m /\ j[n - d] = k[m - d] =>
          j[n - (d + 1)] = k[m - (d + 1)] /\ s[n - d] = t[m - d]
  <2>1. ASSUME NEW d \in Nat, d + 1 <= n, d + 1 <= m, j[n - d] = k[m - d]
        PROVE  j[n - (d + 1)] = k[m - (d + 1)] /\ s[n - d] = t[m - d]
    <3> DEFINE x == n - d
               y == m - d
               a == j[x - 1]
               b == s[x]
               c == k[y - 1]
               e == t[y]
    <3>1. x \in 1..n /\ x - 1 \in 0..n /\ x - 1 = n - (d + 1) /\ y \in 1..m /\ y - 1 \in 0..m /\ y - 1 = m - (d + 1)
      BY <2>1
    <3> HIDE DEF x, y
    <3>2. /\ IsBytes(a) /\ IsBytes(b) /\ IsBytes(c) /\ IsBytes(e)
          /\ j[x] = Then(a, b) /\ k[y] = Then(c, e) /\ j[x] = k[y]
      BY <1>0, <1>1, <1>2, <2>1, <3>1 DEF x, y
    <3>3. Then(a, b) = Then(c, e) => Width(b) = Width(e)
      <4>1. \A z, v : IsBytes(z) /\ IsBytes(v) /\ Then(z, s[x]) = Then(v, t[y]) => Width(s[x]) = Width(t[y])
        BY <3>1 DEF AreTold
      <4>2. IsBytes(a) /\ IsBytes(c) => (Then(a, s[x]) = Then(c, t[y]) => Width(s[x]) = Width(t[y]))
        BY <4>1, Zenon
      <4> QED BY <3>2, <4>2
    <3> HIDE DEF a, b, c, e
    <3>4. a = c /\ b = e
      <4>1. Then(a, b) = Then(c, e) /\ Width(b) = Width(e)
        BY <3>2, <3>3
      <4>2. IsBytes(a) /\ IsBytes(b) /\ IsBytes(c) /\ IsBytes(e)
        BY <3>2
      <4> QED BY <4>1, <4>2, ThenSame
    <3> QED BY <3>1, <3>4 DEF a, b, c, e, x, y
  <2> QED BY <2>1
<1>8. \A d \in Nat : d \in G => d + 1 \in G
  <2>1. ASSUME NEW d \in Nat, d \in G, d + 1 <= n, d + 1 <= m PROVE j[n - (d + 1)] = k[m - (d + 1)]
    BY <1>7, <2>1
  <2> QED BY <2>1
<1>9. \A d \in Nat : d \in G
  <2> HIDE DEF G
  <2> QED BY <1>6, <1>8, NatSetInduction
<1>10. n = m
  <2>1. n < m => FALSE
    <3>1. SUFFICES ASSUME n < m PROVE FALSE
      OBVIOUS
    <3>2. j[n - n] = k[m - n] /\ m - n \in 1..m /\ n - n = 0
      BY <1>9, <3>1
    <3> QED BY <1>1, <1>5, <3>2
  <2>2. m < n => FALSE
    <3>1. SUFFICES ASSUME m < n PROVE FALSE
      OBVIOUS
    <3>2. j[n - m] = k[m - m] /\ n - m \in 1..n /\ m - m = 0
      BY <1>9, <3>1
    <3> QED BY <1>2, <1>4, <3>2
  <2> QED BY <2>1, <2>2
<1>11. ASSUME NEW i \in 1..n PROVE s[i] = t[i]
  <2> DEFINE d == n - i
  <2>1. d \in Nat /\ d + 1 <= n /\ d + 1 <= m /\ n - d = i /\ m - d = i /\ d <= n /\ d <= m
    BY <1>10
  <2> HIDE DEF d
  <2>2. j[n - d] = k[m - d]
    BY <1>9, <2>1
  <2> QED BY <1>7, <2>1, <2>2
<1> QED BY <1>10, <1>11

\* Where something ends with an output, it says which kind of output.
LEMMA KindTold ==
    ASSUME NEW o, NEW p, IsOutput(o), IsOutput(p), NEW a, NEW c, IsBytes(a), IsBytes(c),
           Then(a, OutputBytes(o)) = Then(c, OutputBytes(p))
    PROVE  o.kind = p.kind /\ Width(OutputBytes(o)) = Width(OutputBytes(p))
<1> DEFINE b == OutputBytes(o)
           d == OutputBytes(p)
<1>1. /\ IsBytes(b) /\ Len(b) \in Nat \ {0} /\ IsBytes(d) /\ Len(d) \in Nat \ {0}
      /\ o.kind = "mint" => b[Len(b)].says = <<"BE", o.amount>> /\ Width(b) = 64
      /\ o.kind = "pay" => b[Len(b)].says = <<"byte", 172>> /\ Width(b) = 34
      /\ o.kind = "script" => b[Len(b)].says = <<"byte", 135>> /\ Width(b) = 32
      /\ p.kind = "mint" => d[Len(d)].says = <<"BE", p.amount>> /\ Width(d) = 64
      /\ p.kind = "pay" => d[Len(d)].says = <<"byte", 172>> /\ Width(d) = 34
      /\ p.kind = "script" => d[Len(d)].says = <<"byte", 135>> /\ Width(d) = 32
  BY OutputOf
<1>2. o.kind \in {"mint", "pay", "script"} /\ p.kind \in {"mint", "pay", "script"}
  BY DEF IsOutput
<1>3. Then(a, b) = Then(c, d)
  OBVIOUS
<1> HIDE DEF b, d
<1>4. b[Len(b)] = d[Len(d)]
  <2> DEFINE x == Then(a, b)
             y == Then(c, d)
  <2>1. x[Len(x)] = b[Len(b)] /\ y[Len(y)] = d[Len(d)]
    BY <1>1, JoinedEnd
  <2>2. x = y
    BY <1>3
  <2> HIDE DEF x, y
  <2> QED BY <2>1, <2>2
<1> DEFINE e == b[Len(b)].says
<1>5. /\ o.kind = "mint" => e = <<"BE", o.amount>> /\ Width(b) = 64
      /\ o.kind = "pay" => e = <<"byte", 172>> /\ Width(b) = 34
      /\ o.kind = "script" => e = <<"byte", 135>> /\ Width(b) = 32
      /\ p.kind = "mint" => e = <<"BE", p.amount>> /\ Width(d) = 64
      /\ p.kind = "pay" => e = <<"byte", 172>> /\ Width(d) = 34
      /\ p.kind = "script" => e = <<"byte", 135>> /\ Width(d) = 32
  BY <1>1, <1>4
<1> HIDE DEF e
<1>6. (e[1] = "BE" <=> o.kind = "mint") /\ (e[1] = "BE" <=> p.kind = "mint")
  BY <1>2, <1>5
<1>7. o.kind # "mint" /\ p.kind # "mint" => (e[2] = 172 <=> o.kind = "pay") /\ (e[2] = 172 <=> p.kind = "pay")
  BY <1>2, <1>5
<1>8. o.kind = p.kind
  BY <1>2, <1>6, <1>7
<1>9. Width(b) = Width(d)
  BY <1>2, <1>5, <1>8
<1> QED BY <1>8, <1>9 DEF b, d

\* Outputs that are written alike are the same.
LEMMA OutputSays ==
    ASSUME NEW o, NEW p, IsOutput(o), IsOutput(p), OutputBytes(o) = OutputBytes(p)
    PROVE  o = p
<1> DEFINE b == OutputBytes(o)
<1>1. o.kind \in {"mint", "pay", "script"} /\ p.kind \in {"mint", "pay", "script"}
  BY DEF IsOutput
<1>2. o.kind = p.kind
  BY KindTold, NoBytes
<1>3. /\ o.kind = "mint" => Items(b, MintPieces(o.to, o.amount)) /\ Items(b, MintPieces(p.to, p.amount))
      /\ o.kind = "pay" => Items(b, PayPieces(o.to, o.amount)) /\ Items(b, PayPieces(p.to, p.amount))
      /\ o.kind = "script" => Items(b, ScriptPieces(o.to, o.amount)) /\ Items(b, ScriptPieces(p.to, p.amount))
  BY <1>1, <1>2, OutputPieces
<1> HIDE DEF b
<1>4. ASSUME o.kind = "mint" PROVE o.to = p.to /\ o.amount = p.amount
  <2>1. /\ b[11] = PieceOf("tokenId", o.to, 32) /\ b[13] = PieceOf("BE", o.amount, 8)
    BY <1>3, <1>4 DEF Items, MintPieces
  <2>2. /\ b[11] = PieceOf("tokenId", p.to, 32) /\ b[13] = PieceOf("BE", p.amount, 8)
    BY <1>3, <1>4 DEF Items, MintPieces
  <2>3. /\ b[11].says = <<"tokenId", o.to>> /\ b[13].says = <<"BE", o.amount>>
        /\ b[11].says = <<"tokenId", p.to>> /\ b[13].says = <<"BE", p.amount>>
    BY <2>1, <2>2 DEF PieceOf
  <2> QED BY <2>3
<1>5. ASSUME o.kind = "pay" PROVE o.to = p.to /\ o.amount = p.amount
  <2>1. /\ b[1] = PieceOf("LE", o.amount, 8) /\ b[6] = PieceOf("hash160", o.to, 20)
    BY <1>3, <1>5 DEF Items, PayPieces
  <2>2. /\ b[1] = PieceOf("LE", p.amount, 8) /\ b[6] = PieceOf("hash160", p.to, 20)
    BY <1>3, <1>5 DEF Items, PayPieces
  <2>3. /\ b[6].says = <<"hash160", o.to>> /\ b[1].says = <<"LE", o.amount>>
        /\ b[6].says = <<"hash160", p.to>> /\ b[1].says = <<"LE", p.amount>>
    BY <2>1, <2>2 DEF PieceOf
  <2> QED BY <2>3
<1>6. ASSUME o.kind = "script" PROVE o.to = p.to /\ o.amount = p.amount
  <2>1. /\ b[1] = PieceOf("LE", o.amount, 8) /\ b[5] = PieceOf("hash160", o.to, 20)
    BY <1>3, <1>6 DEF Items, ScriptPieces
  <2>2. /\ b[1] = PieceOf("LE", p.amount, 8) /\ b[5] = PieceOf("hash160", p.to, 20)
    BY <1>3, <1>6 DEF Items, ScriptPieces
  <2>3. /\ b[5].says = <<"hash160", o.to>> /\ b[1].says = <<"LE", o.amount>>
        /\ b[5].says = <<"hash160", p.to>> /\ b[1].says = <<"LE", p.amount>>
    BY <2>1, <2>2 DEF PieceOf
  <2> QED BY <2>3
<1> QED BY <1>1, <1>2, <1>4, <1>5, <1>6 DEF IsOutput

\* Transactions that pay the same outputs, by their bytes.
LEMMA DecodedSequence ==
    ASSUME NEW outs, NEW others, AreOutputs(outs), AreOutputs(others),
           Concat([i \in DOMAIN outs |-> OutputBytes(outs[i])])
               = Concat([i \in DOMAIN others |-> OutputBytes(others[i])])
    PROVE  outs = others
<1> DEFINE s == [i \in DOMAIN outs |-> OutputBytes(outs[i])]
           t == [i \in DOMAIN others |-> OutputBytes(others[i])]
           n == Len(outs)
           m == Len(others)
<1>1. /\ n \in Nat /\ DOMAIN outs = 1..n /\ m \in Nat /\ DOMAIN others = 1..m
      /\ \A i \in 1..n : IsOutput(outs[i])
      /\ \A i \in 1..m : IsOutput(others[i])
  BY DEF AreOutputs
<1>2. /\ Len(s) = n /\ \A i \in 1..n : s[i] = OutputBytes(outs[i])
      /\ Len(t) = m /\ \A i \in 1..m : t[i] = OutputBytes(others[i])
  BY <1>1
<1>3. Concat(s) = Concat(t)
  OBVIOUS
<1> HIDE DEF s, t, n, m
<1>4. \A o : IsOutput(o) => IsBytes(OutputBytes(o)) /\ Width(OutputBytes(o)) # 0
  BY OutputOf DEF IsOutput
<1>5. AreTold(s, n, t, m)
  <2>1. ASSUME NEW i \in 1..n, NEW k \in 1..m, NEW a, NEW c, IsBytes(a), IsBytes(c), Then(a, s[i]) = Then(c, t[k])
        PROVE  Width(s[i]) = Width(t[k])
    <3> DEFINE o == outs[i]
               p == others[k]
    <3>1. IsOutput(o) /\ IsOutput(p) /\ s[i] = OutputBytes(o) /\ t[k] = OutputBytes(p)
      BY <1>1, <1>2
    <3> HIDE DEF o, p
    <3>2. Then(a, OutputBytes(o)) = Then(c, OutputBytes(p))
      BY <2>1, <3>1
    <3>3. Width(OutputBytes(o)) = Width(OutputBytes(p))
      BY <2>1, <3>1, <3>2, KindTold
    <3> QED BY <3>1, <3>3
  <2>2. \A i \in 1..n, k \in 1..m : \A a, c :
           IsBytes(a) /\ IsBytes(c) /\ Then(a, s[i]) = Then(c, t[k]) => Width(s[i]) = Width(t[k])
    BY <2>1
  <2>3. /\ \A i \in 1..n : IsBytes(s[i]) /\ Width(s[i]) # 0
        /\ \A i \in 1..m : IsBytes(t[i]) /\ Width(t[i]) # 0
    BY <1>1, <1>2, <1>4
  <2> QED BY <1>2, <2>2, <2>3 DEF AreTold
<1>6. n = m /\ \A i \in 1..n : s[i] = t[i]
  BY <1>1, <1>3, <1>5, ToldJoined
<1>7. \A i \in 1..n : outs[i] = others[i]
  BY <1>1, <1>2, <1>6, OutputSays
<1>8. Len(outs) = Len(others) /\ \A i \in 1..Len(outs) : outs[i] = others[i]
  BY <1>6, <1>7 DEF n, m
<1> QED
  <2> DEFINE U == {outs[i] : i \in DOMAIN outs}
             V == {others[i] : i \in DOMAIN others}
  <2>1. outs \in Seq(U) /\ others \in Seq(V)
    BY DEF AreOutputs
  <2> HIDE DEF U, V
  <2>2. outs \in Seq(U \cup V) /\ others \in Seq(U \cup V)
    BY <2>1, SeqMonotonic
  <2> QED BY <1>8, <2>2, SeqEqual

\* The outputs of an authorized mint are outputs.
LEMMA MintedAreOutputs ==
    ASSUME NEW quantity, NEW recipient
    PROVE  AreOutputs(<<Mint(quantity), Pay(recipient, SLP_DUST_SATS)>>)
<1> DEFINE x == Mint(quantity)
           y == Pay(recipient, SLP_DUST_SATS)
           outs == <<x, y>>
<1>1. IsOutput(x) /\ IsOutput(y)
  BY DEF IsOutput, Mint, Pay
<1> HIDE DEF x, y
<1>2. Len(outs) = 2 /\ DOMAIN outs = {1, 2} /\ outs[1] = x /\ outs[2] = y
  OBVIOUS
<1>3. {outs[i] : i \in DOMAIN outs} = {x, y}
  BY <1>2
<1>4. outs \in Seq({x, y})
  OBVIOUS
<1>5. \A i \in 1..2 : i = 1 \/ i = 2
  OBVIOUS
<1> HIDE DEF outs
<1>6. AreOutputs(outs)
  BY <1>1, <1>2, <1>3, <1>4, <1>5 DEF AreOutputs
<1> QED BY <1>6 DEF outs, x, y

\* Outputs written as an authorized mint are one.
LEMMA DecodedOutputs ==
    ASSUME NEW outs, AreOutputs(outs), NEW quantity, NEW recipient,
           Concat([i \in DOMAIN outs |-> OutputBytes(outs[i])])
               = buildMintV2TxOutputs(TokenId(Token), quantity, recipient)
    PROVE  outs = <<Mint(quantity), Pay(recipient, SLP_DUST_SATS)>>
<1> DEFINE others == <<Mint(quantity), Pay(recipient, SLP_DUST_SATS)>>
<1>1. Concat([i \in DOMAIN others |-> OutputBytes(others[i])])
        = buildMintV2TxOutputs(TokenId(Token), quantity, recipient)
  BY EncodedOutputs
<1>2. AreOutputs(others)
  BY MintedAreOutputs
<1> HIDE DEF others
<1>3. outs = others
  BY <1>1, <1>2, DecodedSequence
<1> QED BY <1>3 DEF others

\* Transactions that spend the same outpoints, by their hash.
LEMMA DecodedInputs ==
    ASSUME NEW ins, NEW others, Len(ins) \in Nat, Len(others) \in Nat, DOMAIN ins = 1..Len(ins),
           DOMAIN others = 1..Len(others),
           Concat([i \in DOMAIN ins |-> OutpointBytes(ins[i])])
               = Concat([i \in DOMAIN others |-> OutpointBytes(others[i])])
    PROVE  /\ Len(ins) = Len(others)
           /\ \A i \in 1..Len(ins) : ins[i].txid = others[i].txid /\ ins[i].index = others[i].index
<1> DEFINE s == [i \in DOMAIN ins |-> OutpointBytes(ins[i])]
           t == [i \in DOMAIN others |-> OutpointBytes(others[i])]
           n == Len(ins)
           m == Len(others)
<1>1. /\ Len(s) = n /\ \A i \in 1..n : s[i] = OutpointBytes(ins[i])
      /\ Len(t) = m /\ \A i \in 1..m : t[i] = OutpointBytes(others[i])
  OBVIOUS
<1>2. Concat(s) = Concat(t) /\ n \in Nat /\ m \in Nat
  OBVIOUS
<1> HIDE DEF s, t, n, m
<1>3. /\ \A i \in 1..n : IsBytes(s[i]) /\ Width(s[i]) = 36
      /\ \A i \in 1..m : IsBytes(t[i]) /\ Width(t[i]) = 36
  BY <1>1, OutpointWidth
<1>4. n = m /\ \A i \in 1..n : s[i] = t[i]
  <2>1. AreTold(s, n, t, m)
    BY <1>1, <1>3 DEF AreTold
  <2> QED BY <1>2, <2>1, ToldJoined
<1>5. \A i \in 1..n : OutpointBytes(ins[i]) = OutpointBytes(others[i])
  BY <1>1, <1>4
<1> QED BY <1>4, <1>5, OutpointSays DEF n, m

-----------------------------------------------------------------------------
(* The message of an authorization *)

\* The outputs that deposit d's message lists, for a quantity.
ListedOutputs(d, quantity) == buildMintV2TxOutputs(TokenId(Token), quantity, Recipient[d])

\* The pieces of an authorization's message.
LEMMA MessageParts ==
    ASSUME NEW d, NEW quantity
    PROVE  /\ IsBytes(Piece("depositId", d, 32)) /\ Width(Piece("depositId", d, 32)) = 32
           /\ IsBytes(Piece("chainId", 0, 32)) /\ Width(Piece("chainId", 0, 32)) = 32
           /\ IsBytes(txidToInternal(Vault[d].txid)) /\ Width(txidToInternal(Vault[d].txid)) = 32
           /\ IsBytes(LE(Vault[d].index, 4)) /\ Width(LE(Vault[d].index, 4)) = 4
           /\ IsBytes(ListedOutputs(d, quantity))
<1>1. IsBytes(ListedOutputs(d, quantity))
  BY ServiceOutputs DEF ListedOutputs
<1> QED BY <1>1, BytesOfPieces DEF LE, Txid, txidToInternal

\* What the script reads of a message is what was signed for.
LEMMA AuthorizationRead ==
    ASSUME NEW d
    PROVE  LET M == buildAuthorization(d)
           IN  /\ MessageSplits(M)
               /\ MessageOutpoint(M) = OutpointBytes(Vault[d])
               /\ MessageOutputs(M) = ListedOutputs(d, SignedAmount(net[d]))
<1> DEFINE D == Piece("depositId", d, 32)
           C == Piece("chainId", 0, 32)
           T == txidToInternal(Vault[d].txid)
           I == LE(Vault[d].index, 4)
           B == ListedOutputs(d, SignedAmount(net[d]))
           M == buildAuthorization(d)
<1>1. M = Then(Then(Then(Then(D, C), T), I), B)
  BY DEF buildAuthorization, buildAuthorizationMessage, Then, ListedOutputs
<1>2. /\ IsBytes(D) /\ IsBytes(C) /\ IsBytes(T) /\ IsBytes(I) /\ IsBytes(B)
      /\ Width(D) = 32 /\ Width(C) = 32 /\ Width(T) = 32 /\ Width(I) = 4
  BY MessageParts
<1>3. T \o I = OutpointBytes(Vault[d])
  BY DEF OutpointBytes, txidToInternal
<1> HIDE DEF D, C, T, I, B, M
<1>4. MessageSplits(M) /\ MessageOutpoint(M) = T \o I /\ MessageOutputs(M) = B
  BY <1>1, <1>2, MessageRead
<1> QED BY <1>3, <1>4 DEF M, B

\* A digest the contract accepts is of the quantity the contract mints.
LEMMA DigestSays ==
    ASSUME NEW d,
           HASH256(buildAuthorization(d)) = _authorizationDigest(d, txidToInternal(Vault[d].txid), Vault[d].index)
    PROVE  ListedOutputs(d, SignedAmount(net[d])) = ListedOutputs(d, xecAmount(net[d]))
<1> DEFINE D == Piece("depositId", d, 32)
           C == Piece("chainId", 0, 32)
           T == txidToInternal(Vault[d].txid)
           I == LE(Vault[d].index, 4)
           H == Then(Then(Then(D, C), T), I)
           B == ListedOutputs(d, SignedAmount(net[d]))
           G == ListedOutputs(d, xecAmount(net[d]))
<1>1. HASH256(Then(H, B)) = HASH256(buildAuthorization(d))
  BY DEF buildAuthorization, buildAuthorizationMessage, Then, ListedOutputs
<1>2. G = _buildMintTxOutputs(xecAmount(net[d]), Recipient[d])
  BY OutputsAgree DEF ListedOutputs
<1>3. HASH256(Then(H, G)) = _authorizationDigest(d, txidToInternal(Vault[d].txid), Vault[d].index)
  <2> HIDE DEF G
  <2> QED BY <1>2 DEF _authorizationDigest, Then
<1>4. /\ IsBytes(D) /\ IsBytes(C) /\ IsBytes(T) /\ IsBytes(I) /\ IsBytes(B) /\ IsBytes(G)
  BY MessageParts
<1> HIDE DEF D, C, T, I, B, G
<1>5. IsBytes(H)
  BY <1>4, ThenBytes
<1> HIDE DEF H
<1>6. Then(H, B) = Then(H, G)
  <2> DEFINE x == Then(H, B)
             y == Then(H, G)
  <2>1. HASH256(x) = HASH256(y)
    BY <1>1, <1>3
  <2> HIDE DEF x, y
  <2>2. x = y
    BY <2>1, HashSays
  <2> QED BY <2>2 DEF x, y
<1>7. B = G
  BY <1>4, <1>5, <1>6, ThenSame
<1> QED BY <1>7 DEF B, G

\* And the other way: the same quantity has the same digest.
LEMMA DigestsAgree ==
    ASSUME NEW d, SignedAmount(net[d]) = xecAmount(net[d])
    PROVE  HASH256(buildAuthorization(d)) = _authorizationDigest(d, txidToInternal(Vault[d].txid), Vault[d].index)
<1> DEFINE q == xecAmount(net[d])
<1>1. _buildMintTxOutputs(q, Recipient[d]) = buildMintV2TxOutputs(TokenId(Token), q, Recipient[d])
  BY OutputsAgree
<1> HIDE DEF q
<1>2. buildAuthorization(d)
        = buildAuthorizationMessage(d, txidToInternal(Vault[d].txid), Vault[d].index, q)
  BY DEF buildAuthorization, q
<1>3. _authorizationDigest(d, txidToInternal(Vault[d].txid), Vault[d].index)
        = HASH256(Piece("depositId", d, 32) \o Piece("chainId", 0, 32) \o txidToInternal(Vault[d].txid)
                    \o LE(Vault[d].index, 4) \o _buildMintTxOutputs(q, Recipient[d]))
  BY DEF _authorizationDigest, q
<1> QED BY <1>1, <1>2, <1>3, Zenon DEF buildAuthorizationMessage

\* The signature that is presented, less its hash type.
LEMMA SignatureRead ==
    ASSUME NEW key, NEW digest, NEW type
    PROVE  LET S == Signature(key, digest) \o TypeBytes(type, 1)
           IN  Width(S) = 72 /\ Signed(S) = Signature(key, digest)
<1> DEFINE a == Signature(key, digest)
           b == TypeBytes(type, 1)
           S == a \o b
<1>1. IsBytes(a) /\ IsBytes(b) /\ Width(a) = 71 /\ Width(b) = 1
  BY BytesOfPieces DEF Signature, TypeBytes
<1>2. S = Then(a, b)
  BY DEF Then
<1> HIDE DEF a, b, S
<1>3. Width(S) = 72
  BY <1>1, <1>2, ThenWidth
<1>4. 71 = Width(a) /\ Width(S) - 1 = 71
  BY <1>1, <1>3
<1>5. First(S, 71) = a
  BY <1>1, <1>2, <1>4, ThenCut
<1> QED BY <1>3, <1>4, <1>5 DEF Signed, S, a, b

\* Whose signature verifies, of what.
LEMMA VerifiedBy ==
    ASSUME NEW key, NEW digest, NEW other, NEW pubkey
    PROVE  Verifies(other, Signature(key, digest), PubKey(pubkey)) <=> key \in Keys /\ key = pubkey /\ digest = other
<1>1. ASSUME Verifies(other, Signature(key, digest), PubKey(pubkey))
      PROVE  key \in Keys /\ key = pubkey /\ digest = other
  <2>1. PICK k \in Keys : Signature(key, digest) = Signature(k, other) /\ PubKey(pubkey) = PubKey(k)
    BY <1>1 DEF Verifies
  <2> QED BY <2>1, HashSays
<1>2. ASSUME key \in Keys /\ key = pubkey /\ digest = other
      PROVE  Verifies(other, Signature(key, digest), PubKey(pubkey))
  BY <1>2 DEF Verifies
<1> QED BY <1>1, <1>2

-----------------------------------------------------------------------------
(* What the covenant accepts *)

\* What a spend presents beside its public key, its preimage and its message.
MinterSignature(s) == Signature(s.key, HASH256(Preimage(s.over))) \o TypeBytes(s.real.type, 1)
AuthorizerSignature(s) == Signature(s.auth.by, HASH256(signed[s.auth.dep]))

\* The covenant accepts spend s.
Passes(s) ==
    V2Passes(MinterSignature(s), PubKey(s.pubkey), Preimage(s.shown), AuthorizerSignature(s),
             signed[s.auth.dep], Preimage(s.real))

\* That comes down to the keys, to what was signed over, shown and broadcast, and to the
\* outpoint and outputs of the message.
LEMMA PassesSays ==
    ASSUME NEW s \in Spends, signed[s.auth.dep] = buildAuthorization(s.auth.dep)
    PROVE  Passes(s) <=>
              /\ s.auth.by = AuthKey /\ s.key = s.pubkey
              /\ Preimage(s.over) = Preimage(s.shown) /\ Preimage(s.over) = Preimage(s.real)
              /\ OutpointBytes(Vault[s.auth.dep]) = OutpointBytes(s.shown.tx.ins[s.shown.index])
              /\ HASH256(ListedOutputs(s.auth.dep, SignedAmount(net[s.auth.dep])))
                   = HashOutputs(s.shown.tx, s.shown.index, s.shown.type)
<1> DEFINE S == MinterSignature(s)
           P == PubKey(s.pubkey)
           X == Preimage(s.shown)
           A == AuthorizerSignature(s)
           M == signed[s.auth.dep]
           R == Preimage(s.real)
           O == Preimage(s.over)
           b == OutpointBytes(s.shown.tx.ins[s.shown.index])
           f == HashOutputs(s.shown.tx, s.shown.index, s.shown.type)
           V == OutpointBytes(Vault[s.auth.dep])
           B == ListedOutputs(s.auth.dep, SignedAmount(net[s.auth.dep]))
<1>1. AuthKey \in Keys /\ s.key \in Keys
  BY MintAssumption
<1>2. Authorized(A, M) <=> s.auth.by = AuthKey
  <2>1. A = Signature(s.auth.by, HASH256(M))
    BY DEF AuthorizerSignature
  <2>2. Authorized(A, M) <=> Verifies(HASH256(M), Signature(s.auth.by, HASH256(M)), PubKey(AuthKey))
    BY <2>1 DEF Authorized, HASH256
  <2> QED BY <1>1, <2>2, VerifiedBy
<1>3. MessageSplits(M) /\ MessageOutpoint(M) = V /\ MessageOutputs(M) = B
  BY AuthorizationRead
<1>4. Width(S) = 72 /\ Signed(S) = Signature(s.key, HASH256(O))
  BY SignatureRead DEF MinterSignature
<1>5. /\ OutputsCut(X) /\ 68 \in 0..Width(X) /\ 36 \in 0..Width(Rest(X, 68))
      /\ PreimageOutpoint(X) = b /\ PreimageHash(X) = f
  BY PreimageOf
<1>6. Verifies(HASH256(X), Signed(S), P) <=> s.key = s.pubkey /\ O = X
  <2>1. Verifies(HASH256(X), Signed(S), P) <=> s.key = s.pubkey /\ HASH256(O) = HASH256(X)
    BY <1>1, <1>4, VerifiedBy
  <2> HIDE DEF O, X
  <2> QED BY <2>1, HashSays
<1>7. Verifies(HASH256(R), Signed(S), P) <=> s.key = s.pubkey /\ O = R
  <2>1. Verifies(HASH256(R), Signed(S), P) <=> s.key = s.pubkey /\ HASH256(O) = HASH256(R)
    BY <1>1, <1>4, VerifiedBy
  <2> HIDE DEF O, R
  <2> QED BY <2>1, HashSays
<1>8. Passes(s) <=> V2Passes(S, P, X, A, M, R)
  BY DEF Passes
<1> HIDE DEF S, P, X, A, M, R, O, b, f, V, B
<1>9. SignedByMinter(S, P, X) <=> Verifies(HASH256(X), Signed(S), P)
  BY <1>4 DEF SignedByMinter, HASH256
<1>10. OutpointMatches(X, M) <=> V = b
  BY <1>3, <1>5 DEF OutpointMatches
<1>11. OutputsMatch(X, M) <=> HASH256(B) = f
  BY <1>3, <1>5 DEF OutputsMatch
<1>12. Passes(s) <=> s.auth.by = AuthKey /\ s.key = s.pubkey /\ O = X /\ O = R /\ V = b /\ HASH256(B) = f
  BY <1>2, <1>3, <1>5, <1>6, <1>7, <1>8, <1>9, <1>10, <1>11 DEF V2Passes
<1> QED BY <1>12 DEF O, X, R, V, b, B, f

\* Outpoints with the same bytes are the same.
LEMMA OutpointIs ==
    ASSUME NEW u, NEW v, IsOutpoint(u), IsOutpoint(v), u.txid = v.txid, u.index = v.index
    PROVE  u = v
BY DEF IsOutpoint

\* A signature over some outputs is over all of them, and over these only.
LEMMA OutputsSigned ==
    ASSUME NEW s, IsSigning(s), NEW outs, AreOutputs(outs),
           NEW B, B = Concat([i \in DOMAIN outs |-> OutputBytes(outs[i])]), Width(B) > 64,
           HASH256(B) = HashOutputs(s.tx, s.index, s.type)
    PROVE  s.type.outputs = "ALL" /\ s.tx.outs = outs
<1> DEFINE paid == s.tx.outs
<1>1. \A x, y : HASH256(x) = HASH256(y) => x = y
  BY HashSays
<1>2. HASH256(B) # ZERO_HASH
  BY HashSays
<1>3. AreOutputs(paid) /\ s.index \in Nat \ {0}
  BY DEF IsSigning
<1>4. CASE s.type.outputs = "ALL"
  <2>1. HASH256(B) = HASH256(OutputsBytes(s.tx))
    BY <1>4 DEF HashOutputs
  <2>2. B = OutputsBytes(s.tx)
    BY <2>1, <1>1
  <2>3. Concat([i \in DOMAIN paid |-> OutputBytes(paid[i])]) = Concat([i \in DOMAIN outs |-> OutputBytes(outs[i])])
    BY <2>2 DEF OutputsBytes
  <2>4. paid = outs
    <3> HIDE DEF paid
    <3> QED BY <1>3, <2>3, DecodedSequence
  <2> QED BY <1>4, <2>4
<1>5. CASE s.type.outputs # "ALL" /\ s.type.outputs = "SINGLE" /\ s.index <= Len(paid)
  <2>1. HASH256(B) = HASH256(OutputBytes(paid[s.index]))
    BY <1>5 DEF HashOutputs
  <2>2. B = OutputBytes(paid[s.index])
    BY <2>1, <1>1
  <2>3. IsOutput(paid[s.index])
    <3>1. s.index \in 1..Len(paid)
      BY <1>3, <1>5 DEF AreOutputs
    <3> QED BY <1>3, <3>1 DEF AreOutputs
  <2> HIDE DEF paid
  <2> DEFINE o == paid[s.index]
  <2> HIDE DEF o
  <2>4. IsOutput(o) /\ B = OutputBytes(o)
    BY <2>2, <2>3 DEF o
  <2>5. Width(OutputBytes(o)) \in {64, 34, 32}
    BY <2>4, OutputOf DEF IsOutput
  <2> QED BY <2>4, <2>5
<1>6. CASE s.type.outputs # "ALL" /\ ~(s.type.outputs = "SINGLE" /\ s.index <= Len(paid))
  <2>1. HashOutputs(s.tx, s.index, s.type) = ZERO_HASH
    BY <1>6 DEF HashOutputs
  <2> QED BY <1>2, <2>1
<1> QED BY <1>4, <1>5, <1>6

\* The outputs that an authorization lists.
LEMMA ListedSays ==
    ASSUME NEW d, NEW quantity, NEW B, B = ListedOutputs(d, quantity),
           NEW outs, outs = <<Mint(quantity), Pay(Recipient[d], SLP_DUST_SATS)>>
    PROVE  B = Concat([i \in DOMAIN outs |-> OutputBytes(outs[i])]) /\ AreOutputs(outs) /\ Width(B) > 64
<1>1. B = Concat([i \in DOMAIN outs |-> OutputBytes(outs[i])])
  BY EncodedOutputs DEF ListedOutputs
<1>2. AreOutputs(outs)
  BY MintedAreOutputs
<1>3. Width(B) > 64
  <2> DEFINE x == Serialize(0, buildMintOpReturnV2(TokenId(Token), quantity))
             y == Serialize(SLP_DUST_SATS, P2PKH(Recipient[d]))
  <2>1. B = Then(x, y)
    BY DEF ListedOutputs, buildMintV2TxOutputs, Then
  <2>2. IsBytes(x) /\ Width(x) = 64 /\ IsBytes(y) /\ Width(y) = 34
    BY MintOutputBytes, PayOutputBytes
  <2> HIDE DEF x, y
  <2>3. Width(B) = 98
    BY <2>1, <2>2, ThenWidth
  <2> QED BY <2>3
<1> QED BY <1>1, <1>2, <1>3

\* Signatures over the same preimage, of the same outputs, sign alike.
LEMMA SameSigned ==
    ASSUME NEW s, NEW t, IsSigning(s), IsSigning(t), Preimage(s) = Preimage(t), s.tx.outs = t.tx.outs
    PROVE  SignsAlike(s, t)
<1>1. /\ HashPrevouts(s.tx, s.type) = HashPrevouts(t.tx, t.type)
      /\ OutpointBytes(s.tx.ins[s.index]) = OutpointBytes(t.tx.ins[t.index])
      /\ s.type = t.type
  BY SamePreimage
<1>2. s.tx.outs = t.tx.outs
  OBVIOUS
<1>3. s.tx.ins[s.index] = t.tx.ins[t.index]
  <2>1. IsOutpoint(s.tx.ins[s.index]) /\ IsOutpoint(t.tx.ins[t.index])
    BY DEF IsSigning
  <2> QED BY <2>1, <1>1, OutpointSays, OutpointIs
<1>4. CASE ~s.type.anyoneCanPay
  <2> DEFINE a == [i \in DOMAIN s.tx.ins |-> OutpointBytes(s.tx.ins[i])]
             b == [i \in DOMAIN t.tx.ins |-> OutpointBytes(t.tx.ins[i])]
             p == s.tx.ins
             q == t.tx.ins
  <2>1. HASH256(Concat(a)) = HASH256(Concat(b))
    BY <1>1, <1>4 DEF HashPrevouts
  <2>2. Concat(a) = Concat(b)
    <3> DEFINE x == Concat(a)
               y == Concat(b)
    <3>1. HASH256(x) = HASH256(y)
      BY <2>1
    <3> HIDE DEF x, y
    <3>2. x = y
      BY <3>1, HashSays
    <3> QED BY <3>2 DEF x, y
  <2>3. /\ p \in Seq({p[i] : i \in DOMAIN p}) /\ q \in Seq({q[i] : i \in DOMAIN q})
        /\ (\A i \in 1..Len(p) : IsOutpoint(p[i])) /\ (\A i \in 1..Len(q) : IsOutpoint(q[i]))
    BY DEF IsSigning
  <2>4. Len(p) \in Nat /\ DOMAIN p = 1..Len(p) /\ Len(q) \in Nat /\ DOMAIN q = 1..Len(q)
    BY <2>3
  <2>5. Concat([i \in DOMAIN p |-> OutpointBytes(p[i])]) = Concat([i \in DOMAIN q |-> OutpointBytes(q[i])])
    BY <2>2
  <2> HIDE DEF p, q, a, b
  <2>6. Len(p) = Len(q) /\ \A i \in 1..Len(p) : p[i].txid = q[i].txid /\ p[i].index = q[i].index
    BY <2>4, <2>5, DecodedInputs
  <2>7. \A i \in 1..Len(p) : p[i] = q[i]
    BY <2>3, <2>6, OutpointIs
  <2>8. p = q
    BY <2>3, <2>4, <2>6, <2>7
  <2> QED BY <1>1, <1>2, <1>3, <2>8 DEF SignsAlike, p, q
<1> QED BY <1>1, <1>2, <1>3, <1>4 DEF SignsAlike

\* So what was signed over, shown and broadcast is alike, over all of the listed outputs.
LEMMA SignedAlike ==
    ASSUME NEW s, IsSigning(s), NEW t, IsSigning(t), Preimage(s) = Preimage(t), NEW outs, AreOutputs(outs),
           NEW B, B = Concat([i \in DOMAIN outs |-> OutputBytes(outs[i])]), Width(B) > 64,
           HASH256(B) = HashOutputs(s.tx, s.index, s.type)
    PROVE  s.type.outputs = "ALL" /\ s.tx.outs = outs /\ SignsAlike(s, t)
<1>1. HASH256(B) = HashOutputs(t.tx, t.index, t.type)
  BY SamePreimage
<1>2. s.type.outputs = "ALL" /\ s.tx.outs = outs /\ t.tx.outs = outs
  BY <1>1, OutputsSigned
<1> QED BY <1>2, SameSigned

-----------------------------------------------------------------------------
(* The two conversions of amounts *)

\* The difference of decimals, taken twice.
LEMMA GapIsAbs == DecimalsGap = Abs(TokenDecimals - XecDecimals)
<1>1. TokenDecimals \in Nat /\ XecDecimals \in Nat
    BY DecimalsAssumption
<1>2. CASE TokenDecimals < XecDecimals
    BY <1>1, <1>2 DEF DecimalsGap, XecHasMorePrecision, Abs
<1>3. CASE ~(TokenDecimals < XecDecimals)
    BY <1>1, <1>3 DEF DecimalsGap, XecHasMorePrecision, Abs
<1> QED BY <1>2, <1>3

\* authorization.ts, toXecAmount(), and confirmDeposit() convert every amount alike.
THEOREM ConversionsAgree == \A amount \in Nat : toXecAmount(amount) = xecAmount(amount)
BY GapIsAbs DEF toXecAmount, xecAmount, Scale, XecHasMorePrecision

\* The quantity the authorizer signs is the one the contract digests, for every amount
\* that the authorizer's number holds, and it signs for none that converts to nothing.
THEOREM SignedAsDigested ==
    \A amount \in Nat :
        /\ xecAmount(amount) <= SafeInteger => SignedAmount(amount) = xecAmount(amount)
        /\ Signable(amount) <=> xecAmount(amount) > 0
BY ConversionsAgree DEF SignedAmount, ToNumber, Signable

-----------------------------------------------------------------------------
(* The inductive invariant *)

\* The digest the contract computes for deposit d, of the outpoint its message names.
ContractDigest(d) == _authorizationDigest(d, txidToInternal(Vault[d].txid), Vault[d].index)

\* How far the run of spend s is, under the covenant mintCovenantV2.
Runs(s) ==
    V2Run(MinterSignature(s), PubKey(s.pubkey), Preimage(s.shown), AuthorizerSignature(s), signed[s.auth.dep])

\* What is signed is the deposit's message, and what is confirmed has the contract's digest.
MessagesInv ==
    /\ net \in [Deposits -> Nat]
    /\ signed = [d \in Deposits |-> signed[d]]
    /\ \A d \in Deposits : signed[d] # << >> => net[d] > 0 /\ signed[d] = buildAuthorization(d)
    /\ \A d \in confirmed : d \in Deposits /\ signed[d] # << >> /\ HASH256(signed[d]) = ContractDigest(d)

\* A spend whose authorization is signed, of outputs that exist.
MayBeTried(s) ==
    /\ s \in Spends /\ signed[s.auth.dep] # << >>
    /\ \A i \in DOMAIN s.real.tx.ins : Funded(s.real.tx.ins[i])

\* The machine decides a spend as the covenant says, and has it right so far.
RunInv ==
    script = "mintCovenantV2" =>
        /\ verdict = "idle" => pc = 1 /\ alt = << >>
        /\ verdict # "idle" => MayBeTried(spend)
        /\ verdict = "running" => Runs(spend)
        /\ verdict = "accepted" => Passes(spend)
        /\ verdict = "rejected" => ~Passes(spend)

\* The inductive invariant.
Inv == MessagesInv /\ RunInv

\* It holds at first.
LEMMA InvInit == Init => Inv
<1> SUFFICES ASSUME Init PROVE Inv
  OBVIOUS
<1>1. MessagesInv
  BY DEF Init, MintInit, MessagesInv
<1>2. RunInv
  BY DEF Init, MachineInit, RunInv
<1> QED BY <1>1, <1>2 DEF Inv

\* Nothing the machine does changes a message.
LEMMA MessagesKept ==
    ASSUME MessagesInv, UNCHANGED mintVars
    PROVE  MessagesInv'
BY DEF MessagesInv, mintVars, buildAuthorization, ContractDigest, _authorizationDigest

\* A step of the machine keeps the covenant and the spend.
LEMMA SpendKept == runCovenant => script' = script /\ spend' = spend
BY DEF runCovenant, Push, Dup, Swap, Rot, ThreeDup, Sha256, Hash256, Nip, DropTop, Cat, Equal, Size, Sub,
   OneSub,
       LessThan, Roll, Split, If, EndIf, ToAltStack, FromAltStack, EqualVerify, CheckDataSigVerify,
       CheckSig, Replace, GoTo

\* A deposit has no message yet.
LEMMA DepositStep ==
    ASSUME Inv, verdict = "idle", NEW d \in Deposits, Deposit(d)
    PROVE  Inv'
<1>1. MessagesInv'
  <2>1. PICK n \in NetAmounts[d] : net' = [net EXCEPT ![d] = n]
    BY DEF Deposit
  <2>2. n \in Nat
    BY MintAssumption
  <2>3. signed' = signed /\ confirmed' = confirmed /\ net[d] = 0
    BY DEF Deposit
  <2>4. net' \in [Deposits -> Nat]
    BY <2>1, <2>2 DEF Inv, MessagesInv
  <2>5. signed[d] = << >>
    BY <2>3 DEF Inv, MessagesInv
  <2>6. ASSUME NEW e \in Deposits, signed[e] # << >>
        PROVE  net'[e] = net[e] /\ buildAuthorization(e)' = buildAuthorization(e)
    <3>1. net'[e] = net[e]
      BY <2>1, <2>5, <2>6 DEF Inv, MessagesInv
    <3> QED BY <3>1 DEF buildAuthorization
  <2>7. ASSUME NEW e \in Deposits, signed[e] # << >>
        PROVE  ContractDigest(e)' = ContractDigest(e)
    BY <2>6, <2>7 DEF ContractDigest, _authorizationDigest
  <2> QED BY <2>3, <2>4, <2>6, <2>7 DEF Inv, MessagesInv
<1>2. RunInv'
  BY DEF Deposit, machineVars, Inv, RunInv
<1> QED BY <1>1, <1>2 DEF Inv

\* A message is signed once, of the amount that was deposited.
LEMMA AuthorizeStep ==
    ASSUME Inv, verdict = "idle", NEW d \in Deposits, Authorize(d)
    PROVE  Inv'
<1>1. MessagesInv'
  <2>1. net' = net /\ confirmed' = confirmed /\ signed' = [signed EXCEPT ![d] = buildAuthorization(d)]
    BY DEF Authorize
  <2>2. \A e : buildAuthorization(e)' = buildAuthorization(e) /\ ContractDigest(e)' = ContractDigest(e)
    BY <2>1 DEF buildAuthorization, ContractDigest, _authorizationDigest
  <2>3. signed' = [e \in Deposits |-> signed'[e]] /\ \A e \in Deposits : e # d => signed'[e] = signed[e]
    BY <2>1 DEF Inv, MessagesInv
  <2>4. signed'[d] = buildAuthorization(d) /\ net[d] > 0
    BY <2>1 DEF Authorize, Inv, MessagesInv
  <2>5. d \notin confirmed
    BY DEF Authorize, Inv, MessagesInv
  <2> QED BY <2>1, <2>2, <2>3, <2>4, <2>5 DEF Inv, MessagesInv
<1>2. RunInv'
  BY DEF Authorize, machineVars, Inv, RunInv
<1> QED BY <1>1, <1>2 DEF Inv

\* A deposit is confirmed with the digest of its message.
LEMMA ConfirmStep ==
    ASSUME Inv, verdict = "idle", NEW d \in Deposits, ConfirmDeposit(d)
    PROVE  Inv'
<1>1. MessagesInv'
  <2>1. net' = net /\ signed' = signed /\ confirmed' = confirmed \cup {d}
    BY DEF ConfirmDeposit
  <2>2. \A e : buildAuthorization(e)' = buildAuthorization(e) /\ ContractDigest(e)' = ContractDigest(e)
    BY <2>1 DEF buildAuthorization, ContractDigest, _authorizationDigest
  <2>3. signed[d] # << >> /\ HASH256(signed[d]) = ContractDigest(d)
    BY DEF ConfirmDeposit, ContractDigest
  <2> QED BY <2>1, <2>2, <2>3 DEF Inv, MessagesInv
<1>2. RunInv'
  BY DEF ConfirmDeposit, machineVars, Inv, RunInv
<1> QED BY <1>1, <1>2 DEF Inv

\* A spend is tried from the first row of its run.
LEMMA SubmitStep ==
    ASSUME Inv, verdict = "idle", NEW s \in Spends, Submit(s)
    PROVE  Inv'
<1>1. MessagesInv'
  BY MessagesKept DEF Submit, Inv
<1>2. /\ script' = script /\ script = "mintCovenantV2" /\ spend' = s /\ verdict' = "running" /\ pc' = pc /\ alt' = alt
      /\ signed' = signed /\ confirmed' = confirmed /\ signed[s.auth.dep] # << >>
      /\ \A i \in DOMAIN s.real.tx.ins : Funded(s.real.tx.ins[i])
      /\ Load(s, <<Signature(s.auth.by, HASH256(signed[s.auth.dep])), signed[s.auth.dep]>>)
  BY DEF Submit, Load, mintVars
<1>3. MayBeTried(s)'
  BY <1>2 DEF MayBeTried, Funded
<1>4. Runs(s)'
  <2> DEFINE S == MinterSignature(s)
             P == PubKey(s.pubkey)
             X == Preimage(s.shown)
             A == AuthorizerSignature(s)
             M == signed[s.auth.dep]
  <2>1. stack' = <<S, P, X>> \o <<A, M>>
    BY <1>2 DEF Load, MinterSignature, AuthorizerSignature
  <2>2. S' = S /\ X' = X /\ A' = A /\ M' = M
    BY <1>2 DEF MinterSignature, AuthorizerSignature, Preimage
  <2>3. pc' = 1 /\ alt' = << >>
    BY <1>2 DEF Inv, RunInv
  <2>4. PICK v, w, x, y, z : v = S /\ w = P /\ x = X /\ y = A /\ z = M
    OBVIOUS
  <2>5. V2Run(v, w, x, y, z)'
    <3>1. stack' = <<v, w, x>> \o <<y, z>>
      BY <2>1, <2>4
    <3>2. Items(stack', <<v, w, x, y, z>>)
      BY <3>1 DEF Items
    <3> QED BY <2>3, <3>2 DEF V2Run, AuthorizerSignedRun, R1, Row, Items
  <2> QED BY <2>2, <2>4, <2>5 DEF Runs
<1> QED BY <1>1, <1>2, <1>3, <1>4 DEF Inv, RunInv

\* A step of the machine is one of the run, or its end.
LEMMA RunStep ==
    ASSUME Inv, runCovenant, UNCHANGED mintVars
    PROVE  Inv'
<1>1. MessagesInv'
  BY MessagesKept DEF Inv
<1>2. script' = script /\ spend' = spend
  BY SpendKept
<1>3. signed' = signed /\ confirmed' = confirmed
  BY DEF mintVars
<1>4. verdict = "running"
  BY DEF runCovenant, Opcode, Push, Dup, Swap, Rot, ThreeDup, Sha256, Hash256, Nip, DropTop, Cat, Equal,
     Size, Sub,
         OneSub, LessThan, Roll, Split, If, EndIf, ToAltStack, FromAltStack, EqualVerify,
         CheckDataSigVerify, CheckSig
<1>5. ASSUME script = "mintCovenantV2"
      PROVE  /\ MayBeTried(spend)'
             /\ \/ verdict' = "running" /\ Runs(spend)'
                \/ verdict' = "accepted" /\ Passes(spend)'
                \/ verdict' = "rejected" /\ ~Passes(spend)'
  <2> DEFINE S == MinterSignature(spend)
             P == PubKey(spend.pubkey)
             X == Preimage(spend.shown)
             A == AuthorizerSignature(spend)
             M == signed[spend.auth.dep]
             R == Preimage(spend.real)
  <2>1. S' = S /\ P' = P /\ X' = X /\ A' = A /\ M' = M /\ R' = R
    BY <1>2, <1>3 DEF MinterSignature, AuthorizerSignature, Preimage
  <2>2. MayBeTried(spend)'
    BY <1>2, <1>3, <1>4, <1>5 DEF Inv, RunInv, MayBeTried, Funded
  <2>3. Width(S) \in Nat /\ Width(X) \in Nat
    <3>1. Width(S) = 72
      BY SignatureRead DEF MinterSignature
    <3>2. IsBytes(X)
      BY PreimageOf
    <3> HIDE DEF X
    <3> QED BY <3>1, <3>2, ThenWidth
  <2>4. V2Run(S, P, X, A, M)
    BY <1>4, <1>5 DEF Inv, RunInv, Runs
  <2>5. PICK v, w, x, y, z, r : v = S /\ w = P /\ x = X /\ y = A /\ z = M /\ r = R
    OBVIOUS
  <2>6. V2Run(v, w, x, y, z) /\ Width(v) \in Nat /\ Width(x) \in Nat /\ r = Preimage(spend.real)
    BY <2>3, <2>4, <2>5
  <2>7. \/ verdict' = "running" /\ V2Run(v, w, x, y, z)'
        \/ verdict' = "rejected" /\ ~V2Passes(v, w, x, y, z, r)
        \/ verdict' = "accepted" /\ V2Passes(v, w, x, y, z, r)
    BY <1>4, <1>5, <2>6, V2Step
  <2>8. V2Run(v, w, x, y, z)' => Runs(spend)'
    BY <2>1, <2>5 DEF Runs
  <2>9. V2Passes(v, w, x, y, z, r) <=> Passes(spend)'
    BY <2>1, <2>5 DEF Passes
  <2> QED BY <2>2, <2>7, <2>8, <2>9
<1>6. RunInv'
  BY <1>2, <1>5 DEF RunInv
<1> QED BY <1>1, <1>6 DEF Inv

\* The oracle's actions are for coins of the other covenant.
LEMMA OracleStep ==
    ASSUME Inv, verdict = "idle", OracleNext, UNCHANGED mintVars
    PROVE  Inv'
<1>1. MessagesInv'
  BY MessagesKept DEF Inv
<1>2. \/ UNCHANGED machineVars
      \/ script = "mintOutscript" /\ script' = script
  BY DEF OracleNext, Genesis, Attest, SubmitMint, Load
<1>3. RunInv'
  BY <1>2 DEF machineVars, Inv, RunInv
<1> QED BY <1>1, <1>3 DEF Inv

\* Where a run is depends on the machine's stacks and next opcode only.
LEMMA RunKept ==
    ASSUME NEW S, NEW P, NEW X, NEW A, NEW M, UNCHANGED <<pc, stack, alt>>, V2Run(S, P, X, A, M)
    PROVE  V2Run(S, P, X, A, M)'
BY DEF V2Run, AuthorizerSignedRun, SplitMessageRun, PreimageSignedRun, PreimageOutputsRun, SameOutpointRun,
       SameOutputsRun, LastRun, Row,
       R1, R2, R3, R4, R5, R6, R7, R8, R9, R10, R11, R12, R13, R14, R15, R16, R17, R18, R19, R20, R21,
       R22, R23, R24, R25, R26, R27, R28, R29, R30, R31, R32, R33, R34, R35, R36, R37, R38, R39, R40,
       R41, R42, R43, R44, R45, R46, R47, R48, R49, R50, R51, R52

\* Every step preserves it.
LEMMA InvNext == Inv /\ [Next]_vars => Inv'
<1> SUFFICES ASSUME Inv, [Next]_vars PROVE Inv'
  OBVIOUS
<1>1. CASE verdict = "idle" /\ MintNext /\ UNCHANGED oracleVars
  BY <1>1, DepositStep, AuthorizeStep, ConfirmStep, SubmitStep DEF MintNext
<1>2. CASE verdict = "idle" /\ OracleNext /\ UNCHANGED mintVars
  BY <1>2, OracleStep
<1>3. CASE runCovenant /\ UNCHANGED <<mintVars, oracleVars>>
  BY <1>3, RunStep
<1>4. CASE UNCHANGED vars
  <2>1. UNCHANGED mintVars /\ UNCHANGED machineVars
    BY <1>4 DEF vars
  <2>2. MessagesInv'
    BY <2>1, MessagesKept DEF Inv
  <2>3. RunInv'
    <3>1. /\ script' = script /\ spend' = spend /\ pc' = pc /\ stack' = stack /\ alt' = alt /\ verdict' = verdict
          /\ signed' = signed /\ confirmed' = confirmed
      BY <2>1 DEF machineVars, mintVars
    <3>2. MayBeTried(spend) => MayBeTried(spend)'
      BY <3>1 DEF MayBeTried, Funded
    <3>3. /\ MinterSignature(spend)' = MinterSignature(spend) /\ PubKey(spend.pubkey)' = PubKey(spend.pubkey)
          /\ Preimage(spend.shown)' = Preimage(spend.shown) /\ Preimage(spend.real)' = Preimage(spend.real)
          /\ AuthorizerSignature(spend)' = AuthorizerSignature(spend)
          /\ signed[spend.auth.dep]' = signed[spend.auth.dep]
      BY <3>1 DEF MinterSignature, AuthorizerSignature, Preimage
    <3>4. Passes(spend)' <=> Passes(spend)
      BY <3>1, <3>3 DEF Passes
    <3>5. ASSUME Runs(spend) PROVE Runs(spend)'
      <4>1. PICK v, w, x, y, z : /\ v = MinterSignature(spend) /\ w = PubKey(spend.pubkey)
                                 /\ x = Preimage(spend.shown)
                                 /\ y = AuthorizerSignature(spend) /\ z = signed[spend.auth.dep]
        OBVIOUS
      <4>2. V2Run(v, w, x, y, z)
        BY <3>5, <4>1 DEF Runs
      <4>3. V2Run(v, w, x, y, z)'
        BY <3>1, <4>2, RunKept
      <4> QED BY <3>3, <4>1, <4>3 DEF Runs
    <3> QED BY <3>1, <3>2, <3>4, <3>5 DEF Inv, RunInv
  <2> QED BY <2>2, <2>3 DEF Inv
<1> QED BY <1>1, <1>2, <1>3, <1>4 DEF Next

-----------------------------------------------------------------------------
(* What is accepted, what is refused, and what is signed *)

\* A digest that agrees is of the quantity that was signed.
LEMMA SignedQuantity ==
    ASSUME NEW d, HASH256(buildAuthorization(d)) = ContractDigest(d)
    PROVE  SignedAmount(net[d]) = xecAmount(net[d])
<1> DEFINE q == SignedAmount(net[d])
           r == xecAmount(net[d])
<1>1. ListedOutputs(d, q) = ListedOutputs(d, r)
  BY DigestSays DEF ContractDigest
<1> HIDE DEF q, r
<1>2. <<Mint(q), Pay(Recipient[d], SLP_DUST_SATS)>> = <<Mint(r), Pay(Recipient[d], SLP_DUST_SATS)>>
  <2> DEFINE outs == <<Mint(q), Pay(Recipient[d], SLP_DUST_SATS)>>
  <2>1. AreOutputs(outs)
    BY MintedAreOutputs
  <2>2. Concat([i \in DOMAIN outs |-> OutputBytes(outs[i])]) = ListedOutputs(d, q)
    <3> HIDE DEF outs
    <3>1. outs = <<Mint(q), Pay(Recipient[d], SLP_DUST_SATS)>>
      BY DEF outs
    <3> QED BY <3>1, EncodedOutputs DEF ListedOutputs
  <2>3. Concat([i \in DOMAIN outs |-> OutputBytes(outs[i])])
          = buildMintV2TxOutputs(TokenId(Token), r, Recipient[d])
    BY <1>1, <2>2 DEF ListedOutputs
  <2> HIDE DEF outs
  <2>4. outs = <<Mint(r), Pay(Recipient[d], SLP_DUST_SATS)>>
    BY <2>1, <2>3, DecodedOutputs
  <2> QED BY <2>4 DEF outs
<1>3. Mint(q) = Mint(r)
  <2> DEFINE a == <<Mint(q), Pay(Recipient[d], SLP_DUST_SATS)>>
             b == <<Mint(r), Pay(Recipient[d], SLP_DUST_SATS)>>
  <2>1. a[1] = Mint(q) /\ b[1] = Mint(r)
    OBVIOUS
  <2>2. a = b
    BY <1>2
  <2> HIDE DEF a, b
  <2> QED BY <2>1, <2>2
<1>4. q = r
  BY <1>3 DEF Mint
<1> QED BY <1>4 DEF q, r

\* What is accepted passes, so it is what was signed, of what was authorized.
LEMMA InvOnlyAuthorized == Inv => AcceptsOnlyAuthorized
<1> SUFFICES ASSUME Inv, verdict = "accepted", script = "mintCovenantV2"
             PROVE  /\ \E d \in confirmed :
                          /\ spend.real.tx.ins[spend.real.index] = Vault[d]
                          /\ spend.real.tx.outs = MintOutputs(d)
                    /\ spend.real.type.outputs = "ALL"
                    /\ SignsAlike(spend.real, spend.shown) /\ SignsAlike(spend.real, spend.over)
                    /\ spend.pubkey = spend.key
  BY DEF AcceptsOnlyAuthorized
<1> DEFINE dep == spend.auth.dep
           quantity == SignedAmount(net[dep])
<1>1. Passes(spend) /\ MayBeTried(spend)
  BY DEF Inv, RunInv
<1>2. spend \in Spends /\ dep \in Deposits /\ signed[dep] = buildAuthorization(dep)
  BY <1>1, MintAssumption DEF MayBeTried, Inv, MessagesInv
<1>3. IsSigning(spend.real) /\ IsSigning(spend.over) /\ IsSigning(spend.shown)
  BY <1>2, MintAssumption
<1>4. /\ spend.key = spend.pubkey
      /\ Preimage(spend.over) = Preimage(spend.shown) /\ Preimage(spend.over) = Preimage(spend.real)
      /\ OutpointBytes(Vault[dep]) = OutpointBytes(spend.shown.tx.ins[spend.shown.index])
      /\ HASH256(ListedOutputs(dep, quantity))
           = HashOutputs(spend.shown.tx, spend.shown.index, spend.shown.type)
  BY <1>1, <1>2, PassesSays
<1>5. /\ HashOutputs(spend.real.tx, spend.real.index, spend.real.type)
           = HashOutputs(spend.shown.tx, spend.shown.index, spend.shown.type)
      /\ OutpointBytes(spend.real.tx.ins[spend.real.index]) = OutpointBytes(spend.shown.tx.ins[spend.shown.index])
  BY <1>4, SamePreimage
<1>6. HASH256(ListedOutputs(dep, quantity)) = HashOutputs(spend.real.tx, spend.real.index, spend.real.type)
  BY <1>4, <1>5
<1>7. /\ spend.real.type.outputs = "ALL"
      /\ spend.real.tx.outs = <<Mint(quantity), Pay(Recipient[dep], SLP_DUST_SATS)>>
      /\ SignsAlike(spend.real, spend.shown) /\ SignsAlike(spend.real, spend.over)
  <2> DEFINE B == ListedOutputs(dep, quantity)
             outs == <<Mint(quantity), Pay(Recipient[dep], SLP_DUST_SATS)>>
  <2>1. Preimage(spend.real) = Preimage(spend.shown) /\ Preimage(spend.real) = Preimage(spend.over)
    BY <1>4
  <2>2. B = Concat([i \in DOMAIN outs |-> OutputBytes(outs[i])]) /\ AreOutputs(outs) /\ Width(B) > 64
    BY ListedSays
  <2>3. HASH256(B) = HashOutputs(spend.real.tx, spend.real.index, spend.real.type)
    BY <1>6
  <2> DEFINE r == spend.real
             v == spend.over
             w == spend.shown
  <2>4. /\ IsSigning(r) /\ IsSigning(v) /\ IsSigning(w)
        /\ Preimage(r) = Preimage(w) /\ Preimage(r) = Preimage(v)
        /\ HASH256(B) = HashOutputs(r.tx, r.index, r.type)
    BY <1>3, <2>1, <2>3
  <2> HIDE DEF B, outs, r, v, w
  <2>5. r.type.outputs = "ALL" /\ r.tx.outs = outs /\ SignsAlike(r, w)
    BY <2>2, <2>4, SignedAlike
  <2>6. SignsAlike(r, v)
    BY <2>2, <2>4, SignedAlike
  <2>7. /\ spend.real.type.outputs = "ALL" /\ spend.real.tx.outs = outs
        /\ SignsAlike(spend.real, spend.shown) /\ SignsAlike(spend.real, spend.over)
    BY <2>5, <2>6 DEF r, v, w
  <2> QED BY <2>7 DEF outs
<1>8. spend.real.tx.ins[spend.real.index] = Vault[dep]
  <2>1. IsOutpoint(spend.real.tx.ins[spend.real.index]) /\ IsOutpoint(Vault[dep])
    BY <1>2, <1>3, MintAssumption DEF IsSigning
  <2>2. OutpointBytes(spend.real.tx.ins[spend.real.index]) = OutpointBytes(Vault[dep])
    BY <1>4, <1>5
  <2> QED BY <2>1, <2>2, OutpointSays, OutpointIs
<1>9. dep \in confirmed
  <2>1. spend.real.index \in DOMAIN spend.real.tx.ins
    BY <1>3 DEF IsSigning
  <2>2. Funded(spend.real.tx.ins[spend.real.index])
    BY <1>1, <2>1 DEF MayBeTried
  <2>3. PICK d \in confirmed : Vault[d] = Vault[dep]
    BY <1>2, <1>8, <2>2 DEF Funded
  <2>4. d \in Deposits
    BY DEF Inv, MessagesInv
  <2> QED BY <1>2, <2>3, <2>4, MintAssumption
<1>10. quantity = xecAmount(net[dep])
  BY <1>2, <1>9, SignedQuantity DEF Inv, MessagesInv, ContractDigest
<1> QED BY <1>4, <1>7, <1>8, <1>9, <1>10 DEF MintOutputs

\* An honest spend passes, so it is never rejected.
LEMMA InvAuthorizedAccepted == Inv => AuthorizedIsAccepted
<1> SUFFICES ASSUME Inv, verdict = "rejected", script = "mintCovenantV2", HonestSpend(spend)
             PROVE  Passes(spend)
  BY DEF AuthorizedIsAccepted, Inv, RunInv
<1> DEFINE dep == spend.auth.dep
<1>1. MayBeTried(spend)
  BY DEF Inv, RunInv
<1>2. spend \in Spends /\ dep \in Deposits /\ signed[dep] = buildAuthorization(dep)
  BY <1>1, MintAssumption DEF MayBeTried, Inv, MessagesInv
<1>3. IsSigning(spend.real)
  BY <1>2, MintAssumption
<1>4. /\ spend.real.tx.ins[spend.real.index] = Vault[dep] /\ spend.real.type.outputs = "ALL"
      /\ spend.real.tx.outs = <<Mint(xecAmount(net[dep])), Pay(Recipient[dep], SLP_DUST_SATS)>>
      /\ spend.over = spend.real /\ spend.shown = spend.real /\ spend.key = spend.pubkey /\ spend.auth.by = AuthKey
  BY DEF HonestSpend, MintOutputs
<1>5. dep \in confirmed
  <2>1. spend.real.index \in DOMAIN spend.real.tx.ins
    BY <1>3 DEF IsSigning
  <2>2. Funded(Vault[dep])
    BY <1>1, <1>4, <2>1 DEF MayBeTried
  <2>3. PICK d \in confirmed : Vault[d] = Vault[dep]
    BY <1>2, <2>2 DEF Funded
  <2>4. d \in Deposits
    BY DEF Inv, MessagesInv
  <2> QED BY <1>2, <2>3, <2>4, MintAssumption
<1>6. ListedOutputs(dep, SignedAmount(net[dep])) = ListedOutputs(dep, xecAmount(net[dep]))
  BY <1>2, <1>5, DigestSays DEF Inv, MessagesInv, ContractDigest
<1>7. OutputsBytes(spend.real.tx) = ListedOutputs(dep, xecAmount(net[dep]))
  <2> DEFINE outs == spend.real.tx.outs
  <2>1. Concat([i \in DOMAIN outs |-> OutputBytes(outs[i])]) = ListedOutputs(dep, xecAmount(net[dep]))
    <3> HIDE DEF outs, dep
    <3>1. outs = <<Mint(xecAmount(net[dep])), Pay(Recipient[dep], SLP_DUST_SATS)>>
      BY <1>4 DEF outs, dep
    <3> QED BY <3>1, EncodedOutputs DEF ListedOutputs
  <2> QED BY <2>1 DEF OutputsBytes
<1>8. HASH256(ListedOutputs(dep, SignedAmount(net[dep])))
        = HashOutputs(spend.real.tx, spend.real.index, spend.real.type)
  BY <1>4, <1>6, <1>7 DEF HashOutputs
<1> QED BY <1>2, <1>4, <1>8, PassesSays

\* The message and the digest are of the same pieces.
LEMMA InvAuthorizationsAgree == Inv => AuthorizationsAgree
<1> SUFFICES ASSUME Inv, NEW d \in Deposits, signed[d] # << >>, xecAmount(net[d]) <= SafeInteger
             PROVE  HASH256(signed[d]) = ContractDigest(d)
  BY DEF AuthorizationsAgree, ContractDigest
<1>1. net[d] \in Nat /\ signed[d] = buildAuthorization(d)
  BY DEF Inv, MessagesInv
<1>2. SignedAmount(net[d]) = xecAmount(net[d])
  BY <1>1, SignedAsDigested
<1> QED BY <1>1, <1>2, DigestsAgree DEF ContractDigest

\* Inv holds throughout.
LEMMA AlwaysInv == Spec => []Inv
BY InvInit, InvNext, PTL DEF Spec

\* script.ts, mintCovenantV2Ops: for every deposit, amount, hash type and spend, a spend
\* that the covenant accepts takes the vault output of a confirmed deposit, pays exactly what
\* its authorization says, and is what the minter signed and showed.
THEOREM OnlyAuthorizedMints == Spec => []AcceptsOnlyAuthorized
BY AlwaysInv, InvOnlyAuthorized, PTL

\* And whoever spends the vault output of a confirmed deposit as its authorization says is
\* never refused.
THEOREM AuthorizedMintsAreAccepted == Spec => []AuthorizedIsAccepted
BY AlwaysInv, InvAuthorizedAccepted, PTL

\* authorization.ts and _authorizationDigest(): the service signs, byte for byte, what the
\* contract digests, for every amount a JavaScript number holds exactly.
THEOREM AuthorizationsAlwaysAgree == Spec => []AuthorizationsAgree
BY AlwaysInv, InvAuthorizationsAgree, PTL

-----------------------------------------------------------------------------
(* Powers *)

\* The function that Power is defined as.
Powers(p) == p = [n \in Nat |-> IF n = 0 THEN 1 ELSE Radix * p[n - 1]]

\* It exists.
LEMMA PowersExist == \E p : Powers(p)
<1> DEFINE UpTo(p, n) == p \in [Nat -> Int] /\ p[0] = 1 /\ \A k \in Nat : k < n => p[k + 1] = Radix * p[k]
           G == {n \in Nat : \E p : UpTo(p, n)}
<1>r. Radix \in Int
  BY DecimalsAssumption
<1>1. 0 \in G
  <2> DEFINE p == [n \in Nat |-> 1]
  <2>1. UpTo(p, 0)
    OBVIOUS
  <2> QED BY <2>1, Zenon
<1>2. ASSUME NEW n \in Nat, n \in G PROVE n + 1 \in G
  <2>1. PICK p : UpTo(p, n)
    BY <1>2
  <2> DEFINE q == [k \in Nat |-> IF k <= n THEN p[k] ELSE Radix * p[n]]
  <2>2. q \in [Nat -> Int] /\ q[0] = 1
    <3>1. Radix * p[n] \in Int
      BY <2>1, <1>r
    <3> QED BY <2>1, <3>1
  <2>3. ASSUME NEW k \in Nat, k < n + 1 PROVE q[k + 1] = Radix * q[k]
    <3>1. CASE k < n
      <4>1. q[k + 1] = p[k + 1] /\ q[k] = p[k]
        BY <3>1
      <4> HIDE DEF q
      <4> QED BY <2>1, <3>1, <4>1
    <3>2. CASE k = n
      <4>1. q[k + 1] = Radix * p[n] /\ q[k] = p[n]
        BY <3>2
      <4> HIDE DEF q
      <4> QED BY <3>2, <4>1
    <3> QED BY <2>3, <3>1, <3>2
  <2>4. UpTo(q, n + 1)
    <3> HIDE DEF q
    <3> QED BY <2>2, <2>3
  <2>5. n + 1 \in Nat
    OBVIOUS
  <2> HIDE DEF UpTo, q
  <2>6. \E f : UpTo(f, n + 1)
    BY <2>4, Zenon
  <2> QED BY <2>5, <2>6
<1>3. \A n \in Nat : n \in G
  <2> HIDE DEF G
  <2> QED BY <1>1, <1>2, NatSetInduction
<1>4. \A n \in Nat : \E p : UpTo(p, n)
  BY <1>3
<1> HIDE DEF UpTo
\* Up to where two of them go, they agree.
<1> DEFINE F[n \in Nat] == CHOOSE p : UpTo(p, n)
           d == [n \in Nat |-> F[n][n]]
<1>5. \A n \in Nat : UpTo(F[n], n)
  <2> SUFFICES ASSUME NEW n \in Nat PROVE UpTo(F[n], n)
    OBVIOUS
  <2>1. \E p : UpTo(p, n)
    BY <1>4
  <2>2. UpTo(CHOOSE p : UpTo(p, n), n)
    BY <2>1, Zenon
  <2> QED BY <2>2
<1> HIDE DEF F
<1>6. \A n \in Nat : F[n][0] = 1 /\ \A k \in Nat : k < n => F[n][k + 1] = Radix * F[n][k]
  BY <1>5 DEF UpTo
<1>7. ASSUME NEW n \in Nat PROVE \A k \in Nat : k <= n => F[n + 1][k] = F[n][k]
  <2> DEFINE H == {k \in Nat : k <= n => F[n + 1][k] = F[n][k]}
  <2>1. 0 \in H
    BY <1>6
  <2>2. ASSUME NEW k \in Nat, k \in H PROVE k + 1 \in H
    <3>1. SUFFICES ASSUME k + 1 <= n PROVE F[n + 1][k + 1] = F[n][k + 1]
      OBVIOUS
    <3>2. k < n /\ k < n + 1 /\ k <= n /\ n + 1 \in Nat
      BY <3>1
    <3>3. F[n + 1][k + 1] = Radix * F[n + 1][k] /\ F[n][k + 1] = Radix * F[n][k]
      BY <1>6, <3>2
    <3>4. F[n + 1][k] = F[n][k]
      BY <2>2, <3>2
    <3> QED BY <3>3, <3>4
  <2>3. \A k \in Nat : k \in H
    <3> HIDE DEF H
    <3> QED BY <2>1, <2>2, NatSetInduction
  <2> QED BY <2>3
<1>8. d[0] = 1
  BY <1>6
<1>9. ASSUME NEW n \in Nat PROVE d[n + 1] = Radix * d[n]
  <2>1. d[n + 1] = F[n + 1][n + 1] /\ d[n] = F[n][n] /\ n + 1 \in Nat /\ n < n + 1 /\ n <= n
    OBVIOUS
  <2>2. F[n + 1][n + 1] = Radix * F[n + 1][n] /\ F[n + 1][n] = F[n][n]
    BY <1>6, <1>7, <2>1
  <2> QED BY <2>1, <2>2
<1>10. Powers(d)
  <2>1. d = [n \in Nat |-> d[n]]
    OBVIOUS
  <2> HIDE DEF d
  <2>2. \A n \in Nat : d[n] = IF n = 0 THEN 1 ELSE Radix * d[n - 1]
    <3> SUFFICES ASSUME NEW n \in Nat, n # 0 PROVE d[n] = Radix * d[n - 1]
      BY <1>8
    <3>1. n - 1 \in Nat /\ (n - 1) + 1 = n
      OBVIOUS
    <3>2. d[(n - 1) + 1] = Radix * d[n - 1]
      BY <1>9, <3>1
    <3> QED BY <3>1, <3>2
  <2> QED BY <2>1, <2>2 DEF Powers
<1> QED BY <1>10, Zenon

\* A power is a number above zero.
LEMMA PowerPositive == \A n \in Nat : Power[n] \in Nat \ {0}
<1>1. Powers(Power)
  BY PowersExist, Zenon DEF Powers, Power
<1>2. Power[0] = 1 /\ \A n \in Nat : Power[n + 1] = Radix * Power[n]
  <2> DEFINE p == Power
  <2>1. p = [n \in Nat |-> IF n = 0 THEN 1 ELSE Radix * p[n - 1]]
    BY <1>1 DEF Powers
  <2> HIDE DEF p
  <2>2. p[0] = 1
    BY <2>1
  <2>3. ASSUME NEW n \in Nat PROVE p[n + 1] = Radix * p[n]
    <3>1. n + 1 \in Nat /\ n + 1 # 0 /\ (n + 1) - 1 = n
      OBVIOUS
    <3> QED BY <2>1, <3>1
  <2> QED BY <2>2, <2>3 DEF p
<1>3. Radix \in Nat \ {0}
  BY DecimalsAssumption
<1> HIDE DEF Power
<1> DEFINE G == {n \in Nat : Power[n] \in Nat \ {0}}
<1>4. 0 \in G
  BY <1>2
<1>5. ASSUME NEW n \in Nat, n \in G PROVE n + 1 \in G
  <2>1. Power[n + 1] = Radix * Power[n] /\ Power[n] \in Nat \ {0}
    BY <1>2, <1>5
  <2>2. ASSUME NEW a \in Nat \ {0}, NEW b \in Nat \ {0} PROVE a * b \in Nat \ {0}
    OBVIOUS
  <2> QED BY <1>3, <2>1, <2>2
<1>6. \A n \in Nat : n \in G
  <2> HIDE DEF G
  <2> QED BY <1>4, <1>5, NatSetInduction
<1> QED BY <1>6

\* The scale of a lock with these decimals, and its fee.
LEMMA ScaleAndFee ==
    ASSUME NEW t \in Nat, NEW x \in Nat, NEW fee \in Nat
    PROVE  /\ Precision(t, x)!Scale \in Nat \ {0}
           /\ FeeAmountXec(fee, t, x) \in Nat
           /\ fee = 0 => FeeAmountXec(fee, t, x) = 0
<1> DEFINE gap == Precision(t, x)!DecimalsGap
           scale == Precision(t, x)!Scale
<1>1. gap \in Nat
  BY DEF Precision!DecimalsGap, Precision!XecHasMorePrecision
<1>2. scale = Power[gap]
  BY DEF Precision!Scale, Precision!Power, Power
<1> HIDE DEF gap, scale
<1>3. scale \in Nat \ {0}
  BY <1>1, <1>2, PowerPositive
<1>4. FeeAmountXec(fee, t, x) = fee * scale \/ FeeAmountXec(fee, t, x) = fee \div scale
  BY DEF FeeAmountXec, scale
<1>5. fee * scale \in Nat /\ fee \div scale \in Nat /\ (fee = 0 => fee * scale = 0 /\ fee \div scale = 0)
  BY <1>3
<1> QED BY <1>3, <1>4, <1>5 DEF scale

\* The function that AfterInputs is defined as.
Inputs(g, s) == g = [i \in Nat |-> IF i = 0 THEN s ELSE AfterInput(g[i - 1])]

\* It exists.
LEMMA InputsExist == ASSUME NEW s PROVE \E g : Inputs(g, s)
<1> DEFINE UpTo(g, n) == g[0] = s /\ \A k \in Nat : k < n => g[k + 1] = AfterInput(g[k])
           G == {n \in Nat : \E g : UpTo(g, n)}
<1>1. \A n \in Nat : n \in G
  <2>1. 0 \in G
    <3> DEFINE g == [n \in Nat |-> s]
    <3>1. UpTo(g, 0)
      OBVIOUS
    <3> QED BY <3>1, Zenon
  <2>2. ASSUME NEW n \in Nat, n \in G PROVE n + 1 \in G
    <3>1. PICK g : UpTo(g, n)
      BY <2>2
    <3> DEFINE h == [k \in Nat |-> IF k <= n THEN g[k] ELSE AfterInput(g[n])]
    <3>2. h[0] = s
      BY <3>1
    <3>3. ASSUME NEW k \in Nat, k < n + 1 PROVE h[k + 1] = AfterInput(h[k])
      <4>1. CASE k < n
        BY <3>1, <4>1
      <4>2. CASE k = n
        BY <4>2
      <4> QED BY <3>3, <4>1, <4>2
    <3>4. UpTo(h, n + 1)
      BY <3>2, <3>3
    <3>5. n + 1 \in Nat
      OBVIOUS
    <3> QED BY <3>4, <3>5, Zenon
  <2> HIDE DEF G
  <2> QED BY <2>1, <2>2, NatSetInduction
<1> DEFINE one(n) == CHOOSE g : UpTo(g, n)
           h == [n \in Nat |-> one(n)[n]]
<1>2. \A n \in Nat : UpTo(one(n), n)
  <2> TAKE n \in Nat
  <2>1. \E g : UpTo(g, n)
    BY <1>1
  <2> HIDE DEF UpTo
  <2> QED BY <2>1, Zenon
<1> HIDE DEF one
<1>3. ASSUME NEW n \in Nat PROVE one(n + 1)[n] = one(n)[n]
  <2> DEFINE Alike == {k \in Nat : k <= n => one(n + 1)[k] = one(n)[k]}
  <2>1. n + 1 \in Nat
    OBVIOUS
  <2>2. UpTo(one(n), n) /\ UpTo(one(n + 1), n + 1)
    BY <1>2, <2>1
  <2>3. 0 \in Alike
    BY <2>2
  <2>4. ASSUME NEW k \in Nat, k \in Alike PROVE k + 1 \in Alike
    <3>1. ASSUME k + 1 <= n PROVE one(n + 1)[k + 1] = one(n)[k + 1]
      <4>1. k < n /\ k < n + 1 /\ one(n + 1)[k] = one(n)[k]
        BY <2>4, <3>1
      <4> QED BY <2>2, <4>1
    <3> QED BY <3>1
  <2>5. \A k \in Nat : k \in Alike
    <3> HIDE DEF Alike
    <3> QED BY <2>3, <2>4, NatSetInduction
  <2> QED BY <2>5
<1>4. ASSUME NEW n \in Nat PROVE h[n] = IF n = 0 THEN s ELSE AfterInput(h[n - 1])
  <2>1. CASE n = 0
    BY <1>2, <2>1
  <2>2. CASE n # 0
    <3>1. n - 1 \in Nat /\ (n - 1) + 1 = n
      BY <2>2
    <3>2. one(n)[n] = AfterInput(one(n)[n - 1])
      BY <1>2, <3>1
    <3>3. one(n)[n - 1] = one(n - 1)[n - 1]
      BY <1>3, <3>1
    <3> QED BY <2>2, <3>1, <3>2, <3>3
  <2> QED BY <2>1, <2>2
<1>5. Inputs(h, s)
  <2>1. h = [n \in Nat |-> h[n]]
    OBVIOUS
  <2> HIDE DEF h
  <2> QED BY <1>4, <2>1 DEF Inputs
<1> QED BY <1>5, Zenon

\* What a transaction of one input has after it.
LEMMA AfterOneInput == ASSUME NEW s PROVE AfterInputs(s)[1] = AfterInput(s)
<1> DEFINE g == AfterInputs(s)
<1>1. Inputs(g, s)
  BY InputsExist, Zenon DEF Inputs, AfterInputs
<1> HIDE DEF g
<1>2. g[0] = s /\ g[1] = AfterInput(g[1 - 1])
  BY <1>1 DEF Inputs
<1> QED BY <1>2 DEF g

\* The function that PushesFrom is defined as.
Pushes(g, s) == g = [i \in 1..10 |-> IF i = 1 THEN Rest(s, 1) ELSE AfterPush(g[i - 1])]

\* It exists.
LEMMA PushesExist == ASSUME NEW s PROVE \E g : Pushes(g, s)
<1> DEFINE UpTo(g, n) == g[1] = Rest(s, 1) /\ \A k \in 1..10 : k < n => g[k + 1] = AfterPush(g[k])
           G == {n \in Nat : \E g : UpTo(g, n)}
<1>1. \A n \in Nat : n \in G
  <2>1. 0 \in G
    <3> DEFINE g == [n \in 1..10 |-> Rest(s, 1)]
    <3>1. UpTo(g, 0)
      OBVIOUS
    <3> QED BY <3>1, Zenon
  <2>2. ASSUME NEW n \in Nat, n \in G PROVE n + 1 \in G
    <3>1. PICK g : UpTo(g, n)
      BY <2>2
    <3> DEFINE h == [k \in 1..11 |-> IF k <= n \/ k = 1 THEN g[k] ELSE AfterPush(g[n])]
    <3>2. h[1] = Rest(s, 1)
      BY <3>1
    <3>3. ASSUME NEW k \in 1..10, k < n + 1 PROVE h[k + 1] = AfterPush(h[k])
      <4>1. CASE k < n
        BY <3>1, <4>1
      <4>2. CASE k = n
        BY <4>2
      <4> QED BY <3>3, <4>1, <4>2
    <3>4. UpTo(h, n + 1)
      BY <3>2, <3>3
    <3>5. n + 1 \in Nat
      OBVIOUS
    <3> QED BY <3>4, <3>5, Zenon
  <2> HIDE DEF G
  <2> QED BY <2>1, <2>2, NatSetInduction
<1>2. PICK g : UpTo(g, 10)
  BY <1>1
<1> DEFINE h == [i \in 1..10 |-> g[i]]
<1>3. Pushes(h, s)
  <2>1. \A i \in 1..10 : h[i] = IF i = 1 THEN Rest(s, 1) ELSE AfterPush(h[i - 1])
    <3>1. ASSUME NEW i \in 1..10, i # 1 PROVE h[i] = AfterPush(h[i - 1])
      <4>1. i - 1 \in 1..10 /\ (i - 1) + 1 = i /\ i - 1 < 10 /\ h[i] = g[i] /\ h[i - 1] = g[i - 1]
        BY <3>1
      <4> HIDE DEF h
      <4> QED BY <1>2, <4>1
    <3> QED BY <1>2, <3>1
  <2>2. h = [i \in 1..10 |-> h[i]]
    OBVIOUS
  <2> HIDE DEF h
  <2> QED BY <2>1, <2>2 DEF Pushes
<1> QED BY <1>3, Zenon

\* Each push follows the one before.
LEMMA PushAfterPush ==
    ASSUME NEW s
    PROVE  /\ PushesFrom(s)[1] = Rest(s, 1)
           /\ \A i \in 1..9 : PushesFrom(s)[i + 1] = AfterPush(PushesFrom(s)[i])
<1> DEFINE g == PushesFrom(s)
<1>1. Pushes(g, s)
  BY PushesExist, Zenon DEF Pushes, PushesFrom
<1> HIDE DEF g
<1>2. g[1] = Rest(s, 1)
  BY <1>1 DEF Pushes
<1>3. ASSUME NEW i \in 1..9 PROVE g[i + 1] = AfterPush(g[i])
  <2>1. i + 1 \in 1..10 /\ i + 1 # 1 /\ (i + 1) - 1 = i
    OBVIOUS
  <2> QED BY <1>1, <2>1 DEF Pushes
<1> QED BY <1>2, <1>3 DEF g

-----------------------------------------------------------------------------
(* Pushes, written and read *)

\* A string that begins with a byte.
LEMMA ByteThen ==
    ASSUME NEW n, NEW r, IsBytes(r), NEW s, s = Then(Byte(n), r)
    PROVE  /\ IsBytes(s) /\ IsByte(s) /\ FirstByte(s) = n
           /\ First(s, 1) = Byte(n) /\ Rest(s, 1) = r
           /\ Width(s) = 1 + Width(r)
<1>1. IsBytes(Byte(n)) /\ Width(Byte(n)) = 1
  BY BytesOfPieces
<1>2. IsBytes(s) /\ First(s, 1) = Byte(n) /\ Rest(s, 1) = r /\ Width(s) = 1 + Width(r)
  BY <1>1, ThenBytes, ThenCut, ThenWidth
<1>3. IsNumber(Byte(n))
  BY DEF IsNumber, Byte, Piece
<1>4. s # << >> /\ s[1] = Byte(n)[1]
  <2>1. Len(Byte(n)) = 1
    BY DEF Byte, Piece
  <2> DEFINE b == Byte(n)
  <2> HIDE DEF b
  <2>2. Len(b \o r) = 1 + Len(r) /\ Len(r) \in Nat /\ (b \o r)[1] = b[1]
    <3>1. IsBytes(b) /\ Len(b) = 1
      BY <1>1, <2>1 DEF b
    <3>2. Len(b \o r) = Len(b) + Len(r) /\ Len(r) \in Nat /\ \A i \in 1..Len(b) : (b \o r)[i] = b[i]
      BY <3>1, Joined
    <3> DEFINE c == b \o r
    <3> HIDE DEF c
    <3>3. Len(c) = Len(b) + Len(r) /\ \A i \in 1..Len(b) : c[i] = b[i]
      BY <3>2 DEF c
    <3>4. 1 \in 1..Len(b)
      BY <3>1
    <3>5. c[1] = b[1] /\ Len(c) = 1 + Len(r)
      BY <3>1, <3>3, <3>4
    <3> QED BY <3>2, <3>5 DEF c
  <2>3. Len(s) # 0 /\ s[1] = Byte(n)[1]
    BY <2>2 DEF Then, b
  <2> QED BY <2>3, NoBytes
<1>5. Byte(n)[1].says[2] = n
  BY DEF Byte, Piece
<1> QED BY <1>2, <1>3, <1>4, <1>5 DEF IsByte, FirstByte

\* A push whose length is its opcode.
LEMMA DirectPush ==
    ASSUME NEW x, IsBytes(x), NEW r, IsBytes(r), NEW w, w = Width(x), w <= 75,
           NEW s, s = Then(Byte(w), Then(x, r))
    PROVE  Readable(s) /\ readPush(s) = x /\ AfterPush(s) = r
<1>1. w \in Nat /\ IsBytes(Then(x, r)) /\ Width(Then(x, r)) = w + Width(r) /\ Width(r) \in Nat
  BY ThenBytes, ThenWidth
<1>2. IsByte(s) /\ FirstByte(s) = w /\ Rest(s, 1) = Then(x, r)
  BY <1>1, ByteThen
<1>3. PushStart(s) = Then(x, r) /\ PushLength(s) = w
  BY <1>1, <1>2 DEF PushStart, PushLength
<1>4. Readable(s)
  BY <1>1, <1>2, <1>3 DEF Readable
<1>5. First(Then(x, r), w) = x /\ Rest(Then(x, r), w) = r
  BY ThenCut
<1> QED BY <1>3, <1>4, <1>5 DEF readPush, AfterPush

\* A push whose length follows OP_PUSHDATA1.
LEMMA LongPush ==
    ASSUME NEW x, IsBytes(x), NEW r, IsBytes(r), NEW w, w = Width(x),
           NEW s, s = Then(Byte(76), Then(Byte(w), Then(x, r)))
    PROVE  Readable(s) /\ readPush(s) = x /\ AfterPush(s) = r
<1> DEFINE t == Then(x, r)
           u == Then(Byte(w), t)
<1>1. w \in Nat /\ IsBytes(t) /\ Width(t) = w + Width(r) /\ Width(r) \in Nat
  BY ThenBytes, ThenWidth
<1>2. IsBytes(u) /\ IsByte(u) /\ FirstByte(u) = w
  BY <1>1, ByteThen
<1>3. IsByte(s) /\ FirstByte(s) = 76 /\ Rest(s, 1) = u
  BY <1>2, ByteThen
<1>4. Rest(s, 2) = t
  <2>1. IsBytes(Byte(76)) /\ IsBytes(Byte(w))
    BY BytesOfPieces
  <2> DEFINE h == Then(Byte(76), Byte(w))
  <2>2. IsBytes(h) /\ Width(h) = 2
    BY BytesOfPieces DEF Then
  <2>3. s = Then(h, t)
    BY <1>1, <2>1, ThenRegrouped
  <2> HIDE DEF h
  <2> QED BY <1>1, <2>2, <2>3, ThenCut
<1> HIDE DEF t, u
<1>5. PushStart(s) = t /\ PushLength(s) = w
  BY <1>2, <1>3, <1>4 DEF PushStart, PushLength
<1>6. Readable(s)
  BY <1>1, <1>2, <1>3, <1>5 DEF Readable
<1>7. First(t, w) = x /\ Rest(t, w) = r
  BY ThenCut DEF t
<1> QED BY <1>5, <1>6, <1>7 DEF readPush, AfterPush

\* An opcode that is no push of bytes.
LEMMA NoPush ==
    ASSUME NEW n \in Int, n > 76, NEW r, IsBytes(r), NEW s, s = Then(Byte(n), r)
    PROVE  ~Readable(s)
<1>1. FirstByte(s) = n
  BY ByteThen
<1> QED BY <1>1 DEF Readable

\* p is how field x is pushed, and the contract reads it or refuses to.
IsPushOf(p, x, readable) ==
    /\ IsBytes(p)
    /\ \A r : IsBytes(r) =>
          /\ Readable(Then(p, r)) <=> readable
          /\ Readable(Then(p, r)) => readPush(Then(p, r)) = x /\ AfterPush(Then(p, r)) = r

\* A length and its bytes.
LEMMA PushOfData ==
    ASSUME NEW x, IsBytes(x), Width(x) <= 75
    PROVE  IsPushOf(Data(x), x, TRUE)
<1> DEFINE w == Width(x)
           b == Byte(w)
<1>1. Data(x) = Then(b, x) /\ IsBytes(b) /\ IsBytes(Then(b, x))
  BY BytesOfPieces, ThenBytes DEF Data, Then
<1>2. ASSUME NEW r, IsBytes(r)
      PROVE  /\ Readable(Then(Then(b, x), r))
             /\ readPush(Then(Then(b, x), r)) = x /\ AfterPush(Then(Then(b, x), r)) = r
  <2>1. Then(Then(b, x), r) = Then(b, Then(x, r))
    BY <1>1, <1>2, ThenRegrouped
  <2> QED BY <1>2, <2>1, DirectPush
<1> HIDE DEF b
<1> QED BY <1>1, <1>2 DEF IsPushOf

\* What the contract makes of the shortest push.
LEMMA PushOfField ==
    ASSUME NEW x, IsBytes(x)
    PROVE  IsPushOf(PushData(x), x, Width(x) <= 255 /\ ~HasOpcode(x))
<1> DEFINE w == Width(x)
<1>w. w \in Nat
  BY ThenWidth
<1>1. CASE HasOpcode(x)
  <2> DEFINE n == 80 + x[1].says[2]
             p == Byte(n)
  <2>1. n \in Int /\ n > 76
    BY <1>1 DEF HasOpcode
  <2>2. PushData(x) = p /\ IsBytes(p)
    BY <1>1, BytesOfPieces DEF PushData
  <2>3. ASSUME NEW r, IsBytes(r) PROVE ~Readable(Then(p, r))
    BY <2>1, <2>3, NoPush
  <2> HIDE DEF p, n
  <2> QED BY <1>1, <2>2, <2>3 DEF IsPushOf
<1>2. CASE ~HasOpcode(x) /\ w <= 75
  <2>1. PushData(x) = Data(x)
    BY <1>2, Zenon DEF PushData
  <2>2. Width(x) <= 75
    BY <1>2
  <2>3. IsPushOf(Data(x), x, TRUE)
    BY <2>2, PushOfData
  <2>4. Width(x) <= 255
    BY <1>2, <1>w
  <2> QED BY <1>2, <2>1, <2>3, <2>4 DEF IsPushOf
<1>3. CASE ~HasOpcode(x) /\ ~(w <= 75) /\ w <= 255
  <2> DEFINE p == Then(Byte(76), Then(Byte(w), x))
  <2>1. PushData(x) = p
    BY <1>3, Zenon DEF PushData, Data, Then
  <2>2. IsBytes(Byte(76)) /\ IsBytes(Byte(w)) /\ IsBytes(Then(Byte(w), x)) /\ IsBytes(p)
    BY BytesOfPieces, ThenBytes
  <2>3. ASSUME NEW r, IsBytes(r)
        PROVE  Readable(Then(p, r)) /\ readPush(Then(p, r)) = x /\ AfterPush(Then(p, r)) = r
    <3>1. Then(p, r) = Then(Byte(76), Then(Then(Byte(w), x), r))
      BY <2>2, <2>3, ThenRegrouped
    <3>2. Then(Then(Byte(w), x), r) = Then(Byte(w), Then(x, r))
      BY <2>2, <2>3, ThenRegrouped
    <3> QED BY <2>3, <3>1, <3>2, LongPush
  <2> HIDE DEF p
  <2> QED BY <1>3, <2>1, <2>2, <2>3 DEF IsPushOf
<1>4. CASE ~HasOpcode(x) /\ ~(w <= 75) /\ ~(w <= 255)
  <2> DEFINE t == Then(LE(w, 2), x)
             p == Then(Byte(77), t)
  <2>1. PushData(x) = Then(Then(Byte(77), LE(w, 2)), x)
    BY <1>4, Zenon DEF PushData, Then
  <2>2. IsBytes(Byte(77)) /\ IsBytes(LE(w, 2)) /\ IsBytes(t) /\ IsBytes(p)
    BY BytesOfPieces, ThenBytes DEF LE
  <2>3. PushData(x) = p
    BY <2>1, <2>2, ThenRegrouped
  <2>4. ASSUME NEW r, IsBytes(r) PROVE ~Readable(Then(p, r))
    <3>1. Then(p, r) = Then(Byte(77), Then(t, r)) /\ IsBytes(Then(t, r))
      BY <2>2, <2>4, ThenRegrouped, ThenBytes
    <3> HIDE DEF p, t
    <3> QED BY <3>1, NoPush
  <2> HIDE DEF p
  <2> QED BY <1>4, <2>2, <2>3, <2>4 DEF IsPushOf
<1> QED BY <1>1, <1>2, <1>3, <1>4

\* The same of a field, which may be empty.
LEMMA PushOfSlpField ==
    ASSUME NEW x, IsBytes(x)
    PROVE  IsPushOf(PushSlpField(x), x, Width(x) <= 255 /\ ~HasOpcode(x))
<1>1. CASE x # << >>
  BY <1>1, PushOfField DEF PushSlpField
<1>2. CASE x = << >>
  <2> DEFINE none == << >>
             p == Then(Byte(76), Byte(0))
  <2>1. PushSlpField(x) = p /\ x = none
    BY <1>2 DEF PushSlpField, Then
  <2>2. IsBytes(Byte(76)) /\ IsBytes(Byte(0)) /\ IsBytes(p) /\ IsBytes(none) /\ Width(none) = 0
    BY BytesOfPieces, ThenBytes, NoBytes, WidthOfNone
  <2>3. \A r : IsBytes(r) => Then(none, r) = r
    <3>1. ASSUME NEW r, IsBytes(r) PROVE << >> \o r = r
      <4>1. PICK says : r \in Bytes(says)
        BY <3>1 DEF IsBytes
      <4> QED BY <4>1, ConcatEmptySeq DEF Bytes
    <3> QED BY <3>1 DEF Then
  <2> HIDE DEF none
  <2>4. ASSUME NEW r, IsBytes(r)
        PROVE  Readable(Then(p, r)) /\ readPush(Then(p, r)) = none /\ AfterPush(Then(p, r)) = r
    <3>1. Then(p, r) = Then(Byte(76), Then(Byte(0), Then(none, r)))
      BY <2>2, <2>3, <2>4, ThenRegrouped
    <3> QED BY <2>2, <2>4, <3>1, LongPush
  <2>5. Width(x) <= 255 /\ ~HasOpcode(x)
    BY <2>1, <2>2 DEF HasOpcode
  <2> HIDE DEF p
  <2> QED BY <2>1, <2>2, <2>4, <2>5 DEF IsPushOf
<1> QED BY <1>1, <1>2

\* The empty string is nothing before or after another.
LEMMA ThenNone == \A a : IsBytes(a) => Then(a, << >>) = a /\ Then(<< >>, a) = a
<1>1. ASSUME NEW a, IsBytes(a) PROVE a \o << >> = a /\ << >> \o a = a
  <2>1. PICK says : a \in Bytes(says)
    BY <1>1 DEF IsBytes
  <2> QED BY <2>1, ConcatEmptySeq DEF Bytes
<1> QED BY <1>1 DEF Then

\* Some strings, all of them bytes.
AreBytes(p, n) == Len(p) = n /\ \A i \in 1..n : IsBytes(p[i])

\* What is left of the strings together after the first i.
Left(p, i) == Rest(Concat(p), Width(Joins(p)[i]))

\* It is the next of them, and what is left then.
LEMMA LeftUnfold ==
    ASSUME NEW n \in Nat, NEW p, AreBytes(p, n)
    PROVE  /\ IsBytes(Concat(p)) /\ Left(p, 0) = Concat(p) /\ Left(p, n) = << >>
           /\ \A i \in 0..n : IsBytes(Left(p, i))
           /\ \A i \in 1..n : Left(p, i - 1) = Then(p[i], Left(p, i))
<1> DEFINE J == Joins(p)
           c == Concat(p)
           L(i) == Rest(c, Width(J[i]))
<1>1. /\ J[0] = << >> /\ \A i \in 1..n : J[i] = Then(J[i - 1], p[i])
      /\ \A i \in 0..n : IsBytes(J[i])
  BY JoinsUnfold DEF AreBytes, Then
<1>2. c = J[n] /\ IsBytes(c)
  BY <1>1 DEF Concat, AreBytes
<1>3. \A i \in 1..n : IsBytes(p[i])
  BY DEF AreBytes
<1> HIDE DEF J, c
<1> DEFINE Good(i) == IsBytes(L(i)) /\ c = Then(J[i], L(i))
           G == {k \in Nat : k <= n => Good(n - k)}
<1>4. \A i \in 0..n : \A r : IsBytes(r) /\ c = Then(J[i], r) => L(i) = r
  <2>1. ASSUME NEW i \in 0..n, NEW r, IsBytes(r), c = Then(J[i], r) PROVE L(i) = r
    <3>1. IsBytes(J[i])
      BY <1>1
    <3> QED BY <2>1, <3>1, ThenCut
  <2> QED BY <2>1
<1> HIDE DEF L
<1>5. L(n) = << >> /\ Good(n)
  <2>1. c = Then(J[n], << >>) /\ IsBytes(<< >>)
    BY <1>2, ThenNone, NoBytes
  <2>2. n \in 0..n
    OBVIOUS
  <2> QED BY <1>4, <2>1, <2>2
<1>6. 0 \in G
  BY <1>5
<1>7. ASSUME NEW i \in 1..n, Good(i) PROVE Good(i - 1) /\ L(i - 1) = Then(p[i], L(i))
  <2>1. i - 1 \in 0..n /\ IsBytes(J[i - 1]) /\ J[i] = Then(J[i - 1], p[i]) /\ IsBytes(p[i])
    BY <1>1, <1>3
  <2>2. c = Then(J[i - 1], Then(p[i], L(i))) /\ IsBytes(Then(p[i], L(i)))
    BY <1>7, <2>1, ThenRegrouped, ThenBytes
  <2> QED BY <1>4, <2>1, <2>2
<1>8. ASSUME NEW k \in Nat, k \in G PROVE k + 1 \in G
  <2>1. SUFFICES ASSUME k + 1 <= n PROVE Good(n - (k + 1))
    OBVIOUS
  <2>2. n - k \in 1..n /\ (n - k) - 1 = n - (k + 1) /\ k <= n
    BY <2>1
  <2>3. Good(n - k)
    BY <1>8, <2>2
  <2> HIDE DEF Good
  <2> QED BY <1>7, <2>2, <2>3
<1>9. \A k \in Nat : k \in G
  <2> HIDE DEF G
  <2> QED BY <1>6, <1>8, NatSetInduction
<1>10. \A i \in 0..n : Good(i)
  <2> SUFFICES ASSUME NEW i \in 0..n PROVE Good(i)
    OBVIOUS
  <2>1. n - i \in Nat /\ n - i <= n /\ n - (n - i) = i
    OBVIOUS
  <2>2. Good(n - (n - i))
    BY <1>9, <2>1
  <2> HIDE DEF Good
  <2> QED BY <2>1, <2>2
<1>11. \A i \in 1..n : L(i - 1) = Then(p[i], L(i))
  BY <1>7, <1>10
<1>12. L(0) = c
  <2>1. c = Then(J[0], c) /\ 0 \in 0..n
    BY <1>1, <1>2, ThenNone
  <2> QED BY <1>2, <1>4, <2>1
<1> QED
  <2>1. \A i : Left(p, i) = L(i)
    BY DEF Left, L, J, c
  <2> QED BY <1>2, <1>5, <1>10, <1>11, <1>12, <2>1 DEF c

-----------------------------------------------------------------------------
(* The genesis, written and read *)

\* Ten strings are pushes of these fields.
ArePushesOf(p, x, readable) == \A i \in 1..10 : IsPushOf(p[i], x[i], readable[i])

\* What the contract reads of ten pushes, as far as it can.
LEMMA PushesRead ==
    ASSUME NEW p, NEW x, NEW readable, Len(p) = 10, ArePushesOf(p, x, readable),
           NEW s, s = Then(Byte(106), Concat(p)),
           NEW from, from = PushesFrom(s)
    PROVE  /\ IsBytes(s) /\ IsByte(s) /\ FirstByte(s) = 106
           /\ \A i \in 1..10 : (\A k \in 1..10 : readable[k] \/ Readable(from[k])) =>
                 readable[i] /\ Readable(from[i]) /\ readPush(from[i]) = x[i]
<1>1. AreBytes(p, 10)
  BY DEF ArePushesOf, IsPushOf, AreBytes
<1>2. /\ IsBytes(Concat(p)) /\ Left(p, 0) = Concat(p)
      /\ \A i \in 0..10 : IsBytes(Left(p, i))
      /\ \A i \in 1..10 : Left(p, i - 1) = Then(p[i], Left(p, i))
  BY <1>1, LeftUnfold
<1>3. IsBytes(s) /\ IsByte(s) /\ FirstByte(s) = 106 /\ Rest(s, 1) = Concat(p)
  BY <1>2, ByteThen
<1>4. from[1] = Left(p, 0) /\ \A i \in 1..9 : from[i + 1] = AfterPush(from[i])
  BY <1>2, <1>3, PushAfterPush
<1>5. ASSUME NEW i \in 1..10, from[i] = Left(p, i - 1), readable[i] \/ Readable(from[i])
      PROVE  readable[i] /\ Readable(from[i]) /\ readPush(from[i]) = x[i] /\ AfterPush(from[i]) = Left(p, i)
  <2>1. from[i] = Then(p[i], Left(p, i)) /\ IsBytes(Left(p, i))
    BY <1>2, <1>5
  <2>2. IsPushOf(p[i], x[i], readable[i])
    BY DEF ArePushesOf
  <2> QED BY <1>5, <2>1, <2>2 DEF IsPushOf
<1>6. ASSUME \A k \in 1..10 : readable[k] \/ Readable(from[k])
      PROVE  \A i \in 1..10 : from[i] = Left(p, i - 1)
  <2> DEFINE G == {k \in Nat : k <= 9 => from[k + 1] = Left(p, k)}
  <2>1. 0 \in G
    BY <1>4
  <2>2. ASSUME NEW k \in Nat, k \in G PROVE k + 1 \in G
    <3>1. SUFFICES ASSUME k + 1 <= 9 PROVE from[(k + 1) + 1] = Left(p, k + 1)
      OBVIOUS
    <3>2. k + 1 \in 1..9 /\ k + 1 \in 1..10 /\ (k + 1) - 1 = k /\ from[k + 1] = Left(p, k)
      BY <2>2, <3>1
    <3>3. AfterPush(from[k + 1]) = Left(p, k + 1)
      BY <1>5, <1>6, <3>2
    <3> QED BY <1>4, <3>2, <3>3
  <2>3. \A k \in Nat : k \in G
    <3> HIDE DEF G
    <3> QED BY <2>1, <2>2, NatSetInduction
  <2>4. ASSUME NEW i \in 1..10 PROVE from[i] = Left(p, i - 1)
    <3>1. i - 1 \in Nat /\ i - 1 <= 9 /\ (i - 1) + 1 = i
      OBVIOUS
    <3>2. from[(i - 1) + 1] = Left(p, i - 1)
      BY <2>3, <3>1
    <3> QED BY <3>1, <3>2
  <2> QED BY <2>4
<1> QED BY <1>3, <1>5, <1>6

\* The fields of a genesis, and which of them the contract can read.
CanRead(x) == Width(x) <= 255 /\ ~HasOpcode(x)
GenesisFields(m, v) ==
    <<Piece("ascii", "SLP", 4), Byte(2), Piece("ascii", "GENESIS", 7), m.ticker, m.name, m.url, m.docHash,
      Byte(m.decimals), v, BE(m.quantity, 8)>>
GenesisReadable(m) ==
    <<TRUE, TRUE, TRUE, CanRead(m.ticker), CanRead(m.name), CanRead(m.url), CanRead(m.docHash), TRUE, TRUE, TRUE>>

\* A field of a fixed number of bytes is read.
LEMMA PushOfFixed ==
    ASSUME NEW x, IsBytes(x), Width(x) \in 2..75
    PROVE  IsPushOf(PushData(x), x, TRUE)
<1>1. Width(x) # 1 /\ Width(x) <= 75
  OBVIOUS
<1>2. PushData(x) = Data(x)
  BY <1>1, Zenon DEF PushData, HasOpcode
<1> QED BY <1>1, <1>2, PushOfData

\* The pushes of a genesis are pushes of its fields.
LEMMA GenesisPushed ==
    ASSUME NEW m, IsBytes(m.ticker), IsBytes(m.name), IsBytes(m.url), IsBytes(m.docHash),
           NEW v, IsBytes(v), Width(v) = 20
    PROVE  /\ Len(GenesisPushes(m, v, BE(m.quantity, 8))) = 10
           /\ ArePushesOf(GenesisPushes(m, v, BE(m.quantity, 8)), GenesisFields(m, v), GenesisReadable(m))
<1> DEFINE p == GenesisPushes(m, v, BE(m.quantity, 8))
           x == GenesisFields(m, v)
           r == GenesisReadable(m)
           a == Piece("ascii", "SLP", 4)
           b == Byte(2)
           c == Piece("ascii", "GENESIS", 7)
           d == Byte(m.decimals)
           q == BE(m.quantity, 8)
<1>1. /\ IsPushOf(PushData(a), a, TRUE) /\ IsPushOf(PushData(c), c, TRUE)
      /\ IsPushOf(PushData(v), v, TRUE) /\ IsPushOf(PushData(q), q, TRUE)
  <2>1. /\ IsBytes(a) /\ Width(a) = 4 /\ IsBytes(c) /\ Width(c) = 7 /\ IsBytes(q) /\ Width(q) = 8
    BY BytesOfPieces DEF BE
  <2> HIDE DEF a, c, q
  <2>2. Width(a) \in 2..75 /\ Width(c) \in 2..75 /\ Width(q) \in 2..75 /\ Width(v) \in 2..75
    BY <2>1
  <2>3. \A y : IsBytes(y) /\ Width(y) \in 2..75 => IsPushOf(PushData(y), y, TRUE)
    BY PushOfFixed
  <2> QED BY <2>1, <2>2, <2>3, Zenon
<1>2. IsPushOf(PushPush(b), b, TRUE) /\ IsPushOf(PushPush(d), d, TRUE)
  <2>1. IsBytes(b) /\ Width(b) = 1 /\ IsBytes(d) /\ Width(d) = 1
    BY BytesOfPieces
  <2> HIDE DEF b, d
  <2>2. Width(b) <= 75 /\ Width(d) <= 75
    BY <2>1
  <2>3. \A y : IsBytes(y) /\ Width(y) <= 75 => IsPushOf(Data(y), y, TRUE)
    BY PushOfData
  <2> QED BY <2>1, <2>2, <2>3, Zenon DEF PushPush
<1>3. /\ IsPushOf(PushSlpField(m.ticker), m.ticker, CanRead(m.ticker))
      /\ IsPushOf(PushSlpField(m.name), m.name, CanRead(m.name))
      /\ IsPushOf(PushSlpField(m.url), m.url, CanRead(m.url))
      /\ IsPushOf(PushSlpField(m.docHash), m.docHash, CanRead(m.docHash))
  BY PushOfSlpField DEF CanRead
<1>4. /\ p[1] = PushData(a) /\ p[2] = PushPush(b) /\ p[3] = PushData(c) /\ p[4] = PushSlpField(m.ticker)
      /\ p[5] = PushSlpField(m.name) /\ p[6] = PushSlpField(m.url) /\ p[7] = PushSlpField(m.docHash)
      /\ p[8] = PushPush(d) /\ p[9] = PushData(v) /\ p[10] = PushData(q) /\ Len(p) = 10
  BY DEF GenesisPushes
<1>5. /\ x[1] = a /\ x[2] = b /\ x[3] = c /\ x[4] = m.ticker /\ x[5] = m.name /\ x[6] = m.url
      /\ x[7] = m.docHash /\ x[8] = d /\ x[9] = v /\ x[10] = q
  BY DEF GenesisFields
<1>6. /\ r[1] = TRUE /\ r[2] = TRUE /\ r[3] = TRUE /\ r[4] = CanRead(m.ticker) /\ r[5] = CanRead(m.name)
      /\ r[6] = CanRead(m.url) /\ r[7] = CanRead(m.docHash) /\ r[8] = TRUE /\ r[9] = TRUE /\ r[10] = TRUE
  BY DEF GenesisReadable
<1> HIDE DEF p, x, r, a, b, c, d, q
<1>7. /\ IsPushOf(p[1], x[1], r[1]) /\ IsPushOf(p[2], x[2], r[2]) /\ IsPushOf(p[3], x[3], r[3])
      /\ IsPushOf(p[4], x[4], r[4]) /\ IsPushOf(p[5], x[5], r[5]) /\ IsPushOf(p[6], x[6], r[6])
      /\ IsPushOf(p[7], x[7], r[7]) /\ IsPushOf(p[8], x[8], r[8]) /\ IsPushOf(p[9], x[9], r[9])
      /\ IsPushOf(p[10], x[10], r[10])
  BY <1>1, <1>2, <1>3, <1>4, <1>5, <1>6
<1>8. \A i \in 1..10 : IsPushOf(p[i], x[i], r[i])
  <2>1. \A i \in 1..10 : i \in {1, 2, 3, 4, 5, 6, 7, 8, 9, 10}
    OBVIOUS
  <2> QED BY <1>7, <2>1, Zenon
<1> QED BY <1>4, <1>8 DEF p, x, r, ArePushesOf

\* What a byte says, and a number of eight bytes.
LEMMA ByteAndQuantity ==
    ASSUME NEW n, NEW q
    PROVE  FirstByte(Byte(n)) = n /\ _bytesToUint64BE(BE(q, 8)) = q
BY DEF FirstByte, Byte, Piece, _bytesToUint64BE, BE

\* The contract reads the genesis the SDK writes as it was meant, if it reads it, and does
\* when the lengths of the fields allow it.
LEMMA GenesisRead ==
    ASSUME NEW m, IsBytes(m.ticker), IsBytes(m.name), IsBytes(m.url), IsBytes(m.docHash),
           NEW v, IsBytes(v), Width(v) = 20,
           NEW s, s = buildGenesisOpReturnV2(m, v)
    PROVE  /\ IsBytes(s)
           /\ IsGenesis(s) =>
                 _parseGenesisOpReturn(s) =
                    [ticker |-> m.ticker, name |-> m.name, decimals |-> m.decimals,
                     mintVaultScripthash |-> v, genesisQuantity |-> m.quantity]
           /\ CanRead(m.ticker) /\ CanRead(m.name) /\ CanRead(m.url) /\ Width(m.docHash) \in {0, 32} =>
                 /\ IsGenesis(s)
                 /\ _parseGenesisOpReturn(s) =
                       [ticker |-> m.ticker, name |-> m.name, decimals |-> m.decimals,
                        mintVaultScripthash |-> v, genesisQuantity |-> m.quantity]
<1> DEFINE p == GenesisPushes(m, v, BE(m.quantity, 8))
           x == GenesisFields(m, v)
           r == GenesisReadable(m)
           from == PushesFrom(s)
           says == [ticker |-> m.ticker, name |-> m.name, decimals |-> m.decimals,
                    mintVaultScripthash |-> v, genesisQuantity |-> m.quantity]
<1>1. s = Then(Byte(106), Concat(p))
  BY DEF buildGenesisOpReturnV2, GenesisOpReturn, Then
<1>2. Len(p) = 10 /\ ArePushesOf(p, x, r)
  BY GenesisPushed
<1>3. /\ x[1] = Piece("ascii", "SLP", 4) /\ x[2] = Byte(2) /\ x[3] = Piece("ascii", "GENESIS", 7)
      /\ x[4] = m.ticker /\ x[5] = m.name /\ x[7] = m.docHash /\ x[8] = Byte(m.decimals)
      /\ x[9] = v /\ x[10] = BE(m.quantity, 8)
  BY DEF GenesisFields
<1>4. ASSUME CanRead(m.ticker), CanRead(m.name), CanRead(m.url), CanRead(m.docHash)
      PROVE  \A i \in 1..10 : r[i]
  <2>1. /\ r[1] = TRUE /\ r[2] = TRUE /\ r[3] = TRUE /\ r[4] = CanRead(m.ticker) /\ r[5] = CanRead(m.name)
        /\ r[6] = CanRead(m.url) /\ r[7] = CanRead(m.docHash) /\ r[8] = TRUE /\ r[9] = TRUE /\ r[10] = TRUE
    BY DEF GenesisReadable
  <2> HIDE DEF r
  <2>2. \A i \in 1..10 : i \in {1, 2, 3, 4, 5, 6, 7, 8, 9, 10}
    OBVIOUS
  <2> QED BY <1>4, <2>1, <2>2, Zenon
<1> HIDE DEF p, x, r
<1>5. /\ IsBytes(s) /\ IsByte(s) /\ FirstByte(s) = 106
      /\ (\A k \in 1..10 : r[k] \/ Readable(from[k])) =>
            \A i \in 1..10 : Readable(from[i]) /\ readPush(from[i]) = x[i]
  BY <1>1, <1>2, PushesRead
<1> HIDE DEF from
<1>6. ASSUME \A i \in 1..10 : readPush(from[i]) = x[i]
      PROVE  _parseGenesisOpReturn(s) = says
  <2>1. /\ readPush(from[4]) = m.ticker /\ readPush(from[5]) = m.name /\ readPush(from[8]) = Byte(m.decimals)
        /\ readPush(from[9]) = v /\ readPush(from[10]) = BE(m.quantity, 8)
    BY <1>3, <1>6
  <2> QED BY <2>1, ByteAndQuantity DEF _parseGenesisOpReturn, from
<1>7. IsGenesis(s) => _parseGenesisOpReturn(s) = says
  <2>1. IsGenesis(s) => \A i \in 1..10 : Readable(from[i])
    BY DEF IsGenesis, from
  <2> HIDE DEF says
  <2> QED BY <1>5, <1>6, <2>1
<1>8. ASSUME CanRead(m.ticker), CanRead(m.name), CanRead(m.url), Width(m.docHash) \in {0, 32}
      PROVE  IsGenesis(s) /\ _parseGenesisOpReturn(s) = says
  <2>1. CanRead(m.docHash)
    BY <1>8 DEF CanRead, HasOpcode
  <2>2. \A i \in 1..10 : Readable(from[i]) /\ readPush(from[i]) = x[i]
    BY <1>4, <1>5, <1>8, <2>1
  <2>3. /\ readPush(from[1]) = Piece("ascii", "SLP", 4) /\ readPush(from[2]) = Byte(2)
        /\ readPush(from[3]) = Piece("ascii", "GENESIS", 7) /\ readPush(from[7]) = m.docHash
        /\ readPush(from[8]) = Byte(m.decimals) /\ readPush(from[9]) = v /\ readPush(from[10]) = BE(m.quantity, 8)
    BY <1>3, <2>2
  <2>4. Width(Byte(m.decimals)) = 1 /\ Width(BE(m.quantity, 8)) = 8
    BY BytesOfPieces DEF BE
  <2>5. IsGenesis(s)
    BY <1>5, <1>8, <2>2, <2>3, <2>4 DEF IsGenesis, from
  <2> HIDE DEF says
  <2> QED BY <1>6, <2>2, <2>5
<1> QED BY <1>5, <1>7, <1>8

\* A script whose first push is something else is no genesis,
LEMMA OtherFirstPush ==
    ASSUME NEW p, NEW x, IsPushOf(p, x, TRUE), x # Piece("ascii", "SLP", 4),
           NEW r, IsBytes(r), NEW s, s = Then(Byte(106), Then(p, r))
    PROVE  IsBytes(s) /\ ~IsGenesis(s)
<1> DEFINE from == PushesFrom(s)
<1>1. IsBytes(Then(p, r)) /\ IsBytes(s) /\ Rest(s, 1) = Then(p, r)
  BY ThenBytes, ByteThen DEF IsPushOf
<1>2. from[1] = Then(p, r)
  BY <1>1, PushAfterPush
<1>3. IsGenesis(s) => readPush(from[1]) = Piece("ascii", "SLP", 4)
  BY Zenon DEF IsGenesis
<1> HIDE DEF from
<1>4. readPush(from[1]) = x
  BY <1>2 DEF IsPushOf
<1> QED BY <1>1, <1>3, <1>4

\* nor one whose third is.
LEMMA OtherThirdPush ==
    ASSUME NEW p, NEW x, IsPushOf(p, x, TRUE), NEW q, NEW y, IsPushOf(q, y, TRUE),
           NEW u, NEW z, IsPushOf(u, z, TRUE), z # Piece("ascii", "GENESIS", 7),
           NEW t, IsBytes(t), NEW s, s = Then(Byte(106), Then(p, Then(q, Then(u, t))))
    PROVE  IsBytes(s) /\ ~IsGenesis(s)
<1> DEFINE from == PushesFrom(s)
           r3 == Then(u, t)
           r2 == Then(q, r3)
           r1 == Then(p, r2)
<1>1. IsBytes(r3) /\ IsBytes(r2) /\ IsBytes(r1)
  BY ThenBytes DEF IsPushOf
<1>2. AfterPush(r1) = r2 /\ AfterPush(r2) = r3 /\ readPush(r3) = z
  <2> HIDE DEF r2, r3
  <2>1. AfterPush(r1) = r2
    BY <1>1 DEF IsPushOf
  <2>2. AfterPush(r2) = r3
    BY <1>1 DEF IsPushOf, r2
  <2>3. readPush(r3) = z
    BY <1>1 DEF IsPushOf, r3
  <2> QED BY <2>1, <2>2, <2>3
<1> HIDE DEF r1, r2, r3
<1>3. IsBytes(s) /\ Rest(s, 1) = r1
  BY <1>1, ByteThen DEF r1, r2, r3
<1>4. from[1] = r1 /\ from[1 + 1] = AfterPush(from[1]) /\ from[2 + 1] = AfterPush(from[2])
  <2>1. 1 \in 1..9 /\ 2 \in 1..9
    OBVIOUS
  <2> QED BY <1>3, <2>1, PushAfterPush
<1>5. IsGenesis(s) => readPush(from[3]) = Piece("ascii", "GENESIS", 7)
  BY Zenon DEF IsGenesis
<1> HIDE DEF from
<1>6. from[3] = r3
  BY <1>2, <1>4
<1> QED BY <1>2, <1>3, <1>5, <1>6

-----------------------------------------------------------------------------
(* The raw transaction, written and read *)

\* A count of one byte.
LEMMA CountRead ==
    ASSUME NEW n \in Int, n < 253, NEW r, IsBytes(r), NEW s, s = Then(Byte(n), r)
    PROVE  AfterVarInt(s) = r /\ _readVarInt(s) = n
BY ByteThen DEF AfterVarInt, _readVarInt

\* A string begins with what its first part begins with.
LEMMA FirstPiece ==
    ASSUME NEW a, IsBytes(a), Len(a) = 1, NEW b, IsBytes(b)
    PROVE  Then(a, b)[1] = a[1]
<1>1. \A i \in 1..Len(a) : (a \o b)[i] = a[i]
  BY Joined
<1> DEFINE c == a \o b
<1> HIDE DEF c
<1>2. \A i \in 1..Len(a) : c[i] = a[i]
  BY <1>1 DEF c
<1>3. c[1] = a[1]
  BY <1>2
<1> QED BY <1>3 DEF c, Then

\* Bytes after their count, in one byte or three.
LEMMA CountedRead ==
    ASSUME NEW x, IsBytes(x), NEW r, IsBytes(r), NEW s, s = Then(VarBytes(x), r)
    PROVE  IsBytes(VarBytes(x)) /\ AfterVarInt(s) = Then(x, r) /\ _readVarInt(s) = Width(x)
<1> DEFINE w == Width(x)
           t == Then(x, r)
<1>w. w \in Nat /\ IsBytes(t)
  BY ThenBytes, ThenWidth
<1>1. CASE w < 253
  <2> DEFINE b == Byte(w)
  <2>1. VarBytes(x) = Then(b, x) /\ IsBytes(b) /\ IsBytes(Then(b, x))
    BY <1>1, BytesOfPieces, ThenBytes DEF VarBytes, Data, Then
  <2>2. s = Then(b, t)
    BY <2>1, ThenRegrouped
  <2> HIDE DEF t, w
  <2>3. AfterVarInt(s) = t /\ _readVarInt(s) = w
    BY <1>w, <1>1, <2>2, CountRead
  <2> QED BY <2>1, <2>3 DEF t, w
<1>2. CASE ~(w < 253)
  <2> DEFINE b == Byte(253)
             l == LE(w, 2)
             h == Then(b, l)
             u == Then(l, t)
  <2>1. VarBytes(x) = Then(h, x)
    BY <1>2, Zenon DEF VarBytes, Then
  <2>2. IsBytes(b) /\ Width(b) = 1 /\ IsBytes(l) /\ Width(l) = 2
    BY BytesOfPieces DEF LE
  <2>3. Len(l) = 1 /\ l[1].says[2] = w
    BY DEF LE, Piece
  <2> HIDE DEF b, l, t, w
  <2>4. IsBytes(h) /\ Width(h) = 3 /\ IsBytes(u) /\ IsBytes(Then(h, x))
    BY <1>w, <2>2, ThenBytes, ThenWidth
  <2>5. s = Then(h, t)
    BY <2>1, <2>4, ThenRegrouped DEF t
  <2>6. s = Then(b, u)
    BY <1>w, <2>2, <2>5, ThenRegrouped
  <2>7. FirstByte(s) = 253 /\ Rest(s, 1) = u
    BY <2>4, <2>6, ByteThen DEF b
  <2>8. Rest(s, 3) = t
    BY <1>w, <2>4, <2>5, ThenCut
  <2>9. u[1].says[2] = w
    BY <1>w, <2>2, <2>3, FirstPiece
  <2> HIDE DEF h, u
  <2>10. AfterVarInt(s) = t /\ _readVarInt(s) = w
    BY <2>7, <2>8, <2>9 DEF AfterVarInt, _readVarInt
  <2> QED BY <2>1, <2>4, <2>10 DEF t, w
<1> QED BY <1>1, <1>2

\* The script of the first output of a raw transaction with one input is found.
LEMMA FirstScriptRead ==
    ASSUME NEW o,
           NEW sig, sig = Concat([i \in DOMAIN o.items |-> PushData(o.items[i])]), IsBytes(sig), Width(sig) < 253,
           NEW n \in 1..252, n = Len(o.outs),
           NEW value, NEW locking, IsBytes(locking), NEW z, IsBytes(z),
           OutputsBytes(o) = Then(Serialize(value, locking), z)
    PROVE  _firstOutputScript(toRaw(o)) = locking
<1>0. n \in Int /\ n < 253
  <2>1. \A k \in 1..252 : k \in Int /\ k < 253
    OBVIOUS
  <2> QED BY <2>1, Zenon
<1> DEFINE V == Piece("version", 2, 4)
           B == Byte(1)
           O == OutpointBytes(o.ins[1])
           D == VarBytes(sig)
           S == Piece("sequence", 0, 4)
           N == Byte(n)
           L == LE(value, 8)
           C == VarBytes(locking)
           K == Piece("locktime", 0, 4)
           t1 == Then(z, K)
           t2 == Then(C, t1)
           t3 == Then(L, t2)
           t4 == Then(N, t3)
           t5 == Then(S, t4)
           t6 == Then(D, t5)
           t7 == Then(O, t6)
           t8 == Then(B, t7)
           raw == Then(V, t8)
<1>1. /\ IsBytes(V) /\ Width(V) = 4 /\ IsBytes(B) /\ IsBytes(O) /\ Width(O) = 36 /\ IsBytes(S) /\ Width(S) = 4
      /\ IsBytes(N) /\ IsBytes(L) /\ Width(L) = 8 /\ IsBytes(K)
  BY BytesOfPieces, OutpointWidth DEF LE
<1>2. IsBytes(C) /\ IsBytes(D)
  <2>1. \A x : IsBytes(x) => IsBytes(VarBytes(x))
    BY CountedRead, NoBytes
  <2> QED BY <2>1
<1>3. toRaw(o) = Then(Then(Then(Then(Then(Then(Then(V, B), O), D), S), N), Then(Then(L, C), z)), K)
  <2>1. D = Data(sig)
    BY DEF VarBytes
  <2>2. OutputsBytes(o) = Then(Then(L, C), z)
    BY DEF Serialize, Then
  <2> HIDE DEF V, B, O, D, S, N, L, C, K
  <2> QED BY <2>1, <2>2, Zenon DEF toRaw, Then, V, B, O, S, N, K
<1> HIDE DEF V, B, O, D, S, N, L, C, K
<1>4. /\ IsBytes(t1) /\ IsBytes(t2) /\ IsBytes(t3) /\ IsBytes(t4) /\ IsBytes(t5) /\ IsBytes(t6) /\ IsBytes(t7)
      /\ IsBytes(t8)
  <2>1. IsBytes(t1)
    BY <1>1, ThenBytes
  <2> HIDE DEF t1
  <2>2. IsBytes(t2)
    BY <1>2, <2>1, ThenBytes
  <2> HIDE DEF t2
  <2>3. IsBytes(t3)
    BY <1>1, <2>2, ThenBytes
  <2> HIDE DEF t3
  <2>4. IsBytes(t4)
    BY <1>1, <2>3, ThenBytes
  <2> HIDE DEF t4
  <2>5. IsBytes(t5)
    BY <1>1, <2>4, ThenBytes
  <2> HIDE DEF t5
  <2>6. IsBytes(t6)
    BY <1>2, <2>5, ThenBytes
  <2> HIDE DEF t6
  <2>7. IsBytes(t7)
    BY <1>1, <2>6, ThenBytes
  <2> HIDE DEF t7
  <2>8. IsBytes(t8)
    BY <1>1, <2>7, ThenBytes
  <2> QED BY <2>1, <2>2, <2>3, <2>4, <2>5, <2>6, <2>7, <2>8
<1>5. toRaw(o) = raw
  <2> DEFINE p2 == Then(V, B)
             p3 == Then(p2, O)
             p4 == Then(p3, D)
             p5 == Then(p4, S)
             p6 == Then(p5, N)
             lc == Then(L, C)
             y == Then(lc, z)
  <2>1. IsBytes(p2) /\ IsBytes(p3) /\ IsBytes(p4) /\ IsBytes(p5) /\ IsBytes(p6) /\ IsBytes(lc) /\ IsBytes(y)
    BY <1>1, <1>2, ThenBytes
  <2>2. toRaw(o) = Then(Then(p6, y), K)
    BY <1>3
  <2>3. Then(Then(p6, y), K) = Then(p6, Then(y, K))
    BY <1>1, <2>1, ThenRegrouped
  <2>4. Then(y, K) = Then(lc, t1)
    BY <1>1, <2>1, ThenRegrouped
  <2>5. Then(lc, t1) = t3
    BY <1>1, <1>2, <1>4, ThenRegrouped
  <2>6. Then(p6, t3) = Then(p5, t4)
    BY <1>1, <1>4, <2>1, ThenRegrouped
  <2>7. Then(p5, t4) = Then(p4, t5)
    BY <1>1, <1>4, <2>1, ThenRegrouped
  <2>8. Then(p4, t5) = Then(p3, t6)
    BY <1>2, <1>4, <2>1, ThenRegrouped
  <2>9. Then(p3, t6) = Then(p2, t7)
    BY <1>1, <1>4, <2>1, ThenRegrouped
  <2>10. Then(p2, t7) = raw
    BY <1>1, <1>4, ThenRegrouped
  <2> HIDE DEF t1, t2, t3, t4, t5, t6, t7, t8, raw, p2, p3, p4, p5, p6, lc, y
  <2> QED BY <2>2, <2>3, <2>4, <2>5, <2>6, <2>7, <2>8, <2>9, <2>10
<1>6. Rest(raw, 4) = t8
  BY <1>1, <1>4, ThenCut
<1>7. AfterVarInt(t8) = t7 /\ _readVarInt(t8) = 1
  <2> HIDE DEF t7
  <2> QED BY <1>4, CountRead DEF B
<1>8. AfterInput(t7) = t4
  <2>1. Rest(t7, 36) = t6
    BY <1>1, <1>4, ThenCut
  <2>2. AfterVarInt(t6) = Then(sig, t5) /\ _readVarInt(t6) = Width(sig)
    <3> HIDE DEF t5
    <3> QED BY <1>4, CountedRead DEF D
  <2>3. Rest(Then(sig, t5), Width(sig) + 4) = t4
    <3> HIDE DEF t4
    <3> DEFINE q == Then(sig, S)
    <3>1. IsBytes(q)
      BY <1>1, ThenBytes
    <3>2. Then(sig, t5) = Then(q, t4)
      BY <1>1, <1>4, ThenRegrouped
    <3>3. Width(q) = Width(sig) + 4
      BY <1>1, ThenWidth
    <3> HIDE DEF q
    <3> QED BY <1>4, <3>1, <3>2, <3>3, ThenCut
  <2> HIDE DEF t4, t5, t6, t7
  <2> QED BY <2>1, <2>2, <2>3 DEF AfterInput
<1>9. AfterVarInt(t4) = t3
  <2>1. n \in Int /\ n < 253
    BY <1>0
  <2>2. t4 = Then(Byte(n), t3)
    BY DEF N
  <2> HIDE DEF t3, t4
  <2> QED BY <1>4, <2>1, <2>2, CountRead
<1>10. Rest(t3, 8) = t2
  BY <1>1, <1>4, ThenCut
<1>11. AfterVarInt(t2) = Then(locking, t1) /\ _readVarInt(t2) = Width(locking)
  <2> HIDE DEF t1
  <2> QED BY <1>4, CountedRead DEF C
<1>12. First(Then(locking, t1), Width(locking)) = locking
  BY <1>4, ThenCut
<1> HIDE DEF t1, t2, t3, t4, t5, t6, t7, t8, raw
<1>13. AfterInputs(t7)[1] = t4
  BY <1>8, AfterOneInput
<1> QED BY <1>5, <1>6, <1>7, <1>9, <1>10, <1>11, <1>12, <1>13 DEF _firstOutputScript

\* A push is at most two bytes longer than what it pushes.
LEMMA PushWidth ==
    ASSUME NEW x, IsBytes(x), Width(x) <= 255
    PROVE  IsBytes(PushData(x)) /\ Width(PushData(x)) \in Nat /\ Width(PushData(x)) <= Width(x) + 2
<1> DEFINE w == Width(x)
<1>w. w \in Nat
  BY ThenWidth
<1>0. IsBytes(PushData(x))
  BY PushOfField DEF IsPushOf
<1>1. CASE HasOpcode(x)
  <2>1. Width(PushData(x)) = 1
    BY <1>1, BytesOfPieces DEF PushData
  <2> QED BY <1>0, <1>w, <2>1
<1>2. IsBytes(Byte(w)) /\ Width(Byte(w)) = 1 /\ IsBytes(Byte(76)) /\ Width(Byte(76)) = 1
  BY BytesOfPieces
<1>3. CASE ~HasOpcode(x) /\ w <= 75
  <2>1. PushData(x) = Then(Byte(w), x)
    BY <1>3, Zenon DEF PushData, Data, Then
  <2>2. Width(PushData(x)) = 1 + w
    BY <1>2, <2>1, ThenWidth
  <2> QED BY <1>0, <1>w, <2>2
<1>4. CASE ~HasOpcode(x) /\ ~(w <= 75)
  <2>1. PushData(x) = Then(Byte(76), Then(Byte(w), x))
    BY <1>4, Zenon DEF PushData, Data, Then
  <2>2. IsBytes(Then(Byte(w), x)) /\ Width(Then(Byte(w), x)) = 1 + w
    BY <1>2, ThenBytes, ThenWidth
  <2>3. Width(PushData(x)) = 2 + w
    BY <1>2, <1>w, <2>1, <2>2, ThenWidth
  <2> QED BY <1>0, <1>w, <2>3
<1> QED BY <1>1, <1>3, <1>4

\* A length and its bytes are a byte longer than the bytes.
LEMMA DataWidth == \A x : IsBytes(x) => IsBytes(Data(x)) /\ Width(Data(x)) = 1 + Width(x)
<1>1. ASSUME NEW x, IsBytes(x) PROVE IsBytes(Data(x)) /\ Width(Data(x)) = 1 + Width(x)
  <2> DEFINE b == Byte(Width(x))
  <2>1. Data(x) = Then(b, x) /\ IsBytes(b) /\ Width(b) = 1
    BY BytesOfPieces DEF Data, Then
  <2> HIDE DEF b
  <2> QED BY <1>1, <2>1, ThenBytes, ThenWidth
<1> QED BY <1>1

\* What is left is as wide as the next string and what is left then.
LEMMA LeftWidth ==
    ASSUME NEW n \in Nat, NEW p, AreBytes(p, n)
    PROVE  /\ IsBytes(Concat(p)) /\ Width(Left(p, 0)) = Width(Concat(p)) /\ Width(Left(p, n)) = 0
           /\ \A i \in 1..n : Width(Left(p, i - 1)) = Width(p[i]) + Width(Left(p, i))
<1>1. /\ IsBytes(Concat(p)) /\ Left(p, 0) = Concat(p) /\ Left(p, n) = << >>
      /\ \A i \in 0..n : IsBytes(Left(p, i))
      /\ \A i \in 1..n : Left(p, i - 1) = Then(p[i], Left(p, i))
  BY LeftUnfold
<1>2. ASSUME NEW i \in 1..n PROVE Width(Left(p, i - 1)) = Width(p[i]) + Width(Left(p, i))
  <2>1. i \in 0..n /\ IsBytes(p[i])
    BY DEF AreBytes
  <2>2. IsBytes(Left(p, i)) /\ Left(p, i - 1) = Then(p[i], Left(p, i))
    BY <1>1, <2>1
  <2> QED BY <2>1, <2>2, ThenWidth
<1>3. Width(<< >>) = 0
  BY WidthOfNone
<1>4. Width(Left(p, 0)) = Width(Concat(p)) /\ Width(Left(p, n)) = 0
  BY <1>1, <1>3, Zenon
<1> QED BY <1>1, <1>2, <1>4

\* A ring is 80 bytes or 112.
LEMMA RingWidth ==
    ASSUME NEW key, NEW from, NEW type, NEW ring, ring = toOracleRing(key, from, type)
    PROVE  IsBytes(Concat(ring)) /\ Width(Concat(ring)) \in Nat /\ Width(Concat(ring)) <= 112
<1> DEFINE a == IF type = "out" THEN OP_DROP ELSE OP_NIP
           b == Piece("networkId", "ETH", 8)
           c == Piece("assetId", "lock", 32)
           d == IF from = "secret" THEN PubKey(key) ELSE Piece("uncompressed", key, 65)
<1>1. /\ IsBytes(a) /\ Width(a) = 1 /\ IsBytes(OP_DROP) /\ Width(OP_DROP) = 1
      /\ IsBytes(OP_CHECKSIG) /\ Width(OP_CHECKSIG) = 1
      /\ IsBytes(b) /\ Width(b) = 8 /\ IsBytes(c) /\ Width(c) = 32 /\ IsBytes(d) /\ Width(d) \in {33, 65}
  BY BytesOfPieces DEF OP_DROP, OP_NIP, OP_CHECKSIG, PubKey
<1>2. /\ ring[1] = a /\ ring[2] = Data(b) /\ ring[3] = OP_DROP /\ ring[4] = Data(c) /\ ring[5] = OP_DROP
      /\ ring[6] = Data(d) /\ ring[7] = OP_CHECKSIG /\ Len(ring) = 7
  BY DEF toOracleRing
<1> HIDE DEF a, b, c, d
<1>3. /\ IsBytes(Data(b)) /\ Width(Data(b)) = 9 /\ IsBytes(Data(c)) /\ Width(Data(c)) = 33
      /\ IsBytes(Data(d)) /\ Width(Data(d)) \in {34, 66}
  BY <1>1, DataWidth
<1>4. /\ IsBytes(ring[1]) /\ IsBytes(ring[2]) /\ IsBytes(ring[3]) /\ IsBytes(ring[4]) /\ IsBytes(ring[5])
      /\ IsBytes(ring[6]) /\ IsBytes(ring[7])
      /\ Width(ring[1]) = 1 /\ Width(ring[2]) = 9 /\ Width(ring[3]) = 1 /\ Width(ring[4]) = 33
      /\ Width(ring[5]) = 1 /\ Width(ring[6]) \in {34, 66} /\ Width(ring[7]) = 1
  BY <1>1, <1>2, <1>3
<1>5. AreBytes(ring, 7)
  BY <1>2, <1>4 DEF AreBytes
<1>6. /\ IsBytes(Concat(ring)) /\ Width(Left(ring, 0)) = Width(Concat(ring)) /\ Width(Left(ring, 7)) = 0
      /\ \A i \in 1..7 : Width(Left(ring, i - 1)) = Width(ring[i]) + Width(Left(ring, i))
  BY <1>5, LeftWidth
<1> DEFINE W(i) == Width(Left(ring, i))
<1>7. /\ W(0) = Width(ring[1]) + W(1) /\ W(1) = Width(ring[2]) + W(2) /\ W(2) = Width(ring[3]) + W(3)
      /\ W(3) = Width(ring[4]) + W(4) /\ W(4) = Width(ring[5]) + W(5) /\ W(5) = Width(ring[6]) + W(6)
      /\ W(6) = Width(ring[7]) + W(7) /\ W(7) = 0
  BY <1>6
<1> HIDE DEF W
<1>8. W(0) \in {80, 112}
  BY <1>4, <1>7
<1> QED BY <1>6, <1>8 DEF W

\* Three strings of so many bytes, pushed.
LEMMA PushedItems ==
    ASSUME NEW items, DOMAIN items = 1..3,
           IsBytes(items[1]), IsBytes(items[2]), IsBytes(items[3]),
           Width(items[1]) + Width(items[2]) <= 104, Width(items[3]) <= 112,
           NEW sig, sig = Concat([i \in DOMAIN items |-> PushData(items[i])])
    PROVE  IsBytes(sig) /\ Width(sig) < 253
<1> DEFINE p == [i \in 1..3 |-> PushData(items[i])]
<1>1. Len(p) = 3 /\ p[1] = PushData(items[1]) /\ p[2] = PushData(items[2]) /\ p[3] = PushData(items[3])
  OBVIOUS
<1>2. sig = Concat(p)
  OBVIOUS
<1> HIDE DEF p
<1>3. Width(items[1]) \in Nat /\ Width(items[2]) \in Nat /\ Width(items[3]) \in Nat
  BY ThenWidth
<1>4. Width(items[1]) <= 255 /\ Width(items[2]) <= 255 /\ Width(items[3]) <= 255
  BY <1>3
<1>5. /\ IsBytes(p[1]) /\ Width(p[1]) \in Nat /\ Width(p[1]) <= Width(items[1]) + 2
      /\ IsBytes(p[2]) /\ Width(p[2]) \in Nat /\ Width(p[2]) <= Width(items[2]) + 2
      /\ IsBytes(p[3]) /\ Width(p[3]) \in Nat /\ Width(p[3]) <= Width(items[3]) + 2
  BY <1>1, <1>4, PushWidth
<1>6. AreBytes(p, 3)
  BY <1>1, <1>5 DEF AreBytes
<1>7. /\ IsBytes(Concat(p)) /\ Width(Left(p, 0)) = Width(Concat(p)) /\ Width(Left(p, 3)) = 0
      /\ \A i \in 1..3 : Width(Left(p, i - 1)) = Width(p[i]) + Width(Left(p, i))
  BY <1>6, LeftWidth
<1> DEFINE W(i) == Width(Left(p, i))
<1>8. W(3) = 0 /\ W(0) = Width(p[1]) + W(1) /\ W(1) = Width(p[2]) + W(2) /\ W(2) = Width(p[3]) + W(3)
  BY <1>7
<1> HIDE DEF W
<1>9. W(0) < 253
  BY <1>3, <1>5, <1>8
<1> QED BY <1>2, <1>7, <1>9 DEF W

\* What the issuer signs is shorter than a length of one byte can say.
LEMMA ScriptSig ==
    ASSUME NEW key, NEW from, NEW type, NEW outs, NEW c, c.ring = toOracleRing(key, from, type), NEW transactionId,
           NEW items, items = fundOracleTx(outs, c, transactionId),
           NEW sig, sig = Concat([i \in DOMAIN items |-> PushData(items[i])])
    PROVE  IsBytes(sig) /\ Width(sig) < 253
<1> DEFINE a == Signature(KeyOf(c.ring), HASH256(getPreimage(SigningOracle(c, outs), Concat(c.ring), c.value)))
           s == a \o TypeBytes(SignsAll, 1)
           r == Concat(c.ring)
           d == Piece("depositTx", transactionId, 32)
<1>1. items = <<s, Byte(27), r>> \/ items = <<d, s, r>>
  BY Zenon DEF fundOracleTx
<1>2. IsBytes(s) /\ Width(s) = 72
  <2>1. IsBytes(a) /\ Width(a) = 71 /\ IsBytes(TypeBytes(SignsAll, 1)) /\ Width(TypeBytes(SignsAll, 1)) = 1
    BY BytesOfPieces DEF Signature, TypeBytes
  <2>2. s = Then(a, TypeBytes(SignsAll, 1))
    BY DEF Then
  <2> HIDE DEF s, a
  <2> QED BY <2>1, <2>2, ThenBytes, ThenWidth
<1>3. IsBytes(r) /\ Width(r) <= 112
  BY RingWidth
<1>4. IsBytes(d) /\ Width(d) = 32 /\ IsBytes(Byte(27)) /\ Width(Byte(27)) = 1
  BY BytesOfPieces
<1> HIDE DEF s, r, d
<1>5. /\ DOMAIN items = 1..3 /\ IsBytes(items[1]) /\ IsBytes(items[2]) /\ IsBytes(items[3])
      /\ Width(items[1]) + Width(items[2]) <= 104 /\ Width(items[3]) <= 112
  <2>1. CASE items = <<s, Byte(27), r>>
    BY <1>2, <1>3, <1>4, <2>1
  <2>2. CASE items = <<d, s, r>>
    BY <1>2, <1>3, <1>4, <2>2
  <2> QED BY <1>1, <2>1, <2>2
<1> QED BY <1>5, PushedItems

-----------------------------------------------------------------------------
(* What a lock may be constructed with *)

\* The fields of a genesis are bytes.
LEMMA FieldBytes == \A s : IsString(s) => IsBytes(s)
BY Zenon DEF IsString, IsBytes, Bytes

\* An output is bytes when its script is.
LEMMA SerializedBytes == \A value, r : IsBytes(r) => IsBytes(Serialize(value, r))
<1>1. ASSUME NEW value, NEW r, IsBytes(r) PROVE IsBytes(Serialize(value, r))
  <2>1. \A x : IsBytes(x) => IsBytes(VarBytes(x))
    BY CountedRead, NoBytes
  <2>2. IsBytes(LE(value, 8))
    BY BytesOfPieces DEF LE
  <2>3. Serialize(value, r) = Then(LE(value, 8), VarBytes(r))
    BY DEF Serialize, Then
  <2> QED BY <1>1, <2>1, <2>2, <2>3, ThenBytes
<1> QED BY <1>1

\* The outputs of a transaction begin with the first.
LEMMA FirstOutput ==
    ASSUME NEW o, NEW n \in Nat \ {0}, DOMAIN o.outs = 1..n, \A i \in 1..n : IsBytes(OutputBytes(o.outs[i]))
    PROVE  \E z : IsBytes(z) /\ OutputsBytes(o) = Then(OutputBytes(o.outs[1]), z)
<1> DEFINE p == [i \in 1..n |-> OutputBytes(o.outs[i])]
<1>1. OutputsBytes(o) = Concat(p)
  BY DEF OutputsBytes
<1>2. Len(p) = n /\ p[1] = OutputBytes(o.outs[1]) /\ \A i \in 1..n : IsBytes(p[i])
  OBVIOUS
<1> HIDE DEF p
<1>3. AreBytes(p, n)
  BY <1>2 DEF AreBytes
<1>4. /\ Left(p, 0) = Concat(p) /\ \A i \in 0..n : IsBytes(Left(p, i))
      /\ \A i \in 1..n : Left(p, i - 1) = Then(p[i], Left(p, i))
  BY <1>3, LeftUnfold
<1>5. 1 \in 1..n /\ 1 \in 0..n
  OBVIOUS
<1>6. Left(p, 1 - 1) = Then(p[1], Left(p, 1)) /\ IsBytes(Left(p, 1))
  BY <1>4, <1>5
<1>7. OutputsBytes(o) = Then(OutputBytes(o.outs[1]), Left(p, 1))
  BY <1>1, <1>2, <1>4, <1>6
<1> QED BY <1>6, <1>7

\* A transaction that the issuer signed, with these outputs or others.
LEMMA ScriptFound ==
    ASSUME NEW ring \in Issuers, NEW m, NEW o, o.items = buildGenesisTx(ring, m).items,
           NEW n \in 1..252, Len(o.outs) = n, DOMAIN o.outs = 1..n,
           \A i \in 1..n : IsBytes(OutputBytes(o.outs[i])),
           NEW value, NEW locking, IsBytes(locking), OutputBytes(o.outs[1]) = Serialize(value, locking)
    PROVE  _firstOutputScript(toRaw(o)) = locking
<1> DEFINE c == [txid |-> "funds", index |-> 0, value |-> GENESIS_TX_SATS, ring |-> ring]
           outs == <<Raw(Serialize(0, buildGenesisOpReturnV2(m, MintVault(ring)))), Lock(ring, ORACLE_TX_SATS)>>
           items == fundOracleTx(outs, c, "")
           sig == Concat([i \in DOMAIN o.items |-> PushData(o.items[i])])
<1>1. PICK key \in Keys, from \in {"secret", "ring"}, type \in {"genesis", "in", "out"} :
         ring = toOracleRing(key, from, type)
  BY DeploymentAssumption
<1>2. o.items = items
  BY Zenon DEF buildGenesisTx
<1>3. c.ring = ring
  OBVIOUS
<1> HIDE DEF c, outs
<1>4. IsBytes(sig) /\ Width(sig) < 253
  <2>1. sig = Concat([i \in DOMAIN items |-> PushData(items[i])])
    BY <1>2
  <2> HIDE DEF items, sig
  <2>2. items = fundOracleTx(outs, c, "")
    BY DEF items
  <2> QED BY <1>1, <1>3, <2>1, <2>2, ScriptSig
<1>5. PICK z : IsBytes(z) /\ OutputsBytes(o) = Then(OutputBytes(o.outs[1]), z)
  <2>1. n \in Nat \ {0}
    OBVIOUS
  <2> QED BY <2>1, FirstOutput
<1>6. OutputsBytes(o) = Then(Serialize(value, locking), z)
  BY <1>5
<1> HIDE DEF sig, items
<1>7. sig = Concat([i \in DOMAIN o.items |-> PushData(o.items[i])])
  BY DEF sig
<1> QED BY <1>4, <1>5, <1>6, <1>7, FirstScriptRead

\* The script of a lock is no genesis.
LEMMA LockIsNone == \A name : IsBytes(P2SH(name)) /\ ~IsGenesis(P2SH(name))
<1>1. ASSUME NEW name PROVE IsBytes(P2SH(name)) /\ ~IsGenesis(P2SH(name))
  <2> DEFINE a == Byte(169)
             b == Data(Piece("hash160", name, 20))
             c == Byte(135)
             s == P2SH(name)
  <2>1. IsBytes(a) /\ IsBytes(b) /\ IsBytes(c)
    BY BytesOfPieces, DataWidth
  <2>2. s = Then(Then(a, b), c)
    BY DEF P2SH, Then
  <2> HIDE DEF s, b, c
  <2>3. s = Then(a, Then(b, c)) /\ IsBytes(Then(b, c))
    BY <2>1, <2>2, ThenRegrouped, ThenBytes
  <2>4. IsBytes(s) /\ FirstByte(s) = 169
    BY <2>3, ByteThen
  <2>5. ~IsGenesis(s)
    BY <2>4 DEF IsGenesis
  <2> QED BY <2>4, <2>5 DEF s
<1> QED BY <1>1

\* Nor is that of a mint.
LEMMA MintIsNone ==
    ASSUME NEW quantity, NEW s, s = buildMintOpReturnV2(TokenId(Token), quantity)
    PROVE  IsBytes(s) /\ ~IsGenesis(s)
<1> DEFINE a == Byte(106)
           x == Piece("ascii", "SLP", 4)
           y == Byte(2)
           z == Piece("ascii", "MINT", 4)
           p == PushData(x)
           q == PushPush(y)
           u == PushData(z)
           v == PushData(TokenId(Token))
           w == PushData(BE(quantity, 8))
<1>1. /\ IsPushOf(p, x, TRUE) /\ IsPushOf(u, z, TRUE) /\ IsBytes(v) /\ IsBytes(w)
  <2>1. /\ IsBytes(x) /\ Width(x) = 4 /\ IsBytes(z) /\ Width(z) = 4
        /\ IsBytes(TokenId(Token)) /\ IsBytes(BE(quantity, 8))
    BY BytesOfPieces DEF TokenId, BE
  <2>2. Width(x) \in 2..75 /\ Width(z) \in 2..75
    BY <2>1
  <2>3. \A b : IsBytes(b) => IsBytes(PushData(b))
    BY PushOfField DEF IsPushOf
  <2>4. \A b : IsBytes(b) /\ Width(b) \in 2..75 => IsPushOf(PushData(b), b, TRUE)
    BY PushOfFixed
  <2> QED BY <2>1, <2>2, <2>3, <2>4, Zenon
<1>2. IsPushOf(q, y, TRUE)
  <2>1. IsBytes(y) /\ Width(y) = 1 /\ Width(y) <= 75
    BY BytesOfPieces
  <2>2. \A b : IsBytes(b) /\ Width(b) <= 75 => IsPushOf(Data(b), b, TRUE)
    BY PushOfData
  <2> QED BY <2>1, <2>2, Zenon DEF PushPush
<1>3. z # Piece("ascii", "GENESIS", 7)
  <2>1. z[1].width = 4 /\ Piece("ascii", "GENESIS", 7)[1].width = 7
    BY DEF Piece
  <2> HIDE DEF z
  <2> QED BY <2>1
<1>4. s = Then(Then(Then(Then(Then(a, p), q), u), v), w)
  BY DEF buildMintOpReturnV2, Then
<1>5. IsBytes(a) /\ IsBytes(p) /\ IsBytes(q) /\ IsBytes(u)
  BY <1>1, <1>2, BytesOfPieces DEF IsPushOf
<1> HIDE DEF x, y, z, p, q, u, v, w
<1> DEFINE t == Then(v, w)
           r == Then(q, Then(u, t))
<1>6. IsBytes(t) /\ IsBytes(Then(u, t)) /\ IsBytes(r) /\ IsBytes(Then(p, r))
  BY <1>1, <1>5, ThenBytes
<1>7. s = Then(a, Then(p, r))
  <2> DEFINE s2 == Then(a, p)
             s3 == Then(s2, q)
             s4 == Then(s3, u)
  <2>1. IsBytes(s2) /\ IsBytes(s3) /\ IsBytes(s4)
    BY <1>5, ThenBytes
  <2>2. s = Then(Then(s4, v), w)
    BY <1>4
  <2>3. Then(Then(s4, v), w) = Then(s4, t)
    BY <1>1, <2>1, ThenRegrouped
  <2>4. Then(s4, t) = Then(s3, Then(u, t))
    BY <1>5, <1>6, <2>1, ThenRegrouped
  <2>5. Then(s3, Then(u, t)) = Then(s2, r)
    BY <1>5, <1>6, <2>1, ThenRegrouped
  <2>6. Then(s2, r) = Then(a, Then(p, r))
    BY <1>5, <1>6, <2>1, ThenRegrouped
  <2> HIDE DEF s2, s3, s4, t, r
  <2> QED BY <2>2, <2>3, <2>4, <2>5, <2>6
<1> HIDE DEF t
<1>8. s = Then(Byte(106), Then(p, Then(q, Then(u, t))))
  BY <1>7
<1> QED BY <1>1, <1>2, <1>3, <1>6, <1>8, OtherThirdPush

\* Nor is that of an attestation.
LEMMA AttestationIsNone ==
    ASSUME NEW quantity, NEW s, s = Concat(OracleOpReturn(Oracle("in", <<Mint(quantity)>>)))
    PROVE  IsBytes(s) /\ ~IsGenesis(s)
<1> DEFINE o == Oracle("in", <<Mint(quantity)>>)
           x == Piece("ascii", "CTRL", 4)
           ops == OracleOpReturn(o)
           p == PushData(x)
           one == PushPush(Byte(1))
           content == buildInOracle(o.to)
           q == PushData(content)
<1>1. o.kind = "in" /\ o.to = <<Mint(quantity)>>
  BY DEF Oracle
<1>2. ops = <<Byte(106), p, one, one, q>>
  BY <1>1 DEF OracleOpReturn
<1>3. IsPushOf(p, x, TRUE) /\ IsBytes(p)
  <2>1. IsBytes(x) /\ Width(x) = 4
    BY BytesOfPieces
  <2>2. Width(x) \in 2..75
    BY <2>1
  <2>3. \A b : IsBytes(b) /\ Width(b) \in 2..75 => IsPushOf(PushData(b), b, TRUE)
    BY PushOfFixed
  <2> HIDE DEF x
  <2> QED BY <2>1, <2>2, <2>3 DEF IsPushOf
<1>4. IsBytes(one) /\ IsBytes(Byte(106))
  BY BytesOfPieces, DataWidth DEF PushPush
<1>5. IsBytes(q)
  <2> DEFINE b == PlainOutputBytes(Mint(quantity))
             bs == [i \in DOMAIN o.to |-> PlainOutputBytes(o.to[i])]
  <2>1. b = Serialize(0, buildMintOpReturnV2(TokenId(Token), quantity))
    BY DEF PlainOutputBytes, Mint
  <2>2. IsBytes(b)
    BY <2>1, MintIsNone, SerializedBytes
  <2>3. Len(bs) = 1 /\ bs[1] = b
    BY <1>1
  <2> HIDE DEF b, bs
  <2>4. AreBytes(bs, 1)
    BY <2>2, <2>3 DEF AreBytes
  <2>5. IsBytes(Concat(bs))
    BY <2>4, LeftUnfold
  <2>6. content = Concat(bs)
    BY Zenon DEF buildInOracle, bs
  <2>7. \A c : IsBytes(c) => IsBytes(PushData(c))
    BY PushOfField DEF IsPushOf
  <2> QED BY <2>5, <2>6, <2>7, Zenon
<1>6. x # Piece("ascii", "SLP", 4)
  <2>1. x[1].says[2] = "CTRL" /\ Piece("ascii", "SLP", 4)[1].says[2] = "SLP" /\ "CTRL" # "SLP"
    BY DEF Piece
  <2> HIDE DEF x
  <2> QED BY <2>1
<1> HIDE DEF x, p, one, q
<1>7. ops[1] = Byte(106) /\ ops[2] = p /\ ops[3] = one /\ ops[4] = one /\ ops[5] = q /\ Len(ops) = 5
  BY <1>2
<1>8. s = Concat(ops)
  OBVIOUS
<1> HIDE DEF ops
<1>9. AreBytes(ops, 5)
  BY <1>3, <1>4, <1>5, <1>7 DEF AreBytes
<1>10. /\ Left(ops, 0) = Concat(ops) /\ \A i \in 0..5 : IsBytes(Left(ops, i))
       /\ \A i \in 1..5 : Left(ops, i - 1) = Then(ops[i], Left(ops, i))
  BY <1>9, LeftUnfold
<1> DEFINE r == Left(ops, 2)
<1>11. Left(ops, 1 - 1) = Then(Byte(106), Left(ops, 1)) /\ Left(ops, 2 - 1) = Then(p, r) /\ IsBytes(r)
  BY <1>7, <1>10
<1> HIDE DEF r
<1>12. s = Then(Byte(106), Then(p, r))
  BY <1>8, <1>10, <1>11
<1> QED BY <1>3, <1>6, <1>11, <1>12, OtherFirstPush

\* What the contract makes of a genesis.
SaysOf(ring, m) ==
    [ticker |-> m.ticker, name |-> m.name, decimals |-> m.decimals,
     mintVaultScripthash |-> MintVault(ring), genesisQuantity |-> m.quantity]

\* The genesis with its outputs swapped, or with one other output.
LEMMA NotTheGenesis ==
    ASSUME NEW ring \in Issuers, NEW m, NEW o, o.items = buildGenesisTx(ring, m).items,
           NEW g, IsBytes(g), NEW sats,
           \/ o.outs = <<Lock(ring, sats), Raw(Serialize(0, g))>>
           \/ o.outs = <<Mint(5)>>
           \/ o.outs = <<Oracle("in", <<Mint(5)>>)>>
    PROVE  ~IsGenesis(_firstOutputScript(toRaw(o)))
<1>1. CASE o.outs = <<Lock(ring, sats), Raw(Serialize(0, g))>>
  <2> DEFINE a == Lock(ring, sats)
             b == Raw(Serialize(0, g))
             locking == P2SH(ring)
  <2>1. OutputBytes(a) = Serialize(sats, locking) /\ OutputBytes(b) = Serialize(0, g)
    BY DEF OutputBytes, PlainOutputBytes, Lock, Raw
  <2>2. IsBytes(locking) /\ ~IsGenesis(locking)
    BY LockIsNone
  <2>3. IsBytes(OutputBytes(a)) /\ IsBytes(OutputBytes(b))
    BY <2>1, <2>2, SerializedBytes
  <2> HIDE DEF a, b, locking
  <2>4. Len(o.outs) = 2 /\ DOMAIN o.outs = 1..2 /\ o.outs[1] = a /\ o.outs[2] = b
    BY <1>1 DEF a, b
  <2>5. \A i \in 1..2 : IsBytes(OutputBytes(o.outs[i]))
    <3>1. \A i \in 1..2 : i = 1 \/ i = 2
      OBVIOUS
    <3> QED BY <2>3, <2>4, <3>1, Zenon
  <2>6. 2 \in 1..252
    OBVIOUS
  <2>7. _firstOutputScript(toRaw(o)) = locking
    BY <2>1, <2>2, <2>4, <2>5, <2>6, ScriptFound
  <2> QED BY <2>2, <2>7
<1>2. ASSUME NEW a, o.outs = <<a>>, NEW locking, IsBytes(locking), OutputBytes(a) = Serialize(0, locking)
      PROVE  _firstOutputScript(toRaw(o)) = locking
  <2>1. Len(o.outs) = 1 /\ DOMAIN o.outs = 1..1 /\ o.outs[1] = a /\ 1 \in 1..252
    BY <1>2
  <2>2. IsBytes(OutputBytes(a))
    BY <1>2, SerializedBytes
  <2>3. \A i \in 1..1 : IsBytes(OutputBytes(o.outs[i]))
    <3>1. \A i \in 1..1 : i = 1
      OBVIOUS
    <3> QED BY <2>1, <2>2, <3>1, Zenon
  <2> QED BY <1>2, <2>1, <2>3, ScriptFound
<1>3. CASE o.outs = <<Mint(5)>>
  <2> DEFINE locking == buildMintOpReturnV2(TokenId(Token), 5)
  <2>1. OutputBytes(Mint(5)) = Serialize(0, locking)
    BY DEF OutputBytes, PlainOutputBytes, Mint
  <2>2. IsBytes(locking) /\ ~IsGenesis(locking)
    BY MintIsNone
  <2> HIDE DEF locking
  <2> QED BY <1>2, <1>3, <2>1, <2>2
<1>4. CASE o.outs = <<Oracle("in", <<Mint(5)>>)>>
  <2> DEFINE a == Oracle("in", <<Mint(5)>>)
             locking == Concat(OracleOpReturn(a))
  <2>1. OutputBytes(a) = Serialize(0, locking)
    BY DEF OutputBytes, Oracle
  <2>2. IsBytes(locking) /\ ~IsGenesis(locking)
    BY AttestationIsNone
  <2>3. o.outs = <<a>>
    BY <1>4
  <2> HIDE DEF a, locking
  <2> QED BY <1>2, <2>1, <2>2, <2>3
<1> QED BY <1>1, <1>3, <1>4

\* The genesis itself.
LEMMA TheGenesis ==
    ASSUME NEW ring \in Issuers, NEW m \in Metadata, NEW s, s = _firstOutputScript(toRaw(buildGenesisTx(ring, m)))
    PROVE  /\ IsBytes(buildGenesisOpReturnV2(m, MintVault(ring)))
           /\ IsGenesis(s) => _parseGenesisOpReturn(s) = SaysOf(ring, m)
           /\ CanRead(m.ticker) /\ CanRead(m.name) /\ CanRead(m.url) /\ Width(m.docHash) \in {0, 32} =>
                 IsGenesis(s) /\ _parseGenesisOpReturn(s) = SaysOf(ring, m)
<1> DEFINE v == MintVault(ring)
           g == buildGenesisOpReturnV2(m, v)
           o == buildGenesisTx(ring, m)
           a == Raw(Serialize(0, g))
           b == Lock(ring, ORACLE_TX_SATS)
<1>1. IsBytes(m.ticker) /\ IsBytes(m.name) /\ IsBytes(m.url) /\ IsBytes(m.docHash)
  <2>1. IsString(m.ticker) /\ IsString(m.name) /\ IsString(m.url) /\ IsString(m.docHash)
    BY DeploymentAssumption
  <2> QED BY <2>1, FieldBytes
<1>2. IsBytes(v) /\ Width(v) = 20
  BY BytesOfPieces DEF MintVault
<1>3. o.outs = <<a, b>>
  BY DEF buildGenesisTx
<1>4. OutputBytes(a) = Serialize(0, g) /\ OutputBytes(b) = Serialize(ORACLE_TX_SATS, P2SH(ring))
  BY DEF OutputBytes, PlainOutputBytes, Lock, Raw
<1> HIDE DEF v, a, b
<1>5. /\ IsBytes(g)
      /\ IsGenesis(g) => _parseGenesisOpReturn(g) = SaysOf(ring, m)
      /\ CanRead(m.ticker) /\ CanRead(m.name) /\ CanRead(m.url) /\ Width(m.docHash) \in {0, 32} =>
            IsGenesis(g) /\ _parseGenesisOpReturn(g) = SaysOf(ring, m)
  <2>1. SaysOf(ring, m) =
           [ticker |-> m.ticker, name |-> m.name, decimals |-> m.decimals,
            mintVaultScripthash |-> v, genesisQuantity |-> m.quantity]
    BY DEF SaysOf, v
  <2> DEFINE says == SaysOf(ring, m)
  <2> HIDE DEF says, g
  <2>2. g = buildGenesisOpReturnV2(m, v)
    BY DEF g
  <2>3. /\ IsBytes(g)
        /\ IsGenesis(g) =>
              _parseGenesisOpReturn(g) =
                 [ticker |-> m.ticker, name |-> m.name, decimals |-> m.decimals,
                  mintVaultScripthash |-> v, genesisQuantity |-> m.quantity]
        /\ CanRead(m.ticker) /\ CanRead(m.name) /\ CanRead(m.url) /\ Width(m.docHash) \in {0, 32} =>
              /\ IsGenesis(g)
              /\ _parseGenesisOpReturn(g) =
                    [ticker |-> m.ticker, name |-> m.name, decimals |-> m.decimals,
                     mintVaultScripthash |-> v, genesisQuantity |-> m.quantity]
    BY <1>1, <1>2, <2>2, GenesisRead
  <2> QED BY <2>1, <2>3, Zenon
<1> HIDE DEF g
<1>6. s = g
  <2>1. IsBytes(OutputBytes(a)) /\ IsBytes(OutputBytes(b))
    BY <1>4, <1>5, LockIsNone, SerializedBytes
  <2>2. Len(o.outs) = 2 /\ DOMAIN o.outs = 1..2 /\ o.outs[1] = a /\ o.outs[2] = b /\ 2 \in 1..252
    <3> HIDE DEF o
    <3> QED BY <1>3
  <2>3. \A i \in 1..2 : IsBytes(OutputBytes(o.outs[i]))
    <3>1. \A i \in 1..2 : i = 1 \/ i = 2
      OBVIOUS
    <3> QED BY <2>1, <2>2, <3>1, Zenon
  <2>4. s = _firstOutputScript(toRaw(o)) /\ o.items = buildGenesisTx(ring, m).items
    OBVIOUS
  <2> HIDE DEF o
  <2>5. OutputBytes(o.outs[1]) = Serialize(0, g)
    BY <1>4, <2>2
  <2>6. _firstOutputScript(toRaw(o)) = g
    BY <1>5, <2>2, <2>3, <2>4, <2>5, ScriptFound
  <2> QED BY <2>4, <2>6
<1> QED BY <1>5, <1>6 DEF g, v

\* What the constructor reads, of whatever it is given.
LEMMA PresentedRead ==
    ASSUME NEW ring \in Issuers, NEW m \in Metadata, issued = [tx |-> buildGenesisTx(ring, m), metadata |-> m],
           NEW o \in Presented, NEW s, s = _firstOutputScript(toRaw(o))
    PROVE  /\ IsGenesis(s) => o = issued.tx /\ _parseGenesisOpReturn(s) = SaysOf(ring, m)
           /\ /\ o = issued.tx /\ CanRead(m.ticker) /\ CanRead(m.name) /\ CanRead(m.url)
              /\ Width(m.docHash) \in {0, 32}
              => IsGenesis(s) /\ _parseGenesisOpReturn(s) = SaysOf(ring, m)
<1> DEFINE tx == buildGenesisTx(ring, m)
           g == buildGenesisOpReturnV2(m, MintVault(ring))
           a == Raw(Serialize(0, g))
           b == Lock(ring, ORACLE_TX_SATS)
<1>1. CASE o = tx
  BY <1>1, TheGenesis
<1>2. CASE o # tx
  <2>1. /\ tx = [ins |-> tx.ins, outs |-> tx.outs, items |-> tx.items] /\ tx.outs = <<a, b>>
    BY DEF buildGenesisTx
  <2>2. issued.tx = tx
    OBVIOUS
  <2>3. IsBytes(g)
    BY TheGenesis
  <2> HIDE DEF tx, a, b, g
  <2>4. tx.outs[1] = a /\ tx.outs[2] = b
    BY <2>1
  <2>5. \/ o = [tx EXCEPT !.outs = <<tx.outs[2], tx.outs[1]>>]
        \/ o = [tx EXCEPT !.outs = <<Mint(5)>>]
        \/ o = [tx EXCEPT !.outs = <<Oracle("in", <<Mint(5)>>)>>]
    BY <1>2, <2>2 DEF Presented
  <2>6. \A y : [tx EXCEPT !.outs = y].items = tx.items /\ [tx EXCEPT !.outs = y].outs = y
    BY <2>1
  <2>7. /\ o.items = tx.items
        /\ o.outs = <<b, a>> \/ o.outs = <<Mint(5)>> \/ o.outs = <<Oracle("in", <<Mint(5)>>)>>
    BY <2>4, <2>5, <2>6
  <2>8. ~IsGenesis(s)
    BY <2>3, <2>7, NotTheGenesis DEF tx, a, b
  <2> QED BY <1>2, <2>2, <2>8
<1> QED BY <1>1, <1>2

-----------------------------------------------------------------------------
(* The deployment *)

\* What was issued is a genesis; what a lock was constructed with is decided for good.
IssuedIsGenesis ==
    issued # << >> => \E ring \in Issuers, m \in Metadata :
        issued = [tx |-> buildGenesisTx(ring, m), metadata |-> m]
LockIsBuilt ==
    outcome = "deployed" =>
        /\ lock.args \in Deployments /\ lock.genesis.decimals \in Nat
        /\ lock.feeAmountXec = FeeAmountXec(lock.args.fee, lock.args.tokenDecimals, lock.genesis.decimals)
        /\ FeeFits(lock.args.fee, lock.feeAmountXec)
DeployInv ==
    /\ IssuedIsGenesis
    /\ issued = << >> => outcome = "none"
    /\ LockIsBuilt /\ DeployedAsIssued /\ IssuedIsDeployable

\* Nothing is issued at first.
LEMMA DeployInvInit == DeployInit => DeployInv
BY DEF DeployInit, DeployInv, IssuedIsGenesis, LockIsBuilt, DeployedAsIssued, IssuedIsDeployable

\* A genesis is issued.
LEMMA IssueStep ==
    ASSUME DeployInv, NEW ring \in Issuers, NEW m \in Metadata, Issue(ring, m)
    PROVE  DeployInv'
<1> DEFINE i == [tx |-> buildGenesisTx(ring, m), metadata |-> m]
<1>1. issued' = i /\ outcome' = outcome /\ outcome = "none"
  BY DEF Issue, DeployInv
<1>2. IssuedIsGenesis'
  BY <1>1 DEF IssuedIsGenesis
<1>3. outcome' = "none"
  BY <1>1
<1> QED BY <1>2, <1>3 DEF DeployInv, LockIsBuilt, DeployedAsIssued, IssuedIsDeployable

\* The ring of a genesis.
LEMMA RingIssued ==
    ASSUME NEW ring, NEW m
    PROVE  buildGenesisTx(ring, m).ins[1].ring = ring
<1> DEFINE coin == [txid |-> "funds", index |-> 0, value |-> GENESIS_TX_SATS, ring |-> ring]
<1>1. buildGenesisTx(ring, m).ins = <<coin>>
  BY DEF buildGenesisTx
<1>2. coin.ring = ring
  OBVIOUS
<1> HIDE DEF coin
<1> QED BY <1>1, <1>2

\* A constructor runs.
LEMMA ConstructStep ==
    ASSUME DeployInv, NEW o \in Presented, NEW args \in Deployments, Construct(o, args)
    PROVE  DeployInv'
<1>1. issued # << >> /\ issued' = issued /\ tried' = [tx |-> o, args |-> args]
  BY DEF Construct
<1>2. PICK ring \in Issuers, m \in Metadata : issued = [tx |-> buildGenesisTx(ring, m), metadata |-> m]
  BY <1>1 DEF DeployInv, IssuedIsGenesis
<1> DEFINE s == _firstOutputScript(toRaw(o))
           says == _parseGenesisOpReturn(s)
           feeXec == FeeAmountXec(args.fee, args.tokenDecimals, says.decimals)
           tx == buildGenesisTx(ring, m)
           accepts == /\ args.authorizer # "zero" /\ args.refundDelay # 0
                      /\ IsGenesis(s) /\ says.decimals <= MaxXecDecimals
                      /\ FeeFits(args.fee, feeXec)
           built == [genesis |-> says, args |-> args, feeAmountXec |-> feeXec,
                     xecTokenId |-> _reverseBytes32(HASH256(toRaw(o)))]
<1>3. IF accepts THEN outcome' = "deployed" /\ lock' = built ELSE outcome' = "reverted" /\ lock' = << >>
  BY Zenon DEF Construct
<1>4. issued.tx = tx /\ issued.metadata = m /\ tx.ins[1].ring = ring
  BY <1>2, RingIssued
<1>5. /\ IsGenesis(s) => o = tx /\ says = SaysOf(ring, m)
      /\ /\ o = tx /\ CanRead(m.ticker) /\ CanRead(m.name) /\ CanRead(m.url)
         /\ Width(m.docHash) \in {0, 32}
         => IsGenesis(s) /\ says = SaysOf(ring, m)
  BY <1>2, <1>4, PresentedRead
<1>6. /\ m.decimals \in Nat /\ args.tokenDecimals \in Nat /\ args.fee \in Nat /\ args.refundDelay \in Nat
  BY DeploymentAssumption
<1>7. SaysOf(ring, m).decimals = m.decimals
  BY DEF SaysOf
<1> HIDE DEF s, says, feeXec, tx
<1>8. IssuedIsGenesis' /\ issued' # << >>
  BY <1>1, <1>2 DEF IssuedIsGenesis
<1>9. CASE accepts
  <2>1. outcome' = "deployed" /\ lock' = built
    BY <1>3, <1>9
  <2>2. o = tx /\ says = SaysOf(ring, m)
    BY <1>5, <1>9
  <2>3. /\ built.genesis = says /\ built.args = args /\ built.feeAmountXec = feeXec
        /\ built.xecTokenId = _reverseBytes32(HASH256(toRaw(o)))
    OBVIOUS
  <2> HIDE DEF built
  <2>4. LockIsBuilt'
    <3>1. built.args \in Deployments /\ built.genesis.decimals \in Nat
      BY <1>6, <1>7, <2>2, <2>3
    <3>2. built.feeAmountXec = FeeAmountXec(built.args.fee, built.args.tokenDecimals, built.genesis.decimals)
      BY <2>3, Zenon DEF feeXec
    <3>3. FeeFits(built.args.fee, built.feeAmountXec)
      BY <1>9, <2>3
    <3> QED BY <2>1, <3>1, <3>2, <3>3 DEF LockIsBuilt
  <2>5. DeployedAsIssued'
    <3>1. lock'.xecTokenId = _reverseBytes32(HASH256(toRaw(issued'.tx)))
      BY <1>1, <1>4, <2>1, <2>2, <2>3
    <3>2. lock'.genesis = SaysOf(ring, m) /\ issued'.metadata = m /\ issued'.tx.ins[1].ring = ring
      BY <1>1, <1>4, <2>1, <2>2, <2>3
    <3>3. LET n == issued'.metadata
          IN  lock'.genesis = [ticker |-> n.ticker, name |-> n.name, decimals |-> n.decimals,
                               mintVaultScripthash |-> MintVault(issued'.tx.ins[1].ring),
                               genesisQuantity |-> n.quantity]
      BY <3>2, Zenon DEF SaysOf
    <3> QED BY <3>1, <3>3, Zenon DEF DeployedAsIssued
  <2>6. IssuedIsDeployable'
    BY <2>1 DEF IssuedIsDeployable
  <2> QED BY <1>8, <2>4, <2>5, <2>6 DEF DeployInv
<1>10. CASE ~accepts
  <2>1. outcome' = "reverted"
    BY <1>3, <1>10
  <2>2. LockIsBuilt' /\ DeployedAsIssued'
    BY <2>1 DEF LockIsBuilt, DeployedAsIssued
  <2>3. ASSUME o = tx, CanRead(m.ticker), CanRead(m.name), CanRead(m.url),
               Width(m.docHash) \in {0, 32}, m.decimals <= MaxXecDecimals,
               args.authorizer # "zero", args.refundDelay > 0,
               args.fee = 0 \/ FeeAmountXec(args.fee, args.tokenDecimals, m.decimals) \in 1..(Uint64Max - 1)
        PROVE  FALSE
    <3>1. IsGenesis(s) /\ says = SaysOf(ring, m)
      BY <1>5, <2>3
    <3>2. says.decimals = m.decimals
      BY <1>7, <3>1
    <3>3. feeXec = FeeAmountXec(args.fee, args.tokenDecimals, m.decimals)
      BY <3>2 DEF feeXec
    <3>4. args.fee = 0 => feeXec = 0
      BY <1>6, <3>3, ScaleAndFee
    <3>5. Uint64Max \in Nat \ {0}
      BY DecimalsAssumption
    <3>6. FeeFits(args.fee, feeXec)
      BY <1>6, <2>3, <3>3, <3>4, <3>5 DEF FeeFits
    <3>7. args.refundDelay # 0
      BY <1>6, <2>3
    <3> QED BY <1>10, <2>3, <3>1, <3>2, <3>6, <3>7
  <2>4. IssuedIsDeployable'
    <3>1. tried'.tx = o /\ tried'.args = args
      BY <1>1
    <3>2. issued'.tx = tx /\ issued'.metadata = m
      BY <1>1, <1>4
    <3>3. ~ /\ tried'.tx = issued'.tx
            /\ \A x \in {m.ticker, m.name, m.url} : Width(x) <= 255 /\ ~HasOpcode(x)
            /\ Width(m.docHash) \in {0, 32} /\ m.decimals <= MaxXecDecimals
            /\ args.authorizer # "zero" /\ args.refundDelay > 0
            /\ args.fee = 0 \/ FeeAmountXec(args.fee, args.tokenDecimals, m.decimals) \in 1..(Uint64Max - 1)
      BY <2>3, <3>1, <3>2, Zenon DEF CanRead
    <3> QED BY <3>1, <3>2, <3>3, Zenon DEF IssuedIsDeployable
  <2> QED BY <1>8, <2>2, <2>4 DEF DeployInv
<1> QED BY <1>9, <1>10

\* Every step keeps it.
LEMMA DeployInvNext == DeployInv /\ [DeployNext]_deployVars => DeployInv'
<1> SUFFICES ASSUME DeployInv, [DeployNext]_deployVars PROVE DeployInv'
  OBVIOUS
<1>1. ASSUME NEW ring \in Issuers, NEW m \in Metadata, Issue(ring, m) PROVE DeployInv'
  BY <1>1, IssueStep
<1>2. ASSUME NEW o \in Presented, NEW args \in Deployments, Construct(o, args) PROVE DeployInv'
  BY <1>2, ConstructStep
<1>3. CASE UNCHANGED deployVars
  BY <1>3 DEF deployVars, DeployInv, IssuedIsGenesis, LockIsBuilt, DeployedAsIssued, IssuedIsDeployable
<1> QED BY <1>1, <1>2, <1>3 DEF DeployNext

\* Of a fee within the check, some burn leaves something, or the fee is too near the end.
LEMMA InvWithdrawable == DeployInv => DeployedIsWithdrawable
<1> SUFFICES ASSUME DeployInv, outcome = "deployed" PROVE DeployedIsWithdrawable
  BY DEF DeployedIsWithdrawable
<1> DEFINE t == lock.args.tokenDecimals
           x == lock.genesis.decimals
           unit == IF Precision(t, x)!XecHasMorePrecision THEN Precision(t, x)!Scale ELSE 1
           fee == lock.feeAmountXec
<1>1. /\ lock.args \in Deployments /\ x \in Nat
      /\ fee = FeeAmountXec(lock.args.fee, t, x) /\ FeeFits(lock.args.fee, fee)
  BY DEF DeployInv, LockIsBuilt
<1>2. t \in Nat /\ lock.args.fee \in Nat
  BY <1>1, DeploymentAssumption
<1>3. unit \in Nat \ {0} /\ fee \in Nat
  BY <1>1, <1>2, ScaleAndFee
<1>4. fee < Uint64Max /\ Uint64Max \in Nat
  BY <1>1, DecimalsAssumption DEF FeeFits
<1> HIDE DEF unit, fee, t, x
<1>5. \/ \E quantity \in (fee + 1)..Uint64Max : (quantity - fee) \div unit > 0
      \/ fee \in (Uint64Max - unit + 1)..(Uint64Max - 1)
  <2>1. CASE fee + unit <= Uint64Max
    <3>1. fee + unit \in (fee + 1)..Uint64Max /\ (fee + unit) - fee = unit
      BY <1>3, <1>4, <2>1
    <3>2. unit \div unit > 0
      BY <1>3
    <3> QED BY <3>1, <3>2
  <2>2. CASE ~(fee + unit <= Uint64Max)
    BY <1>3, <1>4, <2>2
  <2> QED BY <2>1, <2>2
<1> QED BY <1>5 DEF DeployedIsWithdrawable, unit, fee, t, x

-----------------------------------------------------------------------------

\* The invariant of a deployment.
LEMMA AlwaysDeployInv == DeploySpec => []DeployInv
<1>1. DeployInit => DeployInv
  BY DeployInvInit
<1>2. DeployInv /\ [DeployNext]_deployVars => DeployInv'
  BY DeployInvNext
<1> QED BY <1>1, <1>2, PTL DEF DeploySpec

\* BridgeLock.sol, constructor: a lock holds what the issuer said in the genesis, field by
\* field, whatever transaction it is shown.
THEOREM LocksHoldTheirGenesis == DeploySpec => []DeployedAsIssued
<1>1. DeployInv => DeployedAsIssued
  BY DEF DeployInv
<1> QED BY <1>1, AlwaysDeployInv, PTL

\* oracle.ts against BridgeLock.sol: the contract reads every genesis the SDK writes whose
\* fields it has a push for.
THEOREM GenesesAreDeployable == DeploySpec => []IssuedIsDeployable
<1>1. DeployInv => IssuedIsDeployable
  BY DEF DeployInv
<1> QED BY <1>1, AlwaysDeployInv, PTL

\* BridgeLock.sol, constructor: a deployed fee leaves some withdrawal a payout, unless it is
\* within a unit of the largest quantity.
THEOREM LocksAreWithdrawable == DeploySpec => []DeployedIsWithdrawable
BY AlwaysDeployInv, InvWithdrawable, PTL
=============================================================================
