---------------------------- MODULE SumTheorems ----------------------------
(* Sums over finite sets, and induction on a finite set. *)
EXTENDS Integers, FiniteSets, Functions, FiniteSetTheorems, WellFoundedInduction, TLAPS

\* Induction on a finite set, for a property given as the set G of the sets that have it.
LEMMA SetInduction ==
    ASSUME NEW S, IsFiniteSet(S), NEW G,
           \A T \in SUBSET S : (\A x \in T : T \ {x} \in G) => T \in G
    PROVE  \A T \in SUBSET S : T \in G
<1> DEFINE Bad == {T \in SUBSET S : T \notin G}
<1> SUFFICES ASSUME Bad # {} PROVE FALSE
  OBVIOUS
<1>1. SUBSET S = FiniteSubsetsOf(S)
  BY FS_FiniteSubsetsOfFinite
<1>2. IsWellFoundedOn(StrictSubsetOrdering(S), SUBSET S)
  <2>1. IsWellFoundedOn(StrictSubsetOrdering(S), FiniteSubsetsOf(S))
    BY FS_StrictSubsetOrderingWellFounded
  <2> QED
    BY <1>1, <2>1
<1>3. PICK T \in Bad : \A U \in Bad : <<U, T>> \notin StrictSubsetOrdering(S)
  <2>1. Bad \subseteq SUBSET S
    OBVIOUS
  <2> HIDE DEF Bad
  <2> QED
    BY <1>2, <2>1, WFMin
<1>4. PICK x \in T : T \ {x} \notin G
  OBVIOUS
<1>5. T \ {x} \in Bad
  BY <1>4
<1>6. <<T \ {x}, T>> \in StrictSubsetOrdering(S)
  BY <1>4, <1>5 DEF StrictSubsetOrdering
<1> QED
  BY <1>3, <1>5, <1>6

\* Induction on the naturals, for a property given as the set G of the numbers that have it.
LEMMA NatSetInduction ==
    ASSUME NEW G, 0 \in G, \A n \in Nat : n \in G => n + 1 \in G
    PROVE  \A n \in Nat : n \in G
<1> DEFINE Bad == {n \in Nat : n \notin G}
<1> SUFFICES ASSUME Bad # {} PROVE FALSE
  OBVIOUS
<1> DEFINE Less == {p \in Nat \X Nat : p[1] < p[2]}
<1>1. IsWellFoundedOn(Less, Nat)
  BY NatLessThanWellFounded, Zenon DEF OpToRel
<1>2. PICK n \in Bad : \A m \in Bad : <<m, n>> \notin Less
  <2>1. Bad \subseteq Nat
    OBVIOUS
  <2> HIDE DEF Bad, Less
  <2> QED
    BY <1>1, <2>1, WFMin
<1>3. n - 1 \in Nat /\ n - 1 \in Bad
  OBVIOUS
<1>4. <<n - 1, n>> \in Less
  BY <1>3
<1> QED
  BY <1>2, <1>3, <1>4

-----------------------------------------------------------------------------
(* The sum of a function f on a finite set S: SumFunctionOnSet(f, S). *)

Some(T) == CHOOSE x \in T : TRUE
SumStep(g, f, T) == IF T = {} THEN 0 ELSE f[Some(T)] + g[T \ {Some(T)}]

\* The function by which the library defines the sum: it exists, and is unique.
Summing(g, f, S) == g = [T \in SUBSET S |-> SumStep(g, f, T)]

\* The element that is taken out first is one of the set.
LEMMA SomeElement == ASSUME NEW T, T # {} PROVE Some(T) \in T
BY DEF Some

\* It exists, by induction on the size of a subset.
LEMMA SummingExists ==
    ASSUME NEW f, NEW S, IsFiniteSet(S)
    PROVE  \E g : Summing(g, f, S)
<1> DEFINE UpTo(g, n) == \A T \in SUBSET S : Cardinality(T) <= n => g[T] = SumStep(g, f, T)
           G == {n \in Nat : \E g : UpTo(g, n)}
<1>1. \A T \in SUBSET S : /\ Cardinality(T) \in Nat
                          /\ T = {} <=> Cardinality(T) = 0
                          /\ T # {} => /\ T \ {Some(T)} \in SUBSET S
                                       /\ Cardinality(T \ {Some(T)}) = Cardinality(T) - 1
  <2> TAKE T \in SUBSET S
  <2>1. IsFiniteSet(T)
    BY FS_Subset
  <2>2. Cardinality(T) \in Nat /\ (T = {} <=> Cardinality(T) = 0)
    BY <2>1, FS_CardinalityType, FS_EmptySet
  <2>3. ASSUME T # {} PROVE Cardinality(T \ {Some(T)}) = Cardinality(T) - 1
    BY <2>1, <2>3, FS_RemoveElement, SomeElement
  <2> QED
    BY <2>2, <2>3
<1>2. 0 \in G
  <2> DEFINE g == [T \in SUBSET S |-> 0]
  <2>1. ASSUME NEW T \in SUBSET S, Cardinality(T) <= 0 PROVE g[T] = SumStep(g, f, T)
    BY <1>1, <2>1 DEF SumStep
  <2>2. UpTo(g, 0)
    BY <2>1
  <2> QED
    BY <2>2, Zenon
<1>3. ASSUME NEW n \in Nat, n \in G PROVE n + 1 \in G
  <2>1. PICK g : UpTo(g, n)
    BY <1>3
  <2> DEFINE h == [T \in SUBSET S |-> IF Cardinality(T) <= n THEN g[T] ELSE SumStep(g, f, T)]
  <2>2. ASSUME NEW T \in SUBSET S, Cardinality(T) <= n + 1 PROVE h[T] = SumStep(h, f, T)
    <3>1. h[T] = SumStep(g, f, T)
      BY <2>1
    <3>2. T # {} => h[T \ {Some(T)}] = g[T \ {Some(T)}]
      BY <1>1, <2>2
    <3> HIDE DEF h
    <3> QED
      BY <3>1, <3>2 DEF SumStep
  <2>3. UpTo(h, n + 1)
    BY <2>2
  <2>4. n + 1 \in Nat
    OBVIOUS
  <2> QED
    BY <2>3, <2>4, Zenon
<1>4. \A n \in Nat : n \in G
  <2> HIDE DEF G
  <2> QED
    BY <1>2, <1>3, NatSetInduction
<1>5. PICK g : UpTo(g, Cardinality(S))
  BY <1>1, <1>4
<1>6. \A T \in SUBSET S : g[T] = SumStep(g, f, T)
  BY <1>1, <1>5, FS_Subset
<1> DEFINE h == [T \in SUBSET S |-> g[T]]
<1>7. \A T \in SUBSET S : h[T] = SumStep(h, f, T)
  BY <1>1, <1>6 DEF SumStep
<1>8. h = [T \in SUBSET S |-> SumStep(h, f, T)]
  BY <1>7
<1> QED
  BY <1>8 DEF Summing

\* On a common subset, two such functions agree.
LEMMA SummingUnique ==
    ASSUME NEW f, NEW S, NEW R \in SUBSET S, IsFiniteSet(R), NEW g, NEW h,
           Summing(g, f, S), Summing(h, f, R)
    PROVE  g[R] = h[R]
<1> DEFINE G == {T \in SUBSET R : g[T] = h[T]}
<1>1. ASSUME NEW T \in SUBSET R, \A x \in T : T \ {x} \in G PROVE T \in G
  <2>1. g[T] = SumStep(g, f, T) /\ h[T] = SumStep(h, f, T)
    BY DEF Summing
  <2>2. CASE T = {}
    BY <2>1, <2>2 DEF SumStep
  <2>3. CASE T # {}
    <3>1. g[T \ {Some(T)}] = h[T \ {Some(T)}]
      BY <1>1, <2>3, SomeElement
    <3> QED
      BY <2>1, <2>3, <3>1 DEF SumStep
  <2> QED
    BY <2>2, <2>3
<1>2. \A T \in SUBSET R : T \in G
  <2> HIDE DEF G
  <2> QED
    BY <1>1, SetInduction
<1> QED
  BY <1>2

\* The sum, one element at a time.
LEMMA SumUnfold ==
    ASSUME NEW f, NEW S, IsFiniteSet(S)
    PROVE  SumFunctionOnSet(f, S) =
               IF S = {} THEN 0 ELSE f[Some(S)] + SumFunctionOnSet(f, S \ {Some(S)})
<1>1. ASSUME NEW R, IsFiniteSet(R)
      PROVE  \E g : Summing(g, f, R) /\ SumFunctionOnSet(f, R) = g[R]
  <2>1. PICK h : Summing(h, f, R)
    BY <1>1, SummingExists
  <2> QED
    BY <2>1 DEF SumFunctionOnSet, FoldFunctionOnSet, MapThenFoldSet, Summing, SumStep, Some
<1>2. PICK g : Summing(g, f, S) /\ SumFunctionOnSet(f, S) = g[S]
  BY <1>1
<1>3. g[S] = SumStep(g, f, S)
  BY <1>2 DEF Summing
<1> DEFINE R == S \ {Some(S)}
<1>4. IsFiniteSet(R) /\ R \in SUBSET S
  BY FS_RemoveElement
<1>5. PICK h : Summing(h, f, R) /\ SumFunctionOnSet(f, R) = h[R]
  BY <1>1, <1>4
<1>6. g[R] = h[R]
  BY <1>2, <1>4, <1>5, SummingUnique
<1> QED
  BY <1>2, <1>3, <1>5, <1>6 DEF SumStep

\* The sum over no element is 0.
LEMMA SumEmpty == ASSUME NEW f PROVE SumFunctionOnSet(f, {}) = 0
BY SumUnfold, FS_EmptySet

\* A sum of integers is an integer.
LEMMA SumType ==
    ASSUME NEW f, NEW S, IsFiniteSet(S), \A x \in S : f[x] \in Int
    PROVE  SumFunctionOnSet(f, S) \in Int
<1> DEFINE G == {T \in SUBSET S : SumFunctionOnSet(f, T) \in Int}
<1>1. ASSUME NEW T \in SUBSET S, \A x \in T : T \ {x} \in G PROVE T \in G
  <2>1. IsFiniteSet(T)
    BY FS_Subset
  <2>2. CASE T = {}
    BY <2>2, SumEmpty
  <2>3. CASE T # {}
    <3>1. Some(T) \in T
      BY <2>3, SomeElement
    <3>2. SumFunctionOnSet(f, T) = f[Some(T)] + SumFunctionOnSet(f, T \ {Some(T)})
      BY <2>1, <2>3, SumUnfold
    <3>3. f[Some(T)] \in Int /\ SumFunctionOnSet(f, T \ {Some(T)}) \in Int
      BY <1>1, <3>1
    <3> QED
      BY <3>2, <3>3
  <2> QED
    BY <2>2, <2>3
<1>2. \A T \in SUBSET S : T \in G
  <2> HIDE DEF G
  <2> QED
    BY <1>1, SetInduction
<1> QED
  BY <1>2

\* One element may be taken out of a sum, whichever it is.
LEMMA SumRemove ==
    ASSUME NEW f, NEW S, IsFiniteSet(S), \A x \in S : f[x] \in Int, NEW y \in S
    PROVE  SumFunctionOnSet(f, S) = f[y] + SumFunctionOnSet(f, S \ {y})
<1> DEFINE Splits(T) == \A x \in T : SumFunctionOnSet(f, T) = f[x] + SumFunctionOnSet(f, T \ {x})
           G == {T \in SUBSET S : Splits(T)}
<1>1. ASSUME NEW T \in SUBSET S, \A x \in T : T \ {x} \in G PROVE Splits(T)
  <2> SUFFICES ASSUME NEW x \in T
               PROVE  SumFunctionOnSet(f, T) = f[x] + SumFunctionOnSet(f, T \ {x})
    OBVIOUS
  <2> DEFINE s == Some(T)
             rest == T \ {s, x}
  <2>1. IsFiniteSet(T) /\ IsFiniteSet(T \ {s}) /\ IsFiniteSet(T \ {x}) /\ IsFiniteSet(rest)
    BY FS_Subset
  <2>2. s \in T
    BY SomeElement
  <2> HIDE DEF s
  <2>3. SumFunctionOnSet(f, T) = f[s] + SumFunctionOnSet(f, T \ {s})
    BY <2>1, SumUnfold DEF s
  <2>4. CASE x = s
    BY <2>3, <2>4
  <2>5. CASE x # s
    <3>1. SumFunctionOnSet(f, T \ {s}) = f[x] + SumFunctionOnSet(f, rest)
      <4>1. Splits(T \ {s}) /\ x \in T \ {s} /\ (T \ {s}) \ {x} = rest
        BY <1>1, <2>2, <2>5
      <4> HIDE DEF rest
      <4> QED
        BY <4>1
    <3>2. SumFunctionOnSet(f, T \ {x}) = f[s] + SumFunctionOnSet(f, rest)
      <4>1. Splits(T \ {x}) /\ s \in T \ {x} /\ (T \ {x}) \ {s} = rest
        BY <1>1, <2>2, <2>5
      <4> HIDE DEF rest
      <4> QED
        BY <4>1
    <3>3. f[s] \in Int /\ f[x] \in Int /\ SumFunctionOnSet(f, rest) \in Int
      BY <2>1, <2>2, SumType
    <3> QED
      BY <2>3, <3>1, <3>2, <3>3
  <2> QED
    BY <2>4, <2>5
<1>2. \A T \in SUBSET S : T \in G
  <2>1. \A T \in SUBSET S : (\A x \in T : T \ {x} \in G) => T \in G
    <3> HIDE DEF Splits
    <3> QED
      BY <1>1
  <2> HIDE DEF G
  <2> QED
    BY <2>1, SetInduction
<1> QED
  BY <1>2

\* A new element adds its value.
LEMMA SumAdd ==
    ASSUME NEW f, NEW S, IsFiniteSet(S), NEW y, y \notin S, \A x \in S \cup {y} : f[x] \in Int
    PROVE  SumFunctionOnSet(f, S \cup {y}) = f[y] + SumFunctionOnSet(f, S)
<1> DEFINE R == S \cup {y}
<1>1. IsFiniteSet(R) /\ y \in R /\ R \ {y} = S
  BY FS_AddElement
<1> HIDE DEF R
<1>2. SumFunctionOnSet(f, R) = f[y] + SumFunctionOnSet(f, R \ {y})
  BY <1>1, SumRemove DEF R
<1> QED
  BY <1>1, <1>2 DEF R

\* The sum depends on the values on the set only.
LEMMA SumSame ==
    ASSUME NEW f, NEW g, NEW S, IsFiniteSet(S), \A x \in S : f[x] = g[x]
    PROVE  SumFunctionOnSet(f, S) = SumFunctionOnSet(g, S)
<1> DEFINE G == {T \in SUBSET S : SumFunctionOnSet(f, T) = SumFunctionOnSet(g, T)}
<1>1. ASSUME NEW T \in SUBSET S, \A x \in T : T \ {x} \in G PROVE T \in G
  <2>1. IsFiniteSet(T)
    BY FS_Subset
  <2>2. CASE T = {}
    BY <2>2, SumEmpty
  <2>3. CASE T # {}
    <3>1. Some(T) \in T
      BY <2>3, SomeElement
    <3>2. /\ SumFunctionOnSet(f, T) = f[Some(T)] + SumFunctionOnSet(f, T \ {Some(T)})
          /\ SumFunctionOnSet(g, T) = g[Some(T)] + SumFunctionOnSet(g, T \ {Some(T)})
      BY <2>1, <2>3, SumUnfold
    <3>3. /\ f[Some(T)] = g[Some(T)]
          /\ SumFunctionOnSet(f, T \ {Some(T)}) = SumFunctionOnSet(g, T \ {Some(T)})
      BY <1>1, <3>1
    <3> QED
      BY <3>2, <3>3
  <2> QED
    BY <2>2, <2>3
<1>2. \A T \in SUBSET S : T \in G
  <2> HIDE DEF G
  <2> QED
    BY <1>1, SetInduction
<1> QED
  BY <1>2

\* A change of one value changes the sum by as much.
LEMMA SumChange ==
    ASSUME NEW f, NEW g, NEW S, IsFiniteSet(S), NEW y \in S,
           \A x \in S : f[x] \in Int /\ g[x] \in Int,
           \A x \in S \ {y} : f[x] = g[x]
    PROVE  SumFunctionOnSet(g, S) = SumFunctionOnSet(f, S) + (g[y] - f[y])
<1>1. IsFiniteSet(S \ {y})
  BY FS_RemoveElement
<1>2. SumFunctionOnSet(f, S) = f[y] + SumFunctionOnSet(f, S \ {y})
  BY SumRemove
<1>3. SumFunctionOnSet(g, S) = g[y] + SumFunctionOnSet(g, S \ {y})
  BY SumRemove
<1>4. SumFunctionOnSet(f, S \ {y}) = SumFunctionOnSet(g, S \ {y})
  BY <1>1, SumSame
<1>5. SumFunctionOnSet(f, S \ {y}) \in Int
  BY <1>1, SumType
<1> QED
  BY <1>2, <1>3, <1>4, <1>5

\* A linear inequality that holds at every element holds of the sums.
LEMMA SumLinear ==
    ASSUME NEW f, NEW g, NEW h, NEW S, IsFiniteSet(S), NEW a \in Int, NEW b \in Int, NEW c \in Int,
           \A x \in S : f[x] \in Int /\ g[x] \in Int /\ h[x] \in Int,
           \A x \in S : a * f[x] + b * g[x] <= c * h[x]
    PROVE  a * SumFunctionOnSet(f, S) + b * SumFunctionOnSet(g, S) <= c * SumFunctionOnSet(h, S)
<1> DEFINE Holds(T) == a * SumFunctionOnSet(f, T) + b * SumFunctionOnSet(g, T) <= c * SumFunctionOnSet(h, T)
           G == {T \in SUBSET S : Holds(T)}
<1>1. ASSUME NEW T \in SUBSET S, \A x \in T : T \ {x} \in G PROVE Holds(T)
  <2>1. CASE T = {}
    BY <2>1, SumEmpty
  <2>2. CASE T # {}
    <3>1. PICK x \in T : TRUE
      BY <2>2
    <3>2. IsFiniteSet(T) /\ IsFiniteSet(T \ {x})
      BY FS_Subset
    <3> DEFINE F == SumFunctionOnSet(f, T \ {x})
               H == SumFunctionOnSet(g, T \ {x})
               K == SumFunctionOnSet(h, T \ {x})
    <3>3. /\ SumFunctionOnSet(f, T) = f[x] + F
          /\ SumFunctionOnSet(g, T) = g[x] + H
          /\ SumFunctionOnSet(h, T) = h[x] + K
      BY <3>2, SumRemove
    <3>4. F \in Int /\ H \in Int /\ K \in Int
      BY <3>2, SumType
    <3>5. a * F + b * H <= c * K
      BY <1>1
    <3>6. f[x] \in Int /\ g[x] \in Int /\ h[x] \in Int /\ a * f[x] + b * g[x] <= c * h[x]
      OBVIOUS
    <3> HIDE DEF F, H, K
    <3>7. /\ a * (f[x] + F) = a * f[x] + a * F
          /\ b * (g[x] + H) = b * g[x] + b * H
          /\ c * (h[x] + K) = c * h[x] + c * K
      BY <3>4, <3>6
    <3>8. a * (f[x] + F) + b * (g[x] + H) <= c * (h[x] + K)
      BY <3>4, <3>5, <3>6, <3>7
    <3> QED
      BY <3>3, <3>8
  <2> QED
    BY <2>1, <2>2
<1>2. \A T \in SUBSET S : T \in G
  <2>1. \A T \in SUBSET S : (\A x \in T : T \ {x} \in G) => T \in G
    <3> HIDE DEF Holds
    <3> QED
      BY <1>1
  <2> HIDE DEF G
  <2> QED
    BY <2>1, SetInduction
<1> QED
  BY <1>2

\* A sum of zeros is 0.
LEMMA SumZero ==
    ASSUME NEW f, NEW S, IsFiniteSet(S), \A x \in S : f[x] = 0
    PROVE  SumFunctionOnSet(f, S) = 0
<1> DEFINE G == {T \in SUBSET S : SumFunctionOnSet(f, T) = 0}
<1>1. ASSUME NEW T \in SUBSET S, \A x \in T : T \ {x} \in G PROVE T \in G
  <2>1. CASE T = {}
    BY <2>1, SumEmpty
  <2>2. CASE T # {}
    <3>1. IsFiniteSet(T) /\ Some(T) \in T
      BY <2>2, FS_Subset, SomeElement
    <3>2. SumFunctionOnSet(f, T) = f[Some(T)] + SumFunctionOnSet(f, T \ {Some(T)})
      BY <2>2, <3>1, SumUnfold
    <3> QED
      BY <1>1, <3>1, <3>2
  <2> QED
    BY <2>1, <2>2
<1>2. \A T \in SUBSET S : T \in G
  <2> HIDE DEF G
  <2> QED
    BY <1>1, SetInduction
<1> QED
  BY <1>2

\* A sum over S is the sum over R of what the elements of S put there, one each at most.
LEMMA SumReindex ==
    ASSUME NEW f, NEW g, NEW S, NEW R, IsFiniteSet(S), IsFiniteSet(R), NEW at \in [S -> R],
           \A x, y \in S : at[x] = at[y] => x = y,
           \A x \in S : f[x] \in Int /\ g[at[x]] = f[x],
           \A y \in R : (\A x \in S : at[x] # y) => g[y] = 0
    PROVE  SumFunctionOnSet(f, S) = SumFunctionOnSet(g, R)
<1> DEFINE Put(T) == [y \in R |-> IF \E x \in T : at[x] = y THEN g[y] ELSE 0]
           Same(T) == SumFunctionOnSet(f, T) = SumFunctionOnSet(Put(T), R)
           G == {T \in SUBSET S : Same(T)}
<1>1. ASSUME NEW T \in SUBSET S, \A x \in T : T \ {x} \in G PROVE Same(T)
  <2>1. \A U \in SUBSET T : \A y \in R : Put(U)[y] \in Int
    OBVIOUS
  <2>2. CASE T = {}
    <3>1. \A y \in R : Put(T)[y] = 0
      BY <2>2
    <3> HIDE DEF Put
    <3> QED
      BY <2>2, <3>1, SumEmpty, SumZero
  <2>3. CASE T # {}
    <3>1. PICK x \in T : TRUE
      BY <2>3
    <3> DEFINE U == T \ {x}
    <3>2. IsFiniteSet(T)
      BY FS_Subset
    <3>3. SumFunctionOnSet(f, T) = f[x] + SumFunctionOnSet(f, U)
      BY <3>2, SumRemove
    <3>4. SumFunctionOnSet(f, U) = SumFunctionOnSet(Put(U), R)
      BY <1>1
    <3>5. at[x] \in R /\ Put(U)[at[x]] = 0 /\ Put(T)[at[x]] = f[x]
      OBVIOUS
    <3>6. \A y \in R \ {at[x]} : Put(U)[y] = Put(T)[y]
      OBVIOUS
    <3>7. \A y \in R : Put(U)[y] \in Int /\ Put(T)[y] \in Int
      BY <2>1
    <3> DEFINE before == Put(U)
               after == Put(T)
               y == at[x]
    <3> HIDE DEF Put, before, after, y
    <3>8. /\ y \in R /\ before[y] = 0 /\ after[y] = f[x]
          /\ \A z \in R : before[z] \in Int /\ after[z] \in Int
          /\ \A z \in R \ {y} : before[z] = after[z]
      BY <3>5, <3>6, <3>7 DEF before, after, y
    <3>9. SumFunctionOnSet(after, R) = SumFunctionOnSet(before, R) + (after[y] - before[y])
      BY <3>8, SumChange
    <3>10. SumFunctionOnSet(before, R) \in Int
      BY <3>8, SumType
    <3> QED
      BY <3>3, <3>4, <3>8, <3>9, <3>10 DEF before, after
  <2> QED
    BY <2>2, <2>3
<1>2. \A T \in SUBSET S : T \in G
  <2>1. \A T \in SUBSET S : (\A x \in T : T \ {x} \in G) => T \in G
    <3> HIDE DEF Same
    <3> QED
      BY <1>1
  <2> HIDE DEF G
  <2> QED
    BY <2>1, SetInduction
<1>3. \A y \in R : Put(S)[y] = g[y]
  OBVIOUS
<1> HIDE DEF Put
<1>4. SumFunctionOnSet(Put(S), R) = SumFunctionOnSet(g, R)
  BY <1>3, SumSame
<1> QED
  BY <1>2, <1>4

\* A sum over a part of S, as a sum over S.
LEMMA SumPart ==
    ASSUME NEW f, NEW S, NEW T \in SUBSET S, IsFiniteSet(S), \A x \in S : f[x] \in Int
    PROVE  SumFunctionOnSet(f, T) = SumFunctionOnSet([x \in S |-> IF x \in T THEN f[x] ELSE 0], S)
<1> DEFINE g  == [x \in S |-> IF x \in T THEN f[x] ELSE 0]
           at == [x \in T |-> x]
<1>1. IsFiniteSet(T)
  BY FS_Subset
<1>2. /\ at \in [T -> S] /\ \A x, y \in T : at[x] = at[y] => x = y
      /\ \A x \in T : f[x] \in Int /\ g[at[x]] = f[x]
      /\ \A y \in S : (\A x \in T : at[x] # y) => g[y] = 0
  OBVIOUS
<1> HIDE DEF g, at
<1>3. SumFunctionOnSet(f, T) = SumFunctionOnSet(g, S)
  BY <1>1, <1>2, SumReindex
<1> QED
  BY <1>3 DEF g

\* What x counts for in the sum of f over T.
Counts(f, T, x) == IF x \in T THEN f[x] ELSE 0

\* One element of S changes its value, or joins or leaves the part: the sum over the part
\* changes by what the element counted for before and after.
LEMMA SumMove ==
    ASSUME NEW f, NEW g, NEW S, NEW T \in SUBSET S, NEW U \in SUBSET S, IsFiniteSet(S), NEW y \in S,
           \A x \in S : f[x] \in Int /\ g[x] \in Int,
           \A x \in S \ {y} : f[x] = g[x] /\ (x \in T <=> x \in U)
    PROVE  SumFunctionOnSet(g, U) = SumFunctionOnSet(f, T) + (Counts(g, U, y) - Counts(f, T, y))
<1> DEFINE p == [x \in S |-> IF x \in T THEN f[x] ELSE 0]
           q == [x \in S |-> IF x \in U THEN g[x] ELSE 0]
<1>1. SumFunctionOnSet(f, T) = SumFunctionOnSet(p, S)
  BY SumPart
<1>2. SumFunctionOnSet(g, U) = SumFunctionOnSet(q, S)
  BY SumPart
<1>3. /\ p[y] = Counts(f, T, y) /\ q[y] = Counts(g, U, y)
      /\ \A x \in S : p[x] \in Int /\ q[x] \in Int
      /\ \A x \in S \ {y} : p[x] = q[x]
  BY DEF Counts
<1> HIDE DEF p, q
<1>4. SumFunctionOnSet(q, S) = SumFunctionOnSet(p, S) + (q[y] - p[y])
  BY <1>3, SumChange
<1> QED
  BY <1>1, <1>2, <1>3, <1>4

\* A sum of naturals over a part is at most the sum over the whole.
LEMMA SumGrows ==
    ASSUME NEW f, NEW S, NEW T \in SUBSET S, IsFiniteSet(S), \A x \in S : f[x] \in Nat
    PROVE  /\ SumFunctionOnSet(f, T) \in Nat /\ SumFunctionOnSet(f, S) \in Nat
           /\ SumFunctionOnSet(f, T) <= SumFunctionOnSet(f, S)
<1> DEFINE p == [x \in S |-> IF x \in T THEN f[x] ELSE 0]
           z == [x \in S |-> 0]
           F == SumFunctionOnSet(f, S)
           P == SumFunctionOnSet(p, S)
           Z == SumFunctionOnSet(z, S)
<1>1. SumFunctionOnSet(f, T) = P
  BY SumPart
<1>2. /\ \A x \in S : p[x] \in Int /\ f[x] \in Int /\ z[x] \in Int /\ z[x] = 0
      /\ \A x \in S : 1 * p[x] + 1 * z[x] <= 1 * f[x]
      /\ \A x \in S : 1 * z[x] + 1 * z[x] <= 1 * p[x]
      /\ 1 \in Int
  OBVIOUS
<1> HIDE DEF p, z
<1>3. 1 * P + 1 * Z <= 1 * F
  BY <1>2, SumLinear
<1>4. 1 * Z + 1 * Z <= 1 * P
  BY <1>2, SumLinear
<1>5. Z = 0 /\ F \in Int /\ P \in Int
  BY <1>2, SumZero, SumType
<1> HIDE DEF F, P, Z
<1>6. P >= 0 /\ P <= F
  BY <1>3, <1>4, <1>5
<1> QED
  BY <1>1, <1>5, <1>6 DEF F
====
