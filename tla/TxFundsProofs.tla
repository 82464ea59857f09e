---------------------------- MODULE TxFundsProofs ----------------------------
(***************************************************************************)
(* Proofs about TxFunds, for any set of utxos with any amounts and any     *)
(* outputs.  Sums are folds over finite sets, whose properties are proved  *)
(* first.                                                                  *)
(***************************************************************************)
EXTENDS TxFunds, FiniteSetTheorems, WellFoundedInduction, SequenceTheorems, TLAPS

(* Induction over the naturals and over finite sets, on the set of what has
   the property.                                                           *)
LEMMA LeastNatural ==
  ASSUME NEW S \in SUBSET Nat, S # {}
  PROVE  \E n \in S : \A m \in S : n <= m
<1>1. PICK n \in S : \A m \in S : ~ (<<m, n>> \in OpToRel(<, Nat))
  BY NatLessThanWellFounded, WFMin
<1>2. \A m \in S : ~ (m < n)
  BY <1>1 DEF OpToRel
<1>3. \A m \in S : n <= m
  BY <1>2
<1> QED
  BY <1>3

LEMMA CountingUp ==
  ASSUME NEW S, 0 \in S, \A n \in Nat : n \in S => n + 1 \in S
  PROVE  Nat \subseteq S
<1> SUFFICES ASSUME Nat \ S # {} PROVE FALSE
  OBVIOUS
<1>1. PICK n \in Nat \ S : \A m \in Nat \ S : n <= m
  BY LeastNatural
<1>2. n # 0 /\ n - 1 \in Nat /\ ~ (n <= n - 1)
  OBVIOUS
<1>3. n - 1 \in S
  BY <1>1, <1>2
<1> QED
  BY <1>2, <1>3

(* A property that every set has whose smaller sets have it.               *)
LEMMA SmallerSets ==
  ASSUME NEW D, IsFiniteSet(D), NEW X,
         \A s \in SUBSET D : (\A x \in s : s \ {x} \in X) => s \in X
  PROVE  SUBSET D \subseteq X
<1>1. \A s \in SUBSET D : IsFiniteSet(s) /\ Cardinality(s) \in Nat
  BY FS_Subset, FS_CardinalityType
<1> DEFINE Sized == {n \in Nat : \A s \in SUBSET D : Cardinality(s) = n => s \in X}
<1>2. 0 \in Sized
  BY <1>1, FS_EmptySet
<1>3. ASSUME NEW n \in Nat, n \in Sized PROVE n + 1 \in Sized
  <2> SUFFICES ASSUME NEW s \in SUBSET D, Cardinality(s) = n + 1 PROVE s \in X
    OBVIOUS
  <2>1. \A x \in s : Cardinality(s \ {x}) = n
    BY <1>1, FS_RemoveElement
  <2> QED
    BY <1>3, <2>1
<1> HIDE DEF Sized
<1>4. Nat \subseteq Sized
  BY <1>2, <1>3, CountingUp
<1> QED
  BY <1>1, <1>4 DEF Sized

-----------------------------------------------------------------------------
(* Sums *)

One(s) == CHOOSE x \in s : TRUE

(* h sums f over the sets in L.                                            *)
Sums(f, L, h) ==
  h = [s \in L |-> IF s = {} THEN 0 ELSE f[One(s)] + h[s \ {One(s)}]]

LEMMA SumsExist ==
  ASSUME NEW f, NEW D, IsFiniteSet(D)
  PROVE  \E h : Sums(f, SUBSET D, h)
<1> DEFINE Level(n) == {s \in SUBSET D : Cardinality(s) <= n}
           Good == {n \in Nat : \E h : Sums(f, Level(n), h)}
<1>1. \A s \in SUBSET D : IsFiniteSet(s) /\ Cardinality(s) \in Nat
  BY FS_Subset, FS_CardinalityType
<1>2. 0 \in Good
  <2> DEFINE h == [s \in Level(0) |-> 0]
  <2>1. \A s \in Level(0) : s = {}
    BY <1>1, FS_EmptySet
  <2>2. Sums(f, Level(0), h)
    BY <2>1 DEF Sums
  <2> QED
    BY <2>2
<1>3. ASSUME NEW n \in Nat, n \in Good PROVE n + 1 \in Good
  <2>1. PICK h : Sums(f, Level(n), h)
    BY <1>3
  <2> DEFINE k == [s \in Level(n + 1) |-> IF s = {} THEN 0 ELSE f[One(s)] + h[s \ {One(s)}]]
  <2>2. \A s \in Level(n) : s \in Level(n + 1) /\ k[s] = h[s]
    <3> TAKE s \in Level(n)
    <3>1. s \in Level(n + 1)
      BY <1>1
    <3>2. h[s] = IF s = {} THEN 0 ELSE f[One(s)] + h[s \ {One(s)}]
      BY <2>1 DEF Sums
    <3> QED
      BY <3>1, <3>2
  <2>3. ASSUME NEW s \in Level(n + 1), s # {} PROVE s \ {One(s)} \in Level(n)
    <3>1. One(s) \in s
      BY <2>3 DEF One
    <3>2. Cardinality(s \ {One(s)}) = Cardinality(s) - 1
      BY <1>1, <3>1, FS_RemoveElement
    <3> QED
      BY <1>1, <3>2
  <2>4. Sums(f, Level(n + 1), k)
    BY <2>2, <2>3 DEF Sums
  <2>5. \E g : Sums(f, Level(n + 1), g)
    BY <2>4
  <2> QED
    BY <2>5
<1> HIDE DEF Good
<1>4. Nat \subseteq Good
  BY <1>2, <1>3, CountingUp
<1>5. Cardinality(D) \in Nat /\ Level(Cardinality(D)) = SUBSET D
  BY <1>1, FS_Subset
<1> QED
  BY <1>4, <1>5 DEF Good

LEMMA SumsAgree ==
  ASSUME NEW f, NEW D, IsFiniteSet(D), NEW T \in SUBSET D,
         NEW h, Sums(f, SUBSET D, h), NEW k, Sums(f, SUBSET T, k)
  PROVE  h[T] = k[T]
<1> DEFINE X == {s \in SUBSET T : h[s] = k[s]}
<1>1. IsFiniteSet(T)
  BY FS_Subset
<1>2. ASSUME NEW s \in SUBSET T, \A x \in s : s \ {x} \in X PROVE s \in X
  <2>1. /\ h[s] = IF s = {} THEN 0 ELSE f[One(s)] + h[s \ {One(s)}]
        /\ k[s] = IF s = {} THEN 0 ELSE f[One(s)] + k[s \ {One(s)}]
    BY DEF Sums
  <2>2. s # {} => One(s) \in s
    BY DEF One
  <2> QED
    BY <1>2, <2>1, <2>2
<1> HIDE DEF X
<1>3. SUBSET T \subseteq X
  BY <1>1, <1>2, SmallerSets
<1> QED
  BY <1>3 DEF X

LEMMA SumIsFold ==
  ASSUME NEW f, NEW S
  PROVE  SumFunctionOnSet(f, S) = (CHOOSE h : Sums(f, SUBSET S, h))[S]
BY DEF SumFunctionOnSet, FoldFunctionOnSet, MapThenFoldSet, Sums, One

LEMMA SumIsAnySum ==
  ASSUME NEW f, NEW D, IsFiniteSet(D), NEW T \in SUBSET D, NEW h, Sums(f, SUBSET D, h)
  PROVE  SumFunctionOnSet(f, T) = h[T]
<1>1. IsFiniteSet(T)
  BY FS_Subset
<1>2. PICK k : k = CHOOSE g : Sums(f, SUBSET T, g)
  OBVIOUS
<1>3. Sums(f, SUBSET T, k)
  BY <1>1, <1>2, SumsExist
<1> QED
  BY <1>2, <1>3, SumIsFold, SumsAgree

LEMMA SumUnfolds ==
  ASSUME NEW f, NEW S, IsFiniteSet(S)
  PROVE  SumFunctionOnSet(f, S) =
           IF S = {} THEN 0 ELSE f[One(S)] + SumFunctionOnSet(f, S \ {One(S)})
<1>1. PICK h : Sums(f, SUBSET S, h)
  BY SumsExist
<1>2. SumFunctionOnSet(f, S) = h[S] /\ SumFunctionOnSet(f, S \ {One(S)}) = h[S \ {One(S)}]
  BY <1>1, SumIsAnySum
<1>3. h[S] = IF S = {} THEN 0 ELSE f[One(S)] + h[S \ {One(S)}]
  BY <1>1 DEF Sums
<1> QED
  BY <1>2, <1>3

(* f counts in natural numbers on S.                                       *)
Counts(f, S) == \A x \in S : f[x] \in Nat

LEMMA SumType ==
  ASSUME NEW f, NEW S, IsFiniteSet(S), Counts(f, S)
  PROVE  SumFunctionOnSet(f, S) \in Nat
<1> DEFINE X == {s \in SUBSET S : SumFunctionOnSet(f, s) \in Nat}
<1>1. ASSUME NEW s \in SUBSET S, \A x \in s : s \ {x} \in X PROVE s \in X
  <2>1. SumFunctionOnSet(f, s) =
          IF s = {} THEN 0 ELSE f[One(s)] + SumFunctionOnSet(f, s \ {One(s)})
    BY FS_Subset, SumUnfolds
  <2>2. s # {} => One(s) \in s /\ f[One(s)] \in Nat
    BY DEF One, Counts
  <2> QED
    BY <1>1, <2>1, <2>2
<1> HIDE DEF X
<1>2. SUBSET S \subseteq X
  BY <1>1, SmallerSets
<1> QED
  BY <1>2 DEF X

LEMMA SumOfNone == \A f : SumFunctionOnSet(f, {}) = 0
BY FS_EmptySet, SumUnfolds

(* It does not matter which element is taken out.                          *)
LEMMA SumTakesOut ==
  ASSUME NEW f, NEW S, IsFiniteSet(S), Counts(f, S), NEW x \in S
  PROVE  SumFunctionOnSet(f, S) = f[x] + SumFunctionOnSet(f, S \ {x})
<1> DEFINE X == {s \in SUBSET S : \A y \in s :
                    SumFunctionOnSet(f, s) = f[y] + SumFunctionOnSet(f, s \ {y})}
<1>1. ASSUME NEW s \in SUBSET S, \A y \in s : s \ {y} \in X, NEW y \in s
      PROVE  SumFunctionOnSet(f, s) = f[y] + SumFunctionOnSet(f, s \ {y})
  <2> DEFINE c == One(s)
  <2>1. c \in s
    BY DEF One
  <2>2. SumFunctionOnSet(f, s) = f[c] + SumFunctionOnSet(f, s \ {c})
    BY <2>1, FS_Subset, SumUnfolds
  <2> HIDE DEF c
  <2>3. CASE y # c
    <3>1. /\ SumFunctionOnSet(f, s \ {c}) = f[y] + SumFunctionOnSet(f, (s \ {c}) \ {y})
          /\ SumFunctionOnSet(f, s \ {y}) = f[c] + SumFunctionOnSet(f, (s \ {y}) \ {c})
      BY <1>1, <2>1, <2>3
    <3>2. (s \ {c}) \ {y} = (s \ {y}) \ {c}
      OBVIOUS
    <3>3. f[c] \in Nat /\ f[y] \in Nat /\ SumFunctionOnSet(f, (s \ {y}) \ {c}) \in Nat
      <4>1. IsFiniteSet((s \ {y}) \ {c}) /\ Counts(f, (s \ {y}) \ {c})
        BY FS_Subset DEF Counts
      <4> QED
        BY <2>1, <4>1, SumType DEF Counts
    <3> QED
      BY <2>2, <3>1, <3>2, <3>3
  <2> QED
    BY <2>2, <2>3
<1>2. \A s \in SUBSET S : (\A y \in s : s \ {y} \in X) => s \in X
  BY <1>1
<1> HIDE DEF X
<1>3. SUBSET S \subseteq X
  BY <1>2, SmallerSets
<1> QED
  BY <1>3 DEF X

LEMMA SumAdds ==
  ASSUME NEW f, NEW S, IsFiniteSet(S), Counts(f, S), NEW x, x \notin S, f[x] \in Nat
  PROVE  SumFunctionOnSet(f, S \cup {x}) = f[x] + SumFunctionOnSet(f, S)
<1>1. IsFiniteSet(S \cup {x}) /\ Counts(f, S \cup {x}) /\ (S \cup {x}) \ {x} = S
  BY FS_AddElement DEF Counts
<1> QED
  BY <1>1, SumTakesOut

LEMMA SumGrows ==
  ASSUME NEW f, NEW S, IsFiniteSet(S), Counts(f, S), NEW T \in SUBSET S
  PROVE  SumFunctionOnSet(f, T) <= SumFunctionOnSet(f, S)
<1> DEFINE X == {s \in SUBSET S : s \cap T = {} =>
                    SumFunctionOnSet(f, T) <= SumFunctionOnSet(f, T \cup s)}
<1>1. ASSUME NEW s \in SUBSET S, \A x \in s : s \ {x} \in X, s \cap T = {}
      PROVE  SumFunctionOnSet(f, T) <= SumFunctionOnSet(f, T \cup s)
  <2>1. \A r \in SUBSET S : IsFiniteSet(r) /\ Counts(f, r) /\ SumFunctionOnSet(f, r) \in Nat
    BY FS_Subset, SumType DEF Counts
  <2>2. CASE s = {}
    <3>1. T \cup s = T
      BY <2>2
    <3> QED
      BY <2>1, <3>1
  <2>3. CASE s # {}
    <3>1. PICK x \in s : TRUE
      BY <2>3
    <3>2. SumFunctionOnSet(f, T) <= SumFunctionOnSet(f, T \cup (s \ {x}))
      BY <1>1, <3>1
    <3>3. /\ x \notin T \cup (s \ {x}) /\ T \cup s = (T \cup (s \ {x})) \cup {x}
          /\ T \cup (s \ {x}) \in SUBSET S
      BY <1>1, <3>1
    <3>4. SumFunctionOnSet(f, T \cup s) = f[x] + SumFunctionOnSet(f, T \cup (s \ {x}))
      BY <2>1, <3>1, <3>3, SumAdds DEF Counts
    <3> QED
      BY <2>1, <3>1, <3>2, <3>3, <3>4 DEF Counts
  <2> QED
    BY <2>2, <2>3
<1>2. \A s \in SUBSET S : (\A y \in s : s \ {y} \in X) => s \in X
  BY <1>1
<1> HIDE DEF X
<1>3. SUBSET S \subseteq X
  BY <1>2, SmallerSets
<1>4. (S \ T) \in X /\ T \cup (S \ T) = S
  BY <1>3
<1> QED
  BY <1>4 DEF X

(* Counting a zero as one adds the number of zeros.                        *)
LEMMA SumOfOnes ==
  ASSUME NEW f, NEW g, NEW S, IsFiniteSet(S), Counts(g, S),
         \A x \in S : f[x] = IF g[x] = 0 THEN 1 ELSE g[x]
  PROVE  SumFunctionOnSet(f, S) = SumFunctionOnSet(g, S) + Cardinality({x \in S : g[x] = 0})
<1> DEFINE Zeros(s) == {x \in s : g[x] = 0}
           X == {s \in SUBSET S :
                  SumFunctionOnSet(f, s) = SumFunctionOnSet(g, s) + Cardinality(Zeros(s))}
<1>1. ASSUME NEW s \in SUBSET S, \A x \in s : s \ {x} \in X PROVE s \in X
  <2>1. CASE s = {}
    <3>1. Zeros(s) = {} /\ Cardinality({}) = 0
      BY <2>1, FS_EmptySet
    <3> QED
      BY <2>1, <3>1, SumOfNone
  <2>2. CASE s # {}
    <3>1. PICK x \in s : TRUE
      BY <2>2
    <3>2. SumFunctionOnSet(f, s \ {x}) = SumFunctionOnSet(g, s \ {x}) + Cardinality(Zeros(s \ {x}))
      BY <1>1, <3>1
    <3>3. IsFiniteSet(s) /\ Counts(f, s) /\ Counts(g, s)
      BY FS_Subset DEF Counts
    <3>4. IsFiniteSet(s \ {x}) /\ Counts(g, s \ {x}) /\ IsFiniteSet(Zeros(s \ {x}))
      BY <3>3, FS_Subset DEF Counts
    <3>5. SumFunctionOnSet(g, s \ {x}) \in Nat /\ Cardinality(Zeros(s \ {x})) \in Nat
      BY <3>4, SumType, FS_CardinalityType
    <3>6. /\ SumFunctionOnSet(f, s) = f[x] + SumFunctionOnSet(f, s \ {x})
          /\ SumFunctionOnSet(g, s) = g[x] + SumFunctionOnSet(g, s \ {x})
      BY <3>1, <3>3, SumTakesOut
    <3>7. CASE g[x] = 0
      <4>1. Zeros(s) = Zeros(s \ {x}) \cup {x} /\ x \notin Zeros(s \ {x})
        BY <3>1, <3>7
      <4>2. Cardinality(Zeros(s)) = Cardinality(Zeros(s \ {x})) + 1
        BY <3>4, <4>1, FS_AddElement
      <4>3. f[x] = 1
        BY <3>1, <3>7
      <4> QED
        BY <3>2, <3>5, <3>6, <3>7, <4>2, <4>3
    <3>8. CASE g[x] # 0
      <4>1. Zeros(s) = Zeros(s \ {x}) /\ f[x] = g[x] /\ g[x] \in Nat
        BY <3>1, <3>8 DEF Counts
      <4> HIDE DEF Zeros
      <4> QED
        BY <3>2, <3>5, <3>6, <4>1
    <3> QED
      BY <3>7, <3>8
  <2> QED
    BY <2>1, <2>2
<1> HIDE DEF X
<1>2. SUBSET S \subseteq X
  BY <1>1, SmallerSets
<1> QED
  BY <1>2 DEF X

-----------------------------------------------------------------------------
(* Sorted sequences *)

First(q, k) == {q[i] : i \in 1..k}

(* q lists S, larger values of f first.                                    *)
Lists(q, S, f) ==
  /\ Cardinality(S) \in Nat /\ q \in [1..Cardinality(S) -> S]
  /\ \A i, j \in 1..Cardinality(S) : i # j => q[i] # q[j]
  /\ \A i, j \in 1..Cardinality(S) : i < j => f[q[i]] >= f[q[j]]

LEMMA FirstAdds ==
  ASSUME NEW S, NEW f, NEW q, Lists(q, S, f), NEW k \in Nat, k < Cardinality(S)
  PROVE  First(q, k + 1) = First(q, k) \cup {q[k + 1]} /\ q[k + 1] \notin First(q, k)
BY DEF First, Lists

LEMMA FirstCounts ==
  ASSUME NEW S, NEW f, IsFiniteSet(S), NEW q, Lists(q, S, f), NEW k \in 0..Cardinality(S)
  PROVE  First(q, k) \subseteq S /\ IsFiniteSet(First(q, k)) /\ Cardinality(First(q, k)) = k
<1> DEFINE Good == {n \in Nat : n <= Cardinality(S) => Cardinality(First(q, n)) = n}
<1>1. \A n \in 0..Cardinality(S) : First(q, n) \subseteq S /\ IsFiniteSet(First(q, n))
  BY FS_Subset DEF First, Lists
<1>2. 0 \in Good
  <2>1. First(q, 0) = {}
    BY DEF First
  <2> QED
    BY <2>1, FS_EmptySet
<1>3. ASSUME NEW n \in Nat, n \in Good PROVE n + 1 \in Good
  <2> SUFFICES ASSUME n + 1 <= Cardinality(S) PROVE Cardinality(First(q, n + 1)) = n + 1
    OBVIOUS
  <2>1. Cardinality(S) \in Nat /\ n < Cardinality(S) /\ n \in 0..Cardinality(S)
    BY DEF Lists
  <2>2. First(q, n + 1) = First(q, n) \cup {q[n + 1]} /\ q[n + 1] \notin First(q, n)
    BY <2>1, FirstAdds
  <2> QED
    BY <1>1, <1>3, <2>1, <2>2, FS_AddElement
<1> HIDE DEF Good
<1>4. Nat \subseteq Good
  BY <1>2, <1>3, CountingUp
<1> QED
  BY <1>1, <1>4 DEF Good, Lists

LEMMA AllAreListed ==
  ASSUME NEW S, NEW f, IsFiniteSet(S), NEW q, Lists(q, S, f)
  PROVE  First(q, Cardinality(S)) = S
BY FirstCounts, FS_Subset DEF Lists

(* No k elements have a larger sum than the first k of the list.           *)
LEMMA LargestFirstSums ==
  ASSUME NEW S, NEW f, IsFiniteSet(S), Counts(f, S), NEW q, Lists(q, S, f), NEW R \in SUBSET S
  PROVE  SumFunctionOnSet(f, R) <= SumFunctionOnSet(f, First(q, Cardinality(R)))
<1> DEFINE X == {r \in SUBSET S :
                  SumFunctionOnSet(f, r) <= SumFunctionOnSet(f, First(q, Cardinality(r)))}
<1>1. \A r \in SUBSET S : /\ IsFiniteSet(r) /\ Counts(f, r) /\ SumFunctionOnSet(f, r) \in Nat
                         /\ Cardinality(r) \in 0..Cardinality(S)
  BY FS_Subset, FS_CardinalityType, SumType DEF Counts
<1>2. ASSUME NEW r \in SUBSET S, \A x \in r : r \ {x} \in X PROVE r \in X
  <2>1. CASE r = {}
    <3>1. First(q, 0) = {} /\ Cardinality({}) = 0
      BY FS_EmptySet DEF First
    <3> QED
      BY <2>1, <3>1, SumOfNone
  <2>2. CASE r # {}
    <3> DEFINE k == Cardinality(r) - 1
    <3>1. Cardinality(r) # 0
      BY <1>1, <2>2, FS_EmptySet
    <3>2. /\ k \in Nat /\ k \in 0..Cardinality(S) /\ k + 1 = Cardinality(r)
          /\ k < Cardinality(S) /\ Cardinality(S) \in Nat
      BY <1>1, <3>1 DEF Lists
    <3>3. First(q, k) \subseteq S /\ IsFiniteSet(First(q, k)) /\ Cardinality(First(q, k)) = k
      BY <3>2, FirstCounts
    <3>4. PICK x \in r : x \notin First(q, k)
      <4>1. ~ (r \subseteq First(q, k))
        BY <1>1, <3>2, <3>3, FS_Subset
      <4> QED
        BY <4>1
    <3>5. PICK j \in 1..Cardinality(S) : x = q[j]
      BY AllAreListed DEF First
    <3>6. k + 1 <= j
      BY <3>2, <3>4, <3>5 DEF First
    <3>7. /\ f[x] <= f[q[k + 1]] /\ q[k + 1] \in S /\ f[x] \in Nat /\ f[q[k + 1]] \in Nat
      <4>1. q[k + 1] \in S /\ f[x] \in Nat /\ f[q[k + 1]] \in Nat
        BY <3>2 DEF Lists, Counts
      <4>2. CASE k + 1 = j
        BY <3>5, <4>1, <4>2
      <4>3. CASE k + 1 < j
        BY <3>2, <3>5, <4>1, <4>3 DEF Lists
      <4> QED
        BY <3>2, <3>6, <4>1, <4>2, <4>3
    <3>8. SumFunctionOnSet(f, r) = f[x] + SumFunctionOnSet(f, r \ {x})
      BY <1>1, SumTakesOut
    <3>9. SumFunctionOnSet(f, r \ {x}) <= SumFunctionOnSet(f, First(q, k))
      <4>1. Cardinality(r \ {x}) = k
        BY <1>1, FS_RemoveElement
      <4> QED
        BY <1>2, <4>1
    <3>10. SumFunctionOnSet(f, First(q, k + 1)) = f[q[k + 1]] + SumFunctionOnSet(f, First(q, k))
      <4>1. First(q, k + 1) = First(q, k) \cup {q[k + 1]} /\ q[k + 1] \notin First(q, k)
        BY <3>2, FirstAdds
      <4> QED
        BY <1>1, <3>3, <3>7, <4>1, SumAdds
    <3>11. SumFunctionOnSet(f, First(q, k)) \in Nat /\ SumFunctionOnSet(f, r \ {x}) \in Nat
      BY <1>1, <3>3
    <3> HIDE DEF k
    <3>12. SumFunctionOnSet(f, r) <= SumFunctionOnSet(f, First(q, k + 1))
      BY <3>7, <3>8, <3>9, <3>10, <3>11
    <3> QED
      BY <3>2, <3>12
  <2> QED
    BY <2>1, <2>2
<1> HIDE DEF X
<1>3. SUBSET S \subseteq X
  BY <1>2, SmallerSets
<1> QED
  BY <1>3 DEF X

-----------------------------------------------------------------------------
(* getUtxosToFillTx *)

Typed ==
  /\ utxos \in [Utxos -> [token : Tokens, amount : 1..MaxAmount]]
  /\ outputs \in Seq(Outputs) /\ outputs # <<>>

Amounts == [u \in Utxos |-> utxos[u].amount]

(* p is a good choice among the utxos in S.                                *)
Chosen(p, S, sum) ==
  /\ p \in Seq(S) /\ IsInjective(p) /\ Amount(ToSet(p)) >= sum
  /\ \A R \in SUBSET S : Amount(R) >= sum =>
       /\ Cardinality(ToSet(p)) <= Cardinality(R)
       /\ Cardinality(R) = 1 => Amount(ToSet(p)) <= Amount(R)

LEMMA AmountsCount ==
  ASSUME Typed, NEW S \in SUBSET Utxos
  PROVE  /\ IsFiniteSet(S) /\ Counts(Amounts, S) /\ Cardinality(S) \in Nat
         /\ Amount(S) = SumFunctionOnSet(Amounts, S) /\ Amount(S) \in Nat
         /\ S # {} => Cardinality(S) # 0
         /\ S = {} => Amount(S) = 0
<1>1. IsFiniteSet(S) /\ Amount(S) = SumFunctionOnSet(Amounts, S)
  BY TxFundsAssumption, FS_Subset DEF Amount, Amounts
<1>2. Counts(Amounts, S)
  BY TxFundsAssumption DEF Counts, Amounts, Typed
<1> QED
  BY <1>1, <1>2, SumType, SumOfNone, FS_CardinalityType, FS_EmptySet

LEMMA AmountOfOne ==
  ASSUME Typed, NEW u \in Utxos
  PROVE  Amount({u}) = utxos[u].amount /\ utxos[u].amount \in Nat \ {0} /\ Amounts[u] = utxos[u].amount
<1>1. utxos[u].amount \in Nat \ {0} /\ Amounts[u] = utxos[u].amount
  BY TxFundsAssumption DEF Amounts, Typed
<1>2. IsFiniteSet({u}) /\ Counts(Amounts, {u}) /\ {u} \ {u} = {} /\ u \in {u}
  BY <1>1, FS_Singleton DEF Counts
<1>3. Amount({u}) = Amounts[u] + SumFunctionOnSet(Amounts, {})
  BY <1>2, SumTakesOut, AmountsCount
<1> QED
  BY <1>1, <1>3, SumOfNone

LEMMA SortedLists ==
  ASSUME Typed, NEW S \in SUBSET Utxos, NEW q \in Sorted(S)
  PROVE  Lists(q, S, Amounts) /\ q \in Seq(S) /\ Len(q) = Cardinality(S)
<1>1. IsFiniteSet(S) /\ Cardinality(S) \in Nat
  BY AmountsCount
<1>2. q \in [1..Cardinality(S) -> S] /\ \A i, j \in 1..Cardinality(S) : i # j => q[i] # q[j]
  BY DEF Sorted, SetToSeqs
<1>3. \A i, j \in DOMAIN q : i < j => utxos[q[i]].amount >= utxos[q[j]].amount
  BY DEF Sorted
<1>4. \A i, j \in 1..Cardinality(S) : i < j => Amounts[q[i]] >= Amounts[q[j]]
  BY <1>2, <1>3 DEF Amounts
<1> QED
  BY <1>1, <1>2, <1>4 DEF Lists

LEMMA MinIsLeast ==
  ASSUME NEW I \in SUBSET Nat, I # {}
  PROVE  Min(I) \in I /\ \A i \in I : Min(I) <= i
BY LeastNatural DEF Min

(* One utxo of S.                                                          *)
LEMMA OneIsChosen ==
  ASSUME Typed, NEW S \in SUBSET Utxos, NEW sum \in Nat \ {0}, NEW u \in S,
         utxos[u].amount >= sum,
         \A x \in S : utxos[x].amount >= sum => utxos[u].amount <= utxos[x].amount
  PROVE  Chosen(<<u>>, S, sum)
<1>1. <<u>> \in Seq(S) /\ IsInjective(<<u>>) /\ ToSet(<<u>>) = {u}
  BY DEF IsInjective, ToSet
<1>2. Amount({u}) = utxos[u].amount /\ utxos[u].amount \in Nat
  BY AmountOfOne
<1>3. ASSUME NEW R \in SUBSET S, Amount(R) >= sum
      PROVE  Cardinality({u}) <= Cardinality(R) /\ (Cardinality(R) = 1 => Amount({u}) <= Amount(R))
  <2>1. Cardinality(R) \in Nat /\ Cardinality(R) # 0 /\ IsFiniteSet(R) /\ Cardinality({u}) = 1
    BY <1>3, AmountsCount, FS_Singleton
  <2>2. ASSUME Cardinality(R) = 1 PROVE Amount({u}) <= Amount(R)
    <3>1. PICK x : R = {x}
      BY <2>1, <2>2, FS_Singleton
    <3>2. x \in S /\ x \in Utxos /\ Amount(R) = utxos[x].amount
      BY <3>1, AmountOfOne
    <3> QED
      BY <1>2, <1>3, <3>2
  <2> QED
    BY <2>1, <2>2
<1> QED
  BY <1>1, <1>2, <1>3 DEF Chosen

LEMMA SmallestEnoughChooses ==
  ASSUME Typed, NEW S \in SUBSET Utxos, NEW sum \in Nat \ {0}, NEW q \in Sorted(S), S # {},
         utxos[q[1]].amount > sum
  PROVE  Chosen(SmallestEnough(q, sum), S, sum)
<1> DEFINE n == Cardinality(S)
           I == {i \in 1..Len(q) : utxos[q[i]].amount < sum}
<1>1. /\ Lists(q, S, Amounts) /\ q \in Seq(S) /\ Len(q) = n /\ n \in Nat /\ n # 0
      /\ IsFiniteSet(S)
  BY SortedLists, AmountsCount
<1>2. \A i \in 1..n : q[i] \in S /\ utxos[q[i]].amount \in Nat
  BY <1>1, AmountOfOne DEF Lists
<1>3. \A i, j \in 1..n : i < j => utxos[q[i]].amount >= utxos[q[j]].amount
  BY <1>1, <1>2 DEF Lists, Amounts
<1>4. FirstSmaller(q, sum) = IF I # {} THEN Min(I) ELSE 0
  BY DEF FirstSmaller, SelectInSeq
<1>5. \A x \in S : \E i \in 1..n : x = q[i]
  BY <1>1, AllAreListed DEF First
<1> HIDE DEF n
<1>6. CASE I = {}
  <2>1. SmallestEnough(q, sum) = <<q[n]>>
    BY <1>1, <1>4, <1>6 DEF SmallestEnough, Last
  <2>2. n \in 1..n /\ utxos[q[n]].amount >= sum
    BY <1>1, <1>2, <1>6
  <2>3. \A i \in 1..n : utxos[q[n]].amount <= utxos[q[i]].amount
    BY <1>1, <1>2, <1>3, <2>2
  <2> QED
    BY <1>2, <1>5, <2>1, <2>2, <2>3, OneIsChosen
<1>7. CASE I # {}
  <2> DEFINE m == Min(I)
  <2>1. m \in I /\ \A i \in I : m <= i
    <3>1. I \in SUBSET Nat
      BY <1>1
    <3> HIDE DEF I
    <3> QED
      BY <1>7, <3>1, MinIsLeast
  <2> HIDE DEF m
  <2>2. m \in 1..n /\ utxos[q[m]].amount < sum /\ m # 1 /\ m # 0
    BY <1>1, <1>2, <2>1
  <2>3. m - 1 \in 1..n
    BY <1>1, <2>2
  <2>4. utxos[q[m - 1]].amount >= sum
    BY <1>1, <1>2, <2>1, <2>3
  <2>5. SmallestEnough(q, sum) = <<q[m - 1]>>
    BY <1>4, <1>7, <2>2 DEF SmallestEnough, m
  <2>6. ASSUME NEW i \in 1..n, utxos[q[i]].amount >= sum
        PROVE  utxos[q[m - 1]].amount <= utxos[q[i]].amount
    <3>1. i < m
      <4>1. m < i => utxos[q[m]].amount >= utxos[q[i]].amount
        BY <1>3, <2>2
      <4> QED
        BY <1>2, <2>2, <2>6, <4>1
    <3>2. i < m - 1 \/ i = m - 1
      BY <2>2, <3>1
    <3>3. i < m - 1 => utxos[q[i]].amount >= utxos[q[m - 1]].amount
      BY <1>3, <2>3
    <3> QED
      BY <1>2, <2>3, <3>2, <3>3
  <2>7. q[m - 1] \in S /\ \A x \in S : utxos[x].amount >= sum => utxos[q[m - 1]].amount <= utxos[x].amount
    BY <1>2, <1>5, <2>3, <2>6
  <2> QED
    BY <2>4, <2>5, <2>7, OneIsChosen
<1> QED
  BY <1>6, <1>7

LEMMA LargestFirstChooses ==
  ASSUME Typed, NEW S \in SUBSET Utxos, NEW sum \in Nat \ {0}, NEW q \in Sorted(S), S # {},
         Amount(S) >= sum, utxos[q[1]].amount <= sum
  PROVE  Chosen(LargestFirst(q, sum), S, sum)
<1> DEFINE n == Cardinality(S)
           I == {i \in 1..Len(q) : Amount(ToSet(SubSeq(q, 1, i))) >= sum}
           m == Min(I)
           p == SubSeq(q, 1, m)
<1>1. /\ Lists(q, S, Amounts) /\ q \in Seq(S) /\ Len(q) = n /\ n \in Nat /\ n # 0
      /\ IsFiniteSet(S) /\ Counts(Amounts, S)
  BY SortedLists, AmountsCount
<1>2. \A i \in 1..n : /\ SubSeq(q, 1, i) \in Seq(S) /\ Len(SubSeq(q, 1, i)) = i
                     /\ \A j \in 1..i : SubSeq(q, 1, i)[j] = q[j]
  BY <1>1, SubSeqProperties
<1>3. \A i \in 1..n : ToSet(SubSeq(q, 1, i)) = First(q, i)
  <2> TAKE i \in 1..n
  <2>1. DOMAIN SubSeq(q, 1, i) = 1..i
    BY <1>2
  <2> QED
    BY <1>2, <2>1 DEF ToSet, First
<1>4. \A i \in 1..n : /\ First(q, i) \in SUBSET S /\ Cardinality(First(q, i)) = i
                     /\ Amount(First(q, i)) \in Nat
  <2> TAKE i \in 1..n
  <2>1. i \in 0..Cardinality(S)
    OBVIOUS
  <2>2. First(q, i) \subseteq S /\ Cardinality(First(q, i)) = i
    BY <1>1, <2>1, FirstCounts
  <2> QED
    BY <2>2, AmountsCount
<1>5. n \in I
  <2>1. First(q, n) = S
    BY <1>1, AllAreListed
  <2> QED
    BY <1>1, <1>3, <2>1
<1>6. m \in I /\ \A i \in I : m <= i
  <2>1. I \in SUBSET Nat
    BY <1>1
  <2> HIDE DEF I
  <2> QED
    BY <1>5, <2>1, MinIsLeast
<1>7. m \in 1..n /\ Amount(First(q, m)) >= sum
  BY <1>1, <1>3, <1>6
<1>8. \A i \in 1..n : i < m => Amount(First(q, i)) < sum
  <2> TAKE i \in 1..n
  <2> HAVE i < m
  <2>1. i \notin I
    BY <1>6, <1>7
  <2> QED
    BY <1>1, <1>3, <1>4, <2>1
<1> HIDE DEF m, n, I
<1>9. p \in Seq(S) /\ ToSet(p) = First(q, m)
  BY <1>2, <1>3, <1>7
<1>10. IsInjective(p)
  <2>1. DOMAIN p = 1..m /\ \A j \in 1..m : p[j] = q[j]
    BY <1>2, <1>7
  <2>2. \A i, j \in 1..n : i # j => q[i] # q[j]
    BY <1>1 DEF Lists, n
  <2>3. 1..m \subseteq 1..n
    BY <1>1, <1>7
  <2> HIDE DEF p
  <2> QED
    BY <2>1, <2>2, <2>3 DEF IsInjective
<1>11. ASSUME NEW R \in SUBSET S, Amount(R) >= sum
       PROVE  m <= Cardinality(R) /\ (Cardinality(R) = 1 => Amount(First(q, m)) <= Amount(R))
  <2>1. Cardinality(R) \in Nat /\ Cardinality(R) # 0 /\ Amount(R) \in Nat
    BY <1>11, AmountsCount
  <2>2. Cardinality(R) <= n
    BY <1>1, FS_Subset DEF n
  <2>3. Amount(R) <= Amount(First(q, Cardinality(R)))
    <3>1. SumFunctionOnSet(Amounts, R) <= SumFunctionOnSet(Amounts, First(q, Cardinality(R)))
      BY <1>1, LargestFirstSums
    <3> QED
      BY <3>1 DEF Amount, Amounts
  <2>4. Cardinality(R) \in 1..n
    BY <1>1, <2>1, <2>2
  <2>5. m <= Cardinality(R)
    BY <1>4, <1>7, <1>8, <1>11, <2>1, <2>3, <2>4
  <2>6. ASSUME Cardinality(R) = 1 PROVE Amount(First(q, m)) <= Amount(R)
    <3>1. m = 1 /\ 1 \in 1..n
      BY <1>7, <2>4, <2>5, <2>6
    <3>2. First(q, m) = {q[1]} /\ q[1] \in S
      BY <1>1, <3>1 DEF First, Lists, n
    <3>3. Amount(First(q, m)) = utxos[q[1]].amount /\ utxos[q[1]].amount \in Nat
      BY <3>2, AmountOfOne
    <3> QED
      BY <1>11, <2>1, <3>3
  <2> QED
    BY <2>5, <2>6
<1>12. LargestFirst(q, sum) = p
  BY DEF LargestFirst, p, m, I
<1>13. Cardinality(ToSet(p)) = m
  BY <1>4, <1>7, <1>9
<1> HIDE DEF p
<1> QED
  BY <1>7, <1>9, <1>10, <1>11, <1>12, <1>13 DEF Chosen

LEMMA Chooses ==
  ASSUME Typed, NEW S \in SUBSET Utxos, NEW sum \in Nat \ {0}, NEW q \in Sorted(S),
         Amount(S) >= sum
  PROVE  Chosen(GetUtxosToFillTx(q, sum), S, sum)
<1>1. S # {}
  BY AmountsCount
<1>2. utxos[q[1]].amount \in Nat
  <2>1. q[1] \in S
    BY <1>1, SortedLists, AmountsCount DEF Lists
  <2> QED
    BY <2>1, AmountOfOne
<1>3. CASE utxos[q[1]].amount > sum
  BY <1>1, <1>3, SmallestEnoughChooses DEF GetUtxosToFillTx
<1>4. CASE ~ (utxos[q[1]].amount > sum)
  BY <1>1, <1>2, <1>4, LargestFirstChooses DEF GetUtxosToFillTx
<1> QED
  BY <1>3, <1>4

-----------------------------------------------------------------------------
(* What the outputs take                                                   *)

Values == [i \in DOMAIN outputs |-> Value(outputs[i])]
Sizes == [i \in DOMAIN outputs |-> outputs[i].value]
UtxosOf(t) == {u \in Utxos : utxos[u].token = t}

LEMMA OutputsCount ==
  ASSUME Typed, NEW t \in UsedTokens
  PROVE  /\ IsFiniteSet(Of(t)) /\ Of(t) # {} /\ Counts(Values, Of(t)) /\ Counts(Sizes, Of(t))
         /\ \A i \in Of(t) : Values[i] = IF Sizes[i] = 0 THEN 1 ELSE Sizes[i]
         /\ \A i \in Of(t) : Values[i] \in Nat \ {0}
<1>1. Len(outputs) \in Nat /\ DOMAIN outputs = 1..Len(outputs)
  BY DEF Typed
<1>2. \A i \in DOMAIN outputs : outputs[i].value \in Nat
  <2> TAKE i \in DOMAIN outputs
  <2>1. outputs[i] \in Outputs
    BY <1>1 DEF Typed
  <2> QED
    BY <2>1, TxFundsAssumption DEF Outputs, Data
<1>3. IsFiniteSet(Of(t))
  <2>1. IsFiniteSet(1..Len(outputs)) /\ Of(t) \subseteq 1..Len(outputs)
    BY <1>1, FS_Interval DEF Of
  <2> QED
    BY <2>1, FS_Subset
<1>4. Of(t) # {}
  BY DEF UsedTokens, Of
<1>5. \A i \in Of(t) : /\ Sizes[i] \in Nat /\ Values[i] \in Nat \ {0}
                      /\ Values[i] = IF Sizes[i] = 0 THEN 1 ELSE Sizes[i]
  BY <1>2 DEF Of, Sizes, Values, Value, Data
<1> QED
  BY <1>3, <1>4, <1>5 DEF Counts

LEMMA NeededCounts ==
  ASSUME Typed, NEW t \in UsedTokens
  PROVE  Needed(t) = Sent(t) + Cardinality(Burnt(t)) /\ Needed(t) \in Nat \ {0}
<1>1. Needed(t) = SumFunctionOnSet(Values, Of(t)) /\ Sent(t) = SumFunctionOnSet(Sizes, Of(t))
  BY DEF Needed, Sent, Values, Sizes
<1>2. Burnt(t) = {i \in Of(t) : Sizes[i] = 0}
  BY DEF Burnt, DataOutputs, Sizes, Of, Data
<1>3. SumFunctionOnSet(Values, Of(t)) = SumFunctionOnSet(Sizes, Of(t)) + Cardinality({i \in Of(t) : Sizes[i] = 0})
  BY OutputsCount, SumOfOnes
<1>4. PICK i \in Of(t) : TRUE
  BY OutputsCount
<1>5. /\ IsFiniteSet(Of(t) \ {i}) /\ Counts(Values, Of(t) \ {i})
      /\ SumFunctionOnSet(Values, Of(t)) = Values[i] + SumFunctionOnSet(Values, Of(t) \ {i})
  BY OutputsCount, SumTakesOut, FS_Subset DEF Counts
<1>6. SumFunctionOnSet(Values, Of(t) \ {i}) \in Nat /\ Values[i] \in Nat \ {0}
  BY <1>5, OutputsCount, SumType
<1> QED
  BY <1>1, <1>2, <1>3, <1>5, <1>6

LEMMA FillsAre ==
  ASSUME Typed, NEW t \in UsedTokens
  PROVE  Fills(t) = {S \in SUBSET UtxosOf(t) : Amount(S) >= Needed(t)}
BY NeededCounts DEF Fills, UtxosOf

(* All the utxos of a token fill its outputs if any do.                    *)
LEMMA AllFill ==
  ASSUME Typed, NEW t \in UsedTokens
  PROVE  Fills(t) = {} <=> TooLittle(UtxosOf(t), Needed(t))
<1>1. UtxosOf(t) \in SUBSET Utxos /\ Needed(t) \in Nat
  BY NeededCounts DEF UtxosOf
<1>2. ASSUME NEW S \in SUBSET UtxosOf(t)
      PROVE  Amount(S) \in Nat /\ Amount(S) <= Amount(UtxosOf(t))
  <2>1. IsFiniteSet(UtxosOf(t)) /\ Counts(Amounts, UtxosOf(t))
    BY <1>1, AmountsCount
  <2>2. SumFunctionOnSet(Amounts, S) <= SumFunctionOnSet(Amounts, UtxosOf(t))
    BY <2>1, SumGrows
  <2> QED
    BY <1>1, <2>2, AmountsCount
<1>3. Amount(UtxosOf(t)) \in Nat /\ UtxosOf(t) \in SUBSET UtxosOf(t)
  BY <1>1, AmountsCount
<1> QED
  BY <1>1, <1>2, <1>3, FillsAre DEF TooLittle

-----------------------------------------------------------------------------
(* The inductive invariant                                                 *)

Ready == UsedTokens \ ToSet(tokens) \* the tokens whose inputs are chosen

(* S fills the outputs of t, with the fewest utxos and the least change.   *)
Best(S, t) ==
  /\ S \in Fills(t)
  /\ \A R \in Fills(t) : /\ Cardinality(S) <= Cardinality(R)
                         /\ Cardinality(R) = 1 => Amount(S) <= Amount(R)

Progress ==
  /\ result = "ok" => tokens = <<>>
  /\ result = "filling" => tokens # <<>>
  /\ result = "no utxos" => tokens # <<>> /\ Fills(Head(tokens)) = {}

Choosing ==
  /\ tokens \in Seq(UsedTokens) /\ IsInjective(tokens)
  /\ inputs \in Seq(Utxos) /\ IsInjective(inputs)
  /\ \A u \in ToSet(inputs) : utxos[u].token \in Ready
  /\ \A t \in Ready : Best(Picked(t), t)
  /\ Progress

FundsInv ==
  /\ Typed
  /\ result \in {"none", "filling", "ok", "no utxos"}
  /\ result = "none" => tokens = <<>> /\ inputs = <<>>
  /\ asked = "query" /\ result # "none" => Choosing
  /\ result = "filling" => asked = "query"

LEMMA Initial == Init => FundsInv
<1> SUFFICES ASSUME Init PROVE FundsInv
  OBVIOUS
<1>1. outputs \in Seq(Outputs) /\ outputs # <<>>
  <2>1. PICK m \in 0..MaxOutputs : outputs \in [1..m -> Outputs]
    BY DEF Init, SeqOf
  <2>2. m \in Nat
    BY TxFundsAssumption
  <2> QED
    BY <2>1, <2>2 DEF Init
<1> QED
  BY <1>1 DEF Init, FundsInv, Typed

LEMMA OrdersAreSeqs ==
  ASSUME Typed, NEW q \in TokenOrders
  PROVE  q \in Seq(UsedTokens) /\ IsInjective(q) /\ ToSet(q) = UsedTokens
<1> DEFINE n == Cardinality(UsedTokens)
<1>1. IsFiniteSet(UsedTokens) /\ n \in Nat
  <2>1. Len(outputs) \in Nat /\ DOMAIN outputs = 1..Len(outputs)
    BY DEF Typed
  <2> DEFINE g == [i \in 1..Len(outputs) |-> TokenOf(outputs[i])]
  <2>2. IsFiniteSet(1..Len(outputs)) /\ g \in Surjection(1..Len(outputs), UsedTokens)
    <3>1. IsFiniteSet(1..Len(outputs))
      BY <2>1, FS_Interval
    <3>2. g \in [1..Len(outputs) -> UsedTokens]
      BY <2>1 DEF UsedTokens
    <3>3. \A t \in UsedTokens : \E i \in 1..Len(outputs) : g[i] = t
      BY <2>1 DEF UsedTokens
    <3> QED
      BY <3>1, <3>2, <3>3 DEF Surjection
  <2> QED
    BY <2>2, FS_Surjection, FS_CardinalityType
<1>2. q \in [1..n -> UsedTokens] /\ \A i, j \in 1..n : i # j => q[i] # q[j]
  BY DEF TokenOrders, SetToSeqs
<1>3. q \in Seq(UsedTokens) /\ DOMAIN q = 1..n
  BY <1>1, <1>2
<1>4. IsInjective(q)
  BY <1>2, <1>3 DEF IsInjective
<1>5. ToSet(q) = UsedTokens
  <2> DEFINE f == [t \in UsedTokens |-> 0]
  <2>1. Lists(q, UsedTokens, f)
    BY <1>1, <1>2 DEF Lists
  <2>2. First(q, n) = UsedTokens
    BY <1>1, <2>1, AllAreListed
  <2> QED
    BY <1>3, <2>2 DEF First, ToSet
<1> QED
  BY <1>3, <1>4, <1>5

LEMMA SumOutputsKeepsInv ==
  ASSUME FundsInv, SumOutputs
  PROVE  FundsInv'
<1>1. Typed' /\ utxos' = utxos /\ outputs' = outputs /\ asked' = asked
  BY DEF FundsInv, Typed, SumOutputs
<1>2. CASE asked = "query"
  <2>1. tokens' \in TokenOrders /\ result' = "filling" /\ inputs' = <<>>
    BY <1>2 DEF SumOutputs, FundsInv
  <2>2. tokens' \in Seq(UsedTokens) /\ IsInjective(tokens') /\ ToSet(tokens') = UsedTokens
    BY <2>1, OrdersAreSeqs DEF FundsInv
  <2>3. UsedTokens' = UsedTokens /\ UsedTokens # {}
    <3>1. UsedTokens' = UsedTokens
      BY <1>1 DEF UsedTokens, TokenOf
    <3>2. 1 \in DOMAIN outputs
      <4>1. outputs \in Seq(Outputs) /\ outputs # <<>>
        BY DEF FundsInv, Typed
      <4>2. Len(outputs) \in Nat /\ Len(outputs) # 0 /\ DOMAIN outputs = 1..Len(outputs)
        BY <4>1, EmptySeq, LenProperties
      <4> QED
        BY <4>2
    <3> QED
      BY <3>1, <3>2 DEF UsedTokens
  <2>4. tokens' # <<>>
    BY <2>2, <2>3 DEF ToSet
  <2>5. Ready' = {}
    BY <2>2, <2>3 DEF Ready, ToSet
  <2>6. ToSet(inputs') = {} /\ IsInjective(inputs') /\ inputs' \in Seq(Utxos)
    BY <2>1 DEF ToSet, IsInjective
  <2> QED
    BY <1>1, <1>2, <2>1, <2>2, <2>3, <2>4, <2>5, <2>6 DEF FundsInv, Choosing, Progress, ToSet
<1>3. CASE asked # "query"
  BY <1>1, <1>3 DEF FundsInv, SumOutputs
<1> QED
  BY <1>2, <1>3

LEMMA ConcatSets ==
  ASSUME NEW X, NEW r \in Seq(X), NEW s \in Seq(X)
  PROVE  /\ r \o s \in Seq(X) /\ ToSet(r \o s) = ToSet(r) \cup ToSet(s)
         /\ IsInjective(r) /\ IsInjective(s) /\ ToSet(r) \cap ToSet(s) = {} => IsInjective(r \o s)
<1> DEFINE a == Len(r)
           b == Len(s)
           c == r \o s
<1>1. /\ a \in Nat /\ b \in Nat /\ c \in Seq(X) /\ Len(c) = a + b
      /\ DOMAIN r = 1..a /\ DOMAIN s = 1..b /\ DOMAIN c = 1..(a + b)
      /\ \A i \in 1..(a + b) : c[i] = IF i <= a THEN r[i] ELSE s[i - a]
  OBVIOUS
<1> HIDE DEF a, b, c
<1>2. \A i \in 1..(a + b) : i \in 1..a \/ (i - a \in 1..b /\ ~ (i <= a))
  BY <1>1
<1>3. \A i \in 1..a : i \in 1..(a + b) /\ c[i] = r[i]
  BY <1>1
<1>4. \A i \in 1..b : i + a \in 1..(a + b) /\ c[i + a] = s[i]
  <2> TAKE i \in 1..b
  <2>1. i + a \in 1..(a + b) /\ ~ (i + a <= a) /\ (i + a) - a = i
    BY <1>1
  <2> QED
    BY <1>1, <2>1
<1>5. ToSet(c) = ToSet(r) \cup ToSet(s)
  <2>1. ToSet(c) \subseteq ToSet(r) \cup ToSet(s)
    BY <1>1, <1>2 DEF ToSet
  <2>2. ToSet(r) \subseteq ToSet(c)
    BY <1>1, <1>3 DEF ToSet
  <2>3. ToSet(s) \subseteq ToSet(c)
    BY <1>1, <1>4 DEF ToSet
  <2> QED
    BY <2>1, <2>2, <2>3
<1>6. ASSUME IsInjective(r), IsInjective(s), ToSet(r) \cap ToSet(s) = {}
      PROVE  IsInjective(c)
  <2> SUFFICES ASSUME NEW i \in 1..(a + b), NEW j \in 1..(a + b), c[i] = c[j] PROVE i = j
    BY <1>1 DEF IsInjective
  <2>1. CASE i \in 1..a /\ j \in 1..a
    BY <1>1, <1>3, <1>6, <2>1 DEF IsInjective
  <2>2. CASE i - a \in 1..b /\ ~ (i <= a) /\ j - a \in 1..b /\ ~ (j <= a)
    <3>1. s[i - a] = s[j - a]
      BY <1>1, <2>2
    <3>2. i - a = j - a
      BY <1>1, <1>6, <2>2, <3>1 DEF IsInjective
    <3> QED
      BY <1>1, <3>2
  <2>3. ASSUME NEW k \in 1..a, NEW l \in 1..(a + b), l - a \in 1..b, ~ (l <= a)
        PROVE  c[k] # c[l]
    <3>1. c[k] \in ToSet(r) /\ c[l] \in ToSet(s)
      BY <1>1, <1>3, <2>3 DEF ToSet
    <3> QED
      BY <1>6, <3>1
  <2> QED
    BY <1>2, <2>1, <2>2, <2>3
<1> QED
  BY <1>1, <1>5, <1>6 DEF c

LEMMA TailDrops ==
  ASSUME NEW X, NEW s \in Seq(X), s # <<>>, IsInjective(s)
  PROVE  /\ Tail(s) \in Seq(X) /\ IsInjective(Tail(s)) /\ Head(s) \in X
         /\ ToSet(Tail(s)) = ToSet(s) \ {Head(s)} /\ Head(s) \in ToSet(s)
         /\ Tail(s) = <<>> <=> Len(s) = 1
<1> DEFINE n == Len(s)
           t == Tail(s)
<1>1. /\ n \in Nat /\ n # 0 /\ t \in Seq(X) /\ DOMAIN s = 1..n /\ Head(s) = s[1]
      /\ Len(t) = n - 1 /\ DOMAIN t = 1..(n - 1)
      /\ \A i \in 1..(n - 1) : t[i] = s[i + 1]
  OBVIOUS
<1>2. t = <<>> <=> n = 1
  BY <1>1
<1>3. s[1] \in X
  BY <1>1
<1> HIDE DEF n, t
<1>4. \A i \in 1..(n - 1) : i + 1 \in 1..n /\ i + 1 # 1
  BY <1>1
<1>5. \A i \in 1..n : i # 1 => i - 1 \in 1..(n - 1) /\ t[i - 1] = s[i]
  <2> TAKE i \in 1..n
  <2> HAVE i # 1
  <2>1. i - 1 \in 1..(n - 1) /\ (i - 1) + 1 = i
    BY <1>1
  <2> QED
    BY <1>1, <2>1
<1>6. \A i, j \in 1..n : s[i] = s[j] => i = j
  BY <1>1 DEF IsInjective
<1>7. IsInjective(t)
  <2> SUFFICES ASSUME NEW i \in 1..(n - 1), NEW j \in 1..(n - 1), t[i] = t[j] PROVE i = j
    BY <1>1 DEF IsInjective
  <2>1. i + 1 = j + 1
    BY <1>1, <1>4, <1>6
  <2> QED
    BY <2>1
<1>8. ToSet(t) \subseteq ToSet(s) \ {s[1]}
  <2> SUFFICES ASSUME NEW i \in 1..(n - 1) PROVE t[i] \in ToSet(s) /\ t[i] # s[1]
    BY <1>1 DEF ToSet
  <2>1. 1 \in 1..n
    BY <1>1
  <2> QED
    BY <1>1, <1>4, <1>6, <2>1 DEF ToSet
<1>9. ToSet(s) \ {s[1]} \subseteq ToSet(t) /\ s[1] \in ToSet(s)
  BY <1>1, <1>5 DEF ToSet
<1> QED
  BY <1>1, <1>2, <1>3, <1>7, <1>8, <1>9 DEF n, t

(* What does not change while the utxos and the outputs stay.              *)
LEMMA RequestStays ==
  ASSUME utxos' = utxos, outputs' = outputs
  PROVE  /\ UsedTokens' = UsedTokens /\ (Typed => Typed')
         /\ \A S : Amount(S)' = Amount(S)
         /\ \A t : Fills(t)' = Fills(t)
<1>1. UsedTokens' = UsedTokens /\ (Typed => Typed')
  BY DEF UsedTokens, TokenOf, Typed
<1>2. \A S : Amount(S)' = Amount(S)
  BY DEF Amount
<1>3. \A t : Sent(t)' = Sent(t) /\ Burnt(t)' = Burnt(t)
  BY DEF Sent, Burnt, DataOutputs, Of, TokenOf
<1>4. \A t : Fills(t)' = {S \in SUBSET {u \in Utxos : utxos'[u].token = t} :
                           Amount(S)' >= Sent(t)' + Cardinality(Burnt(t)')}
  BY DEF Fills
<1>5. \A t : Fills(t)' = Fills(t)
  BY <1>2, <1>3, <1>4 DEF Fills
<1> QED
  BY <1>1, <1>2, <1>5

LEMMA RefusalKeepsInv ==
  ASSUME FundsInv, FillToken, TooLittle(UtxosOf(Head(tokens)), Needed(Head(tokens)))
  PROVE  FundsInv'
<1>1. /\ utxos' = utxos /\ outputs' = outputs /\ asked' = asked /\ tokens' = tokens
      /\ inputs' = inputs /\ result' = "no utxos" /\ result = "filling" /\ asked = "query"
  BY DEF FillToken, UtxosOf, FundsInv
<1>2. Typed /\ Choosing /\ tokens # <<>> /\ Head(tokens) \in UsedTokens
  BY <1>1, TailDrops DEF FundsInv, Choosing, Progress
<1>3. Fills(Head(tokens)) = {}
  BY <1>2, AllFill
<1>4. Ready' = Ready /\ \A t : Picked(t)' = Picked(t)
  BY <1>1, RequestStays DEF Ready, ToSet, Picked
<1>5. \A t : Best(Picked(t), t) => Best(Picked(t), t)'
  BY <1>1, <1>4, RequestStays DEF Best
<1>6. Progress'
  BY <1>1, <1>2, <1>3, RequestStays DEF Progress
<1>7. Choosing'
  BY <1>1, <1>2, <1>4, <1>5, <1>6, RequestStays DEF Choosing, ToSet, IsInjective
<1> QED
  BY <1>1, <1>2, <1>7, RequestStays DEF FundsInv

LEMMA FillingKeepsInv ==
  ASSUME FundsInv, FillToken, ~ TooLittle(UtxosOf(Head(tokens)), Needed(Head(tokens)))
  PROVE  FundsInv'
<1> PICK t : t = Head(tokens)
  OBVIOUS
<1> DEFINE S == UtxosOf(t)
<1>1. PICK q \in Sorted(S) : inputs' = inputs \o GetUtxosToFillTx(q, Needed(t))
  BY DEF FillToken, UtxosOf
<1>2. /\ utxos' = utxos /\ outputs' = outputs /\ asked' = asked /\ tokens' = Tail(tokens)
      /\ result' = (IF Len(tokens) = 1 THEN "ok" ELSE "filling")
      /\ result = "filling" /\ asked = "query"
  BY DEF FillToken, UtxosOf, FundsInv
<1>3. Typed /\ Choosing /\ tokens # <<>>
  BY <1>2 DEF FundsInv, Choosing, Progress
<1>4. /\ Tail(tokens) \in Seq(UsedTokens) /\ IsInjective(Tail(tokens)) /\ t \in UsedTokens
      /\ ToSet(Tail(tokens)) = ToSet(tokens) \ {t} /\ t \in ToSet(tokens)
      /\ Tail(tokens) = <<>> <=> Len(tokens) = 1
  BY <1>3, TailDrops DEF Choosing
<1> DEFINE p == GetUtxosToFillTx(q, Needed(t))
<1>5. Chosen(p, S, Needed(t)) /\ S \in SUBSET Utxos
  <2>1. S \in SUBSET Utxos /\ Needed(t) \in Nat \ {0}
    BY <1>3, <1>4, NeededCounts DEF UtxosOf
  <2>2. Amount(S) \in Nat
    BY <1>3, <2>1, AmountsCount
  <2>3. Amount(S) >= Needed(t)
    BY <2>1, <2>2 DEF TooLittle
  <2> QED
    BY <1>3, <2>1, <2>3, Chooses
<1> HIDE DEF p
<1>6. inputs' = inputs \o p
  BY <1>1 DEF p
<1>7. ToSet(p) \in SUBSET S /\ p \in Seq(Utxos) /\ IsInjective(p)
  <2>1. p \in Seq(S)
    BY <1>5 DEF Chosen
  <2>2. \A i \in DOMAIN p : p[i] \in S
    BY <2>1
  <2> QED
    BY <1>5, <2>1, <2>2 DEF Chosen, ToSet
<1>8. Best(ToSet(p), t)
  BY <1>3, <1>4, <1>5, <1>7, FillsAre DEF Best, Chosen
<1>9. Ready' = Ready \cup {t} /\ t \notin Ready
  <2>1. Ready' = UsedTokens \ ToSet(Tail(tokens))
    BY <1>2, RequestStays DEF Ready, ToSet
  <2> QED
    BY <1>4, <2>1 DEF Ready
<1>10. ToSet(inputs) \cap ToSet(p) = {}
  BY <1>3, <1>7, <1>9 DEF Choosing, UtxosOf
<1>11. inputs' \in Seq(Utxos) /\ IsInjective(inputs') /\ ToSet(inputs') = ToSet(inputs) \cup ToSet(p)
  BY <1>3, <1>6, <1>7, <1>10, ConcatSets DEF Choosing
<1>12. \A x : Picked(x)' = {u \in ToSet(inputs) \cup ToSet(p) : utxos[u].token = x}
  BY <1>2, <1>11 DEF Picked, ToSet
<1>13. Picked(t)' = ToSet(p) /\ \A x \in Ready : Picked(x)' = Picked(x)
  <2>1. \A u \in ToSet(inputs) : utxos[u].token \in Ready
    BY <1>3 DEF Choosing
  <2>2. \A u \in ToSet(p) : utxos[u].token = t
    BY <1>7 DEF UtxosOf
  <2> QED
    BY <1>9, <1>12, <2>1, <2>2 DEF Picked
<1>14. \A x \in Ready' : Best(Picked(x), x)'
  <2>1. \A x \in Ready : Best(Picked(x), x)
    BY <1>3 DEF Choosing
  <2>2. ASSUME NEW x \in Ready' PROVE Best(Picked(x), x)'
    <3>1. Best(Picked(x)', x)
      BY <1>8, <1>9, <1>13, <2>1, <2>2
    <3> QED
      BY <1>2, <3>1, RequestStays DEF Best
  <2> QED
    BY <2>2
<1>15. \A u \in ToSet(inputs') : utxos'[u].token \in Ready'
  BY <1>2, <1>3, <1>7, <1>9, <1>11 DEF Choosing, UtxosOf
<1>16. Progress'
  BY <1>2, <1>4 DEF Progress
<1>17. Choosing'
  BY <1>2, <1>4, <1>11, <1>14, <1>15, <1>16, RequestStays DEF Choosing, ToSet, IsInjective
<1> QED
  BY <1>2, <1>3, <1>17, RequestStays DEF FundsInv

LEMMA Inductive == FundsInv /\ [Next]_vars => FundsInv'
<1> SUFFICES ASSUME FundsInv, [Next]_vars PROVE FundsInv'
  OBVIOUS
<1>1. CASE SumOutputs
  BY <1>1, SumOutputsKeepsInv
<1>2. CASE FillToken
  BY <1>2, RefusalKeepsInv, FillingKeepsInv
<1>3. CASE UNCHANGED vars
  <2>1. /\ utxos' = utxos /\ outputs' = outputs /\ asked' = asked /\ tokens' = tokens
        /\ inputs' = inputs /\ result' = result
    BY <1>3 DEF vars
  <2>2. Ready' = Ready /\ \A t : Picked(t)' = Picked(t)
    BY <2>1, RequestStays DEF Ready, ToSet, Picked
  <2>3. \A t : Best(Picked(t), t) => Best(Picked(t), t)'
    BY <2>1, <2>2, RequestStays DEF Best
  <2>4. Progress => Progress'
    BY <2>1, RequestStays DEF Progress
  <2>5. Choosing => Choosing'
    BY <2>1, <2>2, <2>3, <2>4, RequestStays DEF Choosing, ToSet, IsInjective
  <2> QED
    BY <2>1, <2>5, RequestStays DEF FundsInv
<1> QED
  BY <1>1, <1>2, <1>3 DEF Next, Done

LEMMA FundsInvHolds == Spec => []FundsInv
BY Initial, Inductive, PTL DEF Spec

-----------------------------------------------------------------------------
(* What the outputs of a token send, and the units its data outputs burn.  *)
LEMMA SentCounts ==
  ASSUME Typed, NEW t
  PROVE  /\ Sent(t) \in Nat /\ Cardinality(Burnt(t)) \in Nat
         /\ t \notin UsedTokens => Sent(t) = 0 /\ Of(t) = {}
<1>1. CASE t \in UsedTokens
  <2>1. Sent(t) = SumFunctionOnSet(Sizes, Of(t))
    BY DEF Sent, Sizes
  <2>2. IsFiniteSet(Of(t)) /\ Counts(Sizes, Of(t))
    BY <1>1, OutputsCount
  <2>3. Burnt(t) \subseteq Of(t)
    BY DEF Burnt
  <2> QED
    BY <1>1, <2>1, <2>2, <2>3, SumType, FS_Subset, FS_CardinalityType
<1>2. CASE t \notin UsedTokens
  <2>1. Of(t) = {}
    BY <1>2 DEF Of, UsedTokens
  <2>2. Sent(t) = 0
    BY <2>1, SumOfNone DEF Sent
  <2>3. Burnt(t) = {} /\ Cardinality({}) = 0
    BY <2>1, FS_EmptySet DEF Burnt
  <2> QED
    BY <2>1, <2>2, <2>3
<1> QED
  BY <1>1, <1>2

(***************************************************************************)
(* The chosen inputs fill what the outputs of every token send, and, where *)
(* every data output is one of HTR, the unit of HTR each of them burns;    *)
(* none is chosen twice or is of another token.                            *)
(* (prepareTxFunds, tx.helper.js:150-203)                                  *)
(***************************************************************************)
THEOREM ChosenInputsFill == Spec => []InputsFillOutputs
<1>1. ToSet(<<>>) = {}
  BY DEF ToSet
<1>2. ASSUME FundsInv, Filled PROVE InputsFillOutputs
  <2>1. /\ Typed /\ IsInjective(inputs) /\ inputs \in Seq(Utxos)
        /\ \A u \in ToSet(inputs) : utxos[u].token \in UsedTokens
        /\ \A t \in UsedTokens : Picked(t) \in Fills(t)
    BY <1>1, <1>2 DEF FundsInv, Choosing, Progress, Ready, Best, Filled
  <2>2. ASSUME NEW t \in UsedTokens
        PROVE  /\ Amount(Picked(t)) >= Sent(t) + Cardinality(Burnt(t))
               /\ Amount(Picked(t)) >= Sent(t)
    <3>1. Amount(Picked(t)) >= Sent(t) + Cardinality(Burnt(t))
      BY <2>1 DEF Fills
    <3>2. Picked(t) \in SUBSET Utxos
      BY <2>1 DEF Fills
    <3>3. Amount(Picked(t)) \in Nat
      BY <2>1, <3>2, AmountsCount
    <3> QED
      BY <2>1, <3>1, <3>3, SentCounts
  <2>3. ASSUME DataOutputs \subseteq Of(Htr)
        PROVE  Amount(Picked(Htr)) >= Sent(Htr) + Cardinality(DataOutputs)
    <3>1. Burnt(Htr) = DataOutputs
      BY <2>3 DEF Burnt
    <3>2. CASE Htr \in UsedTokens
      BY <2>2, <3>1, <3>2
    <3>3. CASE Htr \notin UsedTokens
      <4>1. Sent(Htr) = 0 /\ DataOutputs = {}
        BY <2>1, <2>3, <3>3, SentCounts
      <4>2. Cardinality(DataOutputs) = 0
        BY <4>1, FS_EmptySet
      <4>3. Picked(Htr) = {}
        BY <2>1, <3>3 DEF Picked
      <4>4. Amount(Picked(Htr)) = 0
        BY <4>3, SumOfNone DEF Amount
      <4> QED
        BY <4>1, <4>2, <4>4
    <3> QED
      BY <3>2, <3>3
  <2> QED
    BY <2>1, <2>2, <2>3 DEF InputsFillOutputs
<1>3. FundsInv => InputsFillOutputs
  BY <1>2 DEF InputsFillOutputs
<1> QED
  BY <1>3, FundsInvHolds, PTL

(***************************************************************************)
(* Taking the largest utxos first, or the smallest that is enough alone,   *)
(* takes as few as any choice that fills the outputs, and a single one     *)
(* with the least change.  (getUtxosToFillTx, tx.helper.js:58-107)         *)
(***************************************************************************)
THEOREM FewestAreChosen == Spec => []FewestInputs
<1>1. ToSet(<<>>) = {}
  BY DEF ToSet
<1>2. FundsInv => FewestInputs
  BY <1>1 DEF FundsInv, Choosing, Progress, Ready, Best, FewestInputs, Filled
<1> QED
  BY <1>2, FundsInvHolds, PTL

(***************************************************************************)
(* A request is refused for want of utxos exactly when no set of the       *)
(* matching utxos fills the outputs of some token.                         *)
(* (tx.helper.js:65-68, 187-195)                                           *)
(***************************************************************************)
THEOREM RefusalsAreJust == Spec => []RefusedOnlyWhenShort
<1>1. ToSet(<<>>) = {}
  BY DEF ToSet
<1>2. ASSUME FundsInv, asked = "query", result = "ok"
      PROVE  \A t \in UsedTokens : Fills(t) # {}
  BY <1>1, <1>2 DEF FundsInv, Choosing, Progress, Ready, Best
<1>3. ASSUME FundsInv, asked = "query", result = "no utxos"
      PROVE  \E t \in UsedTokens : Fills(t) = {}
  <2>1. Head(tokens) \in UsedTokens /\ Fills(Head(tokens)) = {}
    BY <1>3, TailDrops DEF FundsInv, Choosing, Progress
  <2> QED
    BY <2>1
<1>4. FundsInv => RefusedOnlyWhenShort
  BY <1>2, <1>3 DEF RefusedOnlyWhenShort
<1> QED
  BY <1>4, FundsInvHolds, PTL
=============================================================================
