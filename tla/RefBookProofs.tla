--------------------------- MODULE RefBookProofs ---------------------------
(***************************************************************************)
(* What is true of every posted reference book, whatever its chart and its *)
(* entries: the lemmas the theorems of RefCaseProofs rest on.              *)
(*                                                                         *)
(*   - sums over finite sets, and lists picked from a list (RefBook takes  *)
(*     both from the community modules' folds);                            *)
(*   - a posted book (Base): its rows, balances and closing balances are   *)
(*     sums over its entries, and its balances add up to nil;              *)
(*   - the own money and the financial position (MakeUpMisses);            *)
(*   - the Receipts & Payments of a book (RpMeets).                        *)
(***************************************************************************)
EXTENDS RefCase, FiniteSetTheorems, SequenceTheorems, WellFoundedInduction, TLAPS

-----------------------------------------------------------------------------
(* Induction over a set, as a lemma about a set *)

LEMMA EveryNumber ==
    ASSUME NEW Good, 0 \in Good, \A n \in Nat : n \in Good => n + 1 \in Good
    PROVE  \A n \in Nat : n \in Good
<1> DEFINE bad == {n \in Nat : n \notin Good}
<1>1. SUFFICES ASSUME bad # {} PROVE FALSE
  OBVIOUS
<1>2. PICK m \in bad : \A k \in bad : ~(<<k, m>> \in OpToRel(<, Nat))
  BY <1>1, NatLessThanWellFounded, WFMin, Zenon
<1>3. m \in Nat /\ m # 0 /\ m - 1 \in Nat /\ m - 1 < m /\ (m - 1) + 1 = m
  OBVIOUS
<1>4. m - 1 \notin bad
  <2>1. <<m - 1, m>> \in Nat \X Nat /\ <<m - 1, m>>[1] = m - 1 /\ <<m - 1, m>>[2] = m
    BY <1>3
  <2> QED BY <1>2, <1>3, <2>1 DEF OpToRel
<1> QED BY <1>2, <1>3, <1>4

LEMMA SizeOfRest ==
    ASSUME NEW T, IsFiniteSet(T), NEW n \in Nat, Cardinality(T) = n + 1
    PROVE  T # {} /\ \A x \in T : IsFiniteSet(T \ {x}) /\ Cardinality(T \ {x}) = n
<1>1. T # {}
  <2>1. n + 1 # 0
    OBVIOUS
  <2> QED BY <2>1, FS_EmptySet
<1>2. ASSUME NEW x \in T PROVE IsFiniteSet(T \ {x}) /\ Cardinality(T \ {x}) = n
  <2>1. IsFiniteSet(T \ {x}) /\ Cardinality(T \ {x}) = Cardinality(T) - 1
    BY FS_RemoveElement
  <2>2. (n + 1) - 1 = n
    OBVIOUS
  <2> QED BY <2>1, <2>2
<1> QED BY <1>1, <1>2

LEMMA EverySubset ==
    ASSUME NEW S, IsFiniteSet(S), NEW Good, {} \in Good,
           \A T \in SUBSET S : T # {} /\ (\A x \in T : T \ {x} \in Good) => T \in Good
    PROVE  \A T \in SUBSET S : IsFiniteSet(T) /\ T \in Good
<1> DEFINE sized == {n \in Nat : \A T \in SUBSET S : Cardinality(T) = n => T \in Good}
<1>1. 0 \in sized
  BY FS_EmptySet, FS_Subset
<1>2. ASSUME NEW n \in Nat, n \in sized PROVE n + 1 \in sized
  <2>1. ASSUME NEW T \in SUBSET S, Cardinality(T) = n + 1 PROVE T \in Good
    <3>1. IsFiniteSet(T)
      BY FS_Subset
    <3>2. T # {} /\ \A x \in T : Cardinality(T \ {x}) = n
      BY <2>1, <3>1, SizeOfRest
    <3>3. \A x \in T : T \ {x} \in Good
      BY <1>2, <3>2
    <3> QED BY <3>2, <3>3
  <2> QED BY <2>1
<1> HIDE DEF sized
<1>3. \A n \in Nat : n \in sized
  BY <1>1, <1>2, EveryNumber
<1>4. ASSUME NEW T \in SUBSET S PROVE IsFiniteSet(T) /\ T \in Good
  <2>1. IsFiniteSet(T) /\ Cardinality(T) \in Nat
    BY FS_Subset, FS_CardinalityType
  <2> QED BY <1>3, <2>1 DEF sized
<1> QED BY <1>4

-----------------------------------------------------------------------------
(* The sum of f over S *)

\* g maps every subset of S to the sum of f over it.
Adds(f, S, g) ==
    g = [s \in SUBSET S |-> IF s = {} THEN 0
                            ELSE LET x == CHOOSE x \in s : TRUE IN f[x] + g[s \ {x}]]

\* What g is to say of s, and g says it of every subset of at most n elements.
AddsOne(f, g, s) == IF s = {} THEN 0 ELSE LET x == CHOOSE x \in s : TRUE IN f[x] + g[s \ {x}]
AddsUpTo(f, S, n, g) ==
    /\ g = [s \in SUBSET S |-> g[s]]
    /\ \A s \in SUBSET S : Cardinality(s) <= n => g[s] = AddsOne(f, g, s)

LEMMA AddsExists ==
    ASSUME NEW f, NEW S, IsFiniteSet(S)
    PROVE  \E g : Adds(f, S, g)
<1> DEFINE good == {n \in Nat : \E g : AddsUpTo(f, S, n, g)}
<1>1. 0 \in good
  <2> DEFINE g == [s \in SUBSET S |-> 0]
  <2>1. \A s \in SUBSET S : Cardinality(s) <= 0 => s = {}
    BY FS_EmptySet, FS_Subset, FS_CardinalityType
  <2>2. AddsUpTo(f, S, 0, g)
    BY <2>1 DEF AddsUpTo, AddsOne
  <2> QED BY <2>2
<1>2. ASSUME NEW n \in Nat, n \in good PROVE n + 1 \in good
  <2>1. PICK g : AddsUpTo(f, S, n, g)
    BY <1>2
  <2> DEFINE h == [s \in SUBSET S |-> IF Cardinality(s) <= n THEN g[s] ELSE AddsOne(f, g, s)]
  <2>2. \A s \in SUBSET S : h[s] = AddsOne(f, g, s)
    BY <2>1 DEF AddsUpTo
  <2>3. ASSUME NEW s \in SUBSET S, Cardinality(s) <= n + 1 PROVE AddsOne(f, g, s) = AddsOne(f, h, s)
    <3>1. CASE s = {}
      BY <3>1 DEF AddsOne
    <3>2. CASE s # {}
      <4> DEFINE x == CHOOSE x \in s : TRUE
      <4>1. x \in s
        BY <3>2
      <4> HIDE DEF x
      <4>2. IsFiniteSet(s) /\ Cardinality(s) \in Nat
        BY FS_Subset, FS_CardinalityType
      <4>3. s \ {x} \in SUBSET S /\ Cardinality(s \ {x}) <= n
        <5>1. Cardinality(s \ {x}) = Cardinality(s) - 1
          BY <4>1, <4>2, FS_RemoveElement
        <5> QED BY <2>3, <4>2, <5>1
      <4>4. h[s \ {x}] = g[s \ {x}]
        BY <4>3
      <4> QED BY <3>2, <4>4 DEF x, AddsOne
    <3> QED BY <3>1, <3>2
  <2>4. h = [s \in SUBSET S |-> h[s]]
    OBVIOUS
  <2> HIDE DEF h
  <2>5. AddsUpTo(f, S, n + 1, h)
    BY <2>2, <2>3, <2>4 DEF AddsUpTo
  <2> QED BY <2>5
<1>3. Cardinality(S) \in good
  <2> HIDE DEF good
  <2>1. \A n \in Nat : n \in good
    BY <1>1, <1>2, EveryNumber
  <2> QED BY <2>1, FS_CardinalityType
<1>4. PICK g : AddsUpTo(f, S, Cardinality(S), g)
  BY <1>3
<1>5. \A s \in SUBSET S : g[s] = AddsOne(f, g, s)
  BY <1>4, FS_Subset DEF AddsUpTo
<1>6. Adds(f, S, g)
  BY <1>4, <1>5 DEF Adds, AddsUpTo, AddsOne
<1> QED BY <1>6

Sum(f, S) == SumFunctionOnSet(f, S)

LEMMA SumIsAdds ==
    ASSUME NEW f, NEW S, IsFiniteSet(S)
    PROVE  \E g : Adds(f, S, g) /\ Sum(f, S) = g[S]
<1> DEFINE iter[s \in SUBSET S] == IF s = {} THEN 0
                                   ELSE LET x == CHOOSE x \in s : TRUE IN f[x] + iter[s \ {x}]
<1>1. Sum(f, S) = iter[S]
  BY DEF Sum, SumFunctionOnSet, FoldFunctionOnSet, MapThenFoldSet
<1>2. iter = [s \in SUBSET S |-> IF s = {} THEN 0
                                  ELSE LET x == CHOOSE x \in s : TRUE IN f[x] + iter[s \ {x}]]
  <2>1. \E g : g = [s \in SUBSET S |-> IF s = {} THEN 0
                                       ELSE LET x == CHOOSE x \in s : TRUE IN f[x] + g[s \ {x}]]
    <3>1. PICK g : Adds(f, S, g)
      BY AddsExists
    <3> QED BY <3>1 DEF Adds
  <2> QED BY <2>1
<1> HIDE DEF iter
<1>3. Adds(f, S, iter)
  BY <1>2 DEF Adds
<1> QED BY <1>1, <1>3

LEMMA AddsAgree ==
    ASSUME NEW f, NEW S, IsFiniteSet(S), NEW T \in SUBSET S, NEW g, NEW h, Adds(f, S, g), Adds(f, T, h)
    PROVE  g[T] = h[T]
<1> DEFINE good == {s \in SUBSET T : g[s] = h[s]}
<1>1. \A s \in SUBSET T : g[s] = AddsOne(f, g, s) /\ h[s] = AddsOne(f, h, s)
  BY DEF Adds, AddsOne
<1>2. {} \in good
  BY <1>1 DEF AddsOne
<1>3. ASSUME NEW s \in SUBSET T, s # {}, \A x \in s : s \ {x} \in good PROVE s \in good
  <2> DEFINE x == CHOOSE x \in s : TRUE
  <2>1. x \in s
    BY <1>3
  <2>2. g[s \ {x}] = h[s \ {x}]
    BY <1>3, <2>1
  <2>3. AddsOne(f, g, s) = AddsOne(f, h, s)
    BY <2>2 DEF AddsOne
  <2> QED BY <1>1, <2>3
<1>4. IsFiniteSet(T)
  BY FS_Subset
<1> HIDE DEF good
<1>5. T \in good
  BY <1>2, <1>3, <1>4, EverySubset
<1> QED BY <1>5 DEF good

\* The sum over a set is that of an element its definition chooses and of the rest.
LEMMA SumChosen ==
    ASSUME NEW f, NEW S, IsFiniteSet(S)
    PROVE  /\ Sum(f, {}) = 0
           /\ S # {} => LET x == CHOOSE x \in S : TRUE IN Sum(f, S) = f[x] + Sum(f, S \ {x})
<1>1. Sum(f, {}) = 0
  <2>1. PICK g : Adds(f, {}, g) /\ Sum(f, {}) = g[{}]
    BY FS_EmptySet, SumIsAdds
  <2> QED BY <2>1 DEF Adds
<1>2. ASSUME S # {} PROVE LET x == CHOOSE x \in S : TRUE IN Sum(f, S) = f[x] + Sum(f, S \ {x})
  <2> DEFINE x == CHOOSE x \in S : TRUE
             R == S \ {x}
  <2>1. PICK g : Adds(f, S, g) /\ Sum(f, S) = g[S]
    BY SumIsAdds
  <2>2. IsFiniteSet(R) /\ R \in SUBSET S
    BY FS_Subset
  <2>3. PICK h : Adds(f, R, h) /\ Sum(f, R) = h[R]
    BY <2>2, SumIsAdds
  <2>4. g[R] = h[R]
    BY <2>1, <2>2, <2>3, AddsAgree
  <2>5. g[S] = f[x] + g[R]
    BY <1>2, <2>1 DEF Adds
  <2> QED BY <2>1, <2>3, <2>4, <2>5
<1> QED BY <1>1, <1>2

LEMMA SumInt ==
    ASSUME NEW S, IsFiniteSet(S), NEW f, \A x \in S : f[x] \in Int
    PROVE  Sum(f, S) \in Int
<1> DEFINE good == {T \in SUBSET S : Sum(f, T) \in Int}
<1>1. {} \in good
  <2>1. Sum(f, {}) = 0
    BY FS_EmptySet, SumChosen
  <2> QED BY <2>1
<1>2. ASSUME NEW T \in SUBSET S, T # {}, \A x \in T : T \ {x} \in good PROVE T \in good
  <2> DEFINE x == CHOOSE x \in T : TRUE
  <2>1. x \in T
    BY <1>2
  <2>2. Sum(f, T) = f[x] + Sum(f, T \ {x})
    BY <1>2, FS_Subset, SumChosen
  <2> HIDE DEF x
  <2> QED BY <1>2, <2>1, <2>2
<1> HIDE DEF good
<1>3. S \in good
  BY <1>1, <1>2, EverySubset
<1> QED BY <1>3 DEF good

\* Any element may be taken out first.
LEMMA SumTake ==
    ASSUME NEW S, IsFiniteSet(S), NEW f, \A y \in S : f[y] \in Int, NEW x \in S
    PROVE  Sum(f, S) = f[x] + Sum(f, S \ {x})
<1> DEFINE good == {T \in SUBSET S : \A y \in T : Sum(f, T) = f[y] + Sum(f, T \ {y})}
<1>1. {} \in good
  OBVIOUS
<1>2. ASSUME NEW T \in SUBSET S, T # {}, \A y \in T : T \ {y} \in good PROVE T \in good
  <2> DEFINE c == CHOOSE c \in T : TRUE
  <2>1. c \in T
    BY <1>2
  <2>2. IsFiniteSet(T)
    BY FS_Subset
  <2>3. Sum(f, T) = f[c] + Sum(f, T \ {c})
    BY <1>2, <2>2, SumChosen
  <2> HIDE DEF c
  <2>4. ASSUME NEW y \in T PROVE Sum(f, T) = f[y] + Sum(f, T \ {y})
    <3>1. CASE y = c
      BY <2>3, <3>1
    <3>2. CASE y # c
      <4> DEFINE R == (T \ {c}) \ {y}
      <4>1. Sum(f, T \ {c}) = f[y] + Sum(f, R)
        BY <1>2, <2>1, <3>2
      <4>2. R = (T \ {y}) \ {c} /\ c \in T \ {y}
        BY <2>1, <3>2
      <4>3. Sum(f, T \ {y}) = f[c] + Sum(f, R)
        <5>1. T \ {y} \in good
          BY <1>2
        <5> HIDE DEF R
        <5> QED BY <4>2, <5>1
      <4>4. IsFiniteSet(R) /\ \A z \in R : f[z] \in Int
        BY FS_Subset
      <4>5. Sum(f, R) \in Int /\ f[y] \in Int /\ f[c] \in Int
        BY <2>1, <4>4, SumInt
      <4> HIDE DEF R
      <4> QED BY <2>3, <4>1, <4>3, <4>5
    <3> QED BY <3>1, <3>2
  <2> QED BY <2>4
<1> HIDE DEF good
<1>3. S \in good
  BY <1>1, <1>2, EverySubset
<1> QED BY <1>3 DEF good

LEMMA SumEmpty == ASSUME NEW f PROVE Sum(f, {}) = 0
BY FS_EmptySet, SumChosen

LEMMA SumSame ==
    ASSUME NEW S, IsFiniteSet(S), NEW f, NEW g, \A x \in S : f[x] \in Int /\ g[x] = f[x]
    PROVE  Sum(g, S) = Sum(f, S)
<1> DEFINE good == {T \in SUBSET S : Sum(g, T) = Sum(f, T)}
<1>1. {} \in good
  <2>1. Sum(f, {}) = 0 /\ Sum(g, {}) = 0
    BY SumEmpty
  <2> QED BY <2>1
<1>2. ASSUME NEW T \in SUBSET S, T # {}, \A x \in T : T \ {x} \in good PROVE T \in good
  <2>1. PICK x \in T : TRUE
    BY <1>2
  <2>2. IsFiniteSet(T) /\ \A y \in T : f[y] \in Int /\ g[y] \in Int
    BY FS_Subset
  <2>3. Sum(f, T) = f[x] + Sum(f, T \ {x}) /\ Sum(g, T) = g[x] + Sum(g, T \ {x})
    BY <2>2, SumTake
  <2> QED BY <1>2, <2>3
<1> HIDE DEF good
<1>3. S \in good
  BY <1>1, <1>2, EverySubset
<1> QED BY <1>3 DEF good

LEMMA SumZero ==
    ASSUME NEW S, IsFiniteSet(S), NEW f, \A x \in S : f[x] = 0
    PROVE  Sum(f, S) = 0
<1> DEFINE good == {T \in SUBSET S : Sum(f, T) = 0}
<1>1. {} \in good
  <2>1. Sum(f, {}) = 0
    BY SumEmpty
  <2> QED BY <2>1
<1>2. ASSUME NEW T \in SUBSET S, T # {}, \A x \in T : T \ {x} \in good PROVE T \in good
  <2>1. PICK x \in T : TRUE
    BY <1>2
  <2>2. IsFiniteSet(T) /\ \A y \in T : f[y] \in Int
    BY FS_Subset
  <2>3. Sum(f, T) = f[x] + Sum(f, T \ {x})
    BY <2>2, SumTake
  <2> QED BY <1>2, <2>3
<1> HIDE DEF good
<1>3. S \in good
  BY <1>1, <1>2, EverySubset
<1> QED BY <1>3 DEF good

LEMMA SumPlus ==
    ASSUME NEW S, IsFiniteSet(S), NEW f, NEW g, NEW h,
           \A x \in S : f[x] \in Int /\ g[x] \in Int /\ h[x] = f[x] + g[x]
    PROVE  Sum(h, S) = Sum(f, S) + Sum(g, S)
<1> DEFINE good == {T \in SUBSET S : Sum(h, T) = Sum(f, T) + Sum(g, T)}
<1>1. {} \in good
  <2>1. Sum(f, {}) = 0 /\ Sum(g, {}) = 0 /\ Sum(h, {}) = 0
    BY SumEmpty
  <2> QED BY <2>1
<1>2. ASSUME NEW T \in SUBSET S, T # {}, \A x \in T : T \ {x} \in good PROVE T \in good
  <2>1. PICK x \in T : TRUE
    BY <1>2
  <2>2. IsFiniteSet(T) /\ \A y \in T : f[y] \in Int /\ g[y] \in Int /\ h[y] \in Int
    BY FS_Subset
  <2>3. /\ Sum(f, T) = f[x] + Sum(f, T \ {x}) /\ Sum(g, T) = g[x] + Sum(g, T \ {x})
        /\ Sum(h, T) = h[x] + Sum(h, T \ {x})
    BY <2>2, SumTake
  <2>4. IsFiniteSet(T \ {x}) /\ \A y \in T \ {x} : f[y] \in Int /\ g[y] \in Int
    BY <2>2, FS_RemoveElement
  <2>5. Sum(f, T \ {x}) \in Int /\ Sum(g, T \ {x}) \in Int
    BY <2>4, SumInt
  <2>6. Sum(h, T \ {x}) = Sum(f, T \ {x}) + Sum(g, T \ {x})
    BY <1>2
  <2>7. f[x] \in Int /\ g[x] \in Int /\ h[x] = f[x] + g[x]
    OBVIOUS
  <2>8. Sum(h, T) = Sum(f, T) + Sum(g, T)
    BY <2>3, <2>5, <2>6, <2>7
  <2> QED BY <2>8
<1> HIDE DEF good
<1>3. S \in good
  BY <1>1, <1>2, EverySubset
<1> QED BY <1>3 DEF good

LEMMA SumMinus ==
    ASSUME NEW S, IsFiniteSet(S), NEW f, NEW g, \A x \in S : f[x] \in Int /\ g[x] = -f[x]
    PROVE  Sum(g, S) = -Sum(f, S)
<1> DEFINE z == [x \in S |-> 0]
<1>1. Sum(z, S) = Sum(f, S) + Sum(g, S)
  <2>1. \A x \in S : f[x] \in Int /\ g[x] \in Int /\ z[x] = f[x] + g[x]
    OBVIOUS
  <2> HIDE DEF z
  <2> QED BY <2>1, SumPlus
<1>2. Sum(z, S) = 0
  BY SumZero
<1>3. Sum(f, S) \in Int /\ Sum(g, S) \in Int
  BY SumInt
<1> HIDE DEF z
<1> QED BY <1>1, <1>2, <1>3

LEMMA SumUnion ==
    ASSUME NEW S, IsFiniteSet(S), NEW R, IsFiniteSet(R), S \cap R = {}, NEW f, \A x \in S \cup R : f[x] \in Int
    PROVE  Sum(f, S \cup R) = Sum(f, S) + Sum(f, R)
<1> DEFINE good == {T \in SUBSET S : Sum(f, T \cup R) = Sum(f, T) + Sum(f, R)}
<1>1. {} \in good
  <2>1. Sum(f, {}) = 0 /\ Sum(f, R) \in Int /\ {} \cup R = R
    BY SumEmpty, SumInt
  <2>2. Sum(f, {} \cup R) = Sum(f, {}) + Sum(f, R)
    BY <2>1
  <2> QED BY <2>2
<1>2. ASSUME NEW T \in SUBSET S, T # {}, \A x \in T : T \ {x} \in good PROVE T \in good
  <2>1. PICK x \in T : TRUE
    BY <1>2
  <2> DEFINE U == T \cup R
  <2>2. IsFiniteSet(T) /\ IsFiniteSet(U) /\ x \in U /\ U \ {x} = (T \ {x}) \cup R /\ \A y \in U : f[y] \in Int
    BY FS_Subset, FS_Union
  <2> HIDE DEF U
  <2>3. Sum(f, U) = f[x] + Sum(f, U \ {x})
    BY <2>2, SumTake
  <2>4. Sum(f, T) = f[x] + Sum(f, T \ {x})
    BY <2>2, SumTake
  <2>5. IsFiniteSet(T \ {x}) /\ \A y \in T \ {x} : f[y] \in Int
    BY <2>2, FS_RemoveElement
  <2>6. Sum(f, T \ {x}) \in Int /\ Sum(f, R) \in Int /\ f[x] \in Int
    BY <2>5, SumInt
  <2>7. Sum(f, U \ {x}) = Sum(f, T \ {x}) + Sum(f, R)
    BY <1>2, <2>2
  <2>8. Sum(f, U) = Sum(f, T) + Sum(f, R)
    BY <2>3, <2>4, <2>6, <2>7
  <2> QED BY <2>8 DEF U
<1> HIDE DEF good
<1>3. S \in good
  BY <1>1, <1>2, EverySubset
<1> QED BY <1>3 DEF good

\* Only the elements with something to add matter.
LEMMA SumSupport ==
    ASSUME NEW S, IsFiniteSet(S), NEW T \in SUBSET S, NEW f, \A x \in T : f[x] \in Int,
           \A x \in S \ T : f[x] = 0
    PROVE  Sum(f, S) = Sum(f, T)
<1>1. IsFiniteSet(T) /\ IsFiniteSet(S \ T) /\ T \cap (S \ T) = {} /\ S = T \cup (S \ T)
  BY FS_Subset
<1>2. \A x \in T \cup (S \ T) : f[x] \in Int
  OBVIOUS
<1>3. Sum(f, S) = Sum(f, T) + Sum(f, S \ T)
  <2> DEFINE R == S \ T
  <2>1. IsFiniteSet(T) /\ IsFiniteSet(R) /\ T \cap R = {} /\ S = T \cup R /\ \A x \in T \cup R : f[x] \in Int
    BY <1>1, <1>2
  <2> HIDE DEF R
  <2>2. Sum(f, T \cup R) = Sum(f, T) + Sum(f, R)
    BY <2>1, SumUnion
  <2> QED BY <2>1, <2>2 DEF R
<1>4. Sum(f, S \ T) = 0
  BY <1>1, SumZero
<1>5. Sum(f, T) \in Int
  BY <1>1, SumInt
<1> QED BY <1>3, <1>4, <1>5

LEMMA SumOne ==
    ASSUME NEW S, IsFiniteSet(S), NEW x \in S, NEW f, f[x] \in Int, \A y \in S \ {x} : f[y] = 0
    PROVE  Sum(f, S) = f[x]
<1>1. \A y \in S : f[y] \in Int
  OBVIOUS
<1>2. Sum(f, S) = f[x] + Sum(f, S \ {x})
  BY <1>1, SumTake
<1>3. Sum(f, S \ {x}) = 0
  BY SumZero, FS_RemoveElement
<1> QED BY <1>2, <1>3

\* One table given by its rows and by its columns, a the sums of its rows, b of its columns.
Crossed(S, R, row, col, a, b) ==
    /\ \A x \in S : \A y \in R : row[x][y] \in Int /\ col[y][x] = row[x][y]
    /\ \A x \in S : a[x] = Sum(row[x], R)
    /\ \A y \in R : b[y] = Sum(col[y], S)

\* A sum of sums may be taken the other way round.
LEMMA SumSwap ==
    ASSUME NEW S, IsFiniteSet(S), NEW R, IsFiniteSet(R),
           NEW row, NEW col, NEW a, NEW b, Crossed(S, R, row, col, a, b)
    PROVE  Sum(a, S) = Sum(b, R)
<1> USE DEF Crossed
<1> DEFINE part(T) == [y \in R |-> Sum(col[y], T)]
           good == {T \in SUBSET S : Sum(a, T) = Sum(part(T), R)}
<1>1. {} \in good
  <2>1. \A y \in R : part({})[y] = 0
    BY SumEmpty
  <2>2. Sum(part({}), R) = 0
    <3> DEFINE p == part({})
    <3>1. \A y \in R : p[y] = 0
      BY <2>1
    <3> HIDE DEF p
    <3>2. Sum(p, R) = 0
      BY <3>1, SumZero
    <3> QED BY <3>2 DEF p
  <2> QED BY <2>2, SumEmpty
<1>2. ASSUME NEW T \in SUBSET S, T # {}, \A x \in T : T \ {x} \in good PROVE T \in good
  <2>1. PICK x \in T : TRUE
    BY <1>2
  <2>2. IsFiniteSet(T) /\ IsFiniteSet(T \ {x})
    BY FS_Subset
  <2> DEFINE p == part(T)
             q == part(T \ {x})
  <2>3. \A y \in R : row[x][y] \in Int /\ q[y] \in Int /\ p[y] = row[x][y] + q[y]
    <3>1. ASSUME NEW y \in R PROVE row[x][y] \in Int /\ q[y] \in Int /\ p[y] = row[x][y] + q[y]
      <4>1. \A z \in T : col[y][z] \in Int
        OBVIOUS
      <4>2. Sum(col[y], T) = col[y][x] + Sum(col[y], T \ {x})
        BY <2>2, <4>1, SumTake
      <4>3. Sum(col[y], T \ {x}) \in Int
        BY <2>2, <4>1, SumInt
      <4>4. col[y][x] = row[x][y] /\ row[x][y] \in Int
        OBVIOUS
      <4>5. p[y] = Sum(col[y], T) /\ q[y] = Sum(col[y], T \ {x})
        OBVIOUS
      <4> QED BY <4>2, <4>3, <4>4, <4>5
    <3> QED BY <3>1
  <2>4. Sum(a, T \ {x}) = Sum(q, R)
    BY <1>2
  <2> HIDE DEF p, q
  <2>5. Sum(p, R) = Sum(row[x], R) + Sum(q, R)
    BY <2>3, SumPlus
  <2>6. \A z \in T : a[z] \in Int
    <3>1. ASSUME NEW z \in T PROVE a[z] \in Int
      <4>1. z \in S /\ \A y \in R : row[z][y] \in Int
        OBVIOUS
      <4>2. Sum(row[z], R) \in Int
        BY <4>1, SumInt
      <4> QED BY <4>1, <4>2
    <3> QED BY <3>1
  <2>7. Sum(a, T) = a[x] + Sum(a, T \ {x})
    BY <2>2, <2>6, SumTake
  <2>8. a[x] = Sum(row[x], R)
    OBVIOUS
  <2>9. Sum(a, T) = Sum(p, R)
    BY <2>4, <2>5, <2>7, <2>8
  <2> QED BY <2>9 DEF p
<1> HIDE DEF good
<1>3. S \in good
  BY <1>1, <1>2, EverySubset
<1> DEFINE p == part(S)
<1>4. Sum(a, S) = Sum(p, R)
  BY <1>3 DEF good
<1>5. \A y \in R : b[y] \in Int /\ p[y] = b[y]
  <2>1. ASSUME NEW y \in R PROVE b[y] \in Int /\ p[y] = b[y]
    <3>1. \A z \in S : col[y][z] \in Int
      OBVIOUS
    <3>2. Sum(col[y], S) \in Int
      BY <3>1, SumInt
    <3> QED BY <3>2
  <2> QED BY <2>1
<1> HIDE DEF p
<1>6. Sum(p, R) = Sum(b, R)
  BY <1>5, SumSame
<1> QED BY <1>4, <1>6

\* e numbers the elements of R by those of S, each once.
Enumerates(e, S, R) ==
    /\ \A x \in S : e[x] \in R
    /\ \A x, y \in S : e[x] = e[y] => x = y
    /\ \A z \in R : \E x \in S : e[x] = z

\* f given by the numbers e gives its elements.
Moved(e, S, R, f, g) == Enumerates(e, S, R) /\ (\A z \in R : f[z] \in Int) /\ \A x \in S : g[x] = f[e[x]]

LEMMA SumMoved ==
    ASSUME NEW S, IsFiniteSet(S), NEW R, IsFiniteSet(R), NEW e, NEW f, NEW g, Moved(e, S, R, f, g)
    PROVE  Sum(g, S) = Sum(f, R)
<1>a. Enumerates(e, S, R) /\ (\A z \in R : f[z] \in Int) /\ \A x \in S : g[x] = f[e[x]]
  BY DEF Moved
<1> USE <1>a
<1> DEFINE image(T) == {z \in R : \E x \in T : e[x] = z}
           good == {T \in SUBSET S : Sum(g, T) = Sum(f, image(T))}
<1>1. {} \in good
  <2>1. image({}) = {}
    OBVIOUS
  <2> HIDE DEF image
  <2>2. Sum(g, {}) = Sum(f, image({}))
    BY <2>1, SumEmpty
  <2> QED BY <2>2
<1>2. ASSUME NEW T \in SUBSET S, T # {}, \A x \in T : T \ {x} \in good PROVE T \in good
  <2>1. PICK x \in T : TRUE
    BY <1>2
  <2> DEFINE I == image(T)
             J == image(T \ {x})
  <2>2. I \in SUBSET R /\ e[x] \in I /\ I \ {e[x]} = J
    BY DEF Enumerates
  <2>3. Sum(g, T \ {x}) = Sum(f, J)
    BY <1>2
  <2> HIDE DEF I, J
  <2>4. IsFiniteSet(I) /\ IsFiniteSet(T) /\ \A z \in I : f[z] \in Int
    BY <2>2, FS_Subset
  <2>5. \A y \in T : g[y] \in Int
    BY DEF Enumerates
  <2>6. Sum(g, T) = g[x] + Sum(g, T \ {x})
    BY <2>4, <2>5, SumTake
  <2>7. Sum(f, I) = f[e[x]] + Sum(f, I \ {e[x]})
    BY <2>2, <2>4, SumTake
  <2>8. Sum(g, T) = Sum(f, I)
    BY <2>2, <2>3, <2>6, <2>7
  <2> QED BY <2>8 DEF I
<1> HIDE DEF good
<1>3. S \in good
  BY <1>1, <1>2, EverySubset
<1>4. image(S) = R
  BY DEF Enumerates
<1>5. Sum(g, S) = Sum(f, image(S))
  BY <1>3 DEF good
<1> HIDE DEF image
<1> QED BY <1>4, <1>5

\* part[n] is f where the key is n, and b[n] its sum.
Keyed(S, R, key, f, part, b) ==
    /\ \A x \in S : key[x] \in R /\ f[x] \in Int
    /\ \A n \in R : b[n] = Sum(part[n], S) /\ \A x \in S : part[n][x] = IF key[x] = n THEN f[x] ELSE 0

\* What has key n, added up for every n, is the whole.
LEMMA SumByKey ==
    ASSUME NEW S, IsFiniteSet(S), NEW R, IsFiniteSet(R), NEW key, NEW f, NEW part, NEW b, Keyed(S, R, key, f, part, b)
    PROVE  Sum(b, R) = Sum(f, S)
<1>1. PICK row : \A x \in S : row[x] = [n \in R |-> IF key[x] = n THEN f[x] ELSE 0]
  <2> DEFINE g == [x \in S |-> [n \in R |-> IF key[x] = n THEN f[x] ELSE 0]]
  <2>1. \A x \in S : g[x] = [n \in R |-> IF key[x] = n THEN f[x] ELSE 0]
    OBVIOUS
  <2> QED BY <2>1
<1>2. \A x \in S : key[x] \in R /\ f[x] \in Int
  BY DEF Keyed
<1>3. \A x \in S : \A n \in R : row[x][n] \in Int /\ part[n][x] = row[x][n]
  <2>1. ASSUME NEW x \in S, NEW n \in R PROVE row[x][n] \in Int /\ part[n][x] = row[x][n]
    <3>1. row[x][n] = (IF key[x] = n THEN f[x] ELSE 0)
      BY <1>1
    <3>2. part[n][x] = (IF key[x] = n THEN f[x] ELSE 0)
      BY DEF Keyed
    <3> QED BY <1>2, <3>1, <3>2
  <2> QED BY <2>1
<1>4. \A n \in R : b[n] = Sum(part[n], S)
  BY DEF Keyed
<1>5. \A x \in S : f[x] = Sum(row[x], R)
  <2>1. ASSUME NEW x \in S PROVE Sum(row[x], R) = f[x]
    <3>1. row[x][key[x]] = f[x] /\ key[x] \in R /\ \A n \in R \ {key[x]} : row[x][n] = 0
      BY <1>1, <1>2
    <3>2. row[x][key[x]] \in Int
      BY <1>2, <3>1
    <3>3. Sum(row[x], R) = row[x][key[x]]
      BY <3>1, <3>2, SumOne
    <3> QED BY <3>1, <3>3
  <2> QED BY <2>1
<1>6. Sum(f, S) = Sum(b, R)
  <2>1. Crossed(S, R, row, part, f, b)
    BY <1>3, <1>4, <1>5 DEF Crossed
  <2> QED BY <2>1, SumSwap
<1> QED BY <1>6

LEMMA SumPositive ==
    ASSUME NEW S, IsFiniteSet(S), NEW f, \A x \in S : f[x] \in Nat \ {0}, S # {}
    PROVE  Sum(f, S) \in Nat \ {0}
<1> DEFINE good == {T \in SUBSET S : Sum(f, T) \in Nat /\ (T # {} => Sum(f, T) # 0)}
<1>1. {} \in good
  <2>1. Sum(f, {}) = 0
    BY SumEmpty
  <2> QED BY <2>1
<1>2. ASSUME NEW T \in SUBSET S, T # {}, \A x \in T : T \ {x} \in good PROVE T \in good
  <2>1. PICK x \in T : TRUE
    BY <1>2
  <2>2. IsFiniteSet(T) /\ \A y \in T : f[y] \in Int
    BY FS_Subset
  <2>3. Sum(f, T) = f[x] + Sum(f, T \ {x})
    BY <2>2, SumTake
  <2>4. Sum(f, T \ {x}) \in Nat /\ f[x] \in Nat \ {0}
    BY <1>2
  <2> QED BY <2>3, <2>4
<1> HIDE DEF good
<1>3. S \in good
  BY <1>1, <1>2, EverySubset
<1> QED BY <1>3 DEF good

-----------------------------------------------------------------------------
(* InOrder and Those *)

Listing(I, n, g) ==
    g = [k \in 0..n |-> IF k = 0 THEN << >> ELSE IF k \in I THEN Append(g[k - 1], k) ELSE g[k - 1]]

LEMMA ListingExists ==
    ASSUME NEW I, NEW n \in Nat
    PROVE  \E g : Listing(I, n, g)
<1> DEFINE good == {m \in Nat : \E g : Listing(I, m, g)}
<1>1. 0 \in good
  <2> DEFINE g == [k \in 0..0 |-> << >>]
  <2>1. Listing(I, 0, g)
    <3>1. \A k \in 0..0 : k = 0
      OBVIOUS
    <3> QED BY <3>1 DEF Listing
  <2> QED BY <2>1
<1>2. ASSUME NEW m \in Nat, m \in good PROVE m + 1 \in good
  <2>1. PICK g : Listing(I, m, g)
    BY <1>2
  <2> DEFINE new == IF m + 1 \in I THEN Append(g[m], m + 1) ELSE g[m]
             h == [k \in 0..(m + 1) |-> IF k = m + 1 THEN new ELSE g[k]]
             step(f, k) == IF k = 0 THEN << >> ELSE IF k \in I THEN Append(f[k - 1], k) ELSE f[k - 1]
  <2>2. ASSUME NEW k \in 0..(m + 1) PROVE h[k] = step(h, k)
    <3>1. CASE k = m + 1
      <4>1. h[k] = new /\ h[k - 1] = g[m] /\ k # 0 /\ k - 1 = m
        BY <3>1
      <4> QED BY <3>1, <4>1
    <3>2. CASE k # m + 1
      <4>1. k \in 0..m /\ h[k] = g[k]
        BY <3>2
      <4>2. g[k] = step(g, k)
        BY <2>1, <4>1 DEF Listing
      <4>3. k # 0 => h[k - 1] = g[k - 1]
        BY <4>1
      <4> HIDE DEF h
      <4> QED BY <4>1, <4>2, <4>3
    <3> QED BY <3>1, <3>2
  <2>3. h = [k \in 0..(m + 1) |-> h[k]]
    OBVIOUS
  <2> HIDE DEF h
  <2>4. Listing(I, m + 1, h)
    BY <2>2, <2>3 DEF Listing
  <2> QED BY <2>4
<1> HIDE DEF good
<1>3. n \in good
  BY <1>1, <1>2, EveryNumber
<1> QED BY <1>3 DEF good

\* InOrder lists its numbers, each once.
LEMMA InOrderLists ==
    ASSUME NEW n \in Nat, NEW I \in SUBSET (1..n)
    PROVE  /\ InOrder(I, n) \in Seq(I)
           /\ DOMAIN InOrder(I, n) = 1..Len(InOrder(I, n)) /\ IsFiniteSet(DOMAIN InOrder(I, n))
           /\ Enumerates(InOrder(I, n), DOMAIN InOrder(I, n), I)
<1> DEFINE upto[k \in 0..n] == IF k = 0 THEN << >> ELSE IF k \in I THEN Append(upto[k - 1], k) ELSE upto[k - 1]
<1>1. InOrder(I, n) = upto[n]
  BY DEF InOrder
<1>2. upto = [k \in 0..n |-> IF k = 0 THEN << >> ELSE IF k \in I THEN Append(upto[k - 1], k) ELSE upto[k - 1]]
  <2>1. \E g : g = [k \in 0..n |-> IF k = 0 THEN << >> ELSE IF k \in I THEN Append(g[k - 1], k) ELSE g[k - 1]]
    <3>1. PICK g : Listing(I, n, g)
      BY ListingExists
    <3> QED BY <3>1 DEF Listing
  <2> QED BY <2>1
<1> HIDE DEF upto
<1> DEFINE below(k) == {i \in I : i <= k}
           lists(q, k) == q \in Seq(Nat) /\ Enumerates(q, 1..Len(q), below(k))
           good == {k \in Nat : k <= n => lists(upto[k], k)}
<1>a. \A i \in I : i \in Nat /\ 1 <= i /\ i <= n
  OBVIOUS
<1>3. 0 \in good
  <2>1. upto[0] = << >>
    BY <1>2
  <2>2. below(0) = {} /\ Len(<< >>) = 0 /\ << >> \in Seq(Nat) /\ 1..0 = {}
    <3>1. below(0) = {}
      <4>1. \A i \in I : ~(i <= 0)
        BY <1>a
      <4> QED BY <4>1
    <3> QED BY <3>1, EmptySeq
  <2> HIDE DEF below
  <2>3. lists(<< >>, 0)
    BY <2>2 DEF Enumerates
  <2> QED BY <2>1, <2>3
<1>4. ASSUME NEW k \in Nat, k \in good PROVE k + 1 \in good
  <2>1. SUFFICES ASSUME k + 1 <= n PROVE lists(upto[k + 1], k + 1)
    OBVIOUS
  <2> DEFINE q == upto[k]
             r == upto[k + 1]
  <2>2. q \in Seq(Nat) /\ Enumerates(q, 1..Len(q), below(k))
    BY <1>4, <2>1
  <2>3. k + 1 \in 0..n /\ (k + 1) - 1 = k /\ k + 1 # 0
    BY <2>1
  <2>4. r = IF k + 1 \in I THEN Append(q, k + 1) ELSE q
    BY <1>2, <2>3
  <2> HIDE DEF q, r
  <2>5. CASE k + 1 \in I
    <3>1. /\ r \in Seq(Nat) /\ Len(r) = Len(q) + 1 /\ Len(q) \in Nat
          /\ \A i \in 1..Len(q) : r[i] = q[i]
          /\ r[Len(q) + 1] = k + 1
      BY <2>2, <2>4, <2>5, AppendProperties, LenProperties
    <3>2. below(k + 1) = below(k) \cup {k + 1} /\ \A z \in below(k) : z < k + 1
      <4>1. \A i \in I : i <= k + 1 <=> i <= k \/ i = k + 1
        BY <1>a
      <4>2. \A i \in I : i <= k => i < k + 1
        BY <1>a
      <4> QED BY <2>5, <4>1, <4>2
    <3> HIDE DEF below
    <3>3. \A i \in 1..Len(r) : i \in 1..Len(q) \/ i = Len(q) + 1
      BY <3>1
    <3>4. \A i \in 1..Len(q) : i \in 1..Len(r) /\ r[i] \in below(k) /\ r[i] # k + 1
      BY <2>2, <3>1, <3>2, SMTT(30) DEF Enumerates
    <3>5. Len(q) + 1 \in 1..Len(r)
      BY <3>1
    <3>6. Enumerates(r, 1..Len(r), below(k + 1))
      <4>1. \A i \in 1..Len(r) : r[i] \in below(k + 1)
        BY <3>1, <3>2, <3>3, <3>4
      <4>2. \A i, j \in 1..Len(r) : r[i] = r[j] => i = j
        <5>1. ASSUME NEW i \in 1..Len(q), NEW j \in 1..Len(q), r[i] = r[j] PROVE i = j
          <6>1. q[i] = q[j]
            BY <3>1, <5>1
          <6> QED BY <2>2, <6>1 DEF Enumerates
        <5>2. \A i \in 1..Len(q) : r[i] # r[Len(q) + 1]
          BY <3>1, <3>4
        <5> QED BY <3>3, <5>1, <5>2
      <4>3. ASSUME NEW z \in below(k + 1) PROVE \E i \in 1..Len(r) : r[i] = z
        <5>1. CASE z = k + 1
          BY <3>1, <3>5, <5>1
        <5>2. CASE z \in below(k)
          <6>1. PICK i \in 1..Len(q) : q[i] = z
            BY <2>2, <5>2 DEF Enumerates
          <6> QED BY <3>1, <3>4, <6>1
        <5> QED BY <3>2, <5>1, <5>2
      <4> QED BY <4>1, <4>2, <4>3 DEF Enumerates
    <3> QED BY <3>1, <3>6 DEF r
  <2>6. CASE k + 1 \notin I
    <3>1. below(k + 1) = below(k)
      <4>1. \A i \in I : i <= k + 1 <=> i <= k
        BY <1>a, <2>6
      <4> QED BY <4>1
    <3> QED BY <2>2, <2>4, <2>6, <3>1 DEF r
  <2> QED BY <2>5, <2>6
<1> HIDE DEF good
<1>5. n \in good
  BY <1>3, <1>4, EveryNumber
<1>6. below(n) = I
  BY <1>a
<1>7. upto[n] \in Seq(Nat) /\ Enumerates(upto[n], 1..Len(upto[n]), I)
  <2>1. n <= n
    OBVIOUS
  <2>2. lists(upto[n], n)
    BY <1>5, <2>1 DEF good
  <2> HIDE DEF below
  <2> QED BY <1>6, <2>2
<1>8. DOMAIN upto[n] = 1..Len(upto[n]) /\ Len(upto[n]) \in Nat
  BY <1>7, LenProperties
<1>9. upto[n] \in [1..Len(upto[n]) -> I]
  BY <1>7, <1>8 DEF Enumerates
<1>10. upto[n] \in Seq(I)
  BY <1>8, <1>9, SeqDef
<1> QED BY <1>1, <1>7, <1>8, <1>10, FS_Interval

\* What is picked from 1..n by InOrder adds up to the sum over what was picked.
LEMMA PickedSum ==
    ASSUME NEW n \in Nat, NEW I \in SUBSET (1..n), NEW f, \A i \in I : f[i] \in Int,
           NEW g, \A k \in DOMAIN InOrder(I, n) : g[k] = f[InOrder(I, n)[k]]
    PROVE  Sum(g, DOMAIN InOrder(I, n)) = Sum(f, I)
<1>1. IsFiniteSet(I)
  <2>1. IsFiniteSet(1..n)
    BY FS_Interval
  <2> QED BY <2>1, FS_Subset
<1> DEFINE q == InOrder(I, n)
<1>2. IsFiniteSet(DOMAIN q) /\ Enumerates(q, DOMAIN q, I)
  BY InOrderLists
<1>3. \A k \in DOMAIN q : g[k] = f[q[k]]
  OBVIOUS
<1> HIDE DEF q
<1>4. Sum(g, DOMAIN q) = Sum(f, I)
  <2>1. Moved(q, DOMAIN q, I, f, g)
    BY <1>2, <1>3 DEF Moved
  <2> QED BY <1>1, <1>2, <2>1, SumMoved
<1> QED BY <1>4 DEF q

\* ... and to the sum over 1..n, when what was not picked is nil.
LEMMA PickedAll ==
    ASSUME NEW n \in Nat, NEW I \in SUBSET (1..n), NEW f, \A i \in 1..n : f[i] \in Int,
           \A i \in (1..n) \ I : f[i] = 0,
           NEW g, \A k \in DOMAIN InOrder(I, n) : g[k] = f[InOrder(I, n)[k]]
    PROVE  Sum(g, DOMAIN InOrder(I, n)) = Sum(f, 1..n) /\ Sum(f, 1..n) \in Int
<1>1. Sum(g, DOMAIN InOrder(I, n)) = Sum(f, I)
  BY PickedSum
<1> DEFINE N == 1..n
<1>2. IsFiniteSet(N) /\ I \in SUBSET N /\ (\A i \in I : f[i] \in Int) /\ \A i \in N \ I : f[i] = 0
  BY FS_Interval
<1> HIDE DEF N
<1>3. Sum(f, N) = Sum(f, I)
  BY <1>2, SumSupport
<1>4. Sum(f, I) \in Int
  BY <1>2, FS_Subset, SumInt
<1> QED BY <1>1, <1>3, <1>4 DEF N

\* A set is the elements of a list, each of which stands in it once.
LEMMA ElementsFinite ==
    ASSUME NEW X, NEW s \in Seq(X)
    PROVE  /\ DOMAIN s = 1..Len(s) /\ Len(s) \in Nat /\ IsFiniteSet(DOMAIN s)
           /\ IsFiniteSet(ToSet(s)) /\ \A i \in DOMAIN s : s[i] \in ToSet(s) /\ s[i] \in X
<1>1. DOMAIN s = 1..Len(s) /\ Len(s) \in Nat /\ s \in [1..Len(s) -> X]
  BY LenProperties
<1>2. IsFiniteSet(DOMAIN s)
  BY <1>1, FS_Interval
<1>3. \A i \in DOMAIN s : s[i] \in ToSet(s) /\ s[i] \in X
  BY <1>1 DEF ToSet
<1>4. s \in Surjection(DOMAIN s, ToSet(s))
  BY <1>1, <1>3 DEF Surjection, ToSet
<1>5. IsFiniteSet(ToSet(s))
  BY <1>2, <1>4, FS_Surjection
<1> QED BY <1>1, <1>2, <1>3, <1>5

-----------------------------------------------------------------------------
(* The lines of an entry *)

\* An account of a book, or one of the two the close makes.
Titles == STRING \cup {ResultAccount, ApprAccount}
Line == [n : Titles, a : Int]

\* The amounts of the lines on n, line by line.
OnLine(L, n) == [i \in DOMAIN L |-> IF L[i].n = n THEN L[i].a ELSE 0]

LEMMA LinesAre ==
    ASSUME NEW L \in Seq(Line)
    PROVE  /\ DOMAIN L = 1..Len(L) /\ Len(L) \in Nat /\ IsFiniteSet(DOMAIN L)
           /\ \A i \in DOMAIN L : L[i] \in Line /\ L[i].a \in Int /\ L[i].n \in Titles
           /\ SumLines(L) = Sum([i \in DOMAIN L |-> L[i].a], DOMAIN L) /\ SumLines(L) \in Int
<1>1. DOMAIN L = 1..Len(L) /\ Len(L) \in Nat /\ IsFiniteSet(DOMAIN L) /\ \A i \in DOMAIN L : L[i] \in Line
  BY ElementsFinite
<1>2. \A i \in DOMAIN L : L[i].a \in Int /\ L[i].n \in Titles
  BY <1>1 DEF Line
<1>3. SumLines(L) = Sum([i \in DOMAIN L |-> L[i].a], DOMAIN L)
  BY DEF SumLines, SumOf, SumFunction, Sum
<1> DEFINE f == [i \in DOMAIN L |-> L[i].a]
<1>4. \A i \in DOMAIN L : f[i] \in Int
  BY <1>2
<1> HIDE DEF f
<1>5. Sum(f, DOMAIN L) \in Int
  BY <1>1, <1>4, SumInt
<1> QED BY <1>1, <1>2, <1>3, <1>5 DEF f

LEMMA OnIs ==
    ASSUME NEW L \in Seq(Line), NEW n
    PROVE  /\ On(L, n) = Sum(OnLine(L, n), DOMAIN L) /\ On(L, n) \in Int
           /\ \A i \in DOMAIN L : OnLine(L, n)[i] = (IF L[i].n = n THEN L[i].a ELSE 0) /\ OnLine(L, n)[i] \in Int
<1>1. On(L, n) = Sum(OnLine(L, n), DOMAIN L)
  BY DEF On, SumOf, SumFunction, Sum, OnLine
<1>2. \A i \in DOMAIN L : OnLine(L, n)[i] = (IF L[i].n = n THEN L[i].a ELSE 0) /\ OnLine(L, n)[i] \in Int
  <2>1. \A i \in DOMAIN L : L[i].a \in Int
    BY LinesAre
  <2> QED BY <2>1 DEF OnLine
<1>3. Sum(OnLine(L, n), DOMAIN L) \in Int
  BY <1>2, LinesAre, SumInt
<1> QED BY <1>1, <1>2, <1>3

LEMMA OnNone ==
    ASSUME NEW L \in Seq(Line), NEW n, ~\E ln \in ToSet(L) : ln.n = n
    PROVE  On(L, n) = 0
<1>1. \A i \in DOMAIN L : OnLine(L, n)[i] = 0
  BY OnIs DEF ToSet
<1>2. IsFiniteSet(DOMAIN L) /\ On(L, n) = Sum(OnLine(L, n), DOMAIN L)
  BY LinesAre, OnIs
<1> QED BY <1>1, <1>2, SumZero

\* A line more.
LEMMA OnAppend ==
    ASSUME NEW L \in Seq(Line), NEW l \in Line, NEW n
    PROVE  /\ Append(L, l) \in Seq(Line)
           /\ On(Append(L, l), n) = On(L, n) + (IF l.n = n THEN l.a ELSE 0)
<1> DEFINE K == Append(L, l)
           m == Len(L) + 1
<1>1. K \in Seq(Line) /\ Len(K) = m /\ K[m] = l /\ \A i \in 1..Len(L) : K[i] = L[i]
  BY AppendProperties
<1>2. DOMAIN L = 1..Len(L) /\ DOMAIN K = 1..m /\ m \in 1..m /\ (1..m) \ {m} = 1..Len(L) /\ Len(L) \in Nat
  BY <1>1, LinesAre
<1> HIDE DEF K, m
<1>3. On(K, n) = OnLine(K, n)[m] + Sum(OnLine(K, n), DOMAIN L)
  <2>1. m \in DOMAIN K /\ DOMAIN L = (DOMAIN K) \ {m}
    BY <1>2
  <2>2. /\ IsFiniteSet(DOMAIN K) /\ On(K, n) = Sum(OnLine(K, n), DOMAIN K)
        /\ \A i \in DOMAIN K : OnLine(K, n)[i] \in Int
    BY <1>1, LinesAre, OnIs
  <2> QED BY <2>1, <2>2, SumTake
<1>4. Sum(OnLine(K, n), DOMAIN L) = Sum(OnLine(L, n), DOMAIN L)
  <2>1. \A i \in DOMAIN L : OnLine(L, n)[i] \in Int /\ OnLine(K, n)[i] = OnLine(L, n)[i]
    <3>1. ASSUME NEW i \in DOMAIN L PROVE i \in DOMAIN K /\ K[i] = L[i]
      BY <1>1, <1>2 DEF m
    <3> QED BY <1>1, <3>1, OnIs
  <2> QED BY <2>1, LinesAre, SumSame
<1>5. OnLine(K, n)[m] = IF l.n = n THEN l.a ELSE 0
  BY <1>1, <1>2, OnIs
<1>6. On(L, n) \in Int /\ (IF l.n = n THEN l.a ELSE 0) \in Int
  <2>1. l.a \in Int
    BY DEF Line
  <2>2. On(L, n) \in Int
    BY OnIs
  <2> QED BY <2>1, <2>2
<1> QED BY <1>1, <1>3, <1>4, <1>5, <1>6, OnIs DEF K

-----------------------------------------------------------------------------
(* A posted book *)

VouchersOk(bk) ==
    /\ DOMAIN bk.vouchers = 1..Len(bk.vouchers) /\ Len(bk.vouchers) \in Nat
    /\ \A i \in DOMAIN bk.vouchers :
         /\ bk.vouchers[i].lines \in Seq(Line) /\ bk.vouchers[i].date \in FyStart..FyEnd
         /\ EntryOk(bk, bk.vouchers[i])

\* What is known of a book once its entries are posted and its balances checked.
Base(bk) ==
    /\ AccountsOk(bk)
    /\ VouchersOk(bk)
    /\ bk.posts = [n \in Names(bk) |-> PostsOn(bk, bk.vouchers, n)]
    /\ bk.closing = [n \in Names(bk) |-> IF bk.posts[n] = << >> THEN bk.acct[n].opening ELSE Last(bk.posts[n]).bal]
    /\ SumOn(Names(bk), LAMBDA n : bk.acct[n].opening) = 0

\* The entries on n, and what entry i put on it until day d.
Touched(bk, n) == {i \in DOMAIN bk.vouchers : \E ln \in ToSet(bk.vouchers[i].lines) : ln.n = n}
Rows(bk, n) == InOrder(Touched(bk, n), Len(bk.vouchers))
Went(bk, n, d) ==
    [i \in DOMAIN bk.vouchers |-> IF bk.vouchers[i].date <= d THEN On(bk.vouchers[i].lines, n) ELSE 0]
Bal(bk, n, d) == bk.acct[n].opening + Sum(Went(bk, n, d), DOMAIN bk.vouchers)

\* What the first k entries on n put on it, and one of its rows.
Upto(bk, n, k) == SumOn(1..k, LAMBDA j : On(bk.vouchers[Rows(bk, n)[j]].lines, n))
RowOf(bk, n, k) ==
    [vid |-> Rows(bk, n)[k], date |-> bk.vouchers[Rows(bk, n)[k]].date,
     a |-> On(bk.vouchers[Rows(bk, n)[k]].lines, n), bal |-> bk.acct[n].opening + Upto(bk, n, k)]

LEMMA VouchersAre ==
    ASSUME NEW bk, Base(bk)
    PROVE  /\ DOMAIN bk.vouchers = 1..Len(bk.vouchers) /\ Len(bk.vouchers) \in Nat /\ IsFiniteSet(DOMAIN bk.vouchers)
           /\ \A i \in DOMAIN bk.vouchers :
                /\ bk.vouchers[i].lines \in Seq(Line) /\ bk.vouchers[i].date \in FyStart..FyEnd
                /\ bk.vouchers[i].date \in Int /\ 0 <= bk.vouchers[i].date /\ bk.vouchers[i].date <= FyEnd
                /\ EntryOk(bk, bk.vouchers[i])
<1>1. VouchersOk(bk)
  BY DEF Base
<1>2. IsFiniteSet(1..Len(bk.vouchers))
  BY <1>1, FS_Interval DEF VouchersOk
<1>3. \A i \in DOMAIN bk.vouchers :
         /\ bk.vouchers[i].lines \in Seq(Line) /\ bk.vouchers[i].date \in FyStart..FyEnd
         /\ EntryOk(bk, bk.vouchers[i])
  BY <1>1 DEF VouchersOk
<1>4. \A i \in DOMAIN bk.vouchers :
         bk.vouchers[i].date \in Int /\ 0 <= bk.vouchers[i].date /\ bk.vouchers[i].date <= FyEnd
  <2>1. ASSUME NEW i \in DOMAIN bk.vouchers PROVE bk.vouchers[i].date \in 0..364
    BY <1>3 DEF FyStart, FyEnd
  <2> QED BY <2>1, SMTT(30) DEF FyEnd
<1>5. DOMAIN bk.vouchers = 1..Len(bk.vouchers) /\ Len(bk.vouchers) \in Nat
  BY <1>1 DEF VouchersOk
<1> QED BY <1>2, <1>3, <1>4, <1>5

LEMMA NamesAre ==
    ASSUME NEW bk, AccountsOk(bk)
    PROVE  IsFiniteSet(Names(bk)) /\ \A n \in Names(bk) : bk.acct[n].opening \in Int /\ n \in Titles
<1>1. bk.order \in Seq(STRING) /\ bk.acct \in [Names(bk) -> [kind : STRING, group : STRING, opening : Int, faces : STRING]]
  BY DEF AccountsOk
<1>2. IsFiniteSet(Names(bk)) /\ \A n \in Names(bk) : n \in Titles
  BY <1>1, ElementsFinite DEF Names, ToSet, Titles
<1> QED BY <1>1, <1>2

LEMMA WentIs ==
    ASSUME NEW bk, Base(bk), NEW n, NEW d
    PROVE  /\ \A i \in DOMAIN bk.vouchers :
                /\ Went(bk, n, d)[i] = (IF bk.vouchers[i].date <= d THEN On(bk.vouchers[i].lines, n) ELSE 0)
                /\ Went(bk, n, d)[i] \in Int /\ On(bk.vouchers[i].lines, n) \in Int
                /\ i \notin Touched(bk, n) => Went(bk, n, d)[i] = 0 /\ On(bk.vouchers[i].lines, n) = 0
           /\ Sum(Went(bk, n, d), DOMAIN bk.vouchers) \in Int
           /\ n \in Names(bk) => Bal(bk, n, d) \in Int
<1>1. ASSUME NEW i \in DOMAIN bk.vouchers
      PROVE  /\ Went(bk, n, d)[i] = (IF bk.vouchers[i].date <= d THEN On(bk.vouchers[i].lines, n) ELSE 0)
             /\ Went(bk, n, d)[i] \in Int /\ On(bk.vouchers[i].lines, n) \in Int
             /\ i \notin Touched(bk, n) => Went(bk, n, d)[i] = 0 /\ On(bk.vouchers[i].lines, n) = 0
  <2>1. Went(bk, n, d)[i] = (IF bk.vouchers[i].date <= d THEN On(bk.vouchers[i].lines, n) ELSE 0)
    BY DEF Went
  <2>2. bk.vouchers[i].lines \in Seq(Line)
    BY VouchersAre
  <2>3. On(bk.vouchers[i].lines, n) \in Int
    BY <2>2, OnIs
  <2>4. i \notin Touched(bk, n) => On(bk.vouchers[i].lines, n) = 0
    BY <2>2, OnNone DEF Touched
  <2> QED BY <2>1, <2>3, <2>4
<1>2. Sum(Went(bk, n, d), DOMAIN bk.vouchers) \in Int
  BY <1>1, VouchersAre, SumInt
<1>3. n \in Names(bk) => bk.acct[n].opening \in Int
  BY NamesAre DEF Base
<1> QED BY <1>1, <1>2, <1>3 DEF Bal

LEMMA PostsAre ==
    ASSUME NEW bk, Base(bk), NEW n \in Names(bk)
    PROVE  /\ DOMAIN bk.posts[n] = DOMAIN Rows(bk, n)
           /\ \A k \in DOMAIN bk.posts[n] :
                /\ Rows(bk, n)[k] \in DOMAIN bk.vouchers
                /\ bk.posts[n][k].a = On(bk.vouchers[Rows(bk, n)[k]].lines, n)
                /\ bk.posts[n][k].date = bk.vouchers[Rows(bk, n)[k]].date
                /\ bk.posts[n][k].bal = bk.acct[n].opening + Upto(bk, n, k)
<1>1. bk.posts[n] = PostsOn(bk, bk.vouchers, n)
  BY DEF Base
<1>2. Touched(bk, n) \in SUBSET (1..Len(bk.vouchers)) /\ Len(bk.vouchers) \in Nat
  BY VouchersAre DEF Touched
<1>3. \A k \in DOMAIN Rows(bk, n) : Rows(bk, n)[k] \in DOMAIN bk.vouchers
  BY <1>2, InOrderLists, VouchersAre DEF Rows, Enumerates
<1>4. PostsOn(bk, bk.vouchers, n) = [k \in DOMAIN Rows(bk, n) |-> RowOf(bk, n, k)]
  BY Zenon DEF PostsOn, RowOf, Upto, Rows, Touched
<1>5. DOMAIN bk.posts[n] = DOMAIN Rows(bk, n) /\ \A k \in DOMAIN bk.posts[n] : bk.posts[n][k] = RowOf(bk, n, k)
  BY <1>1, <1>4, Zenon
<1>6. ASSUME NEW k \in DOMAIN bk.posts[n]
      PROVE  /\ RowOf(bk, n, k).a = On(bk.vouchers[Rows(bk, n)[k]].lines, n)
             /\ RowOf(bk, n, k).date = bk.vouchers[Rows(bk, n)[k]].date
             /\ RowOf(bk, n, k).bal = bk.acct[n].opening + Upto(bk, n, k)
  BY DEF RowOf
<1> QED BY <1>3, <1>5, <1>6

\* g gives, row by row of n, what f gives of the entry; f is nil on the entries that do not touch n.
Booked(bk, n, f, g) ==
    /\ \A i \in DOMAIN bk.vouchers : f[i] \in Int /\ (i \notin Touched(bk, n) => f[i] = 0)
    /\ \A k \in DOMAIN bk.posts[n] : g[k] = f[Rows(bk, n)[k]]

LEMMA PostsSum ==
    ASSUME NEW bk, Base(bk), NEW n \in Names(bk), NEW f, NEW g, Booked(bk, n, f, g)
    PROVE  Sum(g, DOMAIN bk.posts[n]) = Sum(f, DOMAIN bk.vouchers) /\ Sum(f, DOMAIN bk.vouchers) \in Int
<1>1. Touched(bk, n) \in SUBSET (1..Len(bk.vouchers)) /\ Len(bk.vouchers) \in Nat /\ DOMAIN bk.vouchers = 1..Len(bk.vouchers)
  BY VouchersAre DEF Touched
<1>2. \A k \in DOMAIN Rows(bk, n) : g[k] = f[Rows(bk, n)[k]]
  BY PostsAre DEF Booked
<1>3. (\A i \in 1..Len(bk.vouchers) : f[i] \in Int) /\ \A i \in (1..Len(bk.vouchers)) \ Touched(bk, n) : f[i] = 0
  BY <1>1 DEF Booked
<1>4. Sum(g, DOMAIN Rows(bk, n)) = Sum(f, 1..Len(bk.vouchers)) /\ Sum(f, 1..Len(bk.vouchers)) \in Int
  <2> DEFINE I == Touched(bk, n)
             m == Len(bk.vouchers)
  <2>1. I \in SUBSET (1..m) /\ m \in Nat /\ (\A k \in DOMAIN InOrder(I, m) : g[k] = f[InOrder(I, m)[k]])
    BY <1>1, <1>2 DEF Rows
  <2>2. (\A i \in 1..m : f[i] \in Int) /\ \A i \in (1..m) \ I : f[i] = 0
    BY <1>3
  <2> HIDE DEF I, m
  <2>3. Sum(g, DOMAIN InOrder(I, m)) = Sum(f, 1..m) /\ Sum(f, 1..m) \in Int
    BY <2>1, <2>2, PickedAll
  <2> QED BY <2>3 DEF I, m, Rows
<1> QED BY <1>1, <1>4, PostsAre

LEMMA BalanceAtIs ==
    ASSUME NEW bk, Base(bk), NEW n \in Names(bk), NEW d
    PROVE  BalanceAt(bk, n, d) = Bal(bk, n, d)
<1> DEFINE g == [k \in DOMAIN bk.posts[n] |-> IF bk.posts[n][k].date <= d THEN bk.posts[n][k].a ELSE 0]
<1>1. BalanceAt(bk, n, d) = bk.acct[n].opening + Sum(g, DOMAIN bk.posts[n])
  BY DEF BalanceAt, SumOf, SumFunction, Sum
<1>2. \A k \in DOMAIN bk.posts[n] : g[k] = (IF bk.posts[n][k].date <= d THEN bk.posts[n][k].a ELSE 0)
  OBVIOUS
<1> HIDE DEF g
<1>3. ASSUME NEW k \in DOMAIN bk.posts[n] PROVE g[k] = Went(bk, n, d)[Rows(bk, n)[k]]
  BY <1>2, PostsAre, WentIs
<1>4. Booked(bk, n, Went(bk, n, d), g)
  BY <1>3, WentIs DEF Booked
<1>5. Sum(g, DOMAIN bk.posts[n]) = Sum(Went(bk, n, d), DOMAIN bk.vouchers)
  BY <1>4, PostsSum
<1> QED BY <1>1, <1>5 DEF Bal

LEMMA ClosingBalance ==
    ASSUME NEW bk, Base(bk), NEW n \in Names(bk)
    PROVE  bk.closing[n] = Bal(bk, n, FyEnd) /\ bk.closing[n] \in Int
<1> DEFINE q == Rows(bk, n)
           g == [k \in DOMAIN q |-> On(bk.vouchers[q[k]].lines, n)]
<1>1. bk.closing[n] = (IF bk.posts[n] = << >> THEN bk.acct[n].opening ELSE Last(bk.posts[n]).bal)
  BY DEF Base
<1>2. Touched(bk, n) \in SUBSET (1..Len(bk.vouchers)) /\ Len(bk.vouchers) \in Nat
  BY VouchersAre DEF Touched
<1>3. DOMAIN q = 1..Len(q) /\ q \in Seq(Touched(bk, n)) /\ Len(q) \in Nat
  BY <1>2, InOrderLists, LenProperties DEF Rows
<1>4. ASSUME NEW k \in DOMAIN bk.posts[n] PROVE g[k] = Went(bk, n, FyEnd)[q[k]]
  <2>1. k \in DOMAIN q /\ q[k] \in DOMAIN bk.vouchers
    BY PostsAre
  <2>2. g[k] = On(bk.vouchers[q[k]].lines, n)
    BY <2>1
  <2>3. bk.vouchers[q[k]].date <= FyEnd
    BY <2>1, VouchersAre
  <2> QED BY <2>1, <2>2, <2>3, WentIs
<1>5. Booked(bk, n, Went(bk, n, FyEnd), g)
  BY <1>4, WentIs DEF Booked
<1>6. Sum(g, DOMAIN bk.posts[n]) = Sum(Went(bk, n, FyEnd), DOMAIN bk.vouchers)
  BY <1>5, PostsSum
<1>7. DOMAIN bk.posts[n] = DOMAIN q
  BY PostsAre
<1>8. CASE bk.posts[n] = << >>
  <2>1. DOMAIN bk.posts[n] = {}
    BY <1>8
  <2>2. Sum(g, DOMAIN bk.posts[n]) = 0
    BY <2>1, SumEmpty
  <2>3. bk.acct[n].opening \in Int
    BY NamesAre DEF Base
  <2> QED BY <1>1, <1>6, <1>8, <2>2, <2>3, WentIs DEF Bal
<1>9. CASE bk.posts[n] # << >>
  <2>1. bk.posts[n] = [k \in 1..Len(q) |-> bk.posts[n][k]]
    BY <1>3, <1>7 DEF Base, PostsOn
  <2>2. Len(q) # 0
    BY <1>9, <2>1
  <2>3. Len(bk.posts[n]) = Len(q)
    BY <1>3, <2>1
  <2>4. Last(bk.posts[n]).bal = bk.acct[n].opening + Upto(bk, n, Len(q))
    <3>1. Len(q) \in DOMAIN bk.posts[n]
      BY <1>3, <1>7, <2>2
    <3> QED BY <2>3, <3>1, PostsAre DEF Last
  <2>5. Upto(bk, n, Len(q)) = Sum(g, DOMAIN q)
    BY <1>3 DEF Upto, SumOn, SumFunction, Sum
  <2> QED BY <1>1, <1>6, <1>7, <1>9, <2>4, <2>5, WentIs DEF Bal
<1> QED BY <1>8, <1>9

-----------------------------------------------------------------------------
(* Sums over the accounts *)

\* A line goes to one account: over accounts that hold every line's, a list of
\* lines adds up to its total.
LEMMA OnSpreads ==
    ASSUME NEW L \in Seq(Line), NEW R, IsFiniteSet(R), \A i \in DOMAIN L : L[i].n \in R,
           NEW b, \A n \in R : b[n] = On(L, n)
    PROVE  Sum(b, R) = SumLines(L)
<1> DEFINE key == [i \in DOMAIN L |-> L[i].n]
           f == [i \in DOMAIN L |-> L[i].a]
           part == [n \in R |-> OnLine(L, n)]
<1>1. \A i \in DOMAIN L : key[i] = L[i].n /\ f[i] = L[i].a /\ key[i] \in R /\ f[i] \in Int
  BY LinesAre
<1>2. \A n \in R : part[n] = OnLine(L, n)
  OBVIOUS
<1>3. IsFiniteSet(DOMAIN L) /\ SumLines(L) = Sum(f, DOMAIN L)
  BY LinesAre
<1> HIDE DEF key, f, part
<1>4. Keyed(DOMAIN L, R, key, f, part, b)
  <2>1. ASSUME NEW n \in R
        PROVE  b[n] = Sum(part[n], DOMAIN L) /\ \A i \in DOMAIN L : part[n][i] = IF key[i] = n THEN f[i] ELSE 0
    BY <1>1, <1>2, OnIs
  <2> QED BY <1>1, <2>1 DEF Keyed
<1> QED BY <1>3, <1>4, SumByKey

\* The balances of day d, and the sum of the openings.
Balances(bk, d) == [n \in Names(bk) |-> Bal(bk, n, d)]

LEMMA BalancesAre ==
    ASSUME NEW bk, Base(bk), NEW d
    PROVE  \A n \in Names(bk) : Balances(bk, d)[n] = BalanceAt(bk, n, d) /\ Balances(bk, d)[n] \in Int
BY BalanceAtIs, WentIs DEF Balances

LEMMA BooksBalance ==
    ASSUME NEW bk, Base(bk), NEW d
    PROVE  Sum(Balances(bk, d), Names(bk)) = 0
<1> DEFINE V == DOMAIN bk.vouchers
           N == Names(bk)
           op == [n \in N |-> bk.acct[n].opening]
           w == [n \in N |-> Sum(Went(bk, n, d), V)]
           row == [n \in N |-> Went(bk, n, d)]
           col == [i \in V |-> [n \in N |-> Went(bk, n, d)[i]]]
           b == [i \in V |-> 0]
<1>1. Sum(op, N) = 0
  BY DEF Base, SumOn, SumFunction, Sum
<1>2. \A n \in N : op[n] \in Int /\ w[n] \in Int /\ Balances(bk, d)[n] = op[n] + w[n]
  BY NamesAre, WentIs DEF Base, Balances, Bal
<1>3. IsFiniteSet(N) /\ IsFiniteSet(V)
  BY NamesAre, VouchersAre DEF Base
<1>4. \A n \in N : \A i \in V : row[n][i] \in Int /\ col[i][n] = row[n][i]
  BY WentIs
<1>5. \A n \in N : w[n] = Sum(row[n], V)
  OBVIOUS
<1>6. ASSUME NEW i \in V PROVE b[i] = Sum(col[i], N)
  <2> DEFINE L == bk.vouchers[i].lines
             on == [n \in N |-> On(L, n)]
             c == col[i]
  <2>1. L \in Seq(Line) /\ EntryOk(bk, bk.vouchers[i])
    BY VouchersAre
  <2>2. (\A k \in DOMAIN L : L[k].n \in N) /\ SumLines(L) = 0
    <3>1. SumLines(L) = 0 /\ \A ln \in ToSet(L) : ln.n \in N
      BY <2>1 DEF EntryOk
    <3> QED BY <3>1 DEF ToSet
  <2>3. \A n \in N : on[n] = On(L, n) /\ On(L, n) \in Int
    BY <2>1, OnIs
  <2>4. \A n \in N : c[n] = (IF bk.vouchers[i].date <= d THEN on[n] ELSE 0)
    BY WentIs
  <2>5. b[i] = 0
    OBVIOUS
  <2> HIDE DEF L, on, c, N
  <2>6. Sum(on, N) = 0
    BY <1>3, <2>1, <2>2, <2>3, OnSpreads
  <2>7. Sum(c, N) = 0
    <3>1. CASE bk.vouchers[i].date <= d
      BY <1>3, <2>3, <2>4, <2>6, <3>1, SumSame
    <3>2. CASE ~(bk.vouchers[i].date <= d)
      BY <1>3, <2>4, <3>2, SumZero
    <3> QED BY <3>1, <3>2
  <2> QED BY <2>5, <2>7 DEF c
<1> HIDE DEF op, w, row, col, b, N, V
<1>7. Crossed(N, V, row, col, w, b)
  BY <1>4, <1>5, <1>6 DEF Crossed
<1>8. Sum(w, N) = Sum(b, V)
  BY <1>3, <1>7, SumSwap
<1>9. Sum(b, V) = 0
  BY <1>3, SumZero DEF b
<1>10. Sum(Balances(bk, d), N) = Sum(op, N) + Sum(w, N)
  BY <1>2, <1>3, SumPlus
<1> QED BY <1>1, <1>8, <1>9, <1>10 DEF N

-----------------------------------------------------------------------------
(* The own money *)

\* What came on one side less what went on the other is what the entries did.
LEMMA MovementIs ==
    ASSUME NEW bk, Base(bk), NEW n \in Names(bk), NEW d
    PROVE  /\ Movement(bk, n, FyStart, d)[1] \in Int /\ Movement(bk, n, FyStart, d)[2] \in Int
           /\ Movement(bk, n, FyStart, d)[1] - Movement(bk, n, FyStart, d)[2] = Sum(Went(bk, n, d), DOMAIN bk.vouchers)
<1> DEFINE P == DOMAIN bk.posts[n]
           in(p) == FyStart <= p.date /\ p.date <= d
           dr == [k \in P |-> IF in(bk.posts[n][k]) THEN Pos(bk.posts[n][k].a) ELSE 0]
           cr == [k \in P |-> IF in(bk.posts[n][k]) THEN Neg(bk.posts[n][k].a) ELSE 0]
           g == [k \in P |-> Went(bk, n, d)[Rows(bk, n)[k]]]
<1>1. Movement(bk, n, FyStart, d) = <<Sum(dr, P), Sum(cr, P)>>
  BY DEF Movement, SumOf, SumFunction, Sum
<1>2. ASSUME NEW k \in P
      PROVE  dr[k] \in Int /\ cr[k] \in Int /\ g[k] \in Int /\ dr[k] = cr[k] + g[k]
  <2> DEFINE i == Rows(bk, n)[k]
  <2>1. i \in DOMAIN bk.vouchers /\ bk.posts[n][k].a = On(bk.vouchers[i].lines, n) /\ bk.posts[n][k].date = bk.vouchers[i].date
    BY PostsAre
  <2>2. On(bk.vouchers[i].lines, n) \in Int /\ FyStart <= bk.vouchers[i].date
    BY <2>1, WentIs, VouchersAre DEF FyStart
  <2>3. Went(bk, n, d)[i] = (IF bk.vouchers[i].date <= d THEN On(bk.vouchers[i].lines, n) ELSE 0)
    BY <2>1, WentIs
  <2>4. /\ dr[k] = (IF in(bk.posts[n][k]) THEN Pos(bk.posts[n][k].a) ELSE 0)
        /\ cr[k] = (IF in(bk.posts[n][k]) THEN Neg(bk.posts[n][k].a) ELSE 0) /\ g[k] = Went(bk, n, d)[i]
    OBVIOUS
  <2> HIDE DEF i, dr, cr, g
  <2> QED BY <2>1, <2>2, <2>3, <2>4 DEF Pos, Neg
<1>3. Booked(bk, n, Went(bk, n, d), g)
  BY WentIs DEF Booked
<1>4. IsFiniteSet(P)
  <2>1. Touched(bk, n) \in SUBSET (1..Len(bk.vouchers)) /\ Len(bk.vouchers) \in Nat
    BY VouchersAre DEF Touched
  <2>2. IsFiniteSet(DOMAIN Rows(bk, n))
    BY <2>1, InOrderLists DEF Rows
  <2> QED BY <2>2, PostsAre
<1>5. Sum(g, P) = Sum(Went(bk, n, d), DOMAIN bk.vouchers)
  BY <1>3, PostsSum
<1> HIDE DEF P, dr, cr, g
<1>6. Sum(dr, P) = Sum(cr, P) + Sum(g, P)
  BY <1>2, <1>4, SumPlus
<1>7. Sum(cr, P) \in Int /\ Sum(g, P) \in Int
  BY <1>2, <1>4, SumInt
<1> QED BY <1>1, <1>5, <1>6, <1>7

LEMMA OwnNowIs ==
    ASSUME NEW bk, Base(bk), NEW d
    PROVE  /\ OwnNow(bk, d) = -Sum(Balances(bk, d), OfKind(bk, EquityKinds))
                              - Sum(Balances(bk, d), OfKind(bk, {"income"})) - Sum(Balances(bk, d), OfKind(bk, {"expense"}))
           /\ ResultTo(bk, d)[1] - ResultTo(bk, d)[2] =
                - Sum(Balances(bk, d), OfKind(bk, {"income"})) - Sum(Balances(bk, d), OfKind(bk, {"expense"}))
           /\ Sum(Balances(bk, d), OfKind(bk, EquityKinds)) \in Int
           /\ Sum(Balances(bk, d), OfKind(bk, {"income"})) \in Int
           /\ Sum(Balances(bk, d), OfKind(bk, {"expense"})) \in Int
<1> DEFINE E == OfKind(bk, EquityKinds)
           I == OfKind(bk, {"income"})
           X == OfKind(bk, {"expense"})
           B == Balances(bk, d)
           op == [n \in E |-> bk.acct[n].opening]
           put == [n \in E |-> Movement(bk, n, FyStart, d)[2]]
           taken == [n \in E |-> Movement(bk, n, FyStart, d)[1]]
           w == [n \in E |-> Sum(Went(bk, n, d), DOMAIN bk.vouchers)]
           inc == [n \in I |-> -BalanceAt(bk, n, d)]
           exp == [n \in X |-> BalanceAt(bk, n, d)]
<1>1. IsFiniteSet(E) /\ IsFiniteSet(I) /\ IsFiniteSet(X) /\ E \subseteq Names(bk) /\ I \subseteq Names(bk) /\ X \subseteq Names(bk)
  BY NamesAre, FS_Subset DEF OfKind, Base
<1>2. /\ EquityParts(bk, d).start = -Sum(op, E) /\ EquityParts(bk, d).put = Sum(put, E)
      /\ EquityParts(bk, d).taken = Sum(taken, E)
  BY DEF EquityParts, SumOn, SumFunction, Sum
<1>3. ResultTo(bk, d) = <<Sum(inc, I), Sum(exp, X)>>
  BY DEF ResultTo, SumOn, SumFunction, Sum
<1>4. \A n \in E : /\ op[n] \in Int /\ put[n] \in Int /\ taken[n] \in Int /\ w[n] \in Int
                   /\ taken[n] = put[n] + w[n] /\ B[n] \in Int /\ B[n] = op[n] + w[n]
  <2>1. ASSUME NEW n \in E
        PROVE  /\ op[n] \in Int /\ put[n] \in Int /\ taken[n] \in Int /\ w[n] \in Int
               /\ taken[n] = put[n] + w[n] /\ B[n] \in Int /\ B[n] = op[n] + w[n]
    <3>1. n \in Names(bk)
      BY <1>1
    <3>2. op[n] = bk.acct[n].opening /\ op[n] \in Int
      BY <3>1, NamesAre DEF Base
    <3>3. B[n] = op[n] + w[n] /\ w[n] = Sum(Went(bk, n, d), DOMAIN bk.vouchers) /\ w[n] \in Int
      BY <3>1, WentIs DEF Balances, Bal
    <3>4. put[n] \in Int /\ taken[n] \in Int /\ taken[n] - put[n] = w[n]
      BY <3>1, <3>3, MovementIs
    <3> HIDE DEF op, put, taken, w, B
    <3> QED BY <3>2, <3>3, <3>4
  <2> QED BY <2>1
<1>5. (\A n \in I : B[n] \in Int /\ inc[n] = -B[n]) /\ (\A n \in X : B[n] \in Int /\ exp[n] = B[n])
  BY <1>1, BalancesAre
<1> HIDE DEF E, I, X, B, op, put, taken, w, inc, exp
<1>6. Sum(taken, E) = Sum(put, E) + Sum(w, E) /\ Sum(B, E) = Sum(op, E) + Sum(w, E)
  BY <1>1, <1>4, SumPlus
<1>7. Sum(op, E) \in Int /\ Sum(put, E) \in Int /\ Sum(w, E) \in Int
  BY <1>1, <1>4, SumInt
<1>8. Sum(inc, I) = -Sum(B, I) /\ Sum(B, I) \in Int
  BY <1>1, <1>5, SumMinus, SumInt
<1>9. Sum(exp, X) = Sum(B, X) /\ Sum(B, X) \in Int
  BY <1>1, <1>5, SumSame, SumInt
<1>10. OwnNow(bk, d) = EquityParts(bk, d).start + EquityParts(bk, d).put - EquityParts(bk, d).taken
                        + ResultTo(bk, d)[1] - ResultTo(bk, d)[2]
  BY DEF OwnNow
<1>11. ResultTo(bk, d)[1] = -Sum(B, I) /\ ResultTo(bk, d)[2] = Sum(B, X)
  BY <1>3, <1>8, <1>9
<1> QED BY <1>2, <1>6, <1>7, <1>8, <1>9, <1>10, <1>11 DEF E, I, X, B

-----------------------------------------------------------------------------
(* What Those takes out of a list *)

Taken(s, I) == [k \in DOMAIN InOrder(I, Len(s)) |-> s[InOrder(I, Len(s))[k]]]

TakenIs(s, I, t, q) ==
    /\ q \in Seq(I) /\ Enumerates(q, DOMAIN q, I)
    /\ DOMAIN t = DOMAIN q /\ IsFiniteSet(DOMAIN t)
    /\ Len(t) \in Nat /\ DOMAIN t = 1..Len(t)
    /\ t \in Seq({s[i] : i \in I})
    /\ \A k \in DOMAIN t : q[k] \in I /\ t[k] = s[q[k]]
    /\ \A i \in I : \E k \in DOMAIN t : t[k] = s[i]

LEMMA TakenLists ==
    ASSUME NEW X, NEW s \in Seq(X), NEW I \in SUBSET DOMAIN s
    PROVE  TakenIs(s, I, Taken(s, I), InOrder(I, Len(s)))
<1> DEFINE n == Len(s)
           q == InOrder(I, n)
           t == [k \in DOMAIN q |-> s[q[k]]]
<1>1. n \in Nat /\ I \in SUBSET (1..n)
  BY ElementsFinite
<1>2. q \in Seq(I) /\ DOMAIN q = 1..Len(q) /\ IsFiniteSet(DOMAIN q) /\ Enumerates(q, DOMAIN q, I)
  BY <1>1, InOrderLists
<1>3. Len(q) \in Nat
  BY <1>2, LenProperties
<1>4. Taken(s, I) = t
  BY DEF Taken
<1>5. \A k \in DOMAIN q : q[k] \in I
  BY <1>2 DEF Enumerates
<1>6. t \in Seq({s[i] : i \in I}) /\ DOMAIN t = DOMAIN q /\ Len(t) = Len(q)
  <2> HIDE DEF q
  <2>1. t = [k \in 1..Len(q) |-> s[q[k]]] /\ \A k \in 1..Len(q) : s[q[k]] \in {s[i] : i \in I}
    BY <1>2, <1>5
  <2> QED BY <1>2, <1>3, <2>1
<1>7. \A i \in I : \E k \in DOMAIN q : q[k] = i
  BY <1>2 DEF Enumerates
<1> HIDE DEF q
<1>8. \A i \in I : \E k \in DOMAIN t : t[k] = s[i]
  BY <1>6, <1>7
<1>9. \A k \in DOMAIN t : q[k] \in I /\ t[k] = s[q[k]]
  BY <1>5, <1>6
<1> HIDE DEF t
<1>10. InOrder(I, Len(s)) = q
  BY DEF q
<1> QED BY <1>1, <1>2, <1>3, <1>4, <1>6, <1>8, <1>9, <1>10 DEF TakenIs

\* g gives, item by item of what is taken out of s, what f gives of the item.
TakenOut(s, I, f, g) ==
    /\ \A i \in I : f[s[i]] \in Int
    /\ \A k \in DOMAIN Taken(s, I) : g[k] = f[Taken(s, I)[k]]

LEMMA TakenSum ==
    ASSUME NEW X, NEW s \in Seq(X), \A i, j \in DOMAIN s : s[i] = s[j] => i = j,
           NEW I \in SUBSET DOMAIN s, NEW f, NEW g, TakenOut(s, I, f, g)
    PROVE  Sum(g, DOMAIN Taken(s, I)) = Sum(f, {s[i] : i \in I})
<1> DEFINE t == Taken(s, I)
           q == InOrder(I, Len(s))
           D == DOMAIN t
           R == {s[i] : i \in I}
<1>0. TakenIs(s, I, t, q)
  BY TakenLists
<1>1. /\ D = DOMAIN q /\ IsFiniteSet(D) /\ (\A k \in D : q[k] \in I /\ t[k] = s[q[k]])
      /\ \A i \in I : \E k \in D : t[k] = s[i]
  BY <1>0 DEF TakenIs
<1>2. Enumerates(q, D, I)
  BY <1>0, <1>1 DEF TakenIs
<1>3. Enumerates(t, D, R)
  <2>1. \A k \in D : t[k] \in R
    BY <1>1
  <2>2. \A k, l \in D : t[k] = t[l] => k = l
    BY <1>1, <1>2 DEF Enumerates
  <2>3. \A z \in R : \E k \in D : t[k] = z
    BY <1>1
  <2> QED BY <2>1, <2>2, <2>3 DEF Enumerates
<1>4. IsFiniteSet(R)
  <2> DEFINE u == [k \in D |-> t[k]]
  <2>1. \A k \in D : u[k] = t[k]
    OBVIOUS
  <2>2. u \in [D -> R] /\ \A z \in R : \E k \in D : u[k] = z
    BY <1>3, <2>1 DEF Enumerates
  <2> HIDE DEF t, D, R, u
  <2>3. u \in Surjection(D, R)
    BY <2>2 DEF Surjection
  <2> QED BY <1>1, <2>3, FS_Surjection
<1>5. Moved(t, D, R, f, g)
  BY <1>3 DEF TakenOut, Moved
<1> HIDE DEF t, q, D, R
<1>6. Sum(g, D) = Sum(f, R)
  BY <1>1, <1>4, <1>5, SumMoved
<1> QED BY <1>6 DEF D, R, t

\* The accounts of a book that lie in G, in the book's order.
InBook(bk, G) == Taken(bk.order, {i \in DOMAIN bk.order : bk.order[i] \in G})

LEMMA InBookLists ==
    ASSUME NEW bk, AccountsOk(bk), NEW G \in SUBSET Names(bk)
    PROVE  /\ InBook(bk, G) \in Seq(G) /\ Len(InBook(bk, G)) \in Nat
           /\ DOMAIN InBook(bk, G) = 1..Len(InBook(bk, G)) /\ IsFiniteSet(DOMAIN InBook(bk, G))
           /\ \A k \in DOMAIN InBook(bk, G) : InBook(bk, G)[k] \in G
           /\ \A n \in G : \E k \in DOMAIN InBook(bk, G) : InBook(bk, G)[k] = n
<1> DEFINE s == bk.order
           I == {i \in DOMAIN s : s[i] \in G}
<1>1. s \in Seq(STRING) /\ I \in SUBSET DOMAIN s
  BY DEF AccountsOk
<1>2. {s[i] : i \in I} = G
  BY DEF Names, ToSet
<1>a. InBook(bk, G) = Taken(s, I) /\ I = {i \in DOMAIN s : s[i] \in G}
  BY DEF InBook
<1> HIDE DEF s, I
<1>b. TakenIs(s, I, Taken(s, I), InOrder(I, Len(s)))
  BY <1>1, TakenLists
<1> DEFINE t == Taken(s, I)
           q == InOrder(I, Len(s))
<1> HIDE DEF t, q
<1>3. /\ t \in Seq({s[i] : i \in I}) /\ Len(t) \in Nat
      /\ DOMAIN t = 1..Len(t) /\ IsFiniteSet(DOMAIN t)
      /\ (\A k \in DOMAIN t : q[k] \in I /\ t[k] = s[q[k]])
      /\ \A i \in I : \E k \in DOMAIN t : t[k] = s[i]
  BY <1>b DEF TakenIs, t, q
<1>5. \A k \in DOMAIN t : t[k] \in G
  BY <1>3, <1>a
<1>6. \A n \in G : \E k \in DOMAIN t : t[k] = n
  <2>1. ASSUME NEW n \in G PROVE \E i \in I : s[i] = n
    BY <1>2
  <2>2. ASSUME NEW n \in G PROVE \E k \in DOMAIN t : t[k] = n
    <3>1. PICK i \in I : s[i] = n
      BY <2>1
    <3> QED BY <1>3, <3>1
  <2> QED BY <2>2
<1> QED BY <1>2, <1>3, <1>a, <1>5, <1>6 DEF t

LEMMA InBookSum ==
    ASSUME NEW bk, AccountsOk(bk), NEW G \in SUBSET Names(bk), NEW f, \A n \in G : f[n] \in Int,
           NEW g, \A k \in DOMAIN InBook(bk, G) : g[k] = f[InBook(bk, G)[k]]
    PROVE  Sum(g, DOMAIN InBook(bk, G)) = Sum(f, G)
<1> DEFINE s == bk.order
           I == {i \in DOMAIN s : s[i] \in G}
<1>1. s \in Seq(STRING) /\ I \in SUBSET DOMAIN s /\ \A i, j \in DOMAIN s : s[i] = s[j] => i = j
  BY DEF AccountsOk
<1>2. {s[i] : i \in I} = G
  BY DEF Names, ToSet
<1>3. TakenOut(s, I, f, g)
  BY DEF TakenOut, InBook
<1> HIDE DEF s, I
<1>4. Sum(g, DOMAIN Taken(s, I)) = Sum(f, {s[i] : i \in I})
  BY <1>1, <1>3, TakenSum
<1> QED BY <1>2, <1>4 DEF InBook, s, I

-----------------------------------------------------------------------------
(* The position *)

Group(bk, g, d) ==
    {n \in Names(bk) : /\ IsBs(bk, n) /\ ~IsEquity(bk, n)
                       /\ BalanceAt(bk, n, d) # 0 /\ Place(bk, n, BalanceAt(bk, n, d)) = g}
Sized(bk, g, d) == [n \in Names(bk) |-> IF n \in Group(bk, g, d) THEN Abs(BalanceAt(bk, n, d)) ELSE 0]

LEMMA PlacedIs ==
    ASSUME NEW bk, AccountsOk(bk), NEW g, NEW d
    PROVE  Placed(bk, g, d) = InBook(bk, Group(bk, g, d)) /\ Group(bk, g, d) \in SUBSET Names(bk)
<1> DEFINE P(n) == /\ IsBs(bk, n) /\ ~IsEquity(bk, n)
                   /\ BalanceAt(bk, n, d) # 0 /\ Place(bk, n, BalanceAt(bk, n, d)) = g
           I == {i \in DOMAIN bk.order : P(bk.order[i])}
           J == {i \in DOMAIN bk.order : bk.order[i] \in Group(bk, g, d)}
<1>1. \A i \in DOMAIN bk.order : bk.order[i] \in Names(bk)
  BY ElementsFinite DEF AccountsOk, Names
<1>2. I = J
  BY <1>1 DEF Group
<1>3. Placed(bk, g, d) = Taken(bk.order, I)
  BY Zenon DEF Placed, Accounts, Those, Taken
<1> QED BY <1>2, <1>3 DEF InBook, Group

LEMMA PlacedTotalIs ==
    ASSUME NEW bk, Base(bk), NEW g, NEW d
    PROVE  /\ PlacedTotal(bk, g, d) = Sum(Sized(bk, g, d), Names(bk))
           /\ Sum(Sized(bk, g, d), Names(bk)) \in Int
           /\ \A n \in Names(bk) : /\ Sized(bk, g, d)[n] = (IF n \in Group(bk, g, d) THEN Abs(BalanceAt(bk, n, d)) ELSE 0)
                                   /\ Sized(bk, g, d)[n] \in Int
<1> DEFINE G == Group(bk, g, d)
           s == Sized(bk, g, d)
           t == InBook(bk, G)
           f == [k \in DOMAIN t |-> Abs(BalanceAt(bk, t[k], d))]
<1>1. AccountsOk(bk) /\ G \in SUBSET Names(bk) /\ Placed(bk, g, d) = t /\ IsFiniteSet(Names(bk))
  BY PlacedIs, NamesAre DEF Base
<1>2. PlacedTotal(bk, g, d) = Sum(f, DOMAIN t)
  BY <1>1 DEF PlacedTotal, SumOf, SumFunction, Sum
<1>3. \A n \in Names(bk) : s[n] = (IF n \in G THEN Abs(BalanceAt(bk, n, d)) ELSE 0) /\ s[n] \in Int
  <2>1. \A n \in Names(bk) : BalanceAt(bk, n, d) \in Int
    BY BalancesAre
  <2>2. \A n \in Names(bk) : s[n] = (IF n \in G THEN Abs(BalanceAt(bk, n, d)) ELSE 0)
    BY DEF Sized
  <2> HIDE DEF s, G
  <2> QED BY <2>1, <2>2 DEF Abs
<1>4. \A k \in DOMAIN t : t[k] \in G /\ f[k] = s[t[k]]
  <2>1. \A k \in DOMAIN t : t[k] \in G /\ f[k] = Abs(BalanceAt(bk, t[k], d))
    BY <1>1, InBookLists
  <2> HIDE DEF s, G, t, f
  <2> QED BY <1>1, <1>3, <2>1
<1> HIDE DEF s, f, G
<1>5. Sum(f, DOMAIN t) = Sum(s, G)
  BY <1>1, <1>3, <1>4, InBookSum
<1>6. Sum(s, Names(bk)) = Sum(s, G)
  BY <1>1, <1>3, SumSupport
<1>7. Sum(s, Names(bk)) \in Int
  BY <1>1, <1>3, SumInt
<1> QED BY <1>2, <1>3, <1>5, <1>6, <1>7 DEF s, G

\* The accounts that are neither heads nor own money.
Other(bk) == {n \in Names(bk) : IsBs(bk, n) /\ ~IsEquity(bk, n)}

\* The own money is what the other accounts hold.
LEMMA OwnNowIsOthers ==
    ASSUME NEW bk, Base(bk), NEW d
    PROVE  OwnNow(bk, d) = Sum(Balances(bk, d), Other(bk)) /\ Sum(Balances(bk, d), Other(bk)) \in Int
<1> DEFINE B == Balances(bk, d)
           N == Names(bk)
           E == OfKind(bk, EquityKinds)
           I == OfKind(bk, {"income"})
           X == OfKind(bk, {"expense"})
           O == Other(bk)
<1>1. /\ IsFiniteSet(N) /\ E \in SUBSET N /\ I \in SUBSET N /\ X \in SUBSET N /\ O \in SUBSET N
      /\ N = ((E \cup I) \cup X) \cup O /\ ((E \cup I) \cup X) \cap O = {} /\ (E \cup I) \cap X = {} /\ E \cap I = {}
  <2>1. IsFiniteSet(N)
    BY NamesAre DEF Base
  <2>2. E \in SUBSET N /\ I \in SUBSET N /\ X \in SUBSET N /\ O \in SUBSET N
    BY DEF OfKind, Other
  <2>3. ASSUME NEW n \in N
        PROVE  /\ n \in E \/ n \in I \/ n \in X \/ n \in O
               /\ ~(n \in E /\ n \in I) /\ ~(n \in E /\ n \in X) /\ ~(n \in I /\ n \in X)
               /\ ~(n \in O /\ (n \in E \/ n \in I \/ n \in X))
    <3>1. /\ n \in E <=> Kind(bk, n) \in EquityKinds
          /\ n \in I <=> Kind(bk, n) = "income"
          /\ n \in X <=> Kind(bk, n) = "expense"
          /\ n \in O <=> Kind(bk, n) \notin {"income", "expense"} /\ Kind(bk, n) \notin EquityKinds
      BY DEF OfKind, Other, IsBs, IsEquity, Nominal
    <3> QED BY <3>1 DEF EquityKinds
  <2> HIDE DEF N, E, I, X, O
  <2> QED BY <2>1, <2>2, <2>3
<1>2. \A n \in N : B[n] \in Int
  BY BalancesAre
<1>3. Sum(B, N) = 0
  BY BooksBalance
<1> HIDE DEF B, N, E, I, X, O
<1>4. IsFiniteSet(E) /\ IsFiniteSet(I) /\ IsFiniteSet(X) /\ IsFiniteSet(O)
  BY <1>1, FS_Subset
<1>5. IsFiniteSet(E \cup I) /\ IsFiniteSet((E \cup I) \cup X)
  BY <1>4, FS_Union
<1>6. Sum(B, E \cup I) = Sum(B, E) + Sum(B, I)
  BY <1>1, <1>2, <1>4, SumUnion
<1>7. Sum(B, (E \cup I) \cup X) = Sum(B, E \cup I) + Sum(B, X)
  BY <1>1, <1>2, <1>4, <1>5, SumUnion
<1>8. Sum(B, N) = Sum(B, (E \cup I) \cup X) + Sum(B, O)
  BY <1>1, <1>2, <1>4, <1>5, SumUnion
<1>9. Sum(B, O) \in Int
  BY <1>1, <1>2, <1>4, SumInt
<1>10. /\ OwnNow(bk, d) = -Sum(B, E) - Sum(B, I) - Sum(B, X)
       /\ Sum(B, E) \in Int /\ Sum(B, I) \in Int /\ Sum(B, X) \in Int
  BY OwnNowIs DEF B, E, I, X
<1> QED BY <1>3, <1>6, <1>7, <1>8, <1>9, <1>10 DEF B, O

\* The make-up misses the position by twice what funds are overspent.
LEMMA MakeUpMisses ==
    ASSUME NEW bk, Base(bk), NEW d
    PROVE  OwnNow(bk, d) - NetPosition(bk, d) = 2 * Overspent(bk, d)
<1> DEFINE N == Names(bk)
           F == OfKind(bk, {"fund"})
           B == Balances(bk, d)
           O == Other(bk)
           have == Sized(bk, "have", d)
           get == Sized(bk, "get", d)
           give == Sized(bk, "give", d)
           fund == Sized(bk, "fund", d)
           ps == [n \in F |-> Pos(BalanceAt(bk, n, d))]
           p == [n \in N |-> IF n \in F THEN Pos(B[n]) ELSE 0]
           own == [n \in N |-> IF n \in O THEN B[n] ELSE 0]
           plus == [n \in N |-> have[n] + get[n]]
           minus == [n \in N |-> give[n] + fund[n]]
           twice == [n \in N |-> p[n] + p[n]]
           all == [n \in N |-> own[n] + minus[n]]
<1>1. IsFiniteSet(N) /\ F \in SUBSET N /\ O \in SUBSET N /\ IsFiniteSet(F) /\ IsFiniteSet(O)
  BY NamesAre, FS_Subset DEF Base, OfKind, Other
<1>2. NetPosition(bk, d) = Sum(have, N) + Sum(get, N) - Sum(give, N) - Sum(fund, N)
  BY PlacedTotalIs DEF NetPosition
<1>3. Sum(have, N) \in Int /\ Sum(get, N) \in Int /\ Sum(give, N) \in Int /\ Sum(fund, N) \in Int
  BY PlacedTotalIs
<1>4. ASSUME NEW n \in N
      PROVE  /\ have[n] \in Int /\ get[n] \in Int /\ give[n] \in Int /\ fund[n] \in Int
             /\ p[n] \in Int /\ own[n] \in Int /\ B[n] \in Int
             /\ plus[n] = have[n] + get[n] /\ plus[n] \in Int
             /\ minus[n] = give[n] + fund[n] /\ minus[n] \in Int
             /\ twice[n] = p[n] + p[n] /\ twice[n] \in Int
             /\ all[n] = own[n] + minus[n] /\ all[n] = plus[n] + twice[n]
  <2> DEFINE b == BalanceAt(bk, n, d)
             k == Kind(bk, n)
  <2>1. b = B[n] /\ b \in Int
    BY BalancesAre
  <2>2. have[n] = (IF n \in Group(bk, "have", d) THEN Abs(b) ELSE 0) /\ have[n] \in Int
    BY PlacedTotalIs
  <2>3. get[n] = (IF n \in Group(bk, "get", d) THEN Abs(b) ELSE 0) /\ get[n] \in Int
    BY PlacedTotalIs
  <2>4. give[n] = (IF n \in Group(bk, "give", d) THEN Abs(b) ELSE 0) /\ give[n] \in Int
    BY PlacedTotalIs
  <2>5. fund[n] = (IF n \in Group(bk, "fund", d) THEN Abs(b) ELSE 0) /\ fund[n] \in Int
    BY PlacedTotalIs
  <2>6. /\ n \in F <=> k = "fund"
        /\ n \in O <=> k \notin Nominal /\ k \notin EquityKinds
        /\ \A g : n \in Group(bk, g, d) <=> n \in O /\ b # 0 /\ Place(bk, n, b) = g
    BY DEF OfKind, Other, Group, IsBs, IsEquity
  <2>7. /\ p[n] = (IF n \in F THEN Pos(B[n]) ELSE 0) /\ own[n] = (IF n \in O THEN B[n] ELSE 0)
        /\ plus[n] = have[n] + get[n] /\ minus[n] = give[n] + fund[n] /\ twice[n] = p[n] + p[n]
        /\ all[n] = own[n] + minus[n]
    OBVIOUS
  <2>8. k = "fund" => n \in O /\ k \notin HaveKinds
    BY <2>6 DEF HaveKinds, MoneyKinds, Nominal, EquityKinds
  <2>9. /\ k \in HaveKinds => Place(bk, n, b) = (IF b >= 0 THEN "have" ELSE "give")
        /\ k \notin HaveKinds /\ k \in {"party", "link"} => Place(bk, n, b) = (IF b > 0 THEN "get" ELSE "give")
        /\ k \notin HaveKinds /\ k = "fund" => Place(bk, n, b) = "fund"
        /\ k \notin HaveKinds /\ k \notin {"party", "link", "fund"} => Place(bk, n, b) = (IF b <= 0 THEN "give" ELSE "have")
    <3>1. HaveKinds \cap {"party", "link", "fund"} = {}
      BY DEF HaveKinds, MoneyKinds
    <3> QED BY <3>1 DEF Place
  <2> HIDE DEF b, k, N, F, B, O, have, get, give, fund, p, own, plus, minus, twice, all
  <2>10. n \in O /\ b # 0 => Place(bk, n, b) \in {"have", "get", "give", "fund"}
    BY <2>9
  <2>11. p[n] \in Int /\ own[n] \in Int
    BY <2>1, <2>7 DEF Pos
  <2>12. own[n] + give[n] + fund[n] = have[n] + get[n] + p[n] + p[n]
    <3>1. CASE n \notin O \/ b = 0
      <4>1. \A g : n \notin Group(bk, g, d)
        BY <2>6, <3>1
      <4>2. have[n] = 0 /\ get[n] = 0 /\ give[n] = 0 /\ fund[n] = 0
        BY <2>2, <2>3, <2>4, <2>5, <4>1
      <4>3. own[n] = 0 /\ p[n] = 0
        <5>1. Pos(0) = 0
          BY DEF Pos
        <5>2. n \in F => n \in O
          BY <2>6, <2>8
        <5> QED BY <2>1, <2>7, <3>1, <5>1, <5>2
      <4> QED BY <4>2, <4>3
    <3>2. CASE n \in O /\ b # 0 /\ k = "fund"
      <4>1. Place(bk, n, b) = "fund"
        BY <2>8, <2>9, <3>2
      <4>2. fund[n] = Abs(b) /\ have[n] = 0 /\ get[n] = 0 /\ give[n] = 0 /\ p[n] = Pos(b) /\ own[n] = b
        BY <2>1, <2>2, <2>3, <2>4, <2>5, <2>6, <2>7, <3>2, <4>1
      <4> QED BY <2>1, <4>2 DEF Pos, Abs
    <3>3. CASE n \in O /\ b # 0 /\ k # "fund"
      <4>1. p[n] = 0 /\ own[n] = b
        BY <2>1, <2>6, <2>7, <3>3
      <4>2. (Place(bk, n, b) \in {"have", "get"} /\ b > 0) \/ (Place(bk, n, b) = "give" /\ b < 0)
        BY <2>1, <2>9, <3>3
      <4>3. /\ have[n] = (IF Place(bk, n, b) = "have" THEN Abs(b) ELSE 0)
            /\ get[n] = (IF Place(bk, n, b) = "get" THEN Abs(b) ELSE 0)
            /\ give[n] = (IF Place(bk, n, b) = "give" THEN Abs(b) ELSE 0)
            /\ fund[n] = (IF Place(bk, n, b) = "fund" THEN Abs(b) ELSE 0)
        BY <2>2, <2>3, <2>4, <2>5, <2>6, <3>3
      <4> QED BY <2>1, <4>1, <4>2, <4>3 DEF Abs
    <3> QED BY <3>1, <3>2, <3>3
  <2> QED BY <2>1, <2>2, <2>3, <2>4, <2>5, <2>7, <2>11, <2>12
<1>5. Overspent(bk, d) = Sum(ps, F)
  BY DEF Overspent, SumOn, SumFunction, Sum
<1>6. \A n \in F : ps[n] = p[n]
  <2>1. \A n \in F : n \in Names(bk)
    BY <1>1
  <2> QED BY <2>1, BalancesAre
<1>7. (\A n \in N \ F : p[n] = 0) /\ (\A n \in N \ O : own[n] = 0) /\ \A n \in O : own[n] = B[n]
  BY <1>1
<1>8. OwnNow(bk, d) = Sum(B, O)
  BY OwnNowIsOthers
<1> HIDE DEF N, F, B, O, have, get, give, fund, ps, p, own, plus, minus, twice, all
<1>9. Sum(ps, F) = Sum(p, F)
  BY <1>1, <1>4, <1>6, SumSame
<1>10. Sum(p, N) = Sum(p, F) /\ Sum(own, N) = Sum(own, O)
  BY <1>1, <1>4, <1>7, SumSupport
<1>11. Sum(own, O) = Sum(B, O)
  BY <1>1, <1>4, <1>7, SumSame
<1>12. Sum(plus, N) = Sum(have, N) + Sum(get, N) /\ Sum(minus, N) = Sum(give, N) + Sum(fund, N)
  BY <1>1, <1>4, SumPlus
<1>13. Sum(twice, N) = Sum(p, N) + Sum(p, N)
  BY <1>1, <1>4, SumPlus
<1>14. Sum(all, N) = Sum(own, N) + Sum(minus, N)
  BY <1>1, <1>4, SumPlus
<1>15. Sum(all, N) = Sum(plus, N) + Sum(twice, N)
  BY <1>1, <1>4, SumPlus
<1>16. Sum(p, N) \in Int /\ Sum(own, N) \in Int
  BY <1>1, <1>4, SumInt
<1> QED BY <1>2, <1>3, <1>5, <1>8, <1>9, <1>10, <1>11, <1>12, <1>13, <1>14, <1>15, <1>16

-----------------------------------------------------------------------------
(* Receipts and payments *)

\* The amounts of the lines of L that are in K, line by line.
Amounts(L, K) == [k \in DOMAIN L |-> IF k \in K THEN L[k].a ELSE 0]
MoneyLines(bk, L) == {k \in DOMAIN L : IsMoney(bk, L[k].n)}
RpLines(bk, v) == {k \in DOMAIN v.lines : RpLine(bk, v, v.lines[k])}
KeptLines(bk, v) == {k \in DOMAIN v.lines : v.vtype = "Contra" /\ ~IsMoney(bk, v.lines[k].n)}

LEMMA AmountsAre ==
    ASSUME NEW L \in Seq(Line), NEW K
    PROVE  /\ Sum(Amounts(L, K), DOMAIN L) \in Int
           /\ \A k \in DOMAIN L : Amounts(L, K)[k] = (IF k \in K THEN L[k].a ELSE 0) /\ Amounts(L, K)[k] \in Int
<1>1. \A k \in DOMAIN L : Amounts(L, K)[k] = (IF k \in K THEN L[k].a ELSE 0) /\ Amounts(L, K)[k] \in Int
  <2>1. \A k \in DOMAIN L : L[k].a \in Int
    BY LinesAre
  <2> QED BY <2>1 DEF Amounts
<1> QED BY <1>1, LinesAre, SumInt

\* Two parts of the lines that between them are all of them.
LEMMA AmountsSplit ==
    ASSUME NEW L \in Seq(Line), NEW J, NEW K, \A k \in DOMAIN L : k \in J <=> k \notin K
    PROVE  SumLines(L) = Sum(Amounts(L, J), DOMAIN L) + Sum(Amounts(L, K), DOMAIN L)
<1> DEFINE f == [k \in DOMAIN L |-> L[k].a]
<1>1. SumLines(L) = Sum(f, DOMAIN L) /\ IsFiniteSet(DOMAIN L) /\ \A k \in DOMAIN L : f[k] = L[k].a /\ f[k] \in Int
  BY LinesAre
<1> HIDE DEF f
<1>2. \A k \in DOMAIN L : Amounts(L, J)[k] \in Int /\ Amounts(L, K)[k] \in Int /\ f[k] = Amounts(L, J)[k] + Amounts(L, K)[k]
  BY <1>1, AmountsAre
<1> QED BY <1>1, <1>2, SumPlus

\* Every entry: what it puts on the money, and on the receipts and payments, and
\* keeps in a deposit, is nil.
LEMMA EntryMeets ==
    ASSUME NEW bk, NEW v, v.lines \in Seq(Line), EntryOk(bk, v)
    PROVE  Sum(Amounts(v.lines, MoneyLines(bk, v.lines)), DOMAIN v.lines) + Sum(Amounts(v.lines, RpLines(bk, v)), DOMAIN v.lines)
             + Sum(Amounts(v.lines, KeptLines(bk, v)), DOMAIN v.lines) = 0
<1> DEFINE L == v.lines
           D == DOMAIN L
           M == MoneyLines(bk, L)
           R == RpLines(bk, v)
           K == KeptLines(bk, v)
<1>1. SumLines(L) = 0 /\ \A k \in D : L[k].a # 0 /\ L[k].a \in Int
  <2>1. SumLines(L) = 0 /\ \A ln \in ToSet(L) : ln.a # 0
    BY DEF EntryOk
  <2>2. \A k \in D : L[k] \in ToSet(L) /\ L[k].a \in Int
    BY LinesAre DEF ToSet
  <2> QED BY <2>1, <2>2
<1>2. IsFiniteSet(D) /\ Sum(Amounts(L, M), D) \in Int /\ Sum(Amounts(L, R), D) \in Int /\ Sum(Amounts(L, K), D) \in Int
  <2>1. IsFiniteSet(D)
    BY LinesAre
  <2> QED BY <2>1, AmountsAre
<1>3. ASSUME NEW Q, \A k \in D : k \notin Q PROVE Sum(Amounts(L, Q), D) = 0
  BY <1>2, <1>3, AmountsAre, SumZero
<1>4. CASE v.vtype = "Contra"
  <2>1. \A k \in D : k \notin R /\ (k \in M <=> k \notin K)
    BY <1>4 DEF RpLines, MoneyLines, KeptLines, RpLine
  <2>2. Sum(Amounts(L, R), D) = 0
    BY <1>3, <2>1
  <2>3. SumLines(L) = Sum(Amounts(L, M), D) + Sum(Amounts(L, K), D)
    BY <2>1, AmountsSplit
  <2> QED BY <1>1, <1>2, <2>2, <2>3
<1>5. v.vtype # "Contra" => Sum(Amounts(L, K), D) = 0
  <2>1. v.vtype # "Contra" => \A k \in D : k \notin K
    BY DEF KeptLines
  <2> QED BY <1>3, <2>1
<1>6. CASE v.vtype # "Contra" /\ v.vtype \in JournalTypes
  <2>1. \A k \in D : k \notin R /\ k \notin M
    <3>1. ~\E ln \in ToSet(L) : IsMoney(bk, ln.n)
      BY <1>6 DEF EntryOk
    <3>2. \A k \in D : L[k] \in ToSet(L)
      BY DEF ToSet
    <3>3. \A ln : ~RpLine(bk, v, ln)
      BY <1>6 DEF RpLine, JournalTypes
    <3> HIDE DEF L
    <3> QED BY <3>1, <3>2, <3>3 DEF RpLines, MoneyLines, L
  <2>2. Sum(Amounts(L, R), D) = 0 /\ Sum(Amounts(L, M), D) = 0
    BY <1>3, <2>1
  <2> QED BY <1>5, <1>6, <2>2
<1>7. CASE v.vtype # "Contra" /\ v.vtype \notin JournalTypes /\ v.vtype # "Payment (from a fund)"
  <2>1. \A k \in D : k \in M <=> k \notin R
    BY <1>7 DEF RpLines, MoneyLines, RpLine
  <2>2. SumLines(L) = Sum(Amounts(L, M), D) + Sum(Amounts(L, R), D)
    BY <2>1, AmountsSplit
  <2>3. Sum(Amounts(L, K), D) = 0
    BY <1>5, <1>7
  <2> QED BY <1>1, <1>2, <2>2, <2>3
<1>8. CASE v.vtype = "Payment (from a fund)"
  <2> DEFINE F == {k \in D : L[k].a > 0 /\ Kind(bk, L[k].n) = "fund"}
             B == {k \in D : L[k].a < 0 /\ Kind(bk, L[k].n) = "income"}
             P == {k \in D : L[k].a < 0 /\ IsMoney(bk, L[k].n)}
             f == [k \in D |-> L[k].a]
             x == [k \in D |-> Amounts(L, F)[k] + Amounts(L, B)[k]]
             y == [k \in D |-> Amounts(L, M)[k] + Amounts(L, R)[k]]
  <2>1. FundPaymentOk(bk, v)
    BY <1>8 DEF EntryOk
  <2>2. /\ Sum([k \in D |-> IF L[k].a > 0 /\ Kind(bk, L[k].n) = "fund" THEN L[k].a ELSE 0], D)
             = -Sum([k \in D |-> IF L[k].a < 0 /\ Kind(bk, L[k].n) = "income" THEN L[k].a ELSE 0], D)
    BY <2>1 DEF FundPaymentOk, SumOf, SumFunction, Sum
  <2>3. ASSUME NEW k \in D
        PROVE  /\ L[k].a > 0 => Kind(bk, L[k].n) \in {"fund", "expense", "fixed"}
               /\ L[k].a < 0 => IsMoney(bk, L[k].n) \/ Kind(bk, L[k].n) = "income"
    BY <2>1 DEF FundPaymentOk, ToSet
  <2>4. Sum(Amounts(L, F), D) = -Sum(Amounts(L, B), D)
    <3>1. Amounts(L, F) = [k \in D |-> IF L[k].a > 0 /\ Kind(bk, L[k].n) = "fund" THEN L[k].a ELSE 0]
      BY DEF Amounts
    <3>2. Amounts(L, B) = [k \in D |-> IF L[k].a < 0 /\ Kind(bk, L[k].n) = "income" THEN L[k].a ELSE 0]
      BY DEF Amounts
    <3> HIDE DEF L, D, F, B
    <3> QED BY <2>2, <3>1, <3>2
  <2>5. ASSUME NEW k \in D
        PROVE  f[k] = x[k] + y[k] /\ x[k] \in Int /\ y[k] \in Int
               /\ x[k] = Amounts(L, F)[k] + Amounts(L, B)[k] /\ y[k] = Amounts(L, M)[k] + Amounts(L, R)[k]
    <3> DEFINE kind == Kind(bk, L[k].n)
               a == L[k].a
    <3>1. k \in R <=> a > 0 /\ kind \in {"expense", "fixed"}
      BY <1>8 DEF RpLines, RpLine, JournalTypes
    <3>2. k \in M <=> kind \in MoneyKinds
      BY DEF MoneyLines, IsMoney
    <3>3. /\ k \in F <=> a > 0 /\ kind = "fund"
          /\ k \in B <=> a < 0 /\ kind = "income"
      OBVIOUS
    <3>4. a > 0 => kind \in {"fund", "expense", "fixed"}
      BY <2>3
    <3>5. a < 0 => kind \in MoneyKinds \/ kind = "income"
      BY <2>3 DEF IsMoney
    <3>6. a \in Int /\ a # 0 /\ f[k] = a
      BY <1>1
    <3>7. {"fund", "expense", "fixed", "income"} \cap MoneyKinds = {}
      BY DEF MoneyKinds
    <3>8. /\ Amounts(L, F)[k] = (IF k \in F THEN a ELSE 0) /\ Amounts(L, B)[k] = (IF k \in B THEN a ELSE 0)
          /\ Amounts(L, M)[k] = (IF k \in M THEN a ELSE 0) /\ Amounts(L, R)[k] = (IF k \in R THEN a ELSE 0)
      BY AmountsAre
    <3>9. x[k] = Amounts(L, F)[k] + Amounts(L, B)[k] /\ y[k] = Amounts(L, M)[k] + Amounts(L, R)[k]
      OBVIOUS
    <3> HIDE DEF kind, a, F, B, M, R, f, x, y, L, D
    <3>10. CASE a > 0
      <4>1. k \notin B /\ k \notin M
        BY <3>2, <3>3, <3>4, <3>6, <3>7, <3>10
      <4>2. k \in F <=> k \notin R
        BY <3>1, <3>3, <3>4, <3>10
      <4> QED BY <3>6, <3>8, <3>9, <4>1, <4>2
    <3>11. CASE a < 0
      <4>1. k \notin F /\ k \notin R
        BY <3>1, <3>3, <3>6, <3>11
      <4>2. k \in B <=> k \notin M
        BY <3>2, <3>3, <3>5, <3>7, <3>11
      <4> QED BY <3>6, <3>8, <3>9, <4>1, <4>2
    <3> QED BY <3>6, <3>10, <3>11
  <2>6. \A k \in D : /\ Amounts(L, F)[k] \in Int /\ Amounts(L, B)[k] \in Int
                     /\ Amounts(L, M)[k] \in Int /\ Amounts(L, R)[k] \in Int
    BY AmountsAre
  <2>7. SumLines(L) = Sum(f, D)
    BY LinesAre
  <2>8. Sum(Amounts(L, F), D) \in Int /\ Sum(Amounts(L, B), D) \in Int
    BY AmountsAre
  <2> HIDE DEF F, B, f, x, y, D, L
  <2>9. Sum(f, D) = Sum(x, D) + Sum(y, D)
    BY <1>2, <2>5, SumPlus
  <2>10. Sum(x, D) = Sum(Amounts(L, F), D) + Sum(Amounts(L, B), D)
    BY <1>2, <2>5, <2>6, SumPlus
  <2>11. Sum(y, D) = Sum(Amounts(L, M), D) + Sum(Amounts(L, R), D)
    BY <1>2, <2>5, <2>6, SumPlus
  <2>12. v.vtype # "Contra"
    BY <1>8
  <2> QED BY <1>1, <1>2, <1>5, <2>4, <2>7, <2>8, <2>9, <2>10, <2>11, <2>12 DEF L, D
<1> QED BY <1>4, <1>6, <1>7, <1>8

\* The lines of L of one set, account by account: they add up to what they are.
LEMMA AmountsSpread ==
    ASSUME NEW L \in Seq(Line), NEW K, NEW R, IsFiniteSet(R), \A k \in DOMAIN L : L[k].n \in R,
           NEW part, NEW b,
           \A n \in R : b[n] = Sum(part[n], DOMAIN L)
                        /\ \A k \in DOMAIN L : part[n][k] = IF L[k].n = n THEN Amounts(L, K)[k] ELSE 0
    PROVE  Sum(b, R) = Sum(Amounts(L, K), DOMAIN L)
<1> DEFINE key == [k \in DOMAIN L |-> L[k].n]
<1>1. IsFiniteSet(DOMAIN L) /\ \A k \in DOMAIN L : key[k] = L[k].n
  BY LinesAre
<1>2. \A k \in DOMAIN L : Amounts(L, K)[k] \in Int
  BY AmountsAre
<1> HIDE DEF key
<1>3. Keyed(DOMAIN L, R, key, Amounts(L, K), part, b)
  BY <1>1, <1>2 DEF Keyed
<1> QED BY <1>1, <1>3, SumByKey

\* What entry i puts on the money accounts.
LEMMA MoneySpread ==
    ASSUME NEW bk, NEW L \in Seq(Line), IsFiniteSet(Names(bk)), \A k \in DOMAIN L : L[k].n \in Names(bk),
           NEW b, \A n \in Names(bk) : b[n] = IF IsMoney(bk, n) THEN On(L, n) ELSE 0
    PROVE  Sum(b, Names(bk)) = Sum(Amounts(L, MoneyLines(bk, L)), DOMAIN L)
<1> DEFINE N == Names(bk)
           M == MoneyLines(bk, L)
           part == [n \in N |-> [k \in DOMAIN L |-> IF L[k].n = n THEN Amounts(L, M)[k] ELSE 0]]
<1>1. \A n \in N : \A k \in DOMAIN L : part[n][k] = IF L[k].n = n THEN Amounts(L, M)[k] ELSE 0
  OBVIOUS
<1>2. \A k \in DOMAIN L : (k \in M <=> IsMoney(bk, L[k].n)) /\ Amounts(L, M)[k] = (IF k \in M THEN L[k].a ELSE 0)
  BY AmountsAre DEF MoneyLines
<1>3. IsFiniteSet(DOMAIN L) /\ \A k \in DOMAIN L : L[k].a \in Int
  BY LinesAre
<1> HIDE DEF N, M, part
<1>4. ASSUME NEW n \in N PROVE b[n] = Sum(part[n], DOMAIN L)
  <2>1. b[n] = IF IsMoney(bk, n) THEN On(L, n) ELSE 0
    BY DEF N
  <2>2. CASE IsMoney(bk, n)
    <3>1. \A k \in DOMAIN L : OnLine(L, n)[k] \in Int /\ part[n][k] = OnLine(L, n)[k]
      <4>1. \A k \in DOMAIN L : OnLine(L, n)[k] \in Int /\ OnLine(L, n)[k] = (IF L[k].n = n THEN L[k].a ELSE 0)
        BY OnIs
      <4> QED BY <1>1, <1>2, <2>2, <4>1
    <3>2. On(L, n) = Sum(OnLine(L, n), DOMAIN L)
      BY OnIs
    <3>3. Sum(part[n], DOMAIN L) = Sum(OnLine(L, n), DOMAIN L)
      BY <1>3, <3>1, SumSame
    <3> QED BY <2>1, <2>2, <3>2, <3>3
  <2>3. CASE ~IsMoney(bk, n)
    <3>1. \A k \in DOMAIN L : part[n][k] = 0
      BY <1>1, <1>2, <2>3
    <3> QED BY <1>3, <2>1, <2>3, <3>1, SumZero
  <2> QED BY <2>2, <2>3
<1> QED BY <1>1, <1>4, AmountsSpread DEF N, M

\* What entry i puts on n in the Receipts & Payments, less the other side.
RpOnLines(bk, v, n) ==
    [k \in DOMAIN v.lines |-> IF v.lines[k].n = n THEN Amounts(v.lines, RpLines(bk, v))[k] ELSE 0]
RpNet(bk, n) == [i \in DOMAIN bk.vouchers |-> Sum(RpOnLines(bk, bk.vouchers[i], n), DOMAIN bk.vouchers[i].lines)]

LEMMA RpNetIs ==
    ASSUME NEW bk, Base(bk), NEW n
    PROVE  /\ RpOn(bk, n, Pos) = RpOn(bk, n, Neg) + Sum(RpNet(bk, n), DOMAIN bk.vouchers)
           /\ RpOn(bk, n, Neg) \in Int /\ Sum(RpNet(bk, n), DOMAIN bk.vouchers) \in Int
           /\ \A i \in DOMAIN bk.vouchers : RpNet(bk, n)[i] \in Int
<1> DEFINE V == DOMAIN bk.vouchers
           dr == [i \in V |-> [k \in DOMAIN bk.vouchers[i].lines |->
                    IF bk.vouchers[i].lines[k].n = n /\ RpLine(bk, bk.vouchers[i], bk.vouchers[i].lines[k])
                    THEN Pos(bk.vouchers[i].lines[k].a) ELSE 0]]
           cr == [i \in V |-> [k \in DOMAIN bk.vouchers[i].lines |->
                    IF bk.vouchers[i].lines[k].n = n /\ RpLine(bk, bk.vouchers[i], bk.vouchers[i].lines[k])
                    THEN Neg(bk.vouchers[i].lines[k].a) ELSE 0]]
           sdr == [i \in V |-> Sum(dr[i], DOMAIN bk.vouchers[i].lines)]
           scr == [i \in V |-> Sum(cr[i], DOMAIN bk.vouchers[i].lines)]
           net == RpNet(bk, n)
<1>1. RpOn(bk, n, Pos) = Sum([i \in V |-> Sum([k \in DOMAIN bk.vouchers[i].lines |->
                    IF bk.vouchers[i].lines[k].n = n /\ RpLine(bk, bk.vouchers[i], bk.vouchers[i].lines[k])
                    THEN Pos(bk.vouchers[i].lines[k].a) ELSE 0], DOMAIN bk.vouchers[i].lines)], V)
  BY DEF RpOn, SumOf, SumFunction, Sum
<1>2. RpOn(bk, n, Neg) = Sum([i \in V |-> Sum([k \in DOMAIN bk.vouchers[i].lines |->
                    IF bk.vouchers[i].lines[k].n = n /\ RpLine(bk, bk.vouchers[i], bk.vouchers[i].lines[k])
                    THEN Neg(bk.vouchers[i].lines[k].a) ELSE 0], DOMAIN bk.vouchers[i].lines)], V)
  BY DEF RpOn, SumOf, SumFunction, Sum
<1>3. RpOn(bk, n, Pos) = Sum(sdr, V) /\ RpOn(bk, n, Neg) = Sum(scr, V)
  <2>1. sdr = [i \in V |-> Sum([k \in DOMAIN bk.vouchers[i].lines |->
                    IF bk.vouchers[i].lines[k].n = n /\ RpLine(bk, bk.vouchers[i], bk.vouchers[i].lines[k])
                    THEN Pos(bk.vouchers[i].lines[k].a) ELSE 0], DOMAIN bk.vouchers[i].lines)]
    BY Zenon
  <2>2. scr = [i \in V |-> Sum([k \in DOMAIN bk.vouchers[i].lines |->
                    IF bk.vouchers[i].lines[k].n = n /\ RpLine(bk, bk.vouchers[i], bk.vouchers[i].lines[k])
                    THEN Neg(bk.vouchers[i].lines[k].a) ELSE 0], DOMAIN bk.vouchers[i].lines)]
    BY Zenon
  <2> HIDE DEF sdr, scr
  <2> QED BY <1>1, <1>2, <2>1, <2>2
<1>4. ASSUME NEW i \in V
      PROVE  sdr[i] \in Int /\ scr[i] \in Int /\ net[i] \in Int /\ sdr[i] = scr[i] + net[i]
  <2> DEFINE v == bk.vouchers[i]
             L == v.lines
             D == DOMAIN L
             o == RpOnLines(bk, v, n)
             p == dr[i]
             c == cr[i]
  <2>1. L \in Seq(Line) /\ IsFiniteSet(D)
    BY VouchersAre, LinesAre
  <2>2. sdr[i] = Sum(p, D) /\ scr[i] = Sum(c, D) /\ net[i] = Sum(o, D)
    BY DEF RpNet
  <2>3. ASSUME NEW k \in D
        PROVE  p[k] \in Int /\ c[k] \in Int /\ o[k] \in Int /\ p[k] = c[k] + o[k]
    <3> DEFINE a == L[k].a
               in == L[k].n = n /\ RpLine(bk, v, L[k])
    <3>1. p[k] = (IF in THEN Pos(a) ELSE 0) /\ c[k] = (IF in THEN Neg(a) ELSE 0)
      OBVIOUS
    <3>2. o[k] = (IF L[k].n = n THEN Amounts(L, RpLines(bk, v))[k] ELSE 0)
      BY DEF RpOnLines
    <3>3. Amounts(L, RpLines(bk, v))[k] = (IF RpLine(bk, v, L[k]) THEN a ELSE 0)
      BY <2>1, AmountsAre DEF RpLines
    <3>4. a \in Int
      BY <2>1, LinesAre
    <3>5. o[k] = (IF in THEN a ELSE 0)
      BY <3>2, <3>3
    <3> HIDE DEF a, in, o, p, c, L, D, v
    <3> QED BY <3>1, <3>4, <3>5 DEF Pos, Neg
  <2> HIDE DEF o, p, c, D, L, sdr, scr, net
  <2>4. Sum(p, D) = Sum(c, D) + Sum(o, D)
    BY <2>1, <2>3, SumPlus
  <2>5. Sum(c, D) \in Int /\ Sum(o, D) \in Int
    BY <2>1, <2>3, SumInt
  <2> QED BY <2>2, <2>4, <2>5
<1>5. IsFiniteSet(V)
  BY VouchersAre
<1> HIDE DEF sdr, scr, V, net
<1>6. Sum(sdr, V) = Sum(scr, V) + Sum(net, V)
  BY <1>4, <1>5, SumPlus
<1>7. Sum(scr, V) \in Int /\ Sum(net, V) \in Int
  BY <1>4, <1>5, SumInt
<1> QED BY <1>3, <1>4, <1>6, <1>7 DEF V, net

\* All the entries together, on the money and on the Receipts & Payments.
LEMMA MoneyMoved ==
    ASSUME NEW bk, Base(bk), NEW m, NEW e,
           \A n \in Names(bk) : m[n] = IF IsMoney(bk, n) THEN Sum(Went(bk, n, FyEnd), DOMAIN bk.vouchers) ELSE 0,
           \A i \in DOMAIN bk.vouchers :
             e[i] = Sum(Amounts(bk.vouchers[i].lines, MoneyLines(bk, bk.vouchers[i].lines)), DOMAIN bk.vouchers[i].lines)
    PROVE  Sum(m, Names(bk)) = Sum(e, DOMAIN bk.vouchers)
<1> DEFINE V == DOMAIN bk.vouchers
           N == Names(bk)
           on(n, i) == IF IsMoney(bk, n) THEN On(bk.vouchers[i].lines, n) ELSE 0
           row == [n \in N |-> [i \in V |-> on(n, i)]]
           col == [i \in V |-> [n \in N |-> on(n, i)]]
<1>1. IsFiniteSet(V) /\ IsFiniteSet(N)
  BY NamesAre, VouchersAre DEF Base
<1>2. \A n \in N : \A i \in V : row[n][i] = on(n, i) /\ col[i][n] = on(n, i)
  OBVIOUS
<1>3. \A n \in N : \A i \in V : on(n, i) \in Int
  BY WentIs
<1>4. ASSUME NEW n \in N PROVE m[n] = Sum(row[n], V)
  <2>1. m[n] = IF IsMoney(bk, n) THEN Sum(Went(bk, n, FyEnd), V) ELSE 0
    OBVIOUS
  <2>2. CASE IsMoney(bk, n)
    <3>1. \A i \in V : Went(bk, n, FyEnd)[i] \in Int /\ Went(bk, n, FyEnd)[i] = On(bk.vouchers[i].lines, n)
      BY WentIs, VouchersAre
    <3>2. \A i \in V : row[n][i] = On(bk.vouchers[i].lines, n)
      BY <1>2, <2>2
    <3> HIDE DEF row, V
    <3> QED BY <1>1, <2>1, <2>2, <3>1, <3>2, SumSame
  <2>3. CASE ~IsMoney(bk, n)
    <3>1. \A i \in V : row[n][i] = 0
      BY <1>2, <2>3
    <3> HIDE DEF row, V
    <3> QED BY <1>1, <2>1, <2>3, <3>1, SumZero
  <2> QED BY <2>2, <2>3
<1>5. ASSUME NEW i \in V PROVE e[i] = Sum(col[i], N)
  <2> DEFINE L == bk.vouchers[i].lines
             b == col[i]
  <2>1. L \in Seq(Line) /\ \A k \in DOMAIN L : L[k].n \in N
    <3>1. L \in Seq(Line) /\ EntryOk(bk, bk.vouchers[i])
      BY VouchersAre
    <3>2. \A ln \in ToSet(L) : ln.n \in N
      BY <3>1 DEF EntryOk
    <3> QED BY <3>1, <3>2 DEF ToSet
  <2>2. \A n \in N : b[n] = IF IsMoney(bk, n) THEN On(L, n) ELSE 0
    BY <1>2
  <2>3. e[i] = Sum(Amounts(L, MoneyLines(bk, L)), DOMAIN L)
    OBVIOUS
  <2> HIDE DEF b, L
  <2>4. Sum(b, Names(bk)) = Sum(Amounts(L, MoneyLines(bk, L)), DOMAIN L)
    BY <1>1, <2>1, <2>2, MoneySpread
  <2> QED BY <2>3, <2>4 DEF b
<1>6. Crossed(N, V, row, col, m, e)
  <2> HIDE DEF row, col, N, V, on
  <2> QED BY <1>2, <1>3, <1>4, <1>5 DEF Crossed
<1> HIDE DEF row, col, N, V
<1>7. Sum(m, N) = Sum(e, V)
  BY <1>1, <1>6, SumSwap
<1> QED BY <1>7 DEF N, V

LEMMA RpMoved ==
    ASSUME NEW bk, Base(bk), NEW m, NEW e,
           \A n \in Names(bk) : m[n] = Sum(RpNet(bk, n), DOMAIN bk.vouchers),
           \A i \in DOMAIN bk.vouchers :
             e[i] = Sum(Amounts(bk.vouchers[i].lines, RpLines(bk, bk.vouchers[i])), DOMAIN bk.vouchers[i].lines)
    PROVE  Sum(m, Names(bk)) = Sum(e, DOMAIN bk.vouchers)
<1> DEFINE V == DOMAIN bk.vouchers
           N == Names(bk)
           row == [n \in N |-> RpNet(bk, n)]
           col == [i \in V |-> [n \in N |-> RpNet(bk, n)[i]]]
<1>1. IsFiniteSet(V) /\ IsFiniteSet(N)
  BY NamesAre, VouchersAre DEF Base
<1>2. \A n \in N : row[n] = RpNet(bk, n) /\ \A i \in V : row[n][i] \in Int /\ col[i][n] = row[n][i]
  BY RpNetIs
<1>3. ASSUME NEW i \in V PROVE e[i] = Sum(col[i], N)
  <2> DEFINE v == bk.vouchers[i]
             L == v.lines
             b == col[i]
             part == [n \in N |-> RpOnLines(bk, v, n)]
  <2>1. L \in Seq(Line) /\ \A k \in DOMAIN L : L[k].n \in N
    <3>1. L \in Seq(Line) /\ EntryOk(bk, bk.vouchers[i])
      BY VouchersAre
    <3>2. \A ln \in ToSet(L) : ln.n \in N
      BY <3>1 DEF EntryOk
    <3> QED BY <3>1, <3>2 DEF ToSet
  <2>2. ASSUME NEW n \in N
        PROVE  b[n] = Sum(part[n], DOMAIN L)
               /\ \A k \in DOMAIN L : part[n][k] = IF L[k].n = n THEN Amounts(L, RpLines(bk, v))[k] ELSE 0
    <3>1. b[n] = RpNet(bk, n)[i] /\ part[n] = RpOnLines(bk, v, n)
      OBVIOUS
    <3>2. RpNet(bk, n)[i] = Sum(RpOnLines(bk, v, n), DOMAIN L)
      BY DEF RpNet
    <3>3. \A k \in DOMAIN L : RpOnLines(bk, v, n)[k] = IF L[k].n = n THEN Amounts(L, RpLines(bk, v))[k] ELSE 0
      BY DEF RpOnLines
    <3> HIDE DEF b, part, L, v
    <3> QED BY <3>1, <3>2, <3>3
  <2>3. e[i] = Sum(Amounts(L, RpLines(bk, v)), DOMAIN L)
    OBVIOUS
  <2> HIDE DEF b, L, part, v
  <2>4. Sum(b, N) = Sum(Amounts(L, RpLines(bk, v)), DOMAIN L)
    BY <1>1, <2>1, <2>2, AmountsSpread
  <2> QED BY <2>3, <2>4 DEF b
<1>4. \A n \in N : m[n] = Sum(row[n], V)
  BY <1>2
<1>5. Crossed(N, V, row, col, m, e)
  <2> HIDE DEF row, col, N, V
  <2> QED BY <1>2, <1>3, <1>4 DEF Crossed
<1> HIDE DEF row, col, N, V
<1>6. Sum(m, N) = Sum(e, V)
  BY <1>1, <1>5, SumSwap
<1> QED BY <1>6 DEF N, V

LEMMA RpMeets ==
    ASSUME NEW bk, Base(bk)
    PROVE  RpTotals(bk)[1] - RpTotals(bk)[2] = KeptBack(bk)
<1> DEFINE V == DOMAIN bk.vouchers
           N == Names(bk)
           M == {n \in N : IsMoney(bk, n)}
           op == [n \in M |-> bk.acct[n].opening]
           cl == [n \in M |-> bk.closing[n]]
           w == [n \in N |-> IF IsMoney(bk, n) THEN Sum(Went(bk, n, FyEnd), V) ELSE 0]
           r == [n \in N |-> Sum(RpNet(bk, n), V)]
           on == [n \in N |-> RpOn(bk, n, Neg)]
           op2 == [n \in N |-> RpOn(bk, n, Pos)]
           em == [i \in V |-> Sum(Amounts(bk.vouchers[i].lines, MoneyLines(bk, bk.vouchers[i].lines)), DOMAIN bk.vouchers[i].lines)]
           er == [i \in V |-> Sum(Amounts(bk.vouchers[i].lines, RpLines(bk, bk.vouchers[i])), DOMAIN bk.vouchers[i].lines)]
           ek == [i \in V |-> Sum(Amounts(bk.vouchers[i].lines, KeptLines(bk, bk.vouchers[i])), DOMAIN bk.vouchers[i].lines)]
           both == [i \in V |-> em[i] + er[i]]
           kept == [i \in V |-> IF bk.vouchers[i].vtype = "Contra"
                                THEN Sum([k \in DOMAIN bk.vouchers[i].lines |-> IF IsMoney(bk, bk.vouchers[i].lines[k].n) THEN 0 ELSE bk.vouchers[i].lines[k].a],
                                         DOMAIN bk.vouchers[i].lines) ELSE 0]
<1>1. IsFiniteSet(V) /\ IsFiniteSet(N) /\ M \in SUBSET N /\ IsFiniteSet(M)
  BY NamesAre, VouchersAre, FS_Subset DEF Base
<1>2. RpTotals(bk) = <<Sum(op, M) + Sum(on, N), Sum(cl, M) + Sum(op2, N)>>
  BY DEF RpTotals, SumOn, SumFunction, Sum
<1>3. KeptBack(bk) = Sum(kept, V)
  BY DEF KeptBack, SumOf, SumFunction, Sum
<1>4. ASSUME NEW n \in M
      PROVE  op[n] \in Int /\ w[n] \in Int /\ cl[n] = op[n] + w[n]
  <2>1. n \in N /\ IsMoney(bk, n)
    OBVIOUS
  <2>2. bk.acct[n].opening \in Int
    BY <2>1, NamesAre DEF Base
  <2>3. bk.closing[n] = bk.acct[n].opening + Sum(Went(bk, n, FyEnd), V)
    BY <2>1, ClosingBalance DEF Bal
  <2>4. Sum(Went(bk, n, FyEnd), V) \in Int
    BY WentIs
  <2>5. op[n] = bk.acct[n].opening /\ cl[n] = bk.closing[n] /\ w[n] = Sum(Went(bk, n, FyEnd), V)
    BY <2>1
  <2> HIDE DEF op, cl, w
  <2> QED BY <2>2, <2>3, <2>4, <2>5
<1>5. ASSUME NEW n \in N
      PROVE  on[n] \in Int /\ r[n] \in Int /\ op2[n] = on[n] + r[n] /\ (n \notin M => w[n] = 0)
  <2>1. /\ RpOn(bk, n, Pos) = RpOn(bk, n, Neg) + Sum(RpNet(bk, n), V)
        /\ RpOn(bk, n, Neg) \in Int /\ Sum(RpNet(bk, n), V) \in Int
    BY RpNetIs
  <2>2. on[n] = RpOn(bk, n, Neg) /\ op2[n] = RpOn(bk, n, Pos) /\ r[n] = Sum(RpNet(bk, n), V)
    OBVIOUS
  <2>3. n \notin M => w[n] = 0
    OBVIOUS
  <2> HIDE DEF on, op2, r, w, M
  <2> QED BY <2>1, <2>2, <2>3
<1>6. ASSUME NEW i \in V
      PROVE  /\ em[i] \in Int /\ er[i] \in Int /\ ek[i] \in Int
             /\ both[i] = em[i] + er[i] /\ ek[i] = -both[i] /\ both[i] \in Int /\ kept[i] = ek[i]
  <2> DEFINE v == bk.vouchers[i]
             L == v.lines
             D == DOMAIN L
  <2>1. L \in Seq(Line) /\ EntryOk(bk, v)
    BY VouchersAre
  <2>2. /\ em[i] = Sum(Amounts(L, MoneyLines(bk, L)), D) /\ er[i] = Sum(Amounts(L, RpLines(bk, v)), D)
        /\ ek[i] = Sum(Amounts(L, KeptLines(bk, v)), D) /\ both[i] = em[i] + er[i]
    OBVIOUS
  <2>3. em[i] \in Int /\ er[i] \in Int /\ ek[i] \in Int
    BY <2>1, <2>2, AmountsAre
  <2>4. em[i] + er[i] + ek[i] = 0
    BY <2>1, <2>2, EntryMeets
  <2>5. kept[i] = ek[i]
    <3> DEFINE q == [k \in D |-> IF IsMoney(bk, L[k].n) THEN 0 ELSE L[k].a]
    <3>1. kept[i] = IF v.vtype = "Contra" THEN Sum(q, D) ELSE 0
      OBVIOUS
    <3>2. IsFiniteSet(D)
      BY <2>1, LinesAre
    <3>3. \A k \in D : Amounts(L, KeptLines(bk, v))[k] = (IF v.vtype = "Contra" /\ ~IsMoney(bk, L[k].n) THEN L[k].a ELSE 0)
      BY <2>1, AmountsAre DEF KeptLines
    <3>4. \A k \in D : q[k] = (IF IsMoney(bk, L[k].n) THEN 0 ELSE L[k].a) /\ L[k].a \in Int
      BY <2>1, LinesAre
    <3> HIDE DEF q, D, L, v, kept, ek
    <3>5. CASE v.vtype = "Contra"
      <4>1. \A k \in D : Amounts(L, KeptLines(bk, v))[k] \in Int /\ q[k] = Amounts(L, KeptLines(bk, v))[k]
        BY <3>3, <3>4, <3>5
      <4> QED BY <2>2, <3>1, <3>2, <3>5, <4>1, SumSame
    <3>6. CASE v.vtype # "Contra"
      <4>1. \A k \in D : Amounts(L, KeptLines(bk, v))[k] = 0
        BY <3>3, <3>6
      <4> QED BY <2>2, <3>1, <3>2, <3>6, <4>1, SumZero
    <3> QED BY <3>5, <3>6
  <2> HIDE DEF em, er, ek, both, kept
  <2> QED BY <2>2, <2>3, <2>4, <2>5
<1>7. Sum(w, N) = Sum(em, V)
  <2>1. \A n \in N : w[n] = IF IsMoney(bk, n) THEN Sum(Went(bk, n, FyEnd), V) ELSE 0
    OBVIOUS
  <2>2. \A i \in V : em[i] = Sum(Amounts(bk.vouchers[i].lines, MoneyLines(bk, bk.vouchers[i].lines)), DOMAIN bk.vouchers[i].lines)
    OBVIOUS
  <2> HIDE DEF w, em
  <2> QED BY <2>1, <2>2, MoneyMoved
<1>8. Sum(r, N) = Sum(er, V)
  <2>1. \A n \in N : r[n] = Sum(RpNet(bk, n), V)
    OBVIOUS
  <2>2. \A i \in V : er[i] = Sum(Amounts(bk.vouchers[i].lines, RpLines(bk, bk.vouchers[i])), DOMAIN bk.vouchers[i].lines)
    OBVIOUS
  <2> HIDE DEF r, er
  <2> QED BY <2>1, <2>2, RpMoved
<1> HIDE DEF V, N, M, op, cl, w, r, on, op2, em, er, ek, both, kept
<1>9. Sum(cl, M) = Sum(op, M) + Sum(w, M) /\ Sum(op2, N) = Sum(on, N) + Sum(r, N)
  BY <1>1, <1>4, <1>5, SumPlus
<1>10. Sum(w, N) = Sum(w, M)
  BY <1>1, <1>4, <1>5, SumSupport
<1>11. Sum(both, V) = Sum(em, V) + Sum(er, V)
  BY <1>1, <1>6, SumPlus
<1>12. Sum(ek, V) = -Sum(both, V)
  BY <1>1, <1>6, SumMinus
<1>13. Sum(kept, V) = Sum(ek, V)
  BY <1>1, <1>6, SumSame
<1>14. /\ Sum(op, M) \in Int /\ Sum(w, M) \in Int /\ Sum(on, N) \in Int /\ Sum(r, N) \in Int
       /\ Sum(both, V) \in Int
  BY <1>1, <1>4, <1>5, <1>6, SumInt
<1>15. RpTotals(bk)[1] - RpTotals(bk)[2] = Sum(kept, V)
  <2>1. RpTotals(bk)[1] = Sum(op, M) + Sum(on, N) /\ RpTotals(bk)[2] = Sum(cl, M) + Sum(op2, N)
    BY <1>2
  <2>2. Sum(kept, V) = -(Sum(w, M) + Sum(r, N))
    BY <1>7, <1>8, <1>10, <1>11, <1>12, <1>13, <1>14
  <2> QED BY <2>1, <2>2, <1>9, <1>14
<1> QED BY <1>3, <1>15, Zenon
=============================================================================
