--------------------------- MODULE OperatorProofs ---------------------------
(***************************************************************************)
(* What the proofs need of the operators their modules share: of numbers,  *)
(* of Sum, and of the operations of a store.  Sum is a fold, that is a     *)
(* recursive function; induction takes the form of a set here: of numbers  *)
(* in Induct, of subsets of a finite set in SetInduct.                     *)
(***************************************************************************)
EXTENDS Sums, Keystore, Integers, FiniteSetTheorems, WellFoundedInduction, TLAPS

\* A set that has 0 and the successor of each of its numbers has them all: the
\* least number that it had not would have a predecessor.
LEMMA Induct ==
  ASSUME NEW S, 0 \in S, \A n \in Nat : n \in S => n + 1 \in S
  PROVE  Nat \subseteq S
<1> DEFINE R == {ss \in Nat \X Nat : ss[1] < ss[2]}
<1>1. SUFFICES ASSUME Nat \ S # {} PROVE FALSE
  OBVIOUS
<1>2. IsWellFoundedOn(R, Nat)
  BY NatLessThanWellFounded DEF OpToRel
<1> HIDE DEF R
<1>3. PICK x \in Nat \ S : \A y \in Nat \ S : <<y, x>> \notin R
  BY <1>1, <1>2, WFMin
<1>4. x # 0 /\ x - 1 \in Nat
  BY <1>3
<1>5. <<x - 1, x>> \in R
  BY <1>4 DEF R
<1> QED
  BY <1>3, <1>4, <1>5

\* A family that has the empty set, and a set when it has all that lack one
\* member of it, has every subset of a finite set.
LEMMA SetInduct ==
  ASSUME NEW S, IsFiniteSet(S), NEW F, {} \in F,
         \A T \in SUBSET S : T # {} /\ (\A x \in T : T \ {x} \in F) => T \in F
  PROVE  \A T \in SUBSET S : T \in F
<1> DEFINE N == {n \in Nat : \A T \in SUBSET S : Cardinality(T) = n => T \in F}
<1>1. \A T \in SUBSET S : IsFiniteSet(T) /\ Cardinality(T) \in Nat
  BY FS_Subset, FS_CardinalityType
<1>2. 0 \in N
  BY <1>1, FS_EmptySet
<1>3. ASSUME NEW n \in Nat, n \in N PROVE n + 1 \in N
  <2> SUFFICES ASSUME NEW T \in SUBSET S, Cardinality(T) = n + 1 PROVE T \in F
    OBVIOUS
  <2>1. T # {}
    <3>1. Cardinality({}) = 0
      BY FS_EmptySet
    <3> QED
      BY <3>1
  <2>2. ASSUME NEW x \in T PROVE T \ {x} \in F
    <3>1. Cardinality(T \ {x}) = n
      BY <1>1, FS_RemoveElement
    <3> QED
      BY <3>1, <1>3
  <2> QED
    BY <2>1, <2>2
<1> HIDE DEF N
<1>4. Nat \subseteq N
  BY <1>2, <1>3, Induct
<1> QED
  BY <1>1, <1>4 DEF N

chosen(s) == CHOOSE x \in s : TRUE

Next1(g, f, s) == IF s = {} THEN 0 ELSE f[chosen(s)] + g[s \ {chosen(s)}]

Iter(g, f, S) == g = [s \in SUBSET S |-> Next1(g, f, s)]

\* The member a fold takes first is one of the set.
LEMMA ChosenIn == ASSUME NEW s, s # {} PROVE chosen(s) \in s
BY DEF chosen

\* A sum is the value at S of the function the fold is defined by.
LEMMA SumIsIter == ASSUME NEW f, NEW S
  PROVE Sum(f, S) = (CHOOSE g : Iter(g, f, S))[S]
BY DEF Sum, MapThenSumSet, MapThenFoldSet, Iter, Next1, chosen

\* That function exists on the subsets of a finite set: built up by size.
LEMMA IterExists ==
  ASSUME NEW f, NEW S, IsFiniteSet(S)
  PROVE  \E g : Iter(g, f, S)
<1> DEFINE G(n) == {s \in SUBSET S : Cardinality(s) <= n}
           Part(g, n) == g = [s \in G(n) |-> Next1(g, f, s)]
           N == {n \in Nat : \E g : Part(g, n)}
<1>1. \A s \in SUBSET S : IsFiniteSet(s) /\ Cardinality(s) \in Nat
  BY FS_Subset, FS_CardinalityType
<1>2. 0 \in N
  <2> DEFINE g == [s \in G(0) |-> 0]
  <2>1. \A s \in G(0) : s = {}
    BY <1>1, FS_EmptySet
  <2>2. Part(g, 0)
    BY <2>1 DEF Next1
  <2> QED
    BY <2>2
<1>3. ASSUME NEW n \in Nat, n \in N PROVE n + 1 \in N
  <2>1. PICK g : Part(g, n)
    BY <1>3
  <2> DEFINE h == [s \in G(n + 1) |-> Next1(g, f, s)]
  <2>2. \A s \in G(n) : s \in G(n + 1) /\ g[s] = Next1(g, f, s) /\ h[s] = g[s]
    BY <2>1, <1>1
  <2>3. ASSUME NEW s \in G(n + 1), s # {} PROVE s \ {chosen(s)} \in G(n)
    BY <2>3, <1>1, ChosenIn, FS_RemoveElement
  <2>4. ASSUME NEW s \in G(n + 1) PROVE Next1(g, f, s) = Next1(h, f, s)
    BY <2>2, <2>3 DEF Next1
  <2>5. Part(h, n + 1)
    BY <2>4
  <2> HIDE DEF h, Part
  <2>6. \E x : Part(x, n + 1)
    BY <2>5
  <2> QED
    BY <2>6
<1> HIDE DEF N
<1>4. Cardinality(S) \in N
  BY <1>1, <1>2, <1>3, Induct
<1>5. PICK g : Part(g, Cardinality(S))
  BY <1>4 DEF N
<1>6. G(Cardinality(S)) = SUBSET S
  BY <1>1, FS_Subset
<1> QED
  BY <1>5, <1>6 DEF Iter

\* Its value at each subset.
LEMMA IterValue ==
  ASSUME NEW f, NEW S, NEW g, Iter(g, f, S), NEW s \in SUBSET S
  PROVE  g[s] = Next1(g, f, s)
BY DEF Iter

\* The functions of a set and of a subset agree on what both are defined on.
LEMMA IterAgree ==
  ASSUME NEW f, NEW S, IsFiniteSet(S), NEW T \in SUBSET S,
         NEW g, NEW h, Iter(g, f, S), Iter(h, f, T)
  PROVE  \A s \in SUBSET T : g[s] = h[s]
<1> DEFINE F == {s \in SUBSET T : g[s] = h[s]}
<1>1. {} \in F
  BY IterValue DEF Next1
<1>2. ASSUME NEW s \in SUBSET T, s # {}, \A x \in s : s \ {x} \in F
      PROVE  s \in F
  <2>1. g[s] = Next1(g, f, s) /\ h[s] = Next1(h, f, s)
    BY IterValue
  <2>2. chosen(s) \in s
    BY <1>2, ChosenIn
  <2> QED
    BY <2>1, <2>2, <1>2 DEF Next1
<1>3. IsFiniteSet(T)
  BY FS_Subset
<1> HIDE DEF F
<1>4. \A s \in SUBSET T : s \in F
  BY <1>1, <1>2, <1>3, SetInduct
<1> QED
  BY <1>4 DEF F

(***************************************************************************)
(* The sum of nothing, and one member after the other.                     *)
(***************************************************************************)
\* The sum over no members.
LEMMA SumEmpty == ASSUME NEW f PROVE Sum(f, {}) = 0
<1>1. Iter(CHOOSE g : Iter(g, f, {}), f, {})
  BY IterExists, FS_EmptySet
<1> QED
  BY <1>1, SumIsIter, IterValue DEF Next1

\* The first step of the fold.
LEMMA SumChosen ==
  ASSUME NEW f, NEW S, IsFiniteSet(S), S # {}
  PROVE  Sum(f, S) = f[chosen(S)] + Sum(f, S \ {chosen(S)})
<1> DEFINE T == S \ {chosen(S)}
           g == CHOOSE x : Iter(x, f, S)
           h == CHOOSE x : Iter(x, f, T)
<1>1. IsFiniteSet(T) /\ T \in SUBSET S
  BY FS_Subset
<1>2. Iter(g, f, S) /\ Iter(h, f, T)
  BY <1>1, IterExists
<1>3. Sum(f, S) = g[S] /\ Sum(f, T) = h[T]
  BY SumIsIter
<1> HIDE DEF g, h
<1>4. g[S] = Next1(g, f, S)
  BY <1>2, IterValue
<1>5. g[T] = h[T]
  BY <1>1, <1>2, IterAgree
<1> QED
  BY <1>3, <1>4, <1>5 DEF Next1

\* A sum of integers is an integer.
LEMMA SumType ==
  ASSUME NEW f, NEW S, IsFiniteSet(S), \A x \in S : f[x] \in Int
  PROVE  Sum(f, S) \in Int
<1> DEFINE F == {T \in SUBSET S : Sum(f, T) \in Int}
<1>1. {} \in F
  BY SumEmpty
<1>2. ASSUME NEW T \in SUBSET S, T # {}, \A x \in T : T \ {x} \in F
      PROVE  T \in F
  <2>1. chosen(T) \in T /\ f[chosen(T)] \in Int
    BY <1>2, ChosenIn
  <2>2. Sum(f, T) = f[chosen(T)] + Sum(f, T \ {chosen(T)})
    BY <1>2, SumChosen, FS_Subset
  <2> QED
    BY <2>1, <2>2, <1>2
<1> HIDE DEF F
<1>3. \A T \in SUBSET S : T \in F
  BY <1>1, <1>2, SetInduct
<1> QED
  BY <1>3 DEF F

\* A sum of natural numbers is one.
LEMMA SumNat ==
  ASSUME NEW f, NEW S, IsFiniteSet(S), \A x \in S : f[x] \in Nat
  PROVE  Sum(f, S) \in Nat
<1> DEFINE F == {T \in SUBSET S : Sum(f, T) \in Nat}
<1>1. {} \in F
  BY SumEmpty
<1>2. ASSUME NEW T \in SUBSET S, T # {}, \A x \in T : T \ {x} \in F
      PROVE  T \in F
  <2>1. chosen(T) \in T /\ f[chosen(T)] \in Nat
    BY <1>2, ChosenIn
  <2>2. Sum(f, T) = f[chosen(T)] + Sum(f, T \ {chosen(T)})
    BY <1>2, SumChosen, FS_Subset
  <2> QED
    BY <2>1, <2>2, <1>2
<1> HIDE DEF F
<1>3. \A T \in SUBSET S : T \in F
  BY <1>1, <1>2, SetInduct
<1> QED
  BY <1>3 DEF F

\* Any member may come first.
LEMMA SumRemove ==
  ASSUME NEW f, NEW S, IsFiniteSet(S), \A x \in S : f[x] \in Int
  PROVE  \A x \in S : Sum(f, S) = f[x] + Sum(f, S \ {x})
<1> DEFINE F == {T \in SUBSET S : \A x \in T : Sum(f, T) = f[x] + Sum(f, T \ {x})}
<1>1. {} \in F
  OBVIOUS
<1>2. ASSUME NEW T \in SUBSET S, T # {}, \A x \in T : T \ {x} \in F
      PROVE  T \in F
  <2> DEFINE c == chosen(T)
  <2>1. c \in T /\ f[c] \in Int
    BY <1>2, ChosenIn
  <2>2. IsFiniteSet(T)
    BY FS_Subset
  <2>3. Sum(f, T) = f[c] + Sum(f, T \ {c})
    BY <1>2, <2>2, SumChosen
  <2> HIDE DEF c
  <2>4. ASSUME NEW x \in T PROVE Sum(f, T) = f[x] + Sum(f, T \ {x})
    <3>1. CASE x = c
      BY <3>1, <2>3
    <3>2. CASE x # c
      <4> DEFINE U == T \ {c}
                 V == T \ {x}
                 W == U \ {x}
      <4>1. U \in F /\ V \in F /\ x \in U /\ c \in V
        BY <3>2, <2>1, <1>2
      <4>2. V \ {c} = W /\ IsFiniteSet(W) /\ \A y \in W : f[y] \in Int
        BY FS_Subset
      <4>3. Sum(f, W) \in Int /\ f[x] \in Int
        BY <4>2, SumType
      <4>4. Sum(f, U) = f[x] + Sum(f, W) /\ Sum(f, V) = f[c] + Sum(f, V \ {c})
        BY <4>1
      <4>5. Sum(f, T) = f[c] + Sum(f, U)
        BY <2>3
      <4>6. Sum(f, V \ {c}) = Sum(f, W)
        BY <4>2
      <4> HIDE DEF F, U, W
      <4>7. Sum(f, T) = f[x] + Sum(f, V)
        <5> HIDE DEF V
        <5> QED
          BY <4>3, <4>4, <4>5, <4>6, <2>1
      <4> QED
        BY <4>7
    <3> QED
      BY <3>1, <3>2
  <2> QED
    BY <2>4
<1> HIDE DEF F
<1>3. \A T \in SUBSET S : T \in F
  BY <1>1, <1>2, SetInduct
<1> QED
  BY <1>3 DEF F

\* Functions that agree on a set have the same sum over it.
LEMMA SumSame ==
  ASSUME NEW f, NEW g, NEW S, IsFiniteSet(S), \A x \in S : f[x] = g[x]
  PROVE  Sum(f, S) = Sum(g, S)
<1> DEFINE F == {T \in SUBSET S : Sum(f, T) = Sum(g, T)}
<1>1. {} \in F
  BY SumEmpty
<1>2. ASSUME NEW T \in SUBSET S, T # {}, \A x \in T : T \ {x} \in F
      PROVE  T \in F
  <2>1. chosen(T) \in T
    BY <1>2, ChosenIn
  <2>2. /\ Sum(f, T) = f[chosen(T)] + Sum(f, T \ {chosen(T)})
        /\ Sum(g, T) = g[chosen(T)] + Sum(g, T \ {chosen(T)})
    BY <1>2, SumChosen, FS_Subset
  <2> QED
    BY <2>1, <2>2, <1>2
<1> HIDE DEF F
<1>3. \A T \in SUBSET S : T \in F
  BY <1>1, <1>2, SetInduct
<1> QED
  BY <1>3 DEF F

\* One term changes.
LEMMA SumChange ==
  ASSUME NEW f, NEW g, NEW S, IsFiniteSet(S), NEW x \in S,
         \A y \in S : f[y] \in Int /\ g[y] \in Int,
         \A y \in S \ {x} : f[y] = g[y]
  PROVE  Sum(g, S) = Sum(f, S) + (g[x] - f[x])
<1>1. Sum(f, S) = f[x] + Sum(f, S \ {x}) /\ Sum(g, S) = g[x] + Sum(g, S \ {x})
  BY SumRemove
<1>2. IsFiniteSet(S \ {x})
  BY FS_Subset
<1>3. Sum(f, S \ {x}) = Sum(g, S \ {x}) /\ Sum(f, S \ {x}) \in Int
  BY <1>2, SumSame, SumType
<1>4. f[x] \in Int /\ g[x] \in Int
  OBVIOUS
<1> QED
  BY <1>1, <1>3, <1>4

\* A sum of zeros is zero.
LEMMA SumZero ==
  ASSUME NEW f, NEW S, IsFiniteSet(S), \A x \in S : f[x] = 0
  PROVE  Sum(f, S) = 0
<1> DEFINE F == {T \in SUBSET S : Sum(f, T) = 0}
<1>1. {} \in F
  BY SumEmpty
<1>2. ASSUME NEW T \in SUBSET S, T # {}, \A x \in T : T \ {x} \in F
      PROVE  T \in F
  <2>1. chosen(T) \in T /\ f[chosen(T)] = 0
    BY <1>2, ChosenIn
  <2>2. Sum(f, T) = f[chosen(T)] + Sum(f, T \ {chosen(T)})
    BY <1>2, SumChosen, FS_Subset
  <2> QED
    BY <2>1, <2>2, <1>2
<1> HIDE DEF F
<1>3. \A T \in SUBSET S : T \in F
  BY <1>1, <1>2, SetInduct
<1> QED
  BY <1>3 DEF F

\* A sum of smaller numbers is smaller.
LEMMA SumLeq ==
  ASSUME NEW f, NEW g, NEW S, IsFiniteSet(S),
         \A x \in S : f[x] \in Int /\ g[x] \in Int /\ f[x] <= g[x]
  PROVE  Sum(f, S) <= Sum(g, S)
<1> DEFINE F == {T \in SUBSET S : Sum(f, T) <= Sum(g, T)}
<1>1. {} \in F
  BY SumEmpty
<1>2. ASSUME NEW T \in SUBSET S, T # {}, \A x \in T : T \ {x} \in F
      PROVE  T \in F
  <2> DEFINE c == chosen(T)
  <2>1. c \in S /\ c \in T
    BY <1>2, ChosenIn
  <2>2. IsFiniteSet(T) /\ IsFiniteSet(T \ {c})
    BY FS_Subset
  <2>3. /\ Sum(f, T) = f[c] + Sum(f, T \ {c})
        /\ Sum(g, T) = g[c] + Sum(g, T \ {c})
    BY <1>2, <2>2, SumChosen
  <2>4. Sum(f, T \ {c}) \in Int /\ Sum(g, T \ {c}) \in Int
    BY <2>2, SumType
  <2> HIDE DEF c
  <2>5. Sum(f, T \ {c}) <= Sum(g, T \ {c})
    BY <2>1, <1>2
  <2>6. f[c] \in Int /\ g[c] \in Int /\ f[c] <= g[c]
    BY <2>1
  <2> QED
    BY <2>3, <2>4, <2>5, <2>6
<1> HIDE DEF F
<1>3. \A T \in SUBSET S : T \in F
  BY <1>1, <1>2, SetInduct
<1> QED
  BY <1>3 DEF F

\* The sum of the differences is the difference of the sums.
LEMMA SumMinus ==
  ASSUME NEW f, NEW g, NEW h, NEW S, IsFiniteSet(S),
         \A x \in S : f[x] \in Int /\ g[x] \in Int /\ h[x] = f[x] - g[x]
  PROVE  Sum(h, S) = Sum(f, S) - Sum(g, S)
<1> DEFINE F == {T \in SUBSET S : Sum(h, T) = Sum(f, T) - Sum(g, T)}
<1>1. {} \in F
  BY SumEmpty
<1>2. ASSUME NEW T \in SUBSET S, T # {}, \A x \in T : T \ {x} \in F
      PROVE  T \in F
  <2> DEFINE c == chosen(T)
  <2>1. c \in S /\ c \in T
    BY <1>2, ChosenIn
  <2>2. IsFiniteSet(T) /\ IsFiniteSet(T \ {c})
    BY FS_Subset
  <2>3. /\ Sum(f, T) = f[c] + Sum(f, T \ {c})
        /\ Sum(g, T) = g[c] + Sum(g, T \ {c})
        /\ Sum(h, T) = h[c] + Sum(h, T \ {c})
    BY <1>2, <2>2, SumChosen
  <2>4. Sum(f, T \ {c}) \in Int /\ Sum(g, T \ {c}) \in Int
    BY <2>2, SumType
  <2> HIDE DEF c
  <2>5. Sum(h, T \ {c}) = Sum(f, T \ {c}) - Sum(g, T \ {c})
    BY <2>1, <1>2
  <2>6. f[c] \in Int /\ g[c] \in Int /\ h[c] = f[c] - g[c]
    BY <2>1
  <2> QED
    BY <2>3, <2>4, <2>5, <2>6
<1> HIDE DEF F
<1>3. \A T \in SUBSET S : T \in F
  BY <1>1, <1>2, SetInduct
<1> QED
  BY <1>3 DEF F

\* A function that is more at one member only has a sum that is as much more.
LEMMA SumAdd ==
  ASSUME NEW f, NEW g, NEW S, IsFiniteSet(S), NEW x, NEW c \in Int,
         \A y \in S : f[y] \in Int /\ g[y] = f[y] + (IF y = x THEN c ELSE 0)
  PROVE  Sum(g, S) = Sum(f, S) + (IF x \in S THEN c ELSE 0)
<1>1. CASE x \in S
  <2>1. /\ \A y \in S : f[y] \in Int /\ g[y] \in Int
        /\ \A y \in S \ {x} : f[y] = g[y]
        /\ g[x] - f[x] = c
    BY <1>1
  <2>2. Sum(g, S) = Sum(f, S) + (g[x] - f[x])
    BY <1>1, <2>1, SumChange
  <2> QED
    BY <1>1, <2>1, <2>2
<1>2. CASE x \notin S
  <2>1. \A y \in S : f[y] = g[y]
    BY <1>2
  <2>2. Sum(f, S) = Sum(g, S) /\ Sum(f, S) \in Int
    BY <2>1, SumSame, SumType
  <2> QED
    BY <1>2, <2>2
<1> QED
  BY <1>1, <1>2

\* One member more.
LEMMA SumInsert ==
  ASSUME NEW f, NEW S, IsFiniteSet(S), NEW x, x \notin S,
         \A y \in S \cup {x} : f[y] \in Int
  PROVE  Sum(f, S \cup {x}) = f[x] + Sum(f, S)
<1>1. IsFiniteSet(S \cup {x})
  BY FS_AddElement
<1>2. (S \cup {x}) \ {x} = S
  OBVIOUS
<1> QED
  BY <1>1, <1>2, SumRemove

\* The sum of two functions.
LEMMA SumPlus ==
  ASSUME NEW f, NEW g, NEW h, NEW S, IsFiniteSet(S),
         \A x \in S : f[x] \in Int /\ g[x] \in Int /\ h[x] = f[x] + g[x]
  PROVE  Sum(h, S) = Sum(f, S) + Sum(g, S)
<1>1. \A x \in S : h[x] \in Int /\ g[x] \in Int /\ f[x] = h[x] - g[x]
  OBVIOUS
<1>2. Sum(f, S) = Sum(h, S) - Sum(g, S)
  BY <1>1, SumMinus
<1>3. Sum(f, S) \in Int /\ Sum(g, S) \in Int /\ Sum(h, S) \in Int
  BY <1>1, SumType
<1> QED
  BY <1>2, <1>3

\* The sum of a constant.
LEMMA SumConst ==
  ASSUME NEW f, NEW S, IsFiniteSet(S), NEW c \in Int, \A x \in S : f[x] = c
  PROVE  Sum(f, S) = c * Cardinality(S)
<1> DEFINE F == {T \in SUBSET S : Sum(f, T) = c * Cardinality(T)}
<1>1. {} \in F
  BY SumEmpty, FS_EmptySet
<1>2. ASSUME NEW T \in SUBSET S, T # {}, \A x \in T : T \ {x} \in F
      PROVE  T \in F
  <2>1. chosen(T) \in T /\ f[chosen(T)] = c
    BY <1>2, ChosenIn
  <2>2. IsFiniteSet(T) /\ Cardinality(T) \in Nat
    BY FS_Subset, FS_CardinalityType
  <2>3. Cardinality(T \ {chosen(T)}) = Cardinality(T) - 1
    BY <2>1, <2>2, FS_RemoveElement
  <2>4. Sum(f, T) = c + Sum(f, T \ {chosen(T)})
    BY <1>2, <2>1, <2>2, SumChosen
  <2>5. Sum(f, T \ {chosen(T)}) = c * (Cardinality(T) - 1)
    BY <1>2, <2>1, <2>3
  <2>6. \A n \in Nat : c + c * (n - 1) = c * n
    BY SMT
  <2> QED
    BY <2>2, <2>4, <2>5, <2>6
<1> HIDE DEF F
<1>3. \A T \in SUBSET S : T \in F
  BY <1>1, <1>2, SetInduct
<1> QED
  BY <1>3 DEF F

\* The sum of a function's multiple.
LEMMA SumTimes ==
  ASSUME NEW f, NEW g, NEW S, IsFiniteSet(S), NEW c \in Int,
         \A x \in S : f[x] \in Int /\ g[x] = c * f[x]
  PROVE  Sum(g, S) = c * Sum(f, S)
<1> DEFINE F == {T \in SUBSET S : Sum(g, T) = c * Sum(f, T)}
<1>1. {} \in F
  BY SumEmpty
<1>2. ASSUME NEW T \in SUBSET S, T # {}, \A x \in T : T \ {x} \in F
      PROVE  T \in F
  <2> DEFINE x == chosen(T)
  <2>1. x \in T /\ f[x] \in Int /\ g[x] = c * f[x]
    BY <1>2, ChosenIn
  <2>2. IsFiniteSet(T) /\ IsFiniteSet(T \ {x})
    BY FS_Subset
  <2>3. Sum(f, T) = f[x] + Sum(f, T \ {x}) /\ Sum(g, T) = g[x] + Sum(g, T \ {x})
    BY <1>2, <2>2, SumChosen
  <2>4. Sum(f, T \ {x}) \in Int
    BY <2>2, SumType
  <2> HIDE DEF x
  <2>5. Sum(g, T \ {x}) = c * Sum(f, T \ {x})
    BY <1>2, <2>1
  <2>6. \A m \in Int, n \in Int : c * (m + n) = c * m + c * n
    BY SMT
  <2> QED
    BY <2>1, <2>3, <2>4, <2>5, <2>6
<1> HIDE DEF F
<1>3. \A T \in SUBSET S : T \in F
  BY <1>1, <1>2, SetInduct
<1> QED
  BY <1>3 DEF F

\* A function that is zero outside T adds up to what it does on T.
LEMMA SumWithin ==
  ASSUME NEW f, NEW g, NEW S, IsFiniteSet(S), NEW T \in SUBSET S,
         \A x \in T : f[x] \in Int,
         \A x \in S : g[x] = IF x \in T THEN f[x] ELSE 0
  PROVE  Sum(g, S) = Sum(f, T)
<1> DEFINE F == {U \in SUBSET S : Sum(g, U) = Sum(f, U \cap T)}
<1>1. {} \in F
  <2>1. {} \cap T = {}
    OBVIOUS
  <2> QED
    BY <2>1, SumEmpty
<1>2. ASSUME NEW U \in SUBSET S, U # {}, \A x \in U : U \ {x} \in F
      PROVE  U \in F
  <2> DEFINE c == chosen(U)
  <2>1. c \in U
    BY <1>2, ChosenIn
  <2>2. IsFiniteSet(U) /\ IsFiniteSet(U \cap T)
    BY FS_Subset
  <2>3. Sum(g, U) = g[c] + Sum(g, U \ {c})
    BY <1>2, <2>2, SumChosen
  <2> HIDE DEF c
  <2>4. Sum(g, U \ {c}) = Sum(f, (U \ {c}) \cap T)
    BY <1>2, <2>1
  <2>5. CASE c \in T
    <3>1. (U \ {c}) \cap T = (U \cap T) \ {c} /\ c \in U \cap T
      BY <2>1, <2>5
    <3>2. Sum(f, U \cap T) = f[c] + Sum(f, (U \cap T) \ {c})
      BY <2>2, <3>1, SumRemove
    <3> QED
      BY <2>1, <2>3, <2>4, <2>5, <3>1, <3>2
  <2>6. CASE c \notin T
    <3>1. (U \ {c}) \cap T = U \cap T
      BY <2>6
    <3>2. Sum(f, U \cap T) \in Int
      BY <2>2, SumType
    <3>3. g[c] = 0
      BY <2>1, <2>6
    <3>4. Sum(g, U \ {c}) = Sum(f, U \cap T)
      BY <2>4, <3>1, Zenon
    <3>5. Sum(g, U) = Sum(f, U \cap T)
      BY <2>3, <3>2, <3>3, <3>4
    <3> QED
      BY <3>5
  <2> QED
    BY <2>5, <2>6
<1> HIDE DEF F
<1>3. \A U \in SUBSET S : U \in F
  BY <1>1, <1>2, SetInduct
<1>4. S \cap T = T
  OBVIOUS
<1> QED
  BY <1>3, <1>4 DEF F

\* A sum does not depend on how its members are numbered.
LEMMA SumRenamed ==
  ASSUME NEW f, NEW g, NEW S, IsFiniteSet(S), NEW T, NEW q \in Bijection(S, T),
         \A y \in T : f[y] \in Int, \A x \in S : g[x] = f[q[x]]
  PROVE  Sum(g, S) = Sum(f, T)
<1> DEFINE Image(U) == {q[x] : x \in U}
           F == {U \in SUBSET S : Sum(g, U) = Sum(f, Image(U))}
<1>0. /\ q \in [S -> T]
      /\ \A x \in S, y \in S : q[x] = q[y] => x = y
      /\ \A y \in T : \E x \in S : q[x] = y
  BY DEF Bijection, Injection, Surjection, IsInjective
<1>f. IsFiniteSet(T)
  BY FS_Surjection DEF Bijection
<1>1. {} \in F
  <2>1. Image({}) = {}
    OBVIOUS
  <2> QED
    BY <2>1, SumEmpty
<1>2. ASSUME NEW U \in SUBSET S, U # {}, \A x \in U : U \ {x} \in F
      PROVE  U \in F
  <2> DEFINE c == chosen(U)
  <2>1. c \in U
    BY <1>2, ChosenIn
  <2>2. Sum(g, U) = g[c] + Sum(g, U \ {c})
    BY <1>2, FS_Subset, SumChosen
  <2> HIDE DEF c
  <2>3. Image(U \ {c}) = Image(U) \ {q[c]} /\ q[c] \in Image(U) /\ Image(U) \in SUBSET T
    BY <1>0, <2>1
  <2>4. Sum(g, U \ {c}) = Sum(f, Image(U \ {c}))
    BY <1>2, <2>1
  <2>5. g[c] = f[q[c]]
    BY <2>1
  <2> HIDE DEF Image
  <2>6. IsFiniteSet(Image(U))
    BY <1>f, <2>3, FS_Subset
  <2>7. Sum(f, Image(U)) = f[q[c]] + Sum(f, Image(U) \ {q[c]})
    BY <2>3, <2>6, SumRemove
  <2> QED
    BY <2>2, <2>3, <2>4, <2>5, <2>7
<1> HIDE DEF F
<1>3. \A U \in SUBSET S : U \in F
  BY <1>1, <1>2, SetInduct
<1>4. Image(S) = T
  BY <1>0
<1> QED
  BY <1>3, <1>4 DEF F

\* No members of a set add up to more than as many that are above a threshold
\* the others do not exceed.
LEMMA SumTop ==
  ASSUME NEW f, NEW D, IsFiniteSet(D), \A x \in D : f[x] \in Int,
         NEW P \in SUBSET D, NEW S \in SUBSET D, Cardinality(S) = Cardinality(P),
         NEW t \in Int, \A x \in P : f[x] >= t, \A x \in D \ P : f[x] <= t
  PROVE  Sum(f, S) <= Sum(f, P)
<1> DEFINE over == [x \in D |-> f[x] - t]
           const == [x \in D |-> t]
           within(T) == [x \in D |-> IF x \in T THEN over[x] ELSE 0]
<1>0. IsFiniteSet(S) /\ IsFiniteSet(P)
  BY FS_Subset
<1>1. ASSUME NEW T \in SUBSET D, IsFiniteSet(T)
      PROVE  /\ Sum(within(T), D) = Sum(f, T) - t * Cardinality(T)
             /\ Sum(f, T) \in Int
  <2>1. Sum(within(T), D) = Sum(over, T)
    <3>1. \A x \in T : over[x] \in Int
      OBVIOUS
    <3>2. \A x \in D : within(T)[x] = IF x \in T THEN over[x] ELSE 0
      OBVIOUS
    <3> HIDE DEF over, within
    <3> QED
      BY <3>1, <3>2, SumWithin
  <2>2. Sum(over, T) = Sum(f, T) - Sum(const, T)
    <3>1. \A x \in T : f[x] \in Int /\ const[x] \in Int /\ over[x] = f[x] - const[x]
      OBVIOUS
    <3> HIDE DEF over, const
    <3> QED
      BY <1>1, <3>1, SumMinus
  <2>3. Sum(const, T) = t * Cardinality(T)
    <3>1. \A x \in T : const[x] = t
      OBVIOUS
    <3> HIDE DEF const
    <3> QED
      BY <1>1, <3>1, SumConst
  <2>4. Sum(f, T) \in Int
    BY <1>1, SumType
  <2> QED
    BY <2>1, <2>2, <2>3, <2>4
<1>2. \A x \in D : within(S)[x] \in Int /\ within(P)[x] \in Int /\ within(S)[x] <= within(P)[x]
  OBVIOUS
<1>3. Sum(within(S), D) <= Sum(within(P), D)
  <2> HIDE DEF within
  <2> QED
    BY <1>2, SumLeq
<1>4. t * Cardinality(S) \in Int
  BY <1>0, FS_CardinalityType
<1> HIDE DEF within
<1> QED
  BY <1>0, <1>1, <1>3, <1>4

\* What is counted by the value of each member adds up to the members.
LEMMA SumOfCounts ==
  ASSUME NEW D, IsFiniteSet(D), NEW V, IsFiniteSet(V), NEW v, \A j \in D : v[j] \in V
  PROVE  Sum([w \in V |-> Cardinality({j \in D : v[j] = w})], V) = Cardinality(D)
<1> DEFINE With(T, w) == {j \in T : v[j] = w}
           count(T) == [w \in V |-> Cardinality(With(T, w))]
           F == {T \in SUBSET D : Sum(count(T), V) = Cardinality(T)}
<1>0. ASSUME NEW T \in SUBSET D, NEW w
      PROVE  IsFiniteSet(T) /\ IsFiniteSet(With(T, w))
             /\ Cardinality(T) \in Nat /\ Cardinality(With(T, w)) \in Nat
  <2>1. IsFiniteSet(T) /\ With(T, w) \subseteq T
    BY FS_Subset
  <2>2. IsFiniteSet(With(T, w))
    BY <2>1, FS_Subset
  <2> QED
    BY <2>1, <2>2, FS_CardinalityType
<1>1. {} \in F
  <2>1. \A w \in V : With({}, w) = {}
    OBVIOUS
  <2>2. \A w \in V : count({})[w] = 0
    BY <2>1, FS_EmptySet
  <2>3. Sum(count({}), V) = 0
    BY <2>2, SumZero
  <2> QED
    BY <2>3, FS_EmptySet
<1>2. ASSUME NEW T \in SUBSET D, T # {}, \A x \in T : T \ {x} \in F
      PROVE  T \in F
  <2>1. PICK x \in T : TRUE
    BY <1>2
  <2> DEFINE U == T \ {x}
  <2>2. Sum(count(U), V) = Cardinality(U) /\ U \in SUBSET D /\ x \in D
    BY <1>2, <2>1
  <2>3. Cardinality(T) = Cardinality(U) + 1
    <3>1. IsFiniteSet(T) /\ IsFiniteSet(U) /\ Cardinality(U) \in Nat
      BY <1>0, <2>2
    <3>2. T = U \cup {x} /\ x \notin U
      BY <2>1
    <3> QED
      BY <3>1, <3>2, FS_AddElement
  <2>4. ASSUME NEW w \in V
        PROVE  /\ count(U)[w] \in Int
               /\ count(T)[w] = count(U)[w] + (IF w = v[x] THEN 1 ELSE 0)
    <3>1. /\ IsFiniteSet(With(U, w)) /\ Cardinality(With(U, w)) \in Nat
      BY <1>0, <2>2
    <3>2. CASE w = v[x]
      <4>1. With(T, w) = With(U, w) \cup {x} /\ x \notin With(U, w)
        BY <2>1, <3>2
      <4> HIDE DEF With
      <4>2. Cardinality(With(T, w)) = Cardinality(With(U, w)) + 1
        BY <3>1, <4>1, FS_AddElement
      <4> QED
        BY <3>1, <3>2, <4>2
    <3>3. CASE w # v[x]
      <4>1. With(T, w) = With(U, w)
        BY <2>1, <3>3
      <4> HIDE DEF With
      <4> QED
        BY <3>1, <3>3, <4>1
    <3> QED
      BY <3>2, <3>3
  <2> DEFINE f == count(U)
             g == count(T)
  <2>5. \A w \in V : f[w] \in Int /\ g[w] = f[w] + (IF w = v[x] THEN 1 ELSE 0)
    BY <2>4
  <2>6. v[x] \in V
    BY <2>2
  <2> HIDE DEF f, g
  <2>7. Sum(g, V) = Sum(f, V) + (IF v[x] \in V THEN 1 ELSE 0)
    BY <2>5, SumAdd
  <2>8. Sum(g, V) = Sum(f, V) + 1
    BY <2>6, <2>7
  <2> QED
    BY <2>2, <2>3, <2>8 DEF f, g
<1> HIDE DEF F
<1>3. \A T \in SUBSET D : T \in F
  BY <1>1, <1>2, SetInduct
<1> QED
  BY <1>3 DEF F

\* A set of natural numbers has a least member.
LEMMA Least ==
  ASSUME NEW S \in SUBSET Nat, S # {}
  PROVE  Min(S) \in S /\ \A y \in S : Min(S) <= y
<1> DEFINE R == {ss \in Nat \X Nat : ss[1] < ss[2]}
<1>1. IsWellFoundedOn(R, Nat)
  BY NatLessThanWellFounded DEF OpToRel
<1> HIDE DEF R
<1>2. PICK x \in S : \A y \in S : <<y, x>> \notin R
  BY <1>1, WFMin
<1>3. ASSUME NEW y \in S PROVE x <= y
  <2>1. ~(y < x)
    BY <1>2 DEF R
  <2> QED
    BY <2>1
<1> QED
  BY <1>3 DEF Min

\* A nonempty set of numbers up to L has a greatest.
LEMMA Greatest ==
  ASSUME NEW L \in Nat, NEW S \in SUBSET (0 .. L), S # {}
  PROVE  Max(S) \in S /\ \A y \in S : y <= Max(S)
<1> DEFINE N == {n \in Nat : \A T \in SUBSET (0 .. n) :
                               T # {} => \E m \in T : \A y \in T : m >= y}
<1>1. 0 \in N
  <2> SUFFICES ASSUME NEW T \in SUBSET (0 .. 0), T # {}
               PROVE  \E m \in T : \A y \in T : m >= y
    OBVIOUS
  <2>1. \A y \in T : y = 0
    OBVIOUS
  <2>2. PICK m \in T : TRUE
    OBVIOUS
  <2>3. \A y \in T : m >= y
    BY <2>1, <2>2
  <2> QED
    BY <2>2, <2>3
<1>2. ASSUME NEW n \in Nat, n \in N PROVE n + 1 \in N
  <2> SUFFICES ASSUME NEW T \in SUBSET (0 .. n + 1), T # {}
               PROVE  \E m \in T : \A y \in T : m >= y
    BY <1>2
  <2>1. CASE n + 1 \in T
    BY <1>2, <2>1
  <2>2. CASE n + 1 \notin T
    <3>1. T \in SUBSET (0 .. n)
      BY <1>2, <2>2
    <3> QED
      BY <1>2, <3>1
  <2> QED
    BY <2>1, <2>2
<1> HIDE DEF N
<1>3. L \in N
  BY <1>1, <1>2, Induct
<1>4. \E m \in S : \A y \in S : m >= y
  BY <1>3 DEF N
<1>5. Max(S) \in S /\ \A y \in S : Max(S) >= y
  BY <1>4 DEF Max
<1> QED
  BY <1>5

(***************************************************************************)
(* Arithmetic: the remainder of the next number.                           *)
(***************************************************************************)
\* Quotient and remainder are unique.
LEMMA Division ==
  ASSUME NEW p \in Nat \ {0}, NEW a \in Int, NEW b \in Int,
         NEW r \in 0 .. p - 1, NEW s \in 0 .. p - 1,
         p * a + r = p * b + s
  PROVE  r = s
<1>1. ASSUME NEW x \in Int, NEW y \in Int, x < y
      PROVE  p * x + p <= p * y
  BY <1>1, SMT
<1>2. ~(a < b) /\ ~(b < a)
  BY <1>1, SMT
<1>3. a = b
  BY <1>2
<1>4. QED
  BY <1>3

\* A remainder grows by one until it reaches the divisor.
LEMMA NextRemainder ==
  ASSUME NEW p \in Nat \ {0}, NEW n \in Nat
  PROVE  /\ n % p \in 0 .. p - 1
         /\ (n + 1) % p = IF (n % p) + 1 = p THEN 0 ELSE (n % p) + 1
<1> DEFINE q == n \div p
           r == n % p
           q1 == (n + 1) \div p
           r1 == (n + 1) % p
<1>1. n = p * q + r /\ q \in Int /\ r \in 0 .. p - 1
  OBVIOUS
<1>2. n + 1 = p * q1 + r1 /\ q1 \in Int /\ r1 \in 0 .. p - 1
  OBVIOUS
<1> HIDE DEF q, r, q1, r1
<1>3. CASE r + 1 = p
  <2>1. p * (q + 1) + 0 = p * q1 + r1
    BY <1>1, <1>2, <1>3
  <2>2. q + 1 \in Int /\ 0 \in 0 .. p - 1
    BY <1>1
  <2>3. r1 = 0
    BY <2>1, <2>2, <1>2, Division
  <2>4. QED
    BY <2>3, <1>1, <1>3 DEF r, r1
<1>4. CASE r + 1 # p
  <2>1. p * q + (r + 1) = p * q1 + r1
    BY <1>1, <1>2
  <2>2. r + 1 \in 0 .. p - 1
    BY <1>1, <1>4
  <2>3. r1 = r + 1
    BY <2>1, <2>2, <1>1, <1>2, Division
  <2>4. QED
    BY <2>3, <1>1, <1>4 DEF r, r1
<1>5. QED
  BY <1>3, <1>4

(***************************************************************************)
(* Stores: an operation keeps their type and what is counted, and only     *)
(* cached rows have anything to write back.                                *)
(***************************************************************************)
\* A store is the record of its three parts.
LEMMA StoreParts ==
  ASSUME NEW K, NEW F, NEW ks \in Store(K, F), NEW x
  PROVE  /\ [ks EXCEPT !.cached = x] =
              [cached |-> x, delta |-> ks.delta, stored |-> ks.stored]
         /\ [ks EXCEPT !.delta = x] =
              [cached |-> ks.cached, delta |-> x, stored |-> ks.stored]
BY DEF Store

\* update() of two rows of naturals is a row of naturals.
LEMMA UpdateType ==
  ASSUME NEW F, NEW a \in [F -> Nat], NEW b \in [F -> Nat]
  PROVE  update(a, b) \in [F -> Nat]
BY DEF update

\* Only cached rows are evicted.
LEMMA VictimsCached ==
  ASSUME NEW cached, NEW key, NEW size, NEW E \in Victims(cached, key, size)
  PROVE  E \subseteq cached
BY DEF Victims

\* An evicted store is a store.
LEMMA EvictType ==
  ASSUME NEW K, NEW F, NEW ks \in Store(K, F), NEW E
  PROVE  Evict(ks, E) \in Store(K, F)
<1>1. /\ ks.cached \in SUBSET K
      /\ ks.delta \in [K -> [F -> Nat]]
      /\ ks.stored \in [K -> [F -> Nat]]
  BY DEF Store
<1>2. \A k \in K : update(ks.stored[k], ks.delta[k]) \in [F -> Nat]
  BY <1>1, UpdateType
<1>3. \A k \in K : Zero(DOMAIN ks.delta[k]) \in [F -> Nat]
  BY <1>1 DEF Zero
<1>4. [k \in DOMAIN ks.delta |->
         IF k \in E THEN Zero(DOMAIN ks.delta[k]) ELSE ks.delta[k]]
        \in [K -> [F -> Nat]]
  BY <1>1, <1>3
<1>5. [k \in DOMAIN ks.stored |->
         IF k \in E THEN update(ks.stored[k], ks.delta[k])
                    ELSE ks.stored[k]] \in [K -> [F -> Nat]]
  BY <1>1, <1>2
<1> QED
  BY <1>1, <1>4, <1>5 DEF Evict, Store

\* Evicting rows neither loses nor adds a count.
LEMMA EvictCounted ==
  ASSUME NEW K, NEW F, NEW ks \in Store(K, F), NEW E, NEW k \in K, NEW f \in F
  PROVE  Counted(Evict(ks, E), k, f) = Counted(ks, k, f)
<1>1. /\ ks.delta \in [K -> [F -> Nat]]
      /\ ks.stored \in [K -> [F -> Nat]]
  BY DEF Store
<1>2. ks.delta[k][f] \in Nat /\ ks.stored[k][f] \in Nat
  BY <1>1
<1>3. CASE k \in E
  <2>1. Evict(ks, E).delta[k][f] = 0
    BY <1>1, <1>3 DEF Evict, Zero
  <2>2. Evict(ks, E).stored[k][f] = ks.stored[k][f] + ks.delta[k][f]
    BY <1>1, <1>3 DEF Evict, update
  <2> QED
    BY <1>2, <2>1, <2>2 DEF Counted
<1>4. CASE k \notin E
  BY <1>1, <1>4 DEF Evict, Counted
<1> QED
  BY <1>3, <1>4

\* Only cached rows have something to write back.
Resident(ks) == \A k \in DOMAIN ks.delta :
                  k \notin ks.cached => ks.delta[k] = Zero(DOMAIN ks.delta[k])

\* The empty store is a resident store with nothing counted.
LEMMA EmptyStoreType ==
  ASSUME NEW K, NEW F
  PROVE  /\ EmptyStore(K, F) \in Store(K, F)
         /\ Resident(EmptyStore(K, F))
         /\ \A k \in K, f \in F : Counted(EmptyStore(K, F), k, f) = 0
<1>1. Zero(F) \in [F -> Nat] /\ \A f \in F : Zero(F)[f] = 0
  BY DEF Zero
<1>2. DOMAIN Zero(F) = F
  BY DEF Zero
<1> QED
  BY <1>1, <1>2 DEF EmptyStore, Store, Resident, Counted

\* An evicted row has nothing to write back.
LEMMA EvictResident ==
  ASSUME NEW K, NEW F, NEW ks \in Store(K, F), NEW E, Resident(ks)
  PROVE  Resident(Evict(ks, E))
<1>1. ks.delta \in [K -> [F -> Nat]]
  BY DEF Store
<1>2. DOMAIN Evict(ks, E).delta = K
  BY <1>1 DEF Evict
<1>3. ASSUME NEW k \in K, k \in E
      PROVE  Evict(ks, E).delta[k] = Zero(DOMAIN Evict(ks, E).delta[k])
  <2>1. DOMAIN ks.delta[k] = F
    BY <1>1
  <2>2. Evict(ks, E).delta[k] = Zero(F)
    BY <1>1, <1>3, <2>1 DEF Evict
  <2> QED
    BY <2>2 DEF Zero
<1>4. ASSUME NEW k \in K, k \notin E, k \notin Evict(ks, E).cached
      PROVE  Evict(ks, E).delta[k] = Zero(DOMAIN Evict(ks, E).delta[k])
  <2>1. k \notin ks.cached
    BY <1>4 DEF Evict
  <2>2. Evict(ks, E).delta[k] = ks.delta[k]
    BY <1>1, <1>4 DEF Evict
  <2> QED
    BY <1>1, <2>1, <2>2 DEF Resident
<1> QED
  BY <1>2, <1>3, <1>4 DEF Resident

\* save() leaves nothing to write back.
LEMMA SaveFlushes ==
  ASSUME NEW K, NEW F, NEW ks \in Store(K, F), Resident(ks)
  PROVE  /\ Save(ks) \in Store(K, F)
         /\ Resident(Save(ks))
         /\ Flushed(Save(ks), K)
         /\ \A k \in K, f \in F : Counted(Save(ks), k, f) = Counted(ks, k, f)
<1>1. Save(ks) \in Store(K, F) /\ Resident(Save(ks))
  BY EvictType, EvictResident DEF Save
<1>2. Save(ks).cached = {}
  BY DEF Save, Evict
<1>3. DOMAIN Save(ks).delta = K
  BY <1>1 DEF Store
<1>4. Flushed(Save(ks), K)
  BY <1>1, <1>2, <1>3 DEF Resident, Flushed
<1> QED
  BY <1>1, <1>4, EvictCounted DEF Save

\* A flushed store has in its file all that was counted.
LEMMA FlushedStored ==
  ASSUME NEW K, NEW F, NEW ks \in Store(K, F), Flushed(ks, K), NEW k \in K, NEW f \in F
  PROVE  ks.stored[k][f] = Counted(ks, k, f)
<1>1. /\ ks.delta \in [K -> [F -> Nat]]
      /\ ks.stored \in [K -> [F -> Nat]]
  BY DEF Store
<1>2. ks.delta[k] = Zero(DOMAIN ks.delta[k]) /\ DOMAIN ks.delta[k] = F
  BY <1>1 DEF Flushed
<1>3. ks.delta[k][f] = 0
  BY <1>2 DEF Zero
<1>4. ks.stored[k][f] \in Nat
  BY <1>1
<1> QED
  BY <1>3, <1>4 DEF Counted

\* get() keeps the type, the counts and residence, and caches the row.
LEMMA GetKeeps ==
  ASSUME NEW K, NEW F, NEW ks \in Store(K, F), NEW key \in K, NEW E
  PROVE  /\ Get(ks, key, E) \in Store(K, F)
         /\ key \in Get(ks, key, E).cached
         /\ \A k \in K, f \in F :
              Counted(Get(ks, key, E), k, f) = Counted(ks, k, f)
         /\ Resident(ks) => Resident(Get(ks, key, E))
<1> DEFINE ev == Evict(ks, E)
<1>1. ev \in Store(K, F)
  BY EvictType
<1>2. \A k \in K, f \in F : Counted(ev, k, f) = Counted(ks, k, f)
  BY EvictCounted
<1>3. Resident(ks) => Resident(ev)
  BY EvictResident
<1> HIDE DEF ev
<1>4. Get(ks, key, E) = [ev EXCEPT !.cached = @ \cup {key}]
  BY DEF Get, ev
<1>5. Get(ks, key, E) =
        [cached |-> ev.cached \cup {key}, delta |-> ev.delta, stored |-> ev.stored]
  BY <1>1, <1>4, StoreParts
<1>6. /\ Get(ks, key, E).cached = ev.cached \cup {key}
      /\ Get(ks, key, E).delta = ev.delta
      /\ Get(ks, key, E).stored = ev.stored
      /\ Get(ks, key, E) \in Store(K, F)
  BY <1>1, <1>5 DEF Store
<1> QED
  BY <1>1, <1>2, <1>3, <1>6 DEF Counted, Resident

\* Incrementing a counter of a cached row counts one there and none elsewhere.
LEMMA BumpCounts ==
  ASSUME NEW K, NEW F, NEW ks \in Store(K, F), NEW key \in K, NEW g \in F
  PROVE  /\ Bump(ks, key, g) \in Store(K, F)
         /\ \A k \in K, f \in F :
              Counted(Bump(ks, key, g), k, f) =
                Counted(ks, k, f) + (IF k = key /\ f = g THEN 1 ELSE 0)
         /\ Resident(ks) /\ key \in ks.cached => Resident(Bump(ks, key, g))
<1>1. /\ ks.cached \in SUBSET K
      /\ ks.delta \in [K -> [F -> Nat]]
      /\ ks.stored \in [K -> [F -> Nat]]
  BY DEF Store
<1> DEFINE new == [ks.delta EXCEPT ![key][g] = @ + 1]
<1>2. Bump(ks, key, g) = [cached |-> ks.cached, delta |-> new, stored |-> ks.stored]
  <2>1. Bump(ks, key, g) = [ks EXCEPT !.delta = new]
    BY Zenon DEF Bump
  <2> HIDE DEF new
  <2> QED
    BY <2>1, StoreParts
<1>3. ks.delta[key][g] \in Nat
  BY <1>1
<1>4. new \in [K -> [F -> Nat]]
  BY <1>1, <1>3
<1>5. ASSUME NEW k \in K, NEW f \in F
      PROVE  new[k][f] = ks.delta[k][f] + (IF k = key /\ f = g THEN 1 ELSE 0)
  BY <1>1
<1>6. \A k \in K : k # key => new[k] = ks.delta[k]
  BY <1>1
<1> HIDE DEF new
<1>7. Bump(ks, key, g) \in Store(K, F)
  BY <1>1, <1>2, <1>4 DEF Store
<1>8. \A k \in K, f \in F :
        Counted(Bump(ks, key, g), k, f) =
          Counted(ks, k, f) + (IF k = key /\ f = g THEN 1 ELSE 0)
  <2>1. TAKE k \in K, f \in F
  <2>2. /\ ks.delta[k][f] \in Nat
        /\ ks.stored[k][f] \in Nat
    BY <1>1
  <2>3. Counted(Bump(ks, key, g), k, f) = ks.stored[k][f] + new[k][f]
    BY <1>2 DEF Counted
  <2> QED
    BY <1>5, <2>2, <2>3 DEF Counted
<1>9. Resident(ks) /\ key \in ks.cached => Resident(Bump(ks, key, g))
  BY <1>1, <1>2, <1>4, <1>6 DEF Resident
<1> QED
  BY <1>7, <1>8, <1>9

\* Adding to a cached row keeps the type and residence.
LEMMA AddKeeps ==
  ASSUME NEW K, NEW F, NEW ks \in Store(K, F), NEW key \in K, NEW row \in [F -> Nat]
  PROVE  /\ Add(ks, key, row) \in Store(K, F)
         /\ Resident(ks) /\ key \in ks.cached => Resident(Add(ks, key, row))
<1>1. /\ ks.cached \in SUBSET K
      /\ ks.delta \in [K -> [F -> Nat]]
      /\ ks.stored \in [K -> [F -> Nat]]
  BY DEF Store
<1> DEFINE new == [ks.delta EXCEPT ![key] = update(@, row)]
<1>2. Add(ks, key, row) = [cached |-> ks.cached, delta |-> new, stored |-> ks.stored]
  <2>1. Add(ks, key, row) = [ks EXCEPT !.delta = new]
    BY Zenon DEF Add
  <2> HIDE DEF new
  <2> QED
    BY <2>1, StoreParts
<1>3. new \in [K -> [F -> Nat]]
  BY <1>1, UpdateType
<1>4. \A k \in K : k # key => new[k] = ks.delta[k]
  BY <1>1
<1> HIDE DEF new
<1>5. Add(ks, key, row) \in Store(K, F)
  BY <1>1, <1>2, <1>3 DEF Store
<1>6. Resident(ks) /\ key \in ks.cached => Resident(Add(ks, key, row))
  BY <1>1, <1>2, <1>3, <1>4 DEF Resident
<1> QED
  BY <1>5, <1>6

\* An evicted row of the file gets all that was counted, the others stay.
LEMMA EvictFile ==
  ASSUME NEW K, NEW F, NEW ks \in Store(K, F), NEW E, NEW k \in K, NEW f \in F
  PROVE  Evict(ks, E).stored[k][f] =
           IF k \in E THEN Counted(ks, k, f) ELSE ks.stored[k][f]
<1>1. /\ ks.delta \in [K -> [F -> Nat]]
      /\ ks.stored \in [K -> [F -> Nat]]
  BY DEF Store
<1>2. CASE k \in E
  BY <1>1, <1>2 DEF Evict, update, Counted
<1>3. CASE k \notin E
  BY <1>1, <1>3 DEF Evict
<1> QED
  BY <1>2, <1>3

\* The file after get() is the one the evictions leave.
LEMMA GetFile ==
  ASSUME NEW K, NEW F, NEW ks \in Store(K, F), NEW key, NEW E,
         NEW k \in K, NEW f \in F
  PROVE  Get(ks, key, E).stored[k][f] =
           IF k \in E THEN Counted(ks, k, f) ELSE ks.stored[k][f]
<1> DEFINE ev == Evict(ks, E)
<1>1. ev \in Store(K, F)
  BY EvictType
<1> HIDE DEF ev
<1>2. Get(ks, key, E) = [ev EXCEPT !.cached = @ \cup {key}]
  BY DEF Get, ev
<1>3. Get(ks, key, E) =
        [cached |-> ev.cached \cup {key}, delta |-> ev.delta, stored |-> ev.stored]
  BY <1>1, <1>2, StoreParts
<1> QED
  BY <1>3, EvictFile DEF ev

\* Counting changes the cache only.
LEMMA BumpFile ==
  ASSUME NEW K, NEW F, NEW ks \in Store(K, F), NEW key, NEW g
  PROVE  Bump(ks, key, g).stored = ks.stored
<1> DEFINE new == [ks.delta EXCEPT ![key][g] = @ + 1]
<1>1. Bump(ks, key, g) = [ks EXCEPT !.delta = new]
  BY Zenon DEF Bump
<1> HIDE DEF new
<1> QED
  BY <1>1, StoreParts

\* Adding a row counts it there and nothing elsewhere, in the cache only.
LEMMA AddCounts ==
  ASSUME NEW K, NEW F, NEW ks \in Store(K, F), NEW key \in K, NEW row \in [F -> Nat]
  PROVE  /\ Add(ks, key, row).stored = ks.stored
         /\ \A k \in K, f \in F :
              Counted(Add(ks, key, row), k, f) =
                Counted(ks, k, f) + (IF k = key THEN row[f] ELSE 0)
<1>1. /\ ks.delta \in [K -> [F -> Nat]]
      /\ ks.stored \in [K -> [F -> Nat]]
  BY DEF Store
<1> DEFINE new == [ks.delta EXCEPT ![key] = update(@, row)]
<1>2. Add(ks, key, row) = [cached |-> ks.cached, delta |-> new, stored |-> ks.stored]
  <2>1. Add(ks, key, row) = [ks EXCEPT !.delta = new]
    BY Zenon DEF Add
  <2> HIDE DEF new
  <2> QED
    BY <2>1, StoreParts
<1>3. ASSUME NEW k \in K, NEW f \in F
      PROVE  new[k][f] = ks.delta[k][f] + (IF k = key THEN row[f] ELSE 0)
  <2>1. CASE k = key
    BY <1>1, <2>1 DEF update
  <2>2. CASE k # key
    BY <1>1, <2>2
  <2> QED
    BY <2>1, <2>2
<1> HIDE DEF new
<1>4. ASSUME NEW k \in K, NEW f \in F
      PROVE  Counted(Add(ks, key, row), k, f) =
               Counted(ks, k, f) + (IF k = key THEN row[f] ELSE 0)
  <2>1. /\ ks.delta[k][f] \in Nat /\ ks.stored[k][f] \in Nat /\ row[f] \in Nat
    BY <1>1
  <2>2. Counted(Add(ks, key, row), k, f) = ks.stored[k][f] + new[k][f]
    BY <1>2 DEF Counted
  <2> QED
    BY <1>3, <2>1, <2>2 DEF Counted
<1> QED
  BY <1>2, <1>4
=============================================================================
