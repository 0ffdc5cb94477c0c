----------------------------- MODULE SumTheorems -----------------------------
(***************************************************************************)
(* What SumFunctionOnSet of the community modules computes: the balances   *)
(* of XpLedger and the usage of ExecutionJobs are such sums.  Facts that   *)
(* the induction theorems of the library state for every operator are      *)
(* stated here for every set, which the provers can instantiate.           *)
(***************************************************************************)
EXTENDS Integers, FiniteSets, Functions, FiniteSetTheorems, WellFoundedInduction, TLAPS

\* A set with 0 and all successors has every natural number.
LEMMA NatSetInduction ==
    ASSUME NEW T, 0 \in T, \A n \in Nat : n \in T => n + 1 \in T
    PROVE  Nat \subseteq T
  <1> DEFINE R == {p \in Nat \X Nat : p[1] < p[2]}
             B == Nat \ T
  <1> SUFFICES ASSUME B # {} PROVE FALSE
    OBVIOUS
  <1>1. IsWellFoundedOn(R, Nat)
    BY NatLessThanWellFounded DEF OpToRel
  <1>2. PICK n \in B : \A m \in B : <<m, n>> \notin R
    <2> HIDE DEF R
    <2> QED
      BY <1>1, WFMin
  <1>3. n - 1 \in Nat /\ n = (n - 1) + 1 /\ n - 1 < n
    OBVIOUS
  <1>4. n - 1 \notin B
    BY <1>2, <1>3
  <1> QED
    BY <1>3, <1>4

\* A set that has every subset of S whose smaller subsets, less one element, it
\* has, has them all.
LEMMA SubsetInduction ==
    ASSUME NEW S, IsFiniteSet(S), NEW P,
           \A s \in SUBSET S : (\A x \in s : s \ {x} \in P) => s \in P
    PROVE  SUBSET S \subseteq P
  <1> DEFINE T == {n \in Nat : \A s \in SUBSET S : Cardinality(s) = n => s \in P}
  <1>1. \A s \in SUBSET S : IsFiniteSet(s) /\ Cardinality(s) \in Nat
    BY FS_Subset, FS_CardinalityType
  <1>2. 0 \in T
    BY <1>1, FS_EmptySet
  <1>3. ASSUME NEW n \in Nat, n \in T
        PROVE  n + 1 \in T
    <2> SUFFICES ASSUME NEW s \in SUBSET S, Cardinality(s) = n + 1
                 PROVE  s \in P
      OBVIOUS
    <2>1. \A x \in s : Cardinality(s \ {x}) = n
      BY <1>1, FS_RemoveElement
    <2> QED
      BY <1>3, <2>1
  <1>4. Nat \subseteq T
    <2> HIDE DEF T
    <2> QED
      BY <1>2, <1>3, NatSetInduction
  <1> QED
    BY <1>1, <1>4

-----------------------------------------------------------------------------
(* The recursive function a sum is computed with. *)

Chosen(s) == CHOOSE x \in s : TRUE

\* One step of it, g standing for the function.
SumStep(f, g, s) == IF s = {} THEN 0 ELSE f[Chosen(s)] + g[s \ {Chosen(s)}]

Sums(f, S) == CHOOSE g : g = [s \in SUBSET S |-> SumStep(f, g, s)]

LEMMA SumIsSums == \A f, S : SumFunctionOnSet(f, S) = Sums(f, S)[S]
  BY DEF SumFunctionOnSet, FoldFunctionOnSet, MapThenFoldSet, Sums, SumStep, Chosen

\* It exists: it is built up over the subsets of each cardinality.
LEMMA SumsExist ==
    ASSUME NEW S, IsFiniteSet(S), NEW f
    PROVE  Sums(f, S) = [s \in SUBSET S |-> SumStep(f, Sums(f, S), s)]
  <1> DEFINE Small(n) == {s \in SUBSET S : Cardinality(s) <= n}
             Built(n) == \E g : g = [s \in Small(n) |-> SumStep(f, g, s)]
             T == {n \in Nat : Built(n)}
  <1>1. \A s \in SUBSET S : IsFiniteSet(s) /\ Cardinality(s) \in Nat
    BY FS_Subset, FS_CardinalityType
  <1>2. \A s \in SUBSET S : s # {} => /\ Chosen(s) \in s
                                      /\ Cardinality(s \ {Chosen(s)}) = Cardinality(s) - 1
    <2> SUFFICES ASSUME NEW s \in SUBSET S, s # {}
                 PROVE  Chosen(s) \in s /\ Cardinality(s \ {Chosen(s)}) = Cardinality(s) - 1
      OBVIOUS
    <2>1. Chosen(s) \in s
      BY DEF Chosen
    <2> QED
      BY <1>1, <2>1, FS_RemoveElement
  <1>3. 0 \in T
    <2> DEFINE g == [s \in Small(0) |-> 0]
    <2>1. \A s \in Small(0) : s = {}
      BY <1>1, FS_EmptySet
    <2>2. g = [s \in Small(0) |-> SumStep(f, g, s)]
      BY <2>1 DEF SumStep
    <2> QED
      BY <2>2
  <1>4. ASSUME NEW n \in Nat, n \in T
        PROVE  n + 1 \in T
    <2>1. PICK g : g = [s \in Small(n) |-> SumStep(f, g, s)]
      BY <1>4
    <2> DEFINE h == [s \in Small(n + 1) |-> SumStep(f, g, s)]
    <2>2. \A s \in Small(n) : s \in Small(n + 1) /\ h[s] = g[s]
      BY <1>1, <2>1
    <2>3. ASSUME NEW s \in Small(n + 1)
          PROVE  SumStep(f, g, s) = SumStep(f, h, s)
      <3>1. s # {} => s \ {Chosen(s)} \in Small(n)
        BY <1>1, <1>2
      <3> HIDE DEF h
      <3> QED
        BY <2>2, <3>1 DEF SumStep
    <2>4. h = [s \in Small(n + 1) |-> SumStep(f, h, s)]
      <3> DEFINE hh == [s \in Small(n + 1) |-> SumStep(f, h, s)]
      <3>1. \A s \in Small(n + 1) : h[s] = SumStep(f, h, s)
        BY <2>3
      <3> QED
        BY <3>1
    <2>5. Built(n + 1)
      <3> HIDE DEF h, Small
      <3> QED
        BY <2>4
    <2> HIDE DEF Built
    <2> QED
      BY <2>5
  <1>5. Cardinality(S) \in T
    <2> HIDE DEF T
    <2> QED
      BY <1>1, <1>3, <1>4, NatSetInduction
  <1>6. Small(Cardinality(S)) = SUBSET S
    BY <1>1, FS_Subset
  <1>7. \E g : g = [s \in SUBSET S |-> SumStep(f, g, s)]
    BY <1>5, <1>6
  <1> QED
    BY <1>7 DEF Sums

LEMMA SumsStep ==
    ASSUME NEW S, IsFiniteSet(S), NEW f, NEW s \in SUBSET S
    PROVE  Sums(f, S)[s] = IF s = {} THEN 0
                           ELSE f[Chosen(s)] + Sums(f, S)[s \ {Chosen(s)}]
  <1> DEFINE h == Sums(f, S)
  <1>1. h = [t \in SUBSET S |-> SumStep(f, h, t)]
    BY SumsExist
  <1>2. h[s] = SumStep(f, h, s)
    <2> HIDE DEF h
    <2> QED
      BY <1>1
  <1> QED
    BY <1>2 DEF SumStep

LEMMA SumsInt ==
    ASSUME NEW S, IsFiniteSet(S), NEW f, \A x \in S : f[x] \in Int
    PROVE  \A s \in SUBSET S : Sums(f, S)[s] \in Int
  <1> DEFINE P == {s \in SUBSET S : Sums(f, S)[s] \in Int}
  <1>1. ASSUME NEW s \in SUBSET S, \A x \in s : s \ {x} \in P
        PROVE  s \in P
    <2>1. s # {} => Chosen(s) \in s
      BY DEF Chosen
    <2> DEFINE h == Sums(f, S)
    <2>2. h[s] = IF s = {} THEN 0 ELSE f[Chosen(s)] + h[s \ {Chosen(s)}]
      BY SumsStep
    <2>3. s # {} => f[Chosen(s)] \in Int /\ h[s \ {Chosen(s)}] \in Int
      BY <1>1, <2>1
    <2>4. h[s] \in Int
      <3> HIDE DEF h
      <3> QED
        BY <2>2, <2>3
    <2> QED
      BY <2>4
  <1>2. SUBSET S \subseteq P
    <2> HIDE DEF P
    <2> QED
      BY <1>1, SubsetInduction
  <1> QED
    BY <1>2

\* The values on S of a sum over U do not depend on U, nor on f elsewhere.
LEMMA SumsAgree ==
    ASSUME NEW U, IsFiniteSet(U), NEW S \in SUBSET U, NEW f, NEW g,
           \A x \in S : f[x] = g[x]
    PROVE  \A s \in SUBSET S : Sums(f, U)[s] = Sums(g, S)[s]
  <1> DEFINE P == {s \in SUBSET S : Sums(f, U)[s] = Sums(g, S)[s]}
  <1>1. IsFiniteSet(S)
    BY FS_Subset
  <1>2. ASSUME NEW s \in SUBSET S, \A x \in s : s \ {x} \in P
        PROVE  s \in P
    <2>1. s # {} => Chosen(s) \in s
      BY DEF Chosen
    <2>2. Sums(f, U)[s] = IF s = {} THEN 0 ELSE f[Chosen(s)] + Sums(f, U)[s \ {Chosen(s)}]
      BY SumsStep
    <2>3. Sums(g, S)[s] = IF s = {} THEN 0 ELSE g[Chosen(s)] + Sums(g, S)[s \ {Chosen(s)}]
      BY <1>1, SumsStep
    <2> QED
      BY <1>2, <2>1, <2>2, <2>3
  <1>3. SUBSET S \subseteq P
    <2> HIDE DEF P
    <2> QED
      BY <1>1, <1>2, SubsetInduction
  <1> QED
    BY <1>3

\* Any element may be taken out first.
LEMMA SumsAnyOrder ==
    ASSUME NEW S, IsFiniteSet(S), NEW f, \A x \in S : f[x] \in Int
    PROVE  \A s \in SUBSET S : \A x \in s : Sums(f, S)[s] = f[x] + Sums(f, S)[s \ {x}]
  <1> DEFINE h == Sums(f, S)
             P == {s \in SUBSET S : \A x \in s : h[s] = f[x] + h[s \ {x}]}
  <1>1. ASSUME NEW s \in SUBSET S, \A x \in s : s \ {x} \in P
        PROVE  s \in P
    <2> SUFFICES ASSUME NEW x \in s
                 PROVE  h[s] = f[x] + h[s \ {x}]
      OBVIOUS
    <2> DEFINE c == Chosen(s)
    <2>1. c \in s
      BY DEF Chosen
    <2>2. h[s] = f[c] + h[s \ {c}]
      BY SumsStep
    <2>3. CASE x = c
      BY <2>2, <2>3
    <2>4. CASE x # c
      <3>1. h[s \ {c}] = f[x] + h[(s \ {c}) \ {x}]
        BY <1>1, <2>1, <2>4
      <3>2. h[s \ {x}] = f[c] + h[(s \ {x}) \ {c}]
        BY <1>1, <2>1, <2>4
      <3>3. (s \ {c}) \ {x} = (s \ {x}) \ {c}
        OBVIOUS
      <3>4. /\ h[(s \ {x}) \ {c}] \in Int /\ f[x] \in Int /\ f[c] \in Int
        BY <2>1, SumsInt
      <3> DEFINE a == h[s \ {c}]
                 b == h[s \ {x}]
                 e == h[(s \ {x}) \ {c}]
      <3>5. /\ h[s] = f[c] + a /\ a = f[x] + e /\ b = f[c] + e
            /\ e \in Int /\ f[x] \in Int /\ f[c] \in Int
        BY <2>2, <3>1, <3>2, <3>3, <3>4
      <3> HIDE DEF a, b, e, h, c
      <3>6. h[s] = f[x] + b
        BY <3>5
      <3> QED
        BY <3>6 DEF b
    <2> QED
      BY <2>3, <2>4
  <1>2. SUBSET S \subseteq P
    <2> HIDE DEF P
    <2> QED
      BY <1>1, SubsetInduction
  <1> QED
    BY <1>2

-----------------------------------------------------------------------------
(* What SumFunctionOnSet computes. *)

\* A sum of integers is one, and an empty sum is 0.
THEOREM SumType ==
    ASSUME NEW S, IsFiniteSet(S), NEW f, \A x \in S : f[x] \in Int
    PROVE  /\ SumFunctionOnSet(f, S) \in Int
           /\ S = {} => SumFunctionOnSet(f, S) = 0
  BY SumIsSums, SumsInt, SumsStep

\* A sum is that of all but one, and the one.
THEOREM SumRemove ==
    ASSUME NEW S, IsFiniteSet(S), NEW f, \A x \in S : f[x] \in Int, NEW x \in S
    PROVE  SumFunctionOnSet(f, S) = SumFunctionOnSet(f, S \ {x}) + f[x]
  <1>1. SumFunctionOnSet(f, S) = f[x] + Sums(f, S)[S \ {x}]
    BY SumIsSums, SumsAnyOrder
  <1>2. Sums(f, S)[S \ {x}] = SumFunctionOnSet(f, S \ {x})
    BY SumIsSums, SumsAgree
  <1>3. SumFunctionOnSet(f, S \ {x}) \in Int
    BY SumType, FS_Subset
  <1> QED
    BY <1>1, <1>2, <1>3

\* Functions that agree on a set have one sum over it.
THEOREM SumSame ==
    ASSUME NEW S, IsFiniteSet(S), NEW f, NEW g, \A x \in S : f[x] = g[x]
    PROVE  SumFunctionOnSet(f, S) = SumFunctionOnSet(g, S)
  <1>1. S \in SUBSET S
    OBVIOUS
  <1> QED
    BY <1>1, SumIsSums, SumsAgree

\* A sum over one element more is greater by its value.
THEOREM SumAdd ==
    ASSUME NEW S, IsFiniteSet(S), NEW f, NEW x, x \notin S,
           \A y \in S \cup {x} : f[y] \in Int
    PROVE  SumFunctionOnSet(f, S \cup {x}) = SumFunctionOnSet(f, S) + f[x]
  <1>1. IsFiniteSet(S \cup {x}) /\ (S \cup {x}) \ {x} = S
    BY FS_AddElement
  <1> QED
    BY <1>1, SumRemove

=============================================================================
