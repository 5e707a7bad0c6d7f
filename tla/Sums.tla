-------------------------------- MODULE Sums --------------------------------
(***************************************************************************)
(* Induction over the natural numbers, least and greatest elements, what   *)
(* SumFunctionOnSet of the community modules computes, and recursions that *)
(* end: the lemmas the proofs about several components rest on.            *)
(***************************************************************************)
EXTENDS Integers, FiniteSets, FiniteSetsExt, Functions, FiniteSetTheorems, WellFoundedInduction, TLAPS

-----------------------------------------------------------------------------
(* Every set of natural numbers that is not empty has a least element.     *)
LEMMA Least ==
  ASSUME NEW T, T \subseteq Nat, T # {}
  PROVE  \E m \in T : \A n \in T : m <= n
<1> DEFINE Less == OpToRel(<, Nat)
<1>1. IsWellFoundedOn(Less, Nat)
  BY NatLessThanWellFounded
<1>2. \A m, n \in Nat : m < n => <<m, n>> \in Less
  BY DEF OpToRel
<1> HIDE DEF Less
<1>3. PICK m \in T : \A n \in T : <<n, m>> \notin Less
  BY <1>1, WFMin
<1>4. ASSUME NEW n \in T, ~(m <= n) PROVE FALSE
  <2>1. n \in Nat /\ m \in Nat /\ n < m
    BY <1>4
  <2> QED BY <2>1, <1>2, <1>3
<1> QED BY <1>3, <1>4

(* A set that has 0, and n + 1 whenever it has n, has every number.        *)
LEMMA Induction ==
  ASSUME NEW T, 0 \in T, \A n \in T \cap Nat : n + 1 \in T
  PROVE  Nat \subseteq T
<1> SUFFICES ASSUME Nat \ T # {} PROVE FALSE
  OBVIOUS
<1>1. PICK m \in Nat \ T : \A n \in Nat \ T : m <= n
  BY Least
<1>2. m - 1 \in Nat /\ m - 1 \notin Nat \ T
  BY <1>1
<1> QED BY <1>1, <1>2

(* A set of numbers up to a bound has a greatest.                          *)
LEMMA Greatest ==
  ASSUME NEW n \in Nat, NEW T, T \subseteq 0 .. n, T # {}
  PROVE  \E m \in T : \A k \in T : k <= m
<1> DEFINE Gaps == {n - k : k \in T}
<1>1. Gaps \subseteq Nat /\ Gaps # {}
  <2>1. \A k \in T : k \in 0 .. n
    OBVIOUS
  <2>2. \A k \in T : n - k \in Nat
    BY <2>1
  <2> QED BY <2>2
<1>2. PICK g \in Gaps : \A h \in Gaps : g <= h
  BY <1>1, Least
<1>3. PICK m \in T : g = n - m
  OBVIOUS
<1>4. ASSUME NEW k \in T PROVE k <= m
  <2>1. n - k \in Gaps
    OBVIOUS
  <2>2. n - m <= n - k
    BY <1>2, <1>3, <2>1
  <2>3. k \in 0 .. n /\ m \in 0 .. n
    BY <1>3, <1>4
  <2> HIDE DEF Gaps
  <2> QED BY <2>2, <2>3
<1> QED BY <1>4

(* What Min and Max of FiniteSetsExt choose.                               *)
LEMMA MinIs ==
  ASSUME NEW T, T \subseteq Nat, T # {}
  PROVE  Min(T) \in T /\ \A n \in T : Min(T) <= n
BY Least DEF Min

LEMMA MaxIs ==
  ASSUME NEW n \in Nat, NEW T, T \subseteq 0 .. n, T # {}
  PROVE  Max(T) \in T /\ \A k \in T : k <= Max(T)
<1>1. \E m \in T : \A k \in T : m >= k
  <2>1. PICK m \in T : \A k \in T : k <= m
    BY Greatest
  <2>2. m \in Int /\ \A k \in T : k \in Int
    OBVIOUS
  <2> QED BY <2>1, <2>2
<1>2. Max(T) \in T /\ \A k \in T : Max(T) >= k
  BY <1>1 DEF Max
<1>3. \A k \in T : k \in Int
  OBVIOUS
<1> QED BY <1>2, <1>3

(* A property of finite sets that holds of the empty one, and of a set     *)
(* whenever it holds of the set less any one of its elements, holds of     *)
(* every finite set: F is the set of those it holds of.                    *)
LEMMA OneByOne ==
  ASSUME NEW S, IsFiniteSet(S), NEW F, {} \in F,
         \A R \in SUBSET S : (\A x \in R : R \ {x} \in F) => R \in F
  PROVE  SUBSET S \subseteq F
<1> DEFINE T == {n \in Nat : \A R \in SUBSET S : Cardinality(R) = n => R \in F}
<1>1. \A R \in SUBSET S : IsFiniteSet(R) /\ Cardinality(R) \in Nat
  BY FS_Subset, FS_CardinalityType
<1>2. 0 \in T
  BY <1>1, FS_EmptySet
<1>3. ASSUME NEW n \in T \cap Nat PROVE n + 1 \in T
  <2>1. SUFFICES ASSUME NEW R \in SUBSET S, Cardinality(R) = n + 1 PROVE R \in F
    OBVIOUS
  <2>2. ASSUME NEW x \in R PROVE R \ {x} \in F
    <3>1. Cardinality(R \ {x}) = n
      BY <1>1, <2>1, FS_RemoveElement
    <3> QED BY <3>1
  <2> QED BY <2>2
<1> HIDE DEF T
<1>4. Nat \subseteq T
  BY <1>2, <1>3, Induction
<1> QED BY <1>1, <1>4 DEF T

-----------------------------------------------------------------------------
(* Sums. *)

Iteration(f, S, g) ==
  g = [s \in SUBSET S |-> IF s = {} THEN 0
                          ELSE f[CHOOSE x \in s : TRUE] + g[s \ {CHOOSE x \in s : TRUE}]]

LEMMA SumIsIteration ==
  ASSUME NEW f, NEW S
  PROVE  SumFunctionOnSet(f, S) = (CHOOSE g : Iteration(f, S, g))[S]
BY DEF SumFunctionOnSet, FoldFunctionOnSet, MapThenFoldSet, Iteration

(* The iteration exists, so that the one chosen is one.                    *)
LEMMA IterationExists ==
  ASSUME NEW f, NEW S, IsFiniteSet(S)
  PROVE  \E g : Iteration(f, S, g)
<1> DEFINE c(s) == CHOOSE x \in s : TRUE
           Upto(n) == {s \in SUBSET S : Cardinality(s) <= n}
           Good(n, g) == g = [s \in Upto(n) |-> IF s = {} THEN 0 ELSE f[c(s)] + g[s \ {c(s)}]]
           T == {n \in Nat : \E g : Good(n, g)}
<1>1. \A s \in SUBSET S : IsFiniteSet(s) /\ Cardinality(s) \in Nat /\ Cardinality(s) <= Cardinality(S)
  BY FS_Subset, FS_CardinalityType
<1>2. \A n \in Nat : \A s \in Upto(n + 1) : s # {} => s \ {c(s)} \in Upto(n)
  <2>1. SUFFICES ASSUME NEW n \in Nat, NEW s \in Upto(n + 1), s # {}
                 PROVE  s \ {c(s)} \in Upto(n)
    OBVIOUS
  <2>2. c(s) \in s
    BY <2>1
  <2>3. Cardinality(s \ {c(s)}) = Cardinality(s) - 1
    BY <1>1, <2>2, FS_RemoveElement
  <2> QED BY <1>1, <2>1, <2>3
<1>3. 0 \in T
  <2> DEFINE g == [s \in Upto(0) |-> 0]
  <2>1. \A s \in Upto(0) : s = {}
    BY <1>1, FS_EmptySet
  <2>2. Good(0, g)
    BY <2>1
  <2> QED BY <2>2
<1>4. ASSUME NEW n \in T \cap Nat PROVE n + 1 \in T
  <2>1. PICK g : Good(n, g)
    BY <1>4
  <2> DEFINE h == [s \in Upto(n + 1) |-> IF s = {} THEN 0 ELSE f[c(s)] + g[s \ {c(s)}]]
  <2>2. \A s \in Upto(n) : g[s] = h[s]
    <3>1. Upto(n) \subseteq Upto(n + 1)
      BY <1>1
    <3> QED BY <2>1, <3>1
  <2>3. \A s \in Upto(n + 1) : s # {} => g[s \ {c(s)}] = h[s \ {c(s)}]
    <3> HIDE DEF c, Upto, h
    <3> QED BY <1>2, <1>4, <2>2
  <2>4. Good(n + 1, h)
    <3> HIDE DEF c, Upto
    <3>1. \A s \in Upto(n + 1) : h[s] = IF s = {} THEN 0 ELSE f[c(s)] + h[s \ {c(s)}]
      BY <2>3
    <3>2. h = [s \in Upto(n + 1) |-> IF s = {} THEN 0 ELSE f[c(s)] + h[s \ {c(s)}]]
      BY <3>1
    <3> QED BY <3>2
  <2> HIDE DEF Good, h
  <2> QED BY <1>4, <2>4
<1> HIDE DEF T
<1>5. Cardinality(S) \in T
  BY <1>1, <1>3, <1>4, Induction
<1>6. PICK g : Good(Cardinality(S), g)
  BY <1>5 DEF T
<1>7. Upto(Cardinality(S)) = SUBSET S
  BY <1>1
<1>8. Iteration(f, S, g)
  BY <1>6, <1>7 DEF Iteration
<1> QED BY <1>8

LEMMA SumUnfolds ==
  ASSUME NEW f, NEW S, IsFiniteSet(S)
  PROVE  LET g == CHOOSE h : Iteration(f, S, h)
         IN  /\ g[{}] = 0
             /\ \A s \in SUBSET S :
                  s # {} => g[s] = f[CHOOSE x \in s : TRUE] + g[s \ {CHOOSE x \in s : TRUE}]
<1> DEFINE g == CHOOSE h : Iteration(f, S, h)
<1>1. Iteration(f, S, g)
  BY IterationExists
<1> HIDE DEF g
<1>2. /\ g[{}] = 0
      /\ \A s \in SUBSET S :
           s # {} => g[s] = f[CHOOSE x \in s : TRUE] + g[s \ {CHOOSE x \in s : TRUE}]
  BY <1>1 DEF Iteration
<1> QED BY <1>2 DEF g

(* The sum over a subset does not depend on the set iterated over.         *)
LEMMA SumOfSubset ==
  ASSUME NEW f, NEW S, IsFiniteSet(S), NEW R \in SUBSET S
  PROVE  (CHOOSE g : Iteration(f, S, g))[R] = SumFunctionOnSet(f, R)
<1> DEFINE g == CHOOSE h : Iteration(f, S, h)
           h == CHOOSE k : Iteration(f, R, k)
           c(s) == CHOOSE x \in s : TRUE
           F == {s \in SUBSET R : g[s] = h[s]}
<1>1. IsFiniteSet(R)
  BY FS_Subset
<1>2. /\ g[{}] = 0
      /\ \A s \in SUBSET R : s # {} => g[s] = f[c(s)] + g[s \ {c(s)}]
  <2>1. /\ g[{}] = 0
        /\ \A s \in SUBSET S : s # {} => g[s] = f[c(s)] + g[s \ {c(s)}]
    BY SumUnfolds
  <2> HIDE DEF g, c
  <2> QED BY <2>1
<1>3. /\ h[{}] = 0
      /\ \A s \in SUBSET R : s # {} => h[s] = f[c(s)] + h[s \ {c(s)}]
  <2> HIDE DEF g
  <2>1. /\ h[{}] = 0
        /\ \A s \in SUBSET R : s # {} => h[s] = f[c(s)] + h[s \ {c(s)}]
    BY ONLY <1>1, SumUnfolds
  <2> QED BY <2>1
<1>4. \A s : s # {} => c(s) \in s
  OBVIOUS
<1> HIDE DEF g, h, c
<1>5. {} \in F
  <2>1. {} \in SUBSET R /\ g[{}] = h[{}]
    BY <1>2, <1>3
  <2> QED BY <2>1
<1>6. ASSUME NEW s \in SUBSET R, \A x \in s : s \ {x} \in F PROVE s \in F
  <2>1. CASE s = {}
    BY <1>5, <2>1
  <2>2. CASE s # {}
    <3>1. g[s \ {c(s)}] = h[s \ {c(s)}]
      BY <1>4, <1>6, <2>2
    <3> QED BY <1>2, <1>3, <2>2, <3>1
  <2> QED BY <2>1, <2>2
<1> HIDE DEF F
<1>7. SUBSET R \subseteq F
  BY <1>1, <1>5, <1>6, OneByOne
<1>8. R \in SUBSET R
  OBVIOUS
<1>9. g[R] = h[R]
  BY <1>7, <1>8 DEF F
<1>10. SumFunctionOnSet(f, R) = h[R]
  BY SumIsIteration DEF h
<1> QED BY <1>9, <1>10 DEF g

(* A sum over nothing, and over something: the element chosen first and    *)
(* the rest.                                                               *)
LEMMA SumEmpty ==
  ASSUME NEW f
  PROVE  SumFunctionOnSet(f, {}) = 0
BY FS_EmptySet, SumUnfolds, SumIsIteration

LEMMA SumChosen ==
  ASSUME NEW f, NEW S, IsFiniteSet(S), S # {}
  PROVE  LET x == CHOOSE y \in S : TRUE
         IN  x \in S /\ SumFunctionOnSet(f, S) = f[x] + SumFunctionOnSet(f, S \ {x})
<1> DEFINE x == CHOOSE y \in S : TRUE
           g == CHOOSE h : Iteration(f, S, h)
<1>1. x \in S
  OBVIOUS
<1>2. g[S] = f[x] + g[S \ {x}]
  BY SumUnfolds
<1>3. g[S] = SumFunctionOnSet(f, S) /\ g[S \ {x}] = SumFunctionOnSet(f, S \ {x})
  <2> HIDE DEF x
  <2> QED BY SumOfSubset
<1> QED BY <1>1, <1>2, <1>3

(* Sums of integers are integers, whichever element is added first.        *)
LEMMA SumType ==
  ASSUME NEW S, IsFiniteSet(S), NEW f, \A x \in S : f[x] \in Int
  PROVE  SumFunctionOnSet(f, S) \in Int
<1> DEFINE F == {R \in SUBSET S : SumFunctionOnSet(f, R) \in Int}
<1>1. {} \in F
  BY SumEmpty
<1>2. ASSUME NEW R \in SUBSET S, \A x \in R : R \ {x} \in F PROVE R \in F
  <2>1. CASE R = {}
    BY <1>1, <2>1
  <2>2. CASE R # {}
    <3>1. IsFiniteSet(R)
      BY FS_Subset
    <3>2. PICK x \in R : SumFunctionOnSet(f, R) = f[x] + SumFunctionOnSet(f, R \ {x})
      BY <2>2, <3>1, SumChosen
    <3>3. SumFunctionOnSet(f, R \ {x}) \in Int /\ f[x] \in Int
      BY <1>2
    <3> QED BY <3>2, <3>3
  <2> QED BY <2>1, <2>2
<1> HIDE DEF F
<1>3. SUBSET S \subseteq F
  BY <1>1, <1>2, OneByOne
<1>4. S \in F
  BY <1>3
<1> QED BY <1>4 DEF F

LEMMA SumTakesOut ==
  ASSUME NEW S, IsFiniteSet(S), NEW f, \A x \in S : f[x] \in Int, NEW y \in S
  PROVE  SumFunctionOnSet(f, S) = f[y] + SumFunctionOnSet(f, S \ {y})
<1> DEFINE Sum(R) == SumFunctionOnSet(f, R)
           F == {R \in SUBSET S : \A x \in R : Sum(R) = f[x] + Sum(R \ {x})}
<1>1. \A R \in SUBSET S : IsFiniteSet(R) /\ Sum(R) \in Int
  BY FS_Subset, SumType
<1>2. ASSUME NEW R \in SUBSET S, \A x \in R : R \ {x} \in F PROVE R \in F
  <2>1. SUFFICES ASSUME NEW x \in R PROVE Sum(R) = f[x] + Sum(R \ {x})
    OBVIOUS
  <2>2. PICK c \in R : Sum(R) = f[c] + Sum(R \ {c})
    BY <1>1, SumChosen
  <2>3. CASE c = x
    BY <2>2, <2>3
  <2>4. CASE c # x
    <3> DEFINE Q == R \ {c, x}
    <3>1. R \ {c} \in F /\ x \in R \ {c} /\ (R \ {c}) \ {x} = Q
      BY <1>2, <2>4
    <3>2. R \ {x} \in F /\ c \in R \ {x} /\ (R \ {x}) \ {c} = Q
      BY <1>2, <2>4
    <3>3. Sum(R \ {c}) = f[x] + Sum(Q) /\ Sum(R \ {x}) = f[c] + Sum(Q)
      BY <3>1, <3>2
    <3>4. {f[c], f[x], Sum(Q)} \subseteq Int
      BY <1>1
    <3> HIDE DEF Sum, Q
    <3> QED BY <2>2, <3>3, <3>4
  <2> QED BY <2>3, <2>4
<1>3. {} \in F
  OBVIOUS
<1> HIDE DEF F
<1>4. SUBSET S \subseteq F
  BY <1>2, <1>3, OneByOne
<1>5. S \in F
  BY <1>4
<1> QED BY <1>5 DEF F

(* Sums over what one function and another agree on are the same.          *)
LEMMA SumSame ==
  ASSUME NEW S, IsFiniteSet(S), NEW f, NEW g, \A x \in S : f[x] = g[x]
  PROVE  SumFunctionOnSet(f, S) = SumFunctionOnSet(g, S)
<1> DEFINE F == {R \in SUBSET S : SumFunctionOnSet(f, R) = SumFunctionOnSet(g, R)}
<1>1. {} \in F
  BY SumEmpty
<1>2. ASSUME NEW R \in SUBSET S, \A x \in R : R \ {x} \in F PROVE R \in F
  <2>1. CASE R = {}
    BY <1>1, <2>1
  <2>2. CASE R # {}
    <3> DEFINE x == CHOOSE y \in R : TRUE
    <3>1. IsFiniteSet(R) /\ x \in R
      BY <2>2, FS_Subset
    <3>2. /\ SumFunctionOnSet(f, R) = f[x] + SumFunctionOnSet(f, R \ {x})
          /\ SumFunctionOnSet(g, R) = g[x] + SumFunctionOnSet(g, R \ {x})
      BY <2>2, <3>1, SumChosen
    <3>3. SumFunctionOnSet(f, R \ {x}) = SumFunctionOnSet(g, R \ {x}) /\ f[x] = g[x]
      BY <1>2, <3>1
    <3> QED BY <3>2, <3>3
  <2> QED BY <2>1, <2>2
<1> HIDE DEF F
<1>3. SUBSET S \subseteq F
  BY <1>1, <1>2, OneByOne
<1>4. S \in F
  BY <1>3
<1> QED BY <1>4 DEF F

(* One element put into a set, and one value changed.                      *)
LEMMA SumPutsIn ==
  ASSUME NEW S, IsFiniteSet(S), NEW f, \A x \in S : f[x] \in Int,
         NEW y, y \notin S, f[y] \in Int
  PROVE  SumFunctionOnSet(f, S \cup {y}) = f[y] + SumFunctionOnSet(f, S)
<1>1. IsFiniteSet(S \cup {y}) /\ (S \cup {y}) \ {y} = S
  BY FS_AddElement
<1> QED BY <1>1, SumTakesOut

LEMMA SumChanges ==
  ASSUME NEW S, IsFiniteSet(S), NEW f, NEW g,
         \A x \in S : f[x] \in Int /\ g[x] \in Int,
         NEW y \in S, \A x \in S \ {y} : f[x] = g[x]
  PROVE  SumFunctionOnSet(g, S) = SumFunctionOnSet(f, S) - f[y] + g[y]
<1>1. IsFiniteSet(S \ {y})
  BY FS_Subset
<1>2. SumFunctionOnSet(f, S \ {y}) = SumFunctionOnSet(g, S \ {y})
  BY <1>1, SumSame
<1>3. /\ SumFunctionOnSet(f, S) = f[y] + SumFunctionOnSet(f, S \ {y})
      /\ SumFunctionOnSet(g, S) = g[y] + SumFunctionOnSet(g, S \ {y})
  BY SumTakesOut
<1>4. SumFunctionOnSet(f, S \ {y}) \in Int
  BY <1>1, SumType
<1> QED BY <1>2, <1>3, <1>4

(* Where a function is nowhere less than another, neither is its sum.      *)
LEMMA SumGrows ==
  ASSUME NEW S, IsFiniteSet(S), NEW f, NEW g,
         \A x \in S : f[x] \in Int /\ g[x] \in Int /\ f[x] <= g[x]
  PROVE  SumFunctionOnSet(f, S) <= SumFunctionOnSet(g, S)
<1> DEFINE F == {R \in SUBSET S : SumFunctionOnSet(f, R) <= SumFunctionOnSet(g, R)}
<1>1. {} \in F
  BY SumEmpty
<1>2. ASSUME NEW R \in SUBSET S, \A x \in R : R \ {x} \in F PROVE R \in F
  <2>1. CASE R = {}
    BY <1>1, <2>1
  <2>2. CASE R # {}
    <3>1. IsFiniteSet(R)
      BY FS_Subset
    <3>2. PICK x \in R : TRUE
      BY <2>2
    <3>3. /\ SumFunctionOnSet(f, R) = f[x] + SumFunctionOnSet(f, R \ {x})
          /\ SumFunctionOnSet(g, R) = g[x] + SumFunctionOnSet(g, R \ {x})
      BY <3>1, SumTakesOut
    <3>4. IsFiniteSet(R \ {x})
      BY <3>1, FS_Subset
    <3>5. {SumFunctionOnSet(f, R \ {x}), SumFunctionOnSet(g, R \ {x})} \subseteq Int
      BY <3>4, SumType
    <3>6. SumFunctionOnSet(f, R \ {x}) <= SumFunctionOnSet(g, R \ {x})
      BY <1>2
    <3> QED BY <3>3, <3>5, <3>6
  <2> QED BY <2>1, <2>2
<1> HIDE DEF F
<1>3. SUBSET S \subseteq F
  BY <1>1, <1>2, OneByOne
<1>4. S \in F
  BY <1>3
<1> QED BY <1>4 DEF F

(* A sum of natural numbers is one, and is at least each of its parts.     *)
LEMMA SumOfNaturals ==
  ASSUME NEW S, IsFiniteSet(S), NEW f, \A x \in S : f[x] \in Nat
  PROVE  /\ SumFunctionOnSet(f, S) \in Nat
         /\ \A y \in S : f[y] <= SumFunctionOnSet(f, S)
<1> DEFINE F == {R \in SUBSET S : SumFunctionOnSet(f, R) >= 0}
<1>0. \A R \in SUBSET S : IsFiniteSet(R) /\ SumFunctionOnSet(f, R) \in Int
  BY FS_Subset, SumType
<1>1. {} \in F
  BY SumEmpty
<1>2. ASSUME NEW R \in SUBSET S, \A x \in R : R \ {x} \in F PROVE R \in F
  <2>1. CASE R = {}
    BY <1>1, <2>1
  <2>2. CASE R # {}
    <3>1. PICK x \in R : TRUE
      BY <2>2
    <3>2. SumFunctionOnSet(f, R) = f[x] + SumFunctionOnSet(f, R \ {x})
      BY <1>0, SumTakesOut
    <3>3. f[x] \in Nat /\ SumFunctionOnSet(f, R \ {x}) >= 0 /\ SumFunctionOnSet(f, R \ {x}) \in Int
      BY <1>0, <1>2
    <3> QED BY <3>2, <3>3
  <2> QED BY <2>1, <2>2
<1> HIDE DEF F
<1>3. SUBSET S \subseteq F
  BY <1>1, <1>2, OneByOne
<1>4. \A R \in SUBSET S : SumFunctionOnSet(f, R) \in Nat
  BY <1>0, <1>3 DEF F
<1>5. ASSUME NEW y \in S PROVE f[y] <= SumFunctionOnSet(f, S)
  <2>1. SumFunctionOnSet(f, S) = f[y] + SumFunctionOnSet(f, S \ {y})
    BY SumTakesOut
  <2>2. f[y] \in Nat /\ SumFunctionOnSet(f, S \ {y}) \in Nat
    BY <1>4
  <2> QED BY <2>1, <2>2
<1> QED BY <1>4, <1>5

(* Where everything is nothing, so is the sum.                             *)
LEMMA SumOfNothing ==
  ASSUME NEW S, IsFiniteSet(S), NEW f, \A x \in S : f[x] = 0
  PROVE  SumFunctionOnSet(f, S) = 0
<1> DEFINE F == {R \in SUBSET S : SumFunctionOnSet(f, R) = 0}
<1>1. {} \in F
  BY SumEmpty
<1>2. ASSUME NEW R \in SUBSET S, \A x \in R : R \ {x} \in F PROVE R \in F
  <2>1. CASE R = {}
    BY <1>1, <2>1
  <2>2. CASE R # {}
    <3>1. IsFiniteSet(R)
      BY FS_Subset
    <3>2. PICK x \in R : SumFunctionOnSet(f, R) = f[x] + SumFunctionOnSet(f, R \ {x})
      BY <2>2, <3>1, SumChosen
    <3>3. SumFunctionOnSet(f, R \ {x}) = 0 /\ f[x] = 0
      BY <1>2
    <3> QED BY <3>2, <3>3
  <2> QED BY <2>1, <2>2
<1> HIDE DEF F
<1>3. SUBSET S \subseteq F
  BY <1>1, <1>2, OneByOne
<1>4. S \in F
  BY <1>3
<1> QED BY <1>4 DEF F

LEMMA MaxOfTwo ==
  ASSUME NEW m \in Int, NEW n \in Int
  PROVE  Max({m, n}) = IF m >= n THEN m ELSE n
<1> DEFINE k == IF m >= n THEN m ELSE n
<1>1. k \in {m, n} /\ \A y \in {m, n} : k >= y
  OBVIOUS
<1>2. Max({m, n}) \in {m, n} /\ \A y \in {m, n} : Max({m, n}) >= y
  BY <1>1 DEF Max
<1> QED BY <1>2

LEMMA MinOfTwo ==
  ASSUME NEW m \in Int, NEW n \in Int
  PROVE  Min({m, n}) = IF m <= n THEN m ELSE n
<1> DEFINE k == IF m <= n THEN m ELSE n
<1>1. k \in {m, n} /\ \A y \in {m, n} : k <= y
  OBVIOUS
<1>2. Min({m, n}) \in {m, n} /\ \A y \in {m, n} : Min({m, n}) <= y
  BY <1>1 DEF Min
<1> QED BY <1>2

(* A finite set of numbers has an element of every rank.                   *)
LEMMA Ranked ==
  ASSUME NEW S, S \subseteq Nat, IsFiniteSet(S), NEW n \in Nat, n < Cardinality(S)
  PROVE  \E i \in S : Cardinality({j \in S : j < i}) = n
<1> DEFINE below(i) == {j \in S : j < i}
           T == {k \in Nat : k < Cardinality(S) => \E i \in S : Cardinality(below(i)) = k}
<1>0. Cardinality(S) \in Nat
  BY FS_CardinalityType
<1>1. 0 \in T
  <2> SUFFICES ASSUME 0 < Cardinality(S) PROVE \E i \in S : Cardinality(below(i)) = 0
    OBVIOUS
  <2>1. S # {}
    BY FS_EmptySet
  <2>2. PICK m \in S : \A j \in S : m <= j
    BY <2>1, Least
  <2>5. \A j \in S : ~(j < m)
    BY <2>2
  <2>3. below(m) = {}
    BY <2>5, Zenon
  <2>4. Cardinality(below(m)) = 0
    BY <2>3, FS_EmptySet
  <2> QED BY <2>4
<1>2. ASSUME NEW k \in T \cap Nat PROVE k + 1 \in T
  <2> SUFFICES ASSUME k + 1 < Cardinality(S)
               PROVE  \E i \in S : Cardinality(below(i)) = k + 1
    BY <1>2
  <2>1. PICK i \in S : Cardinality(below(i)) = k
    BY <1>0, <1>2
  <2> DEFINE upto == below(i) \cup {i}
             rest == S \ upto
  <2>2. IsFiniteSet(below(i)) /\ i \notin below(i)
    <3>1. below(i) \subseteq S
      OBVIOUS
    <3> QED BY <3>1, FS_Subset
  <2>3. Cardinality(upto) = k + 1
    BY <1>2, <2>1, <2>2, FS_AddElement
  <2>4. rest # {} /\ rest \subseteq Nat
    <3>1. S # upto
      BY <1>0, <2>3
    <3>2. upto \subseteq S
      OBVIOUS
    <3> QED BY <3>1, <3>2
  <2>5. PICK m \in rest : \A j \in rest : m <= j
    BY <2>4, Least
  <2>6. below(m) = upto
    <3>1. \A j \in S : j < m => j \in upto
      BY <2>5
    <3>2. i < m /\ m \in S /\ i \in S
      BY <2>5
    <3>3. \A j \in upto : j < m /\ j \in S
      BY <3>2
    <3> QED BY <3>1, <3>3
  <2> HIDE DEF upto
  <2> QED BY <2>3, <2>5, <2>6
<1> HIDE DEF T
<1>3. n \in T
  BY <1>1, <1>2, Induction
<1> QED BY <1>3 DEF T


(* A sum of sums.                                                          *)
LEMMA SumPlus ==
  ASSUME NEW S, IsFiniteSet(S), NEW f, NEW g, NEW h,
         \A x \in S : g[x] \in Int /\ h[x] \in Int /\ f[x] = g[x] + h[x]
  PROVE  SumFunctionOnSet(f, S) = SumFunctionOnSet(g, S) + SumFunctionOnSet(h, S)
<1> DEFINE F == {R \in SUBSET S : SumFunctionOnSet(f, R) = SumFunctionOnSet(g, R) + SumFunctionOnSet(h, R)}
<1>0. \A R \in SUBSET S : IsFiniteSet(R) /\ SumFunctionOnSet(g, R) \in Int /\ SumFunctionOnSet(h, R) \in Int
  BY FS_Subset, SumType
<1>1. {} \in F
  <2>1. /\ SumFunctionOnSet(f, {}) = 0 /\ SumFunctionOnSet(g, {}) = 0 /\ SumFunctionOnSet(h, {}) = 0
    BY SumEmpty
  <2> QED BY <2>1
<1>2. ASSUME NEW R \in SUBSET S, \A x \in R : R \ {x} \in F PROVE R \in F
  <2>1. CASE R = {}
    BY <1>1, <2>1
  <2>2. CASE R # {}
    <3>1. PICK x \in R : TRUE
      BY <2>2
    <3>2. /\ SumFunctionOnSet(f, R) = f[x] + SumFunctionOnSet(f, R \ {x})
          /\ SumFunctionOnSet(g, R) = g[x] + SumFunctionOnSet(g, R \ {x})
          /\ SumFunctionOnSet(h, R) = h[x] + SumFunctionOnSet(h, R \ {x})
      <4>1. /\ IsFiniteSet(R)
            /\ \A y \in R : f[y] \in Int /\ g[y] \in Int /\ h[y] \in Int
        BY <1>0
      <4>2. SumFunctionOnSet(f, R) = f[x] + SumFunctionOnSet(f, R \ {x})
        BY <4>1, SumTakesOut
      <4>3. SumFunctionOnSet(g, R) = g[x] + SumFunctionOnSet(g, R \ {x})
        BY <4>1, SumTakesOut
      <4>4. SumFunctionOnSet(h, R) = h[x] + SumFunctionOnSet(h, R \ {x})
        BY <4>1, SumTakesOut
      <4> QED BY <4>2, <4>3, <4>4
    <3>3. SumFunctionOnSet(f, R \ {x}) = SumFunctionOnSet(g, R \ {x}) + SumFunctionOnSet(h, R \ {x})
      BY <1>2
    <3>4. /\ SumFunctionOnSet(g, R \ {x}) \in Int /\ SumFunctionOnSet(h, R \ {x}) \in Int
          /\ g[x] \in Int /\ h[x] \in Int /\ f[x] = g[x] + h[x]
      BY <1>0
    <3> QED BY <3>2, <3>3, <3>4
  <2> QED BY <2>1, <2>2
<1> HIDE DEF F
<1>3. SUBSET S \subseteq F
  BY <1>1, <1>2, OneByOne
<1>4. S \in F
  BY <1>3
<1> QED BY <1>4 DEF F

(* What is nothing may be left out.                                        *)
LEMMA SumOfPart ==
  ASSUME NEW S, IsFiniteSet(S), NEW R \in SUBSET S, NEW f, NEW g,
         \A x \in S : f[x] \in Int,
         \A x \in R : f[x] = g[x], \A x \in S \ R : f[x] = 0
  PROVE  SumFunctionOnSet(f, S) = SumFunctionOnSet(g, R)
<1> DEFINE F == {Q \in SUBSET S : SumFunctionOnSet(f, Q) = SumFunctionOnSet(g, Q \cap R)}
<1>0. \A Q \in SUBSET S : IsFiniteSet(Q) /\ SumFunctionOnSet(f, Q) \in Int
  BY FS_Subset, SumType
<1>1. {} \in F
  <2>1. SumFunctionOnSet(f, {}) = 0 /\ SumFunctionOnSet(g, {}) = 0
    BY SumEmpty
  <2>2. {} \cap R = {}
    OBVIOUS
  <2> QED BY <2>1, <2>2
<1>2. ASSUME NEW Q \in SUBSET S, \A x \in Q : Q \ {x} \in F PROVE Q \in F
  <2>1. CASE Q = {}
    BY <1>1, <2>1
  <2>2. CASE Q # {}
    <3>1. PICK x \in Q : TRUE
      BY <2>2
    <3>2. SumFunctionOnSet(f, Q) = f[x] + SumFunctionOnSet(f, Q \ {x})
      <4>1. IsFiniteSet(Q) /\ \A y \in Q : f[y] \in Int
        BY <1>0
      <4> QED BY <4>1, SumTakesOut
    <3>3. SumFunctionOnSet(f, Q \ {x}) = SumFunctionOnSet(g, (Q \ {x}) \cap R)
      BY <1>2
    <3>4. CASE x \in R
      <4>1. (Q \ {x}) \cap R = (Q \cap R) \ {x} /\ x \in Q \cap R
        BY <3>4
      <4>2. IsFiniteSet(Q \cap R) /\ \A y \in Q \cap R : g[y] \in Int
        BY <1>0
      <4>3. SumFunctionOnSet(g, Q \cap R) = g[x] + SumFunctionOnSet(g, (Q \cap R) \ {x})
        BY <4>1, <4>2, SumTakesOut
      <4>4. f[x] = g[x]
        BY <3>4
      <4> QED BY <3>2, <3>3, <4>1, <4>3, <4>4
    <3>5. CASE x \notin R
      <4>1. (Q \ {x}) \cap R = Q \cap R /\ f[x] = 0
        BY <3>5
      <4>2. SumFunctionOnSet(f, Q \ {x}) \in Int
        BY <1>0
      <4>3. SumFunctionOnSet(f, Q) = 0 + SumFunctionOnSet(f, Q \ {x})
        BY <3>2, <4>1
      <4>4. SumFunctionOnSet(f, Q) = SumFunctionOnSet(f, Q \ {x})
        BY <4>2, <4>3
      <4> QED BY <3>3, <4>1, <4>4
    <3> QED BY <3>4, <3>5
  <2> QED BY <2>1, <2>2
<1> HIDE DEF F
<1>3. SUBSET S \subseteq F
  BY <1>1, <1>2, OneByOne
<1>4. S \in F /\ S \cap R = R
  BY <1>3
<1> QED BY <1>4 DEF F


(* Natural numbers add up to no more over a part.                          *)
LEMMA SumOfFewer ==
  ASSUME NEW S, IsFiniteSet(S), NEW R \in SUBSET S, NEW f, \A x \in S : f[x] \in Nat
  PROVE  SumFunctionOnSet(f, R) <= SumFunctionOnSet(f, S)
<1> DEFINE part == [x \in S |-> IF x \in R THEN f[x] ELSE 0]
<1>1. \A x \in S : part[x] \in Int /\ f[x] \in Int /\ part[x] <= f[x]
  OBVIOUS
<1>2. \A x \in S : part[x] \in Int
  BY <1>1
<1>3. (\A x \in R : part[x] = f[x]) /\ (\A x \in S \ R : part[x] = 0)
  OBVIOUS
<1> HIDE DEF part
<1>4. SumFunctionOnSet(part, S) = SumFunctionOnSet(f, R)
  BY <1>2, <1>3, SumOfPart
<1>5. SumFunctionOnSet(part, S) <= SumFunctionOnSet(f, S)
  BY <1>1, SumGrows
<1> QED BY <1>4, <1>5

-----------------------------------------------------------------------------
(* A recursion along which a number only falls: r takes p through `next'    *)
(* until it is one where it stops.                                          *)
Recurs(r, S, stop, next) == r = [p \in S |-> IF p \in stop THEN p ELSE r[next[p]]]
Descends(S, m, stop, next) ==
  /\ \A p \in S : m[p] \in Nat
  /\ \A p \in S \ stop : next[p] \in S /\ m[next[p]] < m[p]

LEMMA RecursionExists ==
  ASSUME NEW S, NEW m, NEW stop, NEW next, Descends(S, m, stop, next)
  PROVE  \E r : Recurs(r, S, stop, next)
<1> DEFINE Upto(n) == {p \in S : m[p] <= n}
           Good(n, g) == Recurs(g, Upto(n), stop, next)
           T == {n \in Nat : \E g : Good(n, g)}
           U == {n \in Nat : \A p \in Upto(n) : \A i, j \in Nat : \A g, h :
                   Good(i, g) /\ Good(j, h) /\ p \in Upto(i) /\ p \in Upto(j) => g[p] = h[p]}
<1>1. \A n \in Nat : \A p \in Upto(n + 1) \ stop : next[p] \in Upto(n)
  BY DEF Descends
<1>2. \A n \in Nat : \A p \in Upto(n) \ stop : n - 1 \in Nat /\ next[p] \in Upto(n - 1)
  BY DEF Descends
<1>3. \A n \in Nat : \A p \in Upto(n) \ stop : next[p] \in Upto(n)
  BY DEF Descends
<1>4. 0 \in T
  <2> DEFINE g == [p \in Upto(0) |-> p]
  <2>1. \A p \in Upto(0) : p \in stop
    BY <1>2
  <2>2. Good(0, g)
    BY <2>1 DEF Recurs
  <2> QED BY <2>2
<1>5. \A n \in Nat : \A g : Good(n, g) =>
        \A p \in Upto(n) : g[p] = IF p \in stop THEN p ELSE g[next[p]]
  BY DEF Recurs
<1>6. ASSUME NEW n \in T \cap Nat PROVE n + 1 \in T
  <2>1. PICK g : Good(n, g)
    BY <1>6
  <2> DEFINE h == [p \in Upto(n + 1) |-> IF p \in stop THEN p ELSE g[next[p]]]
  <2>2. \A p \in Upto(n) : g[p] = h[p]
    <3>1. Upto(n) \subseteq Upto(n + 1)
      BY DEF Descends
    <3>2. \A p \in Upto(n) : g[p] = IF p \in stop THEN p ELSE g[next[p]]
      BY <1>5, <1>6, <2>1
    <3> HIDE DEF Upto, Good
    <3> QED BY <3>1, <3>2
  <2>3. \A p \in Upto(n + 1) : p \notin stop => g[next[p]] = h[next[p]]
    <3> HIDE DEF Upto, h
    <3> QED BY <1>1, <1>6, <2>2
  <2>4. Good(n + 1, h)
    <3> HIDE DEF Upto
    <3>1. \A p \in Upto(n + 1) : h[p] = IF p \in stop THEN p ELSE h[next[p]]
      BY <2>3
    <3>2. h = [p \in Upto(n + 1) |-> IF p \in stop THEN p ELSE h[next[p]]]
      BY <3>1
    <3> QED BY <3>2 DEF Recurs
  <2> HIDE DEF Good, h
  <2> QED BY <1>6, <2>4
<1>7. 0 \in U
  <2>1. \A p \in Upto(0) : p \in stop
    BY <1>2
  <2> HIDE DEF Upto, Good
  <2> QED BY <1>5, <2>1
<1>8. ASSUME NEW n \in U \cap Nat PROVE n + 1 \in U
  <2>1. SUFFICES ASSUME NEW p \in Upto(n + 1), NEW i \in Nat, NEW j \in Nat, NEW g, NEW h,
                        Good(i, g), Good(j, h), p \in Upto(i), p \in Upto(j)
                 PROVE  g[p] = h[p]
    <3> HIDE DEF Upto, Good
    <3> QED BY <1>8
  <2>2. /\ g[p] = IF p \in stop THEN p ELSE g[next[p]]
        /\ h[p] = IF p \in stop THEN p ELSE h[next[p]]
    <3> HIDE DEF Upto, Good
    <3> QED BY <1>5, <2>1
  <2>3. p \notin stop => next[p] \in Upto(n) /\ next[p] \in Upto(i) /\ next[p] \in Upto(j)
    <3> HIDE DEF Upto
    <3> QED BY <1>1, <1>3, <1>8, <2>1
  <2>4. p \notin stop => g[next[p]] = h[next[p]]
    <3> HIDE DEF Upto, Good
    <3> QED BY <1>8, <2>1, <2>3
  <2> QED BY <2>2, <2>4
<1> HIDE DEF T, U
<1>9. Nat \subseteq T
  BY <1>4, <1>6, Induction
<1>10. Nat \subseteq U
  BY <1>7, <1>8, Induction
<1> DEFINE G(n) == CHOOSE g : Good(n, g)
           r == [p \in S |-> G(m[p])[p]]
<1>11. \A n \in Nat : Good(n, G(n))
  <2> HIDE DEF Good
  <2> QED BY <1>9 DEF T
<1>12. \A p \in S : m[p] \in Nat /\ p \in Upto(m[p])
  BY DEF Descends
<1>13. \A p \in S \ stop : next[p] \in S /\ next[p] \in Upto(m[p])
  BY DEF Descends
<1> HIDE DEF Upto, Good, G
<1>14. \A p \in S : r[p] = IF p \in stop THEN p ELSE r[next[p]]
  <2>1. SUFFICES ASSUME NEW p \in S PROVE r[p] = IF p \in stop THEN p ELSE r[next[p]]
    BY Zenon
  <2>2. G(m[p])[p] = IF p \in stop THEN p ELSE G(m[p])[next[p]]
    BY <1>5, <1>11, <1>12
  <2>3. ASSUME p \notin stop PROVE G(m[p])[next[p]] = G(m[next[p]])[next[p]]
    <3> DEFINE q == next[p]
    <3>1. /\ q \in S /\ q \in Upto(m[p]) /\ q \in Upto(m[q])
          /\ m[p] \in Nat /\ m[q] \in Nat
      BY <1>12, <1>13, <2>3
    <3>2. Good(m[p], G(m[p])) /\ Good(m[q], G(m[q]))
      BY <1>11, <3>1
    <3>3. \A i, j \in Nat : \A g, h :
            Good(i, g) /\ Good(j, h) /\ q \in Upto(i) /\ q \in Upto(j) => g[q] = h[q]
      BY <1>10, <3>1 DEF U
    <3> HIDE DEF q
    <3>4. G(m[p])[q] = G(m[q])[q]
      BY <3>1, <3>2, <3>3
    <3> QED BY <3>4 DEF q
  <2>4. p \notin stop => r[next[p]] = G(m[next[p]])[next[p]]
    BY <1>13
  <2> QED BY <2>2, <2>3, <2>4
<1>15. r = [p \in S |-> r[p]]
  OBVIOUS
<1> HIDE DEF r
<1>16. r = [p \in S |-> IF p \in stop THEN p ELSE r[next[p]]]
  BY <1>14, <1>15
<1> QED BY <1>16 DEF Recurs

(* Where it stops has what every step keeps.                                *)
LEMMA RecursionKeeps ==
  ASSUME NEW S, NEW m, NEW stop, NEW next, Descends(S, m, stop, next),
         NEW r, Recurs(r, S, stop, next),
         NEW Q, Q \subseteq S, \A p \in Q \ stop : next[p] \in Q
  PROVE  \A p \in Q : r[p] \in Q /\ r[p] \in stop
<1> DEFINE T == {n \in Nat : \A p \in Q : m[p] <= n => r[p] \in Q /\ r[p] \in stop}
<1>1. \A p \in Q : r[p] = IF p \in stop THEN p ELSE r[next[p]]
  BY DEF Recurs
<1>2. \A p \in Q : m[p] \in Nat
  BY DEF Descends
<1>3. \A p \in Q \ stop : next[p] \in Q /\ m[next[p]] \in Nat /\ m[next[p]] < m[p]
  BY DEF Descends
<1>4. 0 \in T
  BY <1>1, <1>2, <1>3
<1>5. ASSUME NEW n \in T \cap Nat PROVE n + 1 \in T
  <2>1. ASSUME NEW p \in Q, m[p] <= n + 1 PROVE r[p] \in Q /\ r[p] \in stop
    <3>1. CASE p \in stop
      BY <1>1, <3>1
    <3>2. CASE p \notin stop
      <4>1. next[p] \in Q /\ m[next[p]] <= n
        BY <1>2, <1>3, <1>5, <2>1, <3>2
      <4> QED BY <1>1, <1>5, <3>2, <4>1
    <3> QED BY <3>1, <3>2
  <2> QED BY <2>1
<1> HIDE DEF T
<1>6. Nat \subseteq T
  BY <1>4, <1>5, Induction
<1>7. ASSUME NEW p \in Q PROVE r[p] \in Q /\ r[p] \in stop
  <2>1. m[p] \in T /\ m[p] <= m[p]
    BY <1>2, <1>6
  <2> QED BY <2>1 DEF T
<1> QED BY <1>7

(* A finite set of integers that is not empty has a least.                  *)
LEMMA LeastInteger ==
  ASSUME NEW S, IsFiniteSet(S), S \subseteq Int, S # {}
  PROVE  Min(S) \in S /\ \A n \in S : Min(S) <= n
<1> DEFINE F == {R \in SUBSET S : R = {} \/ \E m \in R : \A n \in R : m <= n}
<1>1. {} \in F
  OBVIOUS
<1>2. ASSUME NEW R \in SUBSET S, \A x \in R : R \ {x} \in F PROVE R \in F
  <2>1. CASE R = {}
    BY <1>1, <2>1
  <2>2. CASE R # {}
    <3>1. PICK x \in R : TRUE
      BY <2>2
    <3>2. R \ {x} = {} \/ \E m \in R \ {x} : \A n \in R \ {x} : m <= n
      BY <1>2, <3>1
    <3>3. CASE R \ {x} = {}
      <4>1. \A n \in R : x <= n
        BY <3>1, <3>3
      <4> QED BY <3>1, <4>1
    <3>4. CASE \E m \in R \ {x} : \A n \in R \ {x} : m <= n
      <4>1. PICK m \in R \ {x} : \A n \in R \ {x} : m <= n
        BY <3>4
      <4> DEFINE k == IF x <= m THEN x ELSE m
      <4>2. k \in R /\ \A n \in R : k <= n
        BY <3>1, <4>1
      <4> HIDE DEF k
      <4> QED BY <4>2
    <3> QED BY <3>2, <3>3, <3>4
  <2> QED BY <2>1, <2>2
<1> HIDE DEF F
<1>3. SUBSET S \subseteq F
  BY <1>1, <1>2, OneByOne
<1>4. \E m \in S : \A n \in S : m <= n
  BY <1>3 DEF F
<1> QED BY <1>4 DEF Min
=============================================================================
