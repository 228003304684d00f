--------------------------------- MODULE Sums ---------------------------------
(***************************************************************************)
(* What several proofs need to know of numbers and finite sums.  The       *)
(* models add amounts with the folds of the community modules: the value   *)
(* of a fold is a function on the subsets of a set, which chooses the      *)
(* order of the additions.  The lemmas say that the order does not matter. *)
(***************************************************************************)
EXTENDS FiniteSetsExt, FiniteSetTheorems, TLAPS

\* A set of naturals has a least element.
LEMMA LeastNatural ==
    ASSUME NEW T, T \subseteq Nat, T # {}
    PROVE  \E x \in T : \A y \in T : x <= y
<1>1. PICK x \in T : \A y \in T : <<y, x>> \notin OpToRel(<, Nat)
  BY NatLessThanWellFounded, WFMin
<1>2. ASSUME NEW y \in T PROVE x <= y
  <2>1. <<y, x>> \in Nat \X Nat
    OBVIOUS
  <2> QED
    BY <1>1, <2>1 DEF OpToRel
<1> QED
  BY <1>2

\* The least of two numbers.
LEMMA MinOfTwo ==
    ASSUME NEW a \in Int, NEW b \in Int
    PROVE  /\ Min({a, b}) \in Int /\ Min({a, b}) \in {a, b}
           /\ Min({a, b}) <= a /\ Min({a, b}) <= b
<1>1. \E x \in {a, b} : \A y \in {a, b} : x <= y
    <2>1. CASE a <= b
      BY <2>1
    <2>2. CASE b <= a
      BY <2>2
    <2> QED
      BY <2>1, <2>2
<1>2. Min({a, b}) \in {a, b} /\ \A y \in {a, b} : Min({a, b}) <= y
    BY <1>1 DEF Min
<1> QED
    BY <1>2

\* The elements kept of a set that may be too large: all of them, or the limit.
LEMMA KeptOfMany ==
    ASSUME NEW D, IsFiniteSet(D), NEW S \in SUBSET D, NEW limit \in Nat,
           Cardinality(S) = Min({limit, Cardinality(D)})
    PROVE  /\ S # D => Cardinality(S) = limit
           /\ Cardinality(D) <= limit => S = D
<1>1. /\ IsFiniteSet(S) /\ Cardinality(S) \in Nat /\ Cardinality(D) \in Nat
      /\ Cardinality(D) = Cardinality(S) => D = S
    BY FS_Subset, FS_CardinalityType
<1>2. /\ Min({limit, Cardinality(D)}) \in {limit, Cardinality(D)}
      /\ Min({limit, Cardinality(D)}) <= Cardinality(D)
      /\ Min({limit, Cardinality(D)}) <= limit
  <2>1. limit \in Int /\ Cardinality(D) \in Int
      BY <1>1
  <2> QED
      BY ONLY <2>1, MinOfTwo
<1> QED
    BY <1>1, <1>2

-----------------------------------------------------------------------------
(* Folds.                                                                  *)

Chosen(s) == CHOOSE x \in s : TRUE

\* g is the function a fold of f over E evaluates: the sum over each subset of E.
SumsOf(f, E, g) ==
    g = [s \in SUBSET E |-> IF s = {} THEN 0 ELSE f[Chosen(s)] + g[s \ {Chosen(s)}]]

\* The value of such a fold.
SumOf(f, E) == (CHOOSE g : SumsOf(f, E, g))[E]

-----------------------------------------------------------------------------
(* Induction on the subsets of a finite set, without a predicate for a     *)
(* parameter.                                                              *)

\* Among finite sets there is always one that contains no other.
LEMMA SmallestSet ==
    ASSUME NEW E, IsFiniteSet(E), NEW T, T \subseteq SUBSET E, T # {}
    PROVE  \E F \in T : \A G \in T : G \subseteq F => G = F
<1>1. IsWellFoundedOn(StrictSubsetOrdering(E), SUBSET E)
    BY FS_StrictSubsetOrderingWellFounded, FS_FiniteSubsetsOfFinite
<1>2. PICK F \in T : \A G \in T : <<G, F>> \notin StrictSubsetOrdering(E)
    BY <1>1, WFMin
<1>3. ASSUME NEW G \in T, G \subseteq F PROVE G = F
  <2>1. <<G, F>> \in (SUBSET E) \X (SUBSET E)
      OBVIOUS
  <2> QED
      BY <1>2, <1>3, <2>1 DEF StrictSubsetOrdering
<1> QED
    BY <1>3

\* What holds of a set when it holds of its strict subsets holds of all.
LEMMA SubsetInduction ==
    ASSUME NEW E, IsFiniteSet(E), NEW S,
           \A F \in SUBSET E : (\A G \in SUBSET F : G # F => G \in S) => F \in S
    PROVE  SUBSET E \subseteq S
<1> DEFINE T == (SUBSET E) \ S
<1> SUFFICES ASSUME T # {} PROVE FALSE
    OBVIOUS
<1>1. T \subseteq SUBSET E
    OBVIOUS
<1> HIDE DEF T
<1>2. PICK F \in T : \A G \in T : G \subseteq F => G = F
    BY <1>1, SmallestSet
<1>3. ASSUME NEW G \in SUBSET F, G # F PROVE G \in S
    BY <1>1, <1>2, <1>3 DEF T
<1> QED
    BY <1>1, <1>2, <1>3 DEF T

-----------------------------------------------------------------------------
(* The functions a fold evaluates. *)

\* The value on a set: nothing for the empty one, an element and the rest.
LEMMA SumsAt ==
    ASSUME NEW f, NEW E, NEW g, SumsOf(f, E, g)
    PROVE  /\ g[{}] = 0
           /\ \A s \in SUBSET E : s # {} =>
                 /\ Chosen(s) \in s
                 /\ s \ {Chosen(s)} \in SUBSET E
                 /\ g[s] = f[Chosen(s)] + g[s \ {Chosen(s)}]
<1>1. \A s : s # {} => Chosen(s) \in s
    BY DEF Chosen
<1>2. \A s \in SUBSET E : g[s] = IF s = {} THEN 0 ELSE f[Chosen(s)] + g[s \ {Chosen(s)}]
    BY DEF SumsOf
<1> QED
    BY <1>1, <1>2

\* The sums of two folds agree on the sets over which their functions do.
LEMMA SumsAgree ==
    ASSUME NEW D, NEW E, NEW F, IsFiniteSet(F), F \subseteq D, F \subseteq E,
           NEW f, NEW e, \A x \in F : f[x] = e[x],
           NEW g, SumsOf(f, D, g), NEW h, SumsOf(e, E, h)
    PROVE  \A s \in SUBSET F : g[s] = h[s]
<1> DEFINE S == {s \in SUBSET F : g[s] = h[s]}
<1>1. ASSUME NEW s \in SUBSET F, \A t \in SUBSET s : t # s => t \in S
      PROVE  s \in S
  <2>1. CASE s = {}
      BY <2>1, SumsAt
  <2>2. CASE s # {}
    <3> DEFINE x == Chosen(s)
               t == s \ {x}
    <3>1. /\ x \in s /\ g[s] = f[x] + g[t] /\ h[s] = e[x] + h[t]
        BY <2>2, SumsAt
    <3>2. t \in S
        BY <1>1, <3>1
    <3> QED
        BY <3>1, <3>2
  <2> QED
      BY <2>1, <2>2
<1> HIDE DEF S
<1>2. SUBSET F \subseteq S
    BY <1>1, SubsetInduction
<1> QED
    BY <1>2 DEF S

\* Every fold over a finite set has such a function.
LEMMA SumsExist ==
    ASSUME NEW E, IsFiniteSet(E), NEW f
    PROVE  \E g : SumsOf(f, E, g)
<1> DEFINE S == {s \in SUBSET E : \E g : SumsOf(f, s, g)}
           V(t) == SumOf(f, t)
<1>1. ASSUME NEW s \in SUBSET E, \A t \in SUBSET s : t # s => t \in S
      PROVE  s \in S
  <2> DEFINE g == [t \in SUBSET s |->
                      IF t = {} THEN 0 ELSE f[Chosen(t)] + V(t \ {Chosen(t)})]
  <2>1. ASSUME NEW t \in SUBSET s, t # s PROVE g[t] = V(t)
    <3>1. PICK k : SumsOf(f, t, k) /\ V(t) = k[t]
        BY <1>1, <2>1 DEF SumOf
    <3>2. CASE t = {}
        BY <3>1, <3>2, SumsAt
    <3>3. CASE t # {}
      <4> DEFINE u == t \ {Chosen(t)}
      <4>1. Chosen(t) \in t /\ V(t) = f[Chosen(t)] + k[u]
          BY <3>1, <3>3, SumsAt
      <4>2. u \in SUBSET s /\ u # s /\ u \in SUBSET t
          BY <2>1
      <4>3. PICK h : SumsOf(f, u, h) /\ V(u) = h[u]
          BY <1>1, <4>2 DEF SumOf
      <4>4. IsFiniteSet(u)
          BY <4>2, FS_Subset
      <4>5. k[u] = h[u]
          BY <3>1, <4>2, <4>3, <4>4, SumsAgree
      <4> QED
          BY <3>3, <4>1, <4>3, <4>5
    <3> QED
        BY <3>2, <3>3
  <2>2. ASSUME NEW t \in SUBSET s, t # {} PROVE g[t \ {Chosen(t)}] = V(t \ {Chosen(t)})
    <3>1. t \ {Chosen(t)} \in SUBSET s /\ t \ {Chosen(t)} # s
        BY <2>2 DEF Chosen
    <3> QED
        BY <2>1, <3>1
  <2>3. SumsOf(f, s, g)
      BY <2>2 DEF SumsOf
  <2> QED
      BY <2>3
<1> HIDE DEF S
<1>2. SUBSET E \subseteq S
    BY <1>1, SubsetInduction
<1> QED
    BY <1>2 DEF S

LEMMA SumOfIs ==
    ASSUME NEW E, IsFiniteSet(E), NEW f, NEW g, SumsOf(f, E, g)
    PROVE  g[E] = SumOf(f, E)
<1>1. PICK h : SumsOf(f, E, h) /\ SumOf(f, E) = h[E]
    BY DEF SumOf
<1> QED
    BY <1>1, SumsAgree

-----------------------------------------------------------------------------
(* Sums. *)

\* Equal terms have equal sums.
LEMMA SumOfEqual ==
    ASSUME NEW E, IsFiniteSet(E), NEW f, NEW e, \A x \in E : f[x] = e[x]
    PROVE  SumOf(f, E) = SumOf(e, E)
<1>1. PICK g : SumsOf(f, E, g)
    BY SumsExist
<1>2. PICK h : SumsOf(e, E, h)
    BY SumsExist
<1>3. \A s \in SUBSET E : g[s] = h[s]
    BY <1>1, <1>2, SumsAgree
<1> QED
    BY <1>1, <1>2, <1>3, SumOfIs

LEMMA SumOfNone == ASSUME NEW f PROVE SumOf(f, {}) = 0
<1>1. PICK g : SumsOf(f, {}, g)
    BY SumsExist, FS_EmptySet
<1> QED
    BY <1>1, SumOfIs, SumsAt, FS_EmptySet

\* Any element may be added last, and the sum is an integer.
LEMMA SumsAnyOrder ==
    ASSUME NEW E, IsFiniteSet(E), NEW f, \A x \in E : f[x] \in Int,
           NEW g, SumsOf(f, E, g)
    PROVE  \A s \in SUBSET E : g[s] \in Int /\ \A x \in s : g[s] = f[x] + g[s \ {x}]
<1>a. \A s \in SUBSET E : s # {} => /\ Chosen(s) \in s
                                   /\ s \ {Chosen(s)} \in SUBSET E
                                   /\ g[s] = f[Chosen(s)] + g[s \ {Chosen(s)}]
  <2>1. SumsOf(f, E, g)
      OBVIOUS
  <2> QED
      BY ONLY <2>1, SumsAt
<1> DEFINE S == {s \in SUBSET E : g[s] \in Int /\ \A x \in s : g[s] = f[x] + g[s \ {x}]}
<1>1. ASSUME NEW s \in SUBSET E, \A t \in SUBSET s : t # s => t \in S
      PROVE  s \in S
  <2>1. CASE s = {}
      BY <2>1, SumsAt
  <2>2. CASE s # {}
    <3> DEFINE c == Chosen(s)
    <3>1. c \in s /\ g[s] = f[c] + g[s \ {c}] /\ s \ {c} \in S
      <4>1. c \in s /\ g[s] = f[c] + g[s \ {c}]
          BY <1>a, <2>2
      <4> QED
          BY <1>1, <4>1
    <3>2. g[s] \in Int
        BY <3>1
    <3>3. ASSUME NEW x \in s, x # c PROVE g[s] = f[x] + g[s \ {x}]
      <4>1. s \ {x} \in S /\ c \in s \ {x} /\ x \in s \ {c}
          BY <1>1, <3>1, <3>3
      <4>2. g[s \ {x}] = f[c] + g[(s \ {x}) \ {c}]
          BY <4>1
      <4>3. g[s \ {c}] = f[x] + g[(s \ {c}) \ {x}]
          BY <3>1, <4>1
      <4>4. (s \ {c}) \ {x} = (s \ {x}) \ {c} /\ (s \ {c}) \ {x} \in S
        <5>1. (s \ {c}) \ {x} \in SUBSET s /\ (s \ {c}) \ {x} # s
            BY <3>1
        <5> QED
            BY <1>1, <5>1
      <4>5. f[c] \in Int /\ f[x] \in Int /\ g[(s \ {x}) \ {c}] \in Int
          BY <3>1, <4>4
      <4>6. g[s] = f[c] + (f[x] + g[(s \ {x}) \ {c}])
          BY <3>1, <4>3, <4>4
      <4> HIDE DEF S, c
      <4> QED
          BY <4>2, <4>5, <4>6
    <3> QED
        BY <3>1, <3>2, <3>3
  <2> QED
      BY <2>1, <2>2
<1> HIDE DEF S
<1>2. SUBSET E \subseteq S
    BY <1>1, SubsetInduction
<1> QED
    BY <1>2 DEF S

LEMMA SumOfType ==
    ASSUME NEW E, IsFiniteSet(E), NEW f, \A x \in E : f[x] \in Int
    PROVE  SumOf(f, E) \in Int
<1>1. PICK g : SumsOf(f, E, g)
    BY SumsExist
<1> QED
    BY <1>1, SumOfIs, SumsAnyOrder

LEMMA SumOfRest ==
    ASSUME NEW E, IsFiniteSet(E), NEW f, \A x \in E : f[x] \in Int, NEW x \in E
    PROVE  SumOf(f, E) = f[x] + SumOf(f, E \ {x})
<1>1. PICK g : SumsOf(f, E, g)
    BY SumsExist
<1>2. IsFiniteSet(E \ {x})
    BY FS_RemoveElement
<1>3. PICK h : SumsOf(f, E \ {x}, h)
    BY <1>2, SumsExist
<1>4. \A s \in SUBSET (E \ {x}) : g[s] = h[s]
  <2> DEFINE D == E \ {x}
  <2>1. IsFiniteSet(D) /\ D \subseteq E /\ D \subseteq D /\ SumsOf(f, D, h)
            /\ \A y \in D : f[y] = f[y]
      BY <1>2, <1>3
  <2> HIDE DEF D
  <2>2. \A s \in SUBSET D : g[s] = h[s]
      BY ONLY <1>1, <2>1, SumsAgree
  <2> QED
      BY <2>2 DEF D
<1>5. g[E] = f[x] + g[E \ {x}]
    BY <1>1, SumsAnyOrder
<1>6. SumOf(f, E) = g[E] /\ SumOf(f, E \ {x}) = h[E \ {x}]
    BY <1>1, <1>2, <1>3, SumOfIs
<1> QED
    BY <1>4, <1>5, <1>6

\* A sum of amounts that are not negative is at least each of them.
LEMMA SumOfNat ==
    ASSUME NEW E, IsFiniteSet(E), NEW f, \A x \in E : f[x] \in Nat
    PROVE  /\ SumOf(f, E) \in Nat
           /\ \A x \in E : f[x] <= SumOf(f, E)
<1> DEFINE S == {s \in SUBSET E : SumOf(f, s) \in Nat}
<1>1. ASSUME NEW s \in SUBSET E, \A t \in SUBSET s : t # s => t \in S
      PROVE  s \in S
  <2>1. CASE s = {}
      BY <2>1, SumOfNone
  <2>2. CASE s # {}
    <3>1. PICK x \in s : TRUE
        BY <2>2
    <3>2. SumOf(f, s) = f[x] + SumOf(f, s \ {x})
        BY SumOfRest, FS_Subset
    <3>3. s \ {x} \in S
        BY <1>1, <3>1
    <3> QED
        BY <3>2, <3>3
  <2> QED
      BY <2>1, <2>2
<1> HIDE DEF S
<1>a. SUBSET E \subseteq S
    BY <1>1, SubsetInduction
<1>2. \A s \in SUBSET E : SumOf(f, s) \in Nat
    BY <1>a DEF S
<1>3. ASSUME NEW x \in E PROVE f[x] <= SumOf(f, E)
  <2>1. SumOf(f, E) = f[x] + SumOf(f, E \ {x}) /\ SumOf(f, E \ {x}) \in Nat
      BY <1>2, SumOfRest
  <2> QED
      BY <2>1
<1> QED
    BY <1>2, <1>3
===============================================================================
