----------------------------- MODULE Sums_proofs -----------------------------
(***************************************************************************)
(* Lemmas that the other proofs share: induction over the naturals, and    *)
(* what the community modules' sum of a function over a finite set         *)
(* computes.  That sum is a recursive function which takes the elements    *)
(* out of the set in the order CHOOSE gives them; the lemmas show that the *)
(* order does not matter.                                                  *)
(***************************************************************************)
EXTENDS Integers, Functions, FiniteSets, FiniteSetTheorems, WellFoundedInduction, TLAPS

\* Induction over the naturals, for a set in place of a predicate: a least
\* number outside T would have its predecessor in T.
LEMMA SetInduction ==
  ASSUME NEW T, T \subseteq Nat, 0 \in T, \A m \in T : m + 1 \in T
  PROVE  T = Nat
  <1> DEFINE B == Nat \ T
  <1>1. SUFFICES ASSUME B # {} PROVE FALSE
    OBVIOUS
  <1> DEFINE R == {ss \in Nat \X Nat : ss[1] < ss[2]}
  <1>2. IsWellFoundedOn(R, Nat)
    BY NatLessThanWellFounded, Zenon DEF OpToRel
  <1>3. PICK x \in B : \A y \in B : ~ (<<y, x>> \in R)
    <2> HIDE DEF B, R
    <2>1. B \subseteq Nat
      BY DEF B
    <2> QED BY <1>1, <1>2, <2>1, WFMin, Zenon
  <1>4. \A y \in B : ~ (y < x)
    BY <1>3
  <1>5. x # 0 /\ x - 1 \in Nat /\ x - 1 < x
    OBVIOUS
  <1>6. x - 1 \in T
    BY <1>4, <1>5
  <1> QED BY <1>6, <1>5

\* A finite set and one of its elements.
LEMMA Smaller ==
  ASSUME NEW S, IsFiniteSet(S), NEW n \in Nat, Cardinality(S) = n + 1
  PROVE  /\ S # {}
         /\ \A a \in S : IsFiniteSet(S \ {a}) /\ Cardinality(S \ {a}) = n
  <1>1. S # {}
    BY FS_EmptySet
  <1>2. ASSUME NEW a \in S PROVE IsFiniteSet(S \ {a}) /\ Cardinality(S \ {a}) = n
    BY FS_RemoveElement
  <1> QED BY <1>1, <1>2

-----------------------------------------------------------------------------
\* g gives every subset of D the sum of f over it, whatever element is taken
\* out first.
Additive(D, f, g) ==
    /\ g \in [SUBSET D -> Nat]
    /\ g[{}] = 0
    /\ \A s \in SUBSET D : \A x \in s : g[s] = f[x] + g[s \ {x}]

LEMMA AdditiveExtends ==
  ASSUME NEW S, NEW f, \A x \in S : f[x] \in Nat, NEW a \in S, NEW g, Additive(S \ {a}, f, g)
  PROVE  \E h : Additive(S, f, h)
  <1> DEFINE R == S \ {a}
             h == [s \in SUBSET S |-> IF a \in s THEN f[a] + g[s \ {a}] ELSE g[s]]
  <1>1. g \in [SUBSET R -> Nat] /\ g[{}] = 0
    BY DEF Additive
  <1>2. \A s \in SUBSET R : \A x \in s : g[s] = f[x] + g[s \ {x}]
    BY DEF Additive
  <1>3. \A s \in SUBSET S : s \ {a} \in SUBSET R /\ (a \notin s => s \in SUBSET R)
    OBVIOUS
  <1>4. h \in [SUBSET S -> Nat]
    BY <1>1, <1>3
  <1>5. h[{}] = 0
    BY <1>1
  <1>6. ASSUME NEW s \in SUBSET S, NEW x \in s PROVE h[s] = f[x] + h[s \ {x}]
    <2>0. s \ {x} \in SUBSET S
      OBVIOUS
    <2>1. CASE a \notin s
      <3>1. h[s] = g[s] /\ h[s \ {x}] = g[s \ {x}] /\ s \in SUBSET R
        BY <1>3, <2>0, <2>1
      <3> QED BY <1>2, <3>1
    <2>2. CASE x = a
      <3>1. h[s] = f[a] + g[s \ {a}] /\ h[s \ {a}] = g[s \ {a}]
        BY <2>0, <2>2
      <3> QED BY <2>2, <3>1
    <2>3. CASE a \in s /\ x # a
      <3>1. h[s] = f[a] + g[s \ {a}]
        BY <2>3
      <3>2. h[s \ {x}] = f[a] + g[(s \ {x}) \ {a}]
        BY <2>0, <2>3
      <3>3. (s \ {x}) \ {a} = (s \ {a}) \ {x} /\ x \in s \ {a} /\ s \ {a} \in SUBSET R
        BY <1>3, <2>3
      <3>4. g[s \ {a}] = f[x] + g[(s \ {a}) \ {x}]
        BY <1>2, <3>3
      <3>5. g[s \ {a}] \in Nat /\ g[(s \ {a}) \ {x}] \in Nat
        BY <1>1, <3>3
      <3>6. f[x] \in Nat /\ f[a] \in Nat
        OBVIOUS
      <3> HIDE DEF h
      <3> DEFINE q == g[(s \ {a}) \ {x}]
      <3>7. h[s] = f[a] + (f[x] + q) /\ h[s \ {x}] = f[a] + q /\ q \in Nat
        BY <3>1, <3>2, <3>3, <3>4, <3>5
      <3> HIDE DEF q
      <3>8. f[a] + (f[x] + q) = f[x] + (f[a] + q)
        BY <3>6, <3>7
      <3> QED BY <3>7, <3>8
    <2> QED BY <2>1, <2>2, <2>3
  <1> HIDE DEF h
  <1>7. Additive(S, f, h)
    BY <1>4, <1>5, <1>6 DEF Additive
  <1> QED BY <1>7

LEMMA AdditiveExists ==
  ASSUME NEW D, IsFiniteSet(D), NEW f, \A x \in D : f[x] \in Nat
  PROVE  \E g : Additive(D, f, g)
  <1> DEFINE T == {n \in Nat : \A S \in SUBSET D : Cardinality(S) = n => \E g : Additive(S, f, g)}
  <1>0. \A S \in SUBSET D : IsFiniteSet(S)
    BY FS_Subset
  <1>1. 0 \in T
    <2> SUFFICES ASSUME NEW S \in SUBSET D, Cardinality(S) = 0 PROVE \E g : Additive(S, f, g)
      OBVIOUS
    <2>1. S = {}
      BY <1>0, FS_EmptySet
    <2> DEFINE g == [s \in SUBSET S |-> 0]
    <2>2. Additive(S, f, g)
      BY <2>1 DEF Additive
    <2> QED BY <2>2
  <1>2. ASSUME NEW n \in T PROVE n + 1 \in T
    <2> SUFFICES ASSUME NEW S \in SUBSET D, Cardinality(S) = n + 1 PROVE \E g : Additive(S, f, g)
      OBVIOUS
    <2>1. PICK a \in S : TRUE
      BY <1>0, Smaller
    <2>2. S \ {a} \in SUBSET D /\ Cardinality(S \ {a}) = n
      BY <1>0, Smaller
    <2>3. PICK g : Additive(S \ {a}, f, g)
      BY <2>2
    <2>4. \A x \in S : f[x] \in Nat
      OBVIOUS
    <2> QED BY <2>1, <2>3, <2>4, AdditiveExtends
  <1>3. T = Nat
    <2> HIDE DEF T
    <2>1. T \subseteq Nat
      BY DEF T
    <2> QED BY <1>1, <1>2, <2>1, SetInduction
  <1>4. Cardinality(D) \in Nat
    BY FS_CardinalityType
  <1> QED BY <1>3, <1>4

\* The recursive function of the library's fold, on the subsets of S.
IsFold(S, f, k) ==
    k = [s \in SUBSET S |-> IF s = {} THEN 0
                            ELSE f[CHOOSE x \in s : TRUE] + k[s \ {CHOOSE x \in s : TRUE}]]

\* The library's sum is what the additive function says.
LEMMA FoldIsSum ==
  ASSUME NEW D, IsFiniteSet(D), NEW f, NEW g, Additive(D, f, g), NEW S \in SUBSET D
  PROVE  SumFunctionOnSet(f, S) = g[S]
  <1> DEFINE iter == CHOOSE k : IsFold(S, f, k)
             r == [s \in SUBSET S |-> g[s]]
  <1>0. \A s \in SUBSET S : s \in SUBSET D /\ IsFiniteSet(s)
    BY FS_Subset
  <1>1. IsFold(S, f, r)
    <2>1. ASSUME NEW s \in SUBSET S
          PROVE  r[s] = IF s = {} THEN 0 ELSE f[CHOOSE x \in s : TRUE] + r[s \ {CHOOSE x \in s : TRUE}]
      <3>1. CASE s = {}
        BY <3>1 DEF Additive
      <3>2. CASE s # {}
        <4> DEFINE c == CHOOSE x \in s : TRUE
        <4>1. c \in s
          BY <3>2
        <4> HIDE DEF c
        <4>2. r[s] = g[s] /\ r[s \ {c}] = g[s \ {c}]
          OBVIOUS
        <4>3. g[s] = f[c] + g[s \ {c}]
          BY <1>0, <4>1 DEF Additive
        <4> QED BY <3>2, <4>2, <4>3 DEF c
      <3> QED BY <3>1, <3>2
    <2> DEFINE k == [s \in SUBSET S |-> IF s = {} THEN 0
                        ELSE f[CHOOSE x \in s : TRUE] + r[s \ {CHOOSE x \in s : TRUE}]]
    <2>2. r = k
      BY <2>1
    <2> QED BY <2>2 DEF IsFold
  <1>2. IsFold(S, f, iter)
    BY <1>1
  <1>3. SumFunctionOnSet(f, S) = iter[S]
    BY DEF SumFunctionOnSet, FoldFunctionOnSet, MapThenFoldSet, IsFold
  <1> HIDE DEF iter, r
  <1>4. /\ iter[{}] = 0
        /\ \A s \in SUBSET S : s # {} => \E c \in s : iter[s] = f[c] + iter[s \ {c}]
    <2>1. ASSUME NEW s \in SUBSET S, s # {} PROVE \E c \in s : iter[s] = f[c] + iter[s \ {c}]
      <3>1. (CHOOSE x \in s : TRUE) \in s
        BY <2>1
      <3>2. iter[s] = f[CHOOSE x \in s : TRUE] + iter[s \ {CHOOSE x \in s : TRUE}]
        BY <1>2, <2>1 DEF IsFold
      <3> QED BY <3>1, <3>2
    <2>2. iter[{}] = 0
      BY <1>2 DEF IsFold
    <2> QED BY <2>1, <2>2
  <1> DEFINE T == {n \in Nat : \A s \in SUBSET S : Cardinality(s) = n => iter[s] = g[s]}
  <1>5. 0 \in T
    <2> SUFFICES ASSUME NEW s \in SUBSET S, Cardinality(s) = 0 PROVE iter[s] = g[s]
      OBVIOUS
    <2>1. s = {}
      BY <1>0, FS_EmptySet
    <2> QED BY <1>4, <2>1 DEF Additive
  <1>6. ASSUME NEW n \in T PROVE n + 1 \in T
    <2> SUFFICES ASSUME NEW s \in SUBSET S, Cardinality(s) = n + 1 PROVE iter[s] = g[s]
      OBVIOUS
    <2>1. s # {} /\ \A c \in s : Cardinality(s \ {c}) = n
      BY <1>0, Smaller
    <2>2. PICK c \in s : iter[s] = f[c] + iter[s \ {c}]
      BY <1>4, <2>1
    <2>3. s \ {c} \in SUBSET S /\ iter[s \ {c}] = g[s \ {c}]
      BY <2>1
    <2>4. g[s] = f[c] + g[s \ {c}]
      BY <1>0 DEF Additive
    <2> QED BY <2>2, <2>3, <2>4
  <1>7. T = Nat
    <2> HIDE DEF T
    <2>1. T \subseteq Nat
      BY DEF T
    <2> QED BY <1>5, <1>6, <2>1, SetInduction
  <1>8. Cardinality(S) \in Nat
    BY <1>0, FS_CardinalityType
  <1>9. iter[S] = g[S]
    BY <1>7, <1>8
  <1> QED BY <1>3, <1>9

-----------------------------------------------------------------------------
\* The laws of the library's sum, for a function of naturals on a finite set.

LEMMA SumLaws ==
  ASSUME NEW D, IsFiniteSet(D), NEW f, \A x \in D : f[x] \in Nat
  PROVE  /\ \A S \in SUBSET D : SumFunctionOnSet(f, S) \in Nat
         /\ SumFunctionOnSet(f, {}) = 0
         /\ \A S \in SUBSET D : \A x \in S :
               SumFunctionOnSet(f, S) = f[x] + SumFunctionOnSet(f, S \ {x})
  <1>1. PICK g : Additive(D, f, g)
    BY AdditiveExists
  <1>2. \A S \in SUBSET D : SumFunctionOnSet(f, S) = g[S]
    BY <1>1, FoldIsSum
  <1>3. \A S \in SUBSET D : SumFunctionOnSet(f, S) \in Nat
    BY <1>1, <1>2 DEF Additive
  <1>4. SumFunctionOnSet(f, {}) = 0
    BY <1>1, <1>2 DEF Additive
  <1>5. ASSUME NEW S \in SUBSET D, NEW x \in S
        PROVE  SumFunctionOnSet(f, S) = f[x] + SumFunctionOnSet(f, S \ {x})
    <2>1. S \ {x} \in SUBSET D
      OBVIOUS
    <2>2. g[S] = f[x] + g[S \ {x}]
      BY <1>1 DEF Additive
    <2> QED BY <1>2, <2>1, <2>2
  <1> QED BY <1>3, <1>4, <1>5

\* A sum depends only on the values it adds up.
LEMMA SumSame ==
  ASSUME NEW S, IsFiniteSet(S), NEW f, NEW h,
         \A x \in S : f[x] \in Nat, \A x \in S : h[x] = f[x]
  PROVE  SumFunctionOnSet(h, S) = SumFunctionOnSet(f, S)
  <1>1. PICK g : Additive(S, f, g)
    BY AdditiveExists
  <1>2. Additive(S, h, g)
    BY <1>1 DEF Additive
  <1> QED BY <1>1, <1>2, FoldIsSum

\* Nothing adds up to nothing.
LEMMA SumZero ==
  ASSUME NEW S, IsFiniteSet(S), NEW f, \A x \in S : f[x] = 0
  PROVE  SumFunctionOnSet(f, S) = 0
  <1> DEFINE g == [s \in SUBSET S |-> 0]
  <1>1. Additive(S, f, g)
    BY DEF Additive
  <1> HIDE DEF g
  <1>2. SumFunctionOnSet(f, S) = g[S]
    BY <1>1, FoldIsSum
  <1> QED BY <1>2 DEF g

\* The sum after one value changes.
LEMMA SumUpdate ==
  ASSUME NEW S, IsFiniteSet(S), NEW f, NEW h, NEW a \in S,
         \A x \in S : f[x] \in Nat /\ h[x] \in Nat, \A x \in S \ {a} : h[x] = f[x]
  PROVE  SumFunctionOnSet(h, S) = SumFunctionOnSet(f, S) - f[a] + h[a]
  <1> DEFINE R == S \ {a}
  <1>1. IsFiniteSet(R) /\ R \in SUBSET S
    BY FS_Subset
  <1>2. SumFunctionOnSet(h, R) = SumFunctionOnSet(f, R)
    BY <1>1, SumSame
  <1>3. /\ SumFunctionOnSet(f, S) = f[a] + SumFunctionOnSet(f, R)
        /\ SumFunctionOnSet(f, R) \in Nat
    BY <1>1, SumLaws
  <1>4. SumFunctionOnSet(h, S) = h[a] + SumFunctionOnSet(h, R)
    BY <1>1, SumLaws
  <1>5. f[a] \in Nat /\ h[a] \in Nat
    OBVIOUS
  <1> DEFINE r == SumFunctionOnSet(f, R)
  <1>6. /\ SumFunctionOnSet(h, S) = h[a] + r /\ SumFunctionOnSet(f, S) = f[a] + r /\ r \in Nat
    BY <1>2, <1>3, <1>4
  <1> HIDE DEF r
  <1> QED BY <1>5, <1>6

\* The sum over a part and the sum over the rest.
LEMMA SumSplit ==
  ASSUME NEW S, IsFiniteSet(S), NEW f, \A x \in S : f[x] \in Nat, NEW R \in SUBSET S
  PROVE  SumFunctionOnSet(f, S) = SumFunctionOnSet(f, R) + SumFunctionOnSet(f, S \ R)
  <1> DEFINE F(q) == SumFunctionOnSet(f, q)
  <1>0. /\ \A q \in SUBSET S : F(q) \in Nat
        /\ F({}) = 0
        /\ \A q \in SUBSET S : \A x \in q : F(q) = f[x] + F(q \ {x})
    BY SumLaws
  <1> HIDE DEF F
  <1> DEFINE T == {n \in Nat : \A q \in SUBSET S : Cardinality(q) = n => F(S) = F(q) + F(S \ q)}
  <1>a. \A q \in SUBSET S : IsFiniteSet(q)
    BY FS_Subset
  <1>1. 0 \in T
    <2> SUFFICES ASSUME NEW q \in SUBSET S, Cardinality(q) = 0 PROVE F(S) = F(q) + F(S \ q)
      OBVIOUS
    <2>1. q = {} /\ S \ {} = S
      BY <1>a, FS_EmptySet
    <2> QED BY <1>0, <2>1
  <1>2. ASSUME NEW n \in T PROVE n + 1 \in T
    <2> SUFFICES ASSUME NEW q \in SUBSET S, Cardinality(q) = n + 1 PROVE F(S) = F(q) + F(S \ q)
      OBVIOUS
    <2>1. PICK a \in q : TRUE
      BY <1>a, Smaller
    <2>2. q \ {a} \in SUBSET S /\ Cardinality(q \ {a}) = n
      BY <1>a, Smaller
    <2>3. F(S) = F(q \ {a}) + F(S \ (q \ {a}))
      BY <2>2
    <2>4. a \in S \ (q \ {a}) /\ S \ (q \ {a}) \in SUBSET S /\ (S \ (q \ {a})) \ {a} = S \ q
      OBVIOUS
    <2>5. F(S \ (q \ {a})) = f[a] + F(S \ q) /\ F(q) = f[a] + F(q \ {a})
      BY <1>0, <2>4
    <2>6. f[a] \in Nat /\ F(S \ q) \in Nat /\ F(q \ {a}) \in Nat
      BY <1>0, <2>2
    <2> QED BY <2>3, <2>5, <2>6
  <1>3. T = Nat
    <2> HIDE DEF T
    <2>1. T \subseteq Nat
      BY DEF T
    <2> QED BY <1>1, <1>2, <2>1, SetInduction
  <1>4. Cardinality(R) \in Nat
    BY <1>a, FS_CardinalityType
  <1>5. F(S) = F(R) + F(S \ R)
    BY <1>3, <1>4
  <1> QED BY <1>5 DEF F
=============================================================================
