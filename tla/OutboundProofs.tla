---------------------------- MODULE OutboundProofs ----------------------------
(***************************************************************************)
(* What TLAPS proves of Outbound for any requests, tasks, rows, quantities *)
(* and flags.                                                              *)
(***************************************************************************)
EXTENDS OutboundLedger, FiniteSetTheorems, TLAPS

-----------------------------------------------------------------------------
(* Sums over finite sets *)

\* Induction over a finite set: a family of its subsets that has the empty set
\* and, with a set, that set and one element more, has all of them.
LEMMA FamilyInduction ==
    ASSUME NEW S, IsFiniteSet(S), NEW F, {} \in F,
           \A T \in SUBSET S : \A x \in S \ T : T \in F => T \union {x} \in F
    PROVE  SUBSET S \subseteq F
<1> DEFINE R == StrictSubsetOrdering(S)
           Bad == (SUBSET S) \ F
<1>1. IsWellFoundedOn(R, SUBSET S)
  BY FS_StrictSubsetOrderingWellFounded, FS_FiniteSubsetsOfFinite, Zenon
<1>2. SUFFICES ASSUME Bad # {} PROVE FALSE
  OBVIOUS
<1>3. Bad \subseteq SUBSET S
  OBVIOUS
<1> HIDE DEF R, Bad
<1>4. PICK T \in Bad : \A U \in Bad : ~(<<U, T>> \in R)
  BY <1>1, <1>2, <1>3, WFMin
<1>5. T \in SUBSET S /\ T # {} /\ T \notin F
  BY DEF Bad
<1>6. PICK x \in T : TRUE
  BY <1>5
<1>7. T \ {x} \notin Bad
  BY <1>4, <1>5, <1>6 DEF R, StrictSubsetOrdering
<1>8. T \ {x} \in F /\ T \ {x} \in SUBSET S /\ x \in S \ (T \ {x})
  BY <1>5, <1>7, <1>6 DEF Bad
<1>9. (T \ {x}) \union {x} = T
  BY <1>6
<1> QED BY <1>5, <1>8, <1>9

\* g adds up f over the subsets of S, one element after the other.
Adds(g, f, S) ==
    /\ g \in [SUBSET S -> Int]
    /\ g[{}] = 0
    /\ \A T \in SUBSET S : \A x \in S \ T : g[T \union {x}] = f[x] + g[T]

\* Such a g exists: sums grow by one element at a time.
LEMMA AddsExists ==
    ASSUME NEW S, IsFiniteSet(S), NEW f, \A x \in S : f[x] \in Int
    PROVE  \E g : Adds(g, f, S)
<1> DEFINE F == {T \in SUBSET S : \E g : Adds(g, f, T)}
<1>1. {} \in F
  <2> DEFINE g == [T \in SUBSET {} |-> 0]
  <2>1. Adds(g, f, {})
    BY DEF Adds
  <2> QED BY <2>1
<1>2. ASSUME NEW T \in SUBSET S, NEW a \in S \ T, T \in F PROVE T \union {a} \in F
  <2>1. PICK g : Adds(g, f, T)
    BY <1>2
  <2> DEFINE h == [U \in SUBSET (T \union {a}) |-> IF a \in U THEN f[a] + g[U \ {a}] ELSE g[U]]
  <2>2. \A U \in SUBSET (T \union {a}) : U \ {a} \in SUBSET T /\ (a \notin U => U \in SUBSET T)
    OBVIOUS
  <2>3. h \in [SUBSET (T \union {a}) -> Int]
    BY <2>1, <2>2 DEF Adds
  <2>4. h[{}] = 0
    BY <2>1 DEF Adds
  <2>5. ASSUME NEW U \in SUBSET (T \union {a}), NEW x \in (T \union {a}) \ U
        PROVE  h[U \union {x}] = f[x] + h[U]
    <3>0. U \union {x} \in SUBSET (T \union {a})
      OBVIOUS
    <3>1. CASE x = a
      <4>1. (U \union {x}) \ {a} = U /\ a \notin U
        BY <3>1
      <4> QED BY <3>0, <3>1, <4>1
    <3>2. CASE x # a /\ a \in U
      <4>1. (U \union {x}) \ {a} = (U \ {a}) \union {x} /\ x \in T \ (U \ {a})
        BY <3>2
      <4>2. g[(U \ {a}) \union {x}] = f[x] + g[U \ {a}] /\ g[U \ {a}] \in Int
        BY <2>1, <2>2, <4>1 DEF Adds
      <4>3. h[U \union {x}] = f[a] + (f[x] + g[U \ {a}]) /\ h[U] = f[a] + g[U \ {a}]
        BY <3>0, <3>2, <4>1, <4>2
      <4> QED BY <4>2, <4>3
    <3>3. CASE x # a /\ a \notin U
      <4>1. U \in SUBSET T /\ x \in T \ U
        BY <3>3
      <4>2. g[U \union {x}] = f[x] + g[U]
        BY <2>1, <4>1 DEF Adds
      <4> QED BY <3>0, <3>3, <4>2
    <3> QED BY <3>1, <3>2, <3>3
  <2>6. Adds(h, f, T \union {a})
    BY <2>3, <2>4, <2>5 DEF Adds
  <2> QED BY <2>6
<1>3. SUBSET S \subseteq F
  <2> HIDE DEF F
  <2> QED BY <1>1, <1>2, FamilyInduction
<1> QED BY <1>3

\* What SumFunctionOnSet computes: with one element more, its value more.
LEMMA SumAdds ==
    ASSUME NEW S, IsFiniteSet(S), NEW f, \A x \in S : f[x] \in Int
    PROVE  \E g : Adds(g, f, S) /\ SumFunctionOnSet(f, S) = g[S]
<1>1. PICK g : Adds(g, f, S)
  BY AddsExists
<1> DEFINE Def(h) == [s \in SUBSET S |-> IF s = {} THEN 0
                        ELSE f[CHOOSE x \in s : TRUE] + h[s \ {CHOOSE x \in s : TRUE}]]
           iter == CHOOSE h : h = Def(h)
<1>2. SumFunctionOnSet(f, S) = iter[S]
  BY Zenon DEF SumFunctionOnSet, FoldFunctionOnSet, MapThenFoldSet
<1>3. g = Def(g)
  <2>1. ASSUME NEW s \in SUBSET S, s # {}, NEW x \in s PROVE g[s] = f[x] + g[s \ {x}]
    <3>1. s \ {x} \in SUBSET S /\ x \in S \ (s \ {x}) /\ (s \ {x}) \union {x} = s
      BY <2>1
    <3> QED BY <1>1, <3>1 DEF Adds
  <2>2. \A s \in SUBSET S : g[s] = Def(g)[s]
    BY <1>1, <2>1 DEF Adds
  <2> QED BY <1>1, <2>2 DEF Adds
<1>4. iter = Def(iter)
  <2> HIDE DEF Def
  <2> QED BY <1>3
<1>5. iter[S] = g[S]
  <2> DEFINE R == StrictSubsetOrdering(S)
             Bad == {T \in SUBSET S : iter[T] # g[T]}
  <2> HIDE DEF iter
  <2> SUFFICES ASSUME Bad # {} PROVE FALSE
    OBVIOUS
  <2>1. IsWellFoundedOn(R, SUBSET S)
    BY FS_StrictSubsetOrderingWellFounded, FS_FiniteSubsetsOfFinite, Zenon
  <2>2. PICK U \in Bad : \A T \in Bad : ~(<<T, U>> \in R)
    <3>1. Bad \subseteq SUBSET S
      OBVIOUS
    <3> HIDE DEF R, Bad
    <3> QED BY <2>1, <3>1, WFMin
  <2>3. U # {}
    BY <1>1, <1>4 DEF Adds
  <2> DEFINE x == CHOOSE x \in U : TRUE
  <2>4. x \in U
    BY <2>3
  <2>5. iter[U] = f[x] + iter[U \ {x}] /\ g[U] = f[x] + g[U \ {x}]
    BY <1>3, <1>4, <2>3
  <2> HIDE DEF x
  <2>6. U \ {x} \notin Bad /\ U \ {x} \in SUBSET S
    <3>1. U \in SUBSET S /\ U \ {x} \in SUBSET S
      OBVIOUS
    <3>2. U \ {x} \subseteq U /\ U \ {x} # U
      BY <2>4
    <3>3. <<U \ {x}, U>> \in R
      BY <3>1, <3>2 DEF StrictSubsetOrdering
    <3> HIDE DEF R, Bad
    <3>4. U \ {x} \notin Bad
      BY <2>2, <3>3
    <3> QED BY <3>1, <3>4
  <2> QED BY <2>5, <2>6
<1> QED BY <1>1, <1>2, <1>5

\* What g adds up over a set does not depend on the set it is defined for.
LEMMA AddsUnique ==
    ASSUME NEW S, IsFiniteSet(S), NEW f, NEW g, Adds(g, f, S),
           NEW T \in SUBSET S, NEW h, Adds(h, f, T)
    PROVE  h[T] = g[T]
<1> DEFINE F == {U \in SUBSET T : h[U] = g[U]}
<1>1. {} \in F
  BY DEF Adds
<1>2. ASSUME NEW U \in SUBSET T, NEW x \in T \ U, U \in F PROVE U \union {x} \in F
  <2>1. U \in SUBSET S /\ x \in S \ U
    OBVIOUS
  <2> QED BY <1>2, <2>1 DEF Adds
<1>3. IsFiniteSet(T)
  BY FS_Subset
<1>4. SUBSET T \subseteq F
  <2> HIDE DEF F
  <2> QED BY <1>1, <1>2, <1>3, FamilyInduction
<1> QED BY <1>4

\* The facts every other sum lemma is proved from: a sum over the empty set is
\* zero, and one element more adds its value.
LEMMA SumEmpty == ASSUME NEW f PROVE SumFunctionOnSet(f, {}) = 0
<1>1. IsFiniteSet({})
  BY FS_EmptySet
<1>2. PICK g : Adds(g, f, {}) /\ SumFunctionOnSet(f, {}) = g[{}]
  BY <1>1, SumAdds
<1> QED BY <1>2 DEF Adds

\* The recursion of a sum, one element taken out of the set.
LEMMA SumInsert ==
    ASSUME NEW S, IsFiniteSet(S), NEW x, x \notin S,
           NEW f, \A y \in S \union {x} : f[y] \in Int
    PROVE  /\ SumFunctionOnSet(f, S) \in Int
           /\ SumFunctionOnSet(f, S \union {x}) = f[x] + SumFunctionOnSet(f, S)
<1>1. IsFiniteSet(S \union {x})
  BY FS_AddElement
<1>2. PICK g : Adds(g, f, S \union {x}) /\ SumFunctionOnSet(f, S \union {x}) = g[S \union {x}]
  BY <1>1, SumAdds
<1>3. PICK h : Adds(h, f, S) /\ SumFunctionOnSet(f, S) = h[S]
  BY SumAdds
<1>4. h[S] = g[S]
  BY <1>1, <1>2, <1>3, AddsUnique
<1> QED BY <1>2, <1>3, <1>4 DEF Adds

\* A sum of integers is one.
LEMMA SumInt ==
    ASSUME NEW S, IsFiniteSet(S), NEW f, \A x \in S : f[x] \in Int
    PROVE  SumFunctionOnSet(f, S) \in Int
<1>1. PICK g : Adds(g, f, S) /\ SumFunctionOnSet(f, S) = g[S]
  BY SumAdds
<1> QED BY <1>1 DEF Adds

\* The same values: the same sum.
LEMMA SumCongruent ==
    ASSUME NEW S, IsFiniteSet(S), NEW f, NEW g, \A x \in S : f[x] \in Int /\ g[x] = f[x]
    PROVE  SumFunctionOnSet(g, S) = SumFunctionOnSet(f, S)
<1> DEFINE F == {T \in SUBSET S : SumFunctionOnSet(g, T) = SumFunctionOnSet(f, T)}
<1>1. {} \in F
  BY SumEmpty
<1>2. ASSUME NEW T \in SUBSET S, NEW x \in S \ T, T \in F PROVE T \union {x} \in F
  <2>1. IsFiniteSet(T) /\ x \notin T /\ \A y \in T \union {x} : f[y] \in Int /\ g[y] \in Int
    BY FS_Subset
  <2>2. SumFunctionOnSet(f, T \union {x}) = f[x] + SumFunctionOnSet(f, T)
    BY <2>1, SumInsert
  <2>3. SumFunctionOnSet(g, T \union {x}) = g[x] + SumFunctionOnSet(g, T)
    BY <2>1, SumInsert
  <2> QED BY <1>2, <2>2, <2>3
<1>3. SUBSET S \subseteq F
  <2> HIDE DEF F
  <2> QED BY <1>1, <1>2, FamilyInduction
<1> QED BY <1>3

\* Values no larger: a sum no larger; nonnegative values: a nonnegative sum.
LEMMA SumMonotone ==
    ASSUME NEW S, IsFiniteSet(S), NEW f, NEW g,
           \A x \in S : f[x] \in Int /\ g[x] \in Int /\ f[x] <= g[x]
    PROVE  SumFunctionOnSet(f, S) <= SumFunctionOnSet(g, S)
<1> DEFINE F == {T \in SUBSET S : SumFunctionOnSet(f, T) <= SumFunctionOnSet(g, T)}
<1>1. {} \in F
  BY SumEmpty
<1>2. ASSUME NEW T \in SUBSET S, NEW x \in S \ T, T \in F PROVE T \union {x} \in F
  <2>1. IsFiniteSet(T) /\ x \notin T /\ \A y \in T \union {x} : f[y] \in Int /\ g[y] \in Int
    BY FS_Subset
  <2>2. /\ SumFunctionOnSet(f, T \union {x}) = f[x] + SumFunctionOnSet(f, T)
        /\ SumFunctionOnSet(f, T) \in Int
    BY <2>1, SumInsert
  <2>3. /\ SumFunctionOnSet(g, T \union {x}) = g[x] + SumFunctionOnSet(g, T)
        /\ SumFunctionOnSet(g, T) \in Int
    BY <2>1, SumInsert
  <2>4. SumFunctionOnSet(f, T \union {x}) <= SumFunctionOnSet(g, T \union {x})
    BY <1>2, <2>1, <2>2, <2>3
  <2> QED BY <2>4
<1>3. SUBSET S \subseteq F
  <2> HIDE DEF F
  <2> QED BY <1>1, <1>2, FamilyInduction
<1> QED BY <1>3

\* A sum of zeros is zero.
LEMMA SumZero ==
    ASSUME NEW S, IsFiniteSet(S), NEW f, \A x \in S : f[x] = 0
    PROVE  SumFunctionOnSet(f, S) = 0
<1> DEFINE F == {T \in SUBSET S : SumFunctionOnSet(f, T) = 0}
<1>1. {} \in F
  BY SumEmpty
<1>2. ASSUME NEW T \in SUBSET S, NEW x \in S \ T, T \in F PROVE T \union {x} \in F
  <2>1. IsFiniteSet(T) /\ x \notin T /\ \A y \in T \union {x} : f[y] \in Int
    BY FS_Subset
  <2>2. SumFunctionOnSet(f, T \union {x}) = f[x] + SumFunctionOnSet(f, T)
    BY <2>1, SumInsert
  <2> QED BY <1>2, <2>2
<1>3. SUBSET S \subseteq F
  <2> HIDE DEF F
  <2> QED BY <1>1, <1>2, FamilyInduction
<1> QED BY <1>3

\* A sum of quantities is a quantity.
LEMMA SumNat ==
    ASSUME NEW S, IsFiniteSet(S), NEW f, \A x \in S : f[x] \in Nat
    PROVE  SumFunctionOnSet(f, S) \in Nat
<1> DEFINE z == [x \in S |-> 0]
<1>1. \A x \in S : z[x] = 0 /\ z[x] \in Int /\ f[x] \in Int /\ z[x] <= f[x]
  OBVIOUS
<1> HIDE DEF z
<1>2. SumFunctionOnSet(z, S) = 0
  BY <1>1, SumZero
<1>3. SumFunctionOnSet(z, S) <= SumFunctionOnSet(f, S)
  BY <1>1, SumMonotone
<1>4. SumFunctionOnSet(f, S) \in Int
  BY <1>1, SumInt
<1> QED BY <1>2, <1>3, <1>4

\* Summing two disjoint sets.
LEMMA SumUnion ==
    ASSUME NEW A, IsFiniteSet(A), NEW B, IsFiniteSet(B), A \intersect B = {},
           NEW f, \A x \in A \union B : f[x] \in Int
    PROVE  SumFunctionOnSet(f, A \union B) = SumFunctionOnSet(f, A) + SumFunctionOnSet(f, B)
<1> DEFINE F == {T \in SUBSET B :
                   SumFunctionOnSet(f, A \union T) = SumFunctionOnSet(f, A) + SumFunctionOnSet(f, T)}
<1>0. SumFunctionOnSet(f, A) \in Int
  BY SumInt
<1>1. {} \in F
  <2>1. A \union {} = A
    OBVIOUS
  <2> QED BY <1>0, <2>1, SumEmpty
<1>2. ASSUME NEW T \in SUBSET B, NEW x \in B \ T, T \in F PROVE T \union {x} \in F
  <2>1. /\ IsFiniteSet(T) /\ x \notin T
        /\ \A y \in T \union {x} : f[y] \in Int
    BY FS_Subset
  <2>2. /\ IsFiniteSet(A \union T) /\ x \notin A \union T
        /\ \A y \in (A \union T) \union {x} : f[y] \in Int
    BY <2>1, FS_Union
  <2>3. /\ SumFunctionOnSet(f, T \union {x}) = f[x] + SumFunctionOnSet(f, T)
        /\ SumFunctionOnSet(f, T) \in Int
    BY <2>1, SumInsert
  <2>4. SumFunctionOnSet(f, (A \union T) \union {x}) = f[x] + SumFunctionOnSet(f, A \union T)
    BY <2>2, SumInsert
  <2>5. (A \union T) \union {x} = A \union (T \union {x})
    OBVIOUS
  <2>6. f[x] \in Int
    OBVIOUS
  <2>7. SumFunctionOnSet(f, A \union T) = SumFunctionOnSet(f, A) + SumFunctionOnSet(f, T)
    BY <1>2
  <2>8. SumFunctionOnSet(f, A \union (T \union {x})) = f[x] + SumFunctionOnSet(f, A \union T)
    BY <2>4, <2>5
  <2> DEFINE a == SumFunctionOnSet(f, A)
             b == SumFunctionOnSet(f, T \union {x})
             c == SumFunctionOnSet(f, T)
             d == SumFunctionOnSet(f, A \union T)
             e == SumFunctionOnSet(f, A \union (T \union {x}))
             v == f[x]
  <2>9. a \in Int /\ c \in Int /\ v \in Int /\ b = v + c /\ e = v + d /\ d = a + c
    BY <1>0, <2>3, <2>6, <2>7, <2>8
  <2>10. e = a + b
    <3> HIDE DEF a, b, c, d, e, v
    <3> QED BY <2>9
  <2> QED BY <2>10
<1>3. SUBSET B \subseteq F
  <2> HIDE DEF F
  <2> QED BY <1>1, <1>2, FamilyInduction
<1> QED BY <1>3

\* The sum of a set is that of a part and that of the rest.
LEMMA SumSplit ==
    ASSUME NEW S, IsFiniteSet(S), NEW A \in SUBSET S, NEW f, \A x \in S : f[x] \in Int
    PROVE  /\ SumFunctionOnSet(f, A) \in Int /\ SumFunctionOnSet(f, S \ A) \in Int
           /\ SumFunctionOnSet(f, S) = SumFunctionOnSet(f, A) + SumFunctionOnSet(f, S \ A)
<1>1. IsFiniteSet(A) /\ IsFiniteSet(S \ A)
  BY FS_Subset
<1>2. A \union (S \ A) = S /\ A \intersect (S \ A) = {}
  OBVIOUS
<1>3. \A x \in A \union (S \ A) : f[x] \in Int
  OBVIOUS
<1>4. SumFunctionOnSet(f, A \union (S \ A)) = SumFunctionOnSet(f, A) + SumFunctionOnSet(f, S \ A)
  BY <1>1, <1>2, <1>3, SumUnion
<1> QED BY <1>1, <1>2, <1>4, SumInt

\* A part outside which every value is zero has the whole sum.
LEMMA SumPart ==
    ASSUME NEW S, IsFiniteSet(S), NEW A \in SUBSET S,
           NEW f, \A x \in S : f[x] \in Int, \A x \in S \ A : f[x] = 0
    PROVE  SumFunctionOnSet(f, S) = SumFunctionOnSet(f, A)
<1>1. /\ SumFunctionOnSet(f, A) \in Int
      /\ SumFunctionOnSet(f, S) = SumFunctionOnSet(f, A) + SumFunctionOnSet(f, S \ A)
  BY SumSplit
<1>2. SumFunctionOnSet(f, S \ A) = 0
  BY FS_Subset, SumZero
<1> QED BY <1>1, <1>2

\* Adding values pointwise adds the sums.
LEMMA SumPlus ==
    ASSUME NEW S, IsFiniteSet(S), NEW f, NEW g, NEW h,
           \A x \in S : f[x] \in Int /\ g[x] \in Int /\ h[x] = f[x] + g[x]
    PROVE  SumFunctionOnSet(h, S) = SumFunctionOnSet(f, S) + SumFunctionOnSet(g, S)
<1> DEFINE F == {T \in SUBSET S :
                   SumFunctionOnSet(h, T) = SumFunctionOnSet(f, T) + SumFunctionOnSet(g, T)}
<1>1. {} \in F
  BY SumEmpty
<1>2. ASSUME NEW T \in SUBSET S, NEW x \in S \ T, T \in F PROVE T \union {x} \in F
  <2>1. /\ IsFiniteSet(T) /\ x \notin T
        /\ \A y \in T \union {x} : f[y] \in Int /\ g[y] \in Int /\ h[y] \in Int
    BY FS_Subset
  <2>2. /\ SumFunctionOnSet(f, T \union {x}) = f[x] + SumFunctionOnSet(f, T)
        /\ SumFunctionOnSet(f, T) \in Int
    BY <2>1, SumInsert
  <2>3. /\ SumFunctionOnSet(g, T \union {x}) = g[x] + SumFunctionOnSet(g, T)
        /\ SumFunctionOnSet(g, T) \in Int
    BY <2>1, SumInsert
  <2>4. SumFunctionOnSet(h, T \union {x}) = h[x] + SumFunctionOnSet(h, T)
    BY <2>1, SumInsert
  <2>5. SumFunctionOnSet(h, T) = SumFunctionOnSet(f, T) + SumFunctionOnSet(g, T)
    BY <1>2
  <2>6. f[x] \in Int /\ g[x] \in Int /\ h[x] = f[x] + g[x]
    OBVIOUS
  <2>7. SumFunctionOnSet(h, T \union {x}) =
          SumFunctionOnSet(f, T \union {x}) + SumFunctionOnSet(g, T \union {x})
    BY <2>2, <2>3, <2>4, <2>5, <2>6
  <2> QED BY <2>7
<1>3. SUBSET S \subseteq F
  <2> HIDE DEF F
  <2> QED BY <1>1, <1>2, FamilyInduction
<1> QED BY <1>3

\* A one-to-one renaming of the elements keeps the sum.
LEMMA SumRenamed ==
    ASSUME NEW S, IsFiniteSet(S), NEW B, NEW fresh \in Injection(S, B),
           NEW f, NEW g, \A x \in S : f[x] \in Int /\ g[fresh[x]] = f[x]
    PROVE  SumFunctionOnSet(g, Range(fresh)) = SumFunctionOnSet(f, S)
<1> DEFINE Im(T) == {fresh[y] : y \in T}
           F == {T \in SUBSET S : /\ IsFiniteSet(Im(T))
                                  /\ SumFunctionOnSet(g, Im(T)) = SumFunctionOnSet(f, T)}
<1>0. /\ fresh \in [S -> B]
      /\ \A x, y \in S : fresh[x] = fresh[y] => x = y
  BY DEF Injection, IsInjective
<1>1. {} \in F
  <2>1. Im({}) = {}
    OBVIOUS
  <2> QED BY <2>1, SumEmpty, FS_EmptySet
<1>2. ASSUME NEW T \in SUBSET S, NEW x \in S \ T, T \in F PROVE T \union {x} \in F
  <2>1. /\ IsFiniteSet(T) /\ x \notin T
        /\ \A y \in T \union {x} : f[y] \in Int
    BY FS_Subset
  <2>2. SumFunctionOnSet(f, T \union {x}) = f[x] + SumFunctionOnSet(f, T)
    BY <2>1, SumInsert
  <2>3. Im(T \union {x}) = Im(T) \union {fresh[x]} /\ fresh[x] \notin Im(T)
    BY <1>0
  <2>4. IsFiniteSet(Im(T)) /\ \A y \in Im(T) \union {fresh[x]} : g[y] \in Int
    BY <1>2
  <2>5. SumFunctionOnSet(g, Im(T) \union {fresh[x]}) = g[fresh[x]] + SumFunctionOnSet(g, Im(T))
    <3> HIDE DEF Im
    <3> QED BY <2>3, <2>4, SumInsert
  <2>6. IsFiniteSet(Im(T) \union {fresh[x]})
    <3> HIDE DEF Im
    <3> QED BY <2>4, FS_AddElement
  <2>7. SumFunctionOnSet(g, Im(T)) = SumFunctionOnSet(f, T)
    BY <1>2
  <2> HIDE DEF Im
  <2> QED BY <2>2, <2>3, <2>5, <2>6, <2>7
<1>3. SUBSET S \subseteq F
  <2> HIDE DEF F
  <2> QED BY <1>1, <1>2, FamilyInduction
<1>4. Im(S) = Range(fresh)
  BY <1>0 DEF Range
<1> QED BY <1>3, <1>4

\* A sum in which one value changes.
LEMMA SumChanged ==
    ASSUME NEW S, IsFiniteSet(S), NEW a \in S, NEW f, NEW g,
           \A x \in S : f[x] \in Int /\ g[x] \in Int,
           \A x \in S \ {a} : g[x] = f[x]
    PROVE  SumFunctionOnSet(g, S) = SumFunctionOnSet(f, S) + g[a] - f[a]
<1> DEFINE T == S \ {a}
<1>1. IsFiniteSet(T) /\ a \notin T /\ T \union {a} = S
  BY FS_Subset
<1> HIDE DEF T
<1>2. \A x \in T \union {a} : f[x] \in Int /\ g[x] \in Int
  BY <1>1
<1>3. SumFunctionOnSet(f, T \union {a}) = f[a] + SumFunctionOnSet(f, T)
  BY <1>1, <1>2, SumInsert
<1>4. SumFunctionOnSet(g, T \union {a}) = g[a] + SumFunctionOnSet(g, T)
  BY <1>1, <1>2, SumInsert
<1>5. SumFunctionOnSet(g, T) = SumFunctionOnSet(f, T)
  BY <1>1, SumCongruent DEF T
<1>6. SumFunctionOnSet(f, T) \in Int /\ f[a] \in Int /\ g[a] \in Int
  BY <1>1, <1>2, SumInt
<1>7. /\ SumFunctionOnSet(f, S) = f[a] + SumFunctionOnSet(f, T)
      /\ SumFunctionOnSet(g, S) = g[a] + SumFunctionOnSet(f, T)
  BY <1>1, <1>3, <1>4, <1>5
<1> QED BY <1>6, <1>7

-----------------------------------------------------------------------------
(* Splits *)

\* splitStockRow gives the remainder an id of its own, so a row in use keeps
\* the status written to it, and only an oversized row changes its quantity.
LEMMA Splits ==
    ASSUME StockTypeOK,
           NEW st \in [Row -> StockStatus],
           NEW D \in SUBSET Row, NEW keep \in [D -> Nat],
           NEW fresh \in FreshIds(keep)
    PROVE  /\ SplitStat(st, fresh) \in [Row -> StockStatus]
           /\ SplitQty(keep, fresh) \in [Row -> Nat]
           /\ \A s \in Row :
                /\ SplitStat(st, fresh)[s] \in {st[s], "AVAILABLE"}
                /\ stat[s] # "ABSENT" => SplitStat(st, fresh)[s] = st[s]
                /\ stat[s] # "ABSENT" =>
                     SplitQty(keep, fresh)[s] =
                       IF s \in Oversized(keep) THEN keep[s] ELSE qty[s]
<1>1. /\ fresh \in [Oversized(keep) -> RowsIn({"ABSENT"})]
      /\ DOMAIN fresh = Oversized(keep)
      /\ Oversized(keep) \subseteq D
  BY DEF FreshIds, Injection, Oversized
<1>2. \A s \in Range(fresh) : s \in Row /\ stat[s] = "ABSENT"
  BY <1>1 DEF Range, RowsIn
<1>3. \A p \in Oversized(keep) : p \in Row /\ keep[p] \in Nat /\ Remainder(p, keep) \in Nat
  BY <1>1 DEF Oversized, Remainder, StockTypeOK
<1>4. \A s \in Range(fresh) :
        (CHOOSE p \in DOMAIN fresh : fresh[p] = s) \in Oversized(keep)
  BY <1>1 DEF Range
<1>5. SplitStat(st, fresh) \in [Row -> StockStatus]
  BY DEF SplitStat, StockStatus, ManualStatuses, AfterIssueStatuses
<1>6. SplitQty(keep, fresh) \in [Row -> Nat]
  BY <1>1, <1>3, <1>4 DEF SplitQty, StockTypeOK
<1>7. \A s \in Row :
        /\ SplitStat(st, fresh)[s] \in {st[s], "AVAILABLE"}
        /\ stat[s] # "ABSENT" => SplitStat(st, fresh)[s] = st[s]
  BY <1>2 DEF SplitStat
<1>8. \A s \in Row : stat[s] # "ABSENT" =>
        SplitQty(keep, fresh)[s] = IF s \in Oversized(keep) THEN keep[s] ELSE qty[s]
  BY <1>1, <1>2 DEF SplitQty
<1> QED BY <1>5, <1>6, <1>7, <1>8

\* Transition and Release write statuses and nothing else.
LEMMA Writes ==
    ASSUME NEW st \in [Row -> StockStatus], NEW S, NEW to \in StockStatus
    PROVE  /\ Transition(st, S, to) \in [Row -> StockStatus]
           /\ Release(st, S) \in [Row -> StockStatus]
BY DEF Transition, Release, StockStatus, ManualStatuses, AfterIssueStatuses

-----------------------------------------------------------------------------
(* What the operators write *)

\* The tables start with what their columns may hold.
LEMMA TypeInit == Init => TypeOK
<1> SUFFICES ASSUME Init PROVE TypeOK
  OBVIOUS
<1> USE OutboundAssumption, InitialQtyAssumption
<1>1. PICK P \in SUBSET Stranded, H \in SUBSET Stranded :
        \E held \in Injection(H, {s \in Row : InitialQty[s] > 0}) :
          /\ link = [r \in Req |-> IF r \in H THEN held[r] ELSE NoUnit]
          /\ stat = [s \in Row |-> IF InitialQty[s] = 0 THEN "ABSENT"
                                   ELSE IF s \in Range(held) THEN "RESERVED"
                                   ELSE "AVAILABLE"]
          /\ req = [r \in Req |-> IF r \in P THEN "PICKING" ELSE "DRAFT"]
  BY ZenonT(60) DEF Init
<1>2. PICK held \in Injection(H, {s \in Row : InitialQty[s] > 0}) :
          /\ link = [r \in Req |-> IF r \in H THEN held[r] ELSE NoUnit]
          /\ stat = [s \in Row |-> IF InitialQty[s] = 0 THEN "ABSENT"
                                   ELSE IF s \in Range(held) THEN "RESERVED"
                                   ELSE "AVAILABLE"]
          /\ req = [r \in Req |-> IF r \in P THEN "PICKING" ELSE "DRAFT"]
  BY <1>1
<1>3. held \in [H -> Row]
  BY DEF Injection
<1>4. StockTypeOK
  BY <1>2 DEF Init, StockTypeOK, StockStatus, ManualStatuses, AfterIssueStatuses, OutboundStatuses
<1>5. link \in [Req -> Unit]
  BY <1>2, <1>3 DEF Unit
<1>6. /\ req \in [Req -> RequestStatus]
      /\ DOMAIN issued = Req
      /\ task \in [Task -> TaskStatus]
      /\ owner \in [Task -> Req \union {NoReq}]
      /\ ship \in [Task -> {"none", "created", "shipped"}]
  BY <1>2 DEF Init, RequestStatus, TaskStatus
<1>7. line \in [Task -> [Unit -> LineRecord]]
  BY DEF Init, NoLine, LineRecord
<1>8. repair \in RepairRecord
  BY DEF Init, NoRepair, RepairRecord, Unit
<1> QED BY <1>4, <1>5, <1>6, <1>7, <1>8 DEF TypeOK

\* What a goods issue of task t writes: for some ids of the split rows it ships
\* out of the rows held, releases the other units of the task and keeps the rest.
LEMMA GoodsIssueRows ==
    ASSUME TypeOK, NEW t \in Task, GoodsIssue(t)
    PROVE  /\ StockTypeOK'
           /\ \A s \in Row :
                /\ s \notin UnitsOf(t) => stat'[s] \in {stat[s], "AVAILABLE"}
                /\ s \notin UnitsOf(t) /\ stat[s] # "ABSENT" =>
                     stat'[s] = stat[s] /\ qty'[s] = qty[s]
                /\ s \in OutRows(t) =>
                     /\ stat[s] \in {"PICKED", "RESERVED"} /\ stat'[s] = "SHIPPED"
                     /\ qty'[s] = IF qty[s] > line[t][s].got THEN line[t][s].got ELSE qty[s]
                /\ s \in UnitsOf(t) \ OutRows(t) => stat'[s] # "SHIPPED" \/ stat[s] = "SHIPPED"
                /\ s \in UnitsOf(t) \ OutRows(t) /\ stat[s] \in {"RESERVED", "PICKED"} =>
                     stat'[s] = "AVAILABLE"
<1> DEFINE out == OutRows(t)
           keep == [s \in out |-> line[t][s].got]
           freed == Release(stat, UnitsOf(t) \ out)
           st == Transition(freed, out, "SHIPPED")
<1>1. PICK fresh \in FreshIds(keep) :
        stat' = SplitStat(st, fresh) /\ qty' = SplitQty(keep, fresh)
  BY DEF GoodsIssue
<1>2. out \in SUBSET Row /\ out \subseteq UnitsOf(t)
  BY DEF OutRows, UnitsOf, LinesOf, Unit
<1>3. keep \in [out -> Nat] /\ \A s \in out : keep[s] = line[t][s].got /\ keep[s] > 0
  BY <1>2 DEF TypeOK, LineRecord, OutRows, Unit
<1>4. freed \in [Row -> StockStatus] /\ st \in [Row -> StockStatus]
  BY Writes DEF TypeOK, StockTypeOK, StockStatus, AfterIssueStatuses
<1>5. /\ \A s \in Row : s \in out => st[s] = "SHIPPED"
      /\ \A s \in Row : s \notin UnitsOf(t) => st[s] = stat[s]
      /\ \A s \in Row \ out : st[s] \in {stat[s], "AVAILABLE"}
      /\ \A s \in UnitsOf(t) \ out : stat[s] \in {"RESERVED", "PICKED"} => st[s] = "AVAILABLE"
  BY <1>2 DEF Transition, Release, UnitsOf, LinesOf, Unit
<1>6. \A s \in out : stat[s] \in {"PICKED", "RESERVED"}
  BY DEF GoodsIssue, RowsIn
<1> HIDE DEF out, keep, freed, st
<1>7. /\ SplitStat(st, fresh) \in [Row -> StockStatus]
      /\ SplitQty(keep, fresh) \in [Row -> Nat]
      /\ \A s \in Row :
           /\ SplitStat(st, fresh)[s] \in {st[s], "AVAILABLE"}
           /\ stat[s] # "ABSENT" => SplitStat(st, fresh)[s] = st[s]
           /\ stat[s] # "ABSENT" =>
                SplitQty(keep, fresh)[s] =
                  IF s \in Oversized(keep) THEN keep[s] ELSE qty[s]
  <2>1. StockTypeOK /\ fresh \in FreshIds(keep)
    BY <1>1 DEF TypeOK
  <2>2. keep \in [out -> Nat]
    BY <1>3
  <2>3. st \in [Row -> StockStatus]
    BY <1>4
  <2> QED BY <2>1, <2>2, <2>3, <1>2, Splits
<1>8. \A s \in Row : s \in Oversized(keep) <=> s \in out /\ qty[s] > keep[s]
  BY <1>2, <1>3 DEF Oversized, TypeOK, StockTypeOK
<1>9. StockTypeOK'
  BY <1>1, <1>7 DEF StockTypeOK
<1>10. ASSUME NEW s \in Row
       PROVE  /\ s \notin UnitsOf(t) => stat'[s] \in {stat[s], "AVAILABLE"}
              /\ s \notin UnitsOf(t) /\ stat[s] # "ABSENT" =>
                   stat'[s] = stat[s] /\ qty'[s] = qty[s]
              /\ s \in out =>
                   /\ stat[s] \in {"PICKED", "RESERVED"} /\ stat'[s] = "SHIPPED"
                   /\ qty'[s] = IF qty[s] > line[t][s].got THEN line[t][s].got ELSE qty[s]
              /\ s \in UnitsOf(t) \ out => stat'[s] # "SHIPPED" \/ stat[s] = "SHIPPED"
              /\ s \in UnitsOf(t) \ out /\ stat[s] \in {"RESERVED", "PICKED"} =>
                   stat'[s] = "AVAILABLE"
  <2>1. stat'[s] = SplitStat(st, fresh)[s] /\ qty'[s] = SplitQty(keep, fresh)[s]
    BY <1>1
  <2>2. CASE s \notin UnitsOf(t)
    BY <2>1, <2>2, <1>2, <1>5, <1>7, <1>8
  <2>3. CASE s \in out
    <3>1. st[s] = "SHIPPED" /\ stat[s] # "ABSENT"
      BY <2>3, <1>5, <1>6
    <3>2. stat'[s] = "SHIPPED"
      BY <2>1, <3>1, <1>7
    <3>3. qty'[s] = IF qty[s] > line[t][s].got THEN line[t][s].got ELSE qty[s]
      BY <2>1, <2>3, <3>1, <1>3, <1>7, <1>8
    <3> QED BY <2>3, <3>2, <3>3, <1>2, <1>6
  <2>4. CASE s \in UnitsOf(t) \ out
    BY <2>1, <2>4, <1>5, <1>7
  <2> QED BY <2>2, <2>3, <2>4
<1> QED BY <1>9, <1>10 DEF out

\* The rows of an approval that reserves: free rows become reserved, ids not in
\* use may become free rows, and nothing else changes.
LEMMA ApproveRows ==
    ASSUME TypeOK, NEW r \in Req, ApproveAndReserve(r)
    PROVE  /\ StockTypeOK'
           /\ link' \in [Req -> Unit]
           /\ \A s \in Row : stat[s] \notin {"ABSENT", "AVAILABLE"} =>
                stat'[s] = stat[s] /\ qty'[s] = qty[s]
           /\ \A s \in Row : stat'[s] = "SHIPPED" => stat[s] = "SHIPPED"
<1>1. PICK S \in SUBSET RowsIn({"AVAILABLE"}) : \E take \in [S -> 1..Want[r]] :
         /\ \E first \in S : link' = [link EXCEPT ![r] = first]
         /\ \E fresh \in FreshIds(take) :
              /\ stat' = SplitStat(Transition(stat, S, "RESERVED"), fresh)
              /\ qty' = SplitQty(take, fresh)
  BY DEF ApproveAndReserve
<1>2. PICK take \in [S -> 1..Want[r]] :
         /\ \E first \in S : link' = [link EXCEPT ![r] = first]
         /\ \E fresh \in FreshIds(take) :
              /\ stat' = SplitStat(Transition(stat, S, "RESERVED"), fresh)
              /\ qty' = SplitQty(take, fresh)
  BY <1>1
<1>3. PICK fresh \in FreshIds(take) :
         /\ stat' = SplitStat(Transition(stat, S, "RESERVED"), fresh)
         /\ qty' = SplitQty(take, fresh)
  BY <1>2
<1> DEFINE st == Transition(stat, S, "RESERVED")
<1>4. S \in SUBSET Row /\ \A s \in S : stat[s] = "AVAILABLE"
  BY DEF RowsIn
<1>5. take \in [S -> Nat]
  BY OutboundAssumption, <1>2
<1>6. st \in [Row -> StockStatus]
  BY Writes DEF TypeOK, StockTypeOK, StockStatus, AfterIssueStatuses, OutboundStatuses
<1>7. \A s \in Row : st[s] = IF s \in S THEN "RESERVED" ELSE stat[s]
  BY DEF Transition
<1>8. \A s \in Oversized(take) : s \in S
  BY <1>2 DEF Oversized
<1>9. StockTypeOK /\ fresh \in FreshIds(take)
  BY <1>3 DEF TypeOK
<1> HIDE DEF st
<1>10. /\ SplitStat(st, fresh) \in [Row -> StockStatus]
       /\ SplitQty(take, fresh) \in [Row -> Nat]
       /\ \A s \in Row :
            /\ SplitStat(st, fresh)[s] \in {st[s], "AVAILABLE"}
            /\ stat[s] # "ABSENT" => SplitStat(st, fresh)[s] = st[s]
            /\ stat[s] # "ABSENT" =>
                 SplitQty(take, fresh)[s] =
                   IF s \in Oversized(take) THEN take[s] ELSE qty[s]
  BY <1>4, <1>5, <1>6, <1>9, Splits
<1>11. stat' = SplitStat(st, fresh) /\ qty' = SplitQty(take, fresh)
  BY <1>3 DEF st
<1>12. StockTypeOK'
  BY <1>10, <1>11 DEF StockTypeOK
<1>13. link' \in [Req -> Unit]
  BY <1>2, <1>4 DEF TypeOK, Unit
<1>14. ASSUME NEW s \in Row
       PROVE  /\ stat[s] \notin {"ABSENT", "AVAILABLE"} => stat'[s] = stat[s] /\ qty'[s] = qty[s]
              /\ stat'[s] = "SHIPPED" => stat[s] = "SHIPPED"
  BY <1>4, <1>7, <1>8, <1>10, <1>11
<1> QED BY <1>12, <1>13, <1>14

\* The rows and lines of an allocation.  A row on the new lines was free or in
\* the approval pool and is now reserved with exactly the quantity of its line;
\* another row of the pool may become free; other rows in use do not change.
LEMMA AllocateRows ==
    ASSUME TypeOK, NEW r \in Req, NEW t \in Task, Allocate(r, t)
    PROVE  /\ StockTypeOK'
           /\ \E lines \in [Unit -> LineRecord] :
                /\ line' = [line EXCEPT ![t] = lines]
                /\ \A u \in Unit : lines[u].got = 0 /\ ~lines[u].picked
                /\ \A s \in Row :
                     \/ /\ lines[s].want > 0
                        /\ stat[s] = "AVAILABLE" \/ s \in ApprovalPool(r)
                        /\ stat'[s] = "RESERVED"
                        /\ lines[s].want = qty'[s]
                     \/ /\ lines[s].want = 0
                        /\ \/ stat'[s] = stat[s] /\ (stat[s] = "ABSENT" \/ qty'[s] = qty[s])
                           \/ stat[s] = "ABSENT" /\ stat'[s] = "AVAILABLE"
                           \/ s \in ApprovalPool(r) /\ stat'[s] = "AVAILABLE"
<1> DEFINE n == Want[r]
<1>1. PICK pool \in PoolRows(r, OwnedRows(r)), top \in SUBSET RowsIn({"AVAILABLE"}) :
         \E mine \in SUBSET pool : \E take \in [mine \union top -> 1..n] :
           /\ Chosen(r, pool, mine, top, take)
           /\ \E fresh \in FreshIds(take) :
                /\ stat' = SplitStat(Release(Transition(stat, top, "RESERVED"),
                                             pool \ mine), fresh)
                /\ qty' = SplitQty(take, fresh)
           /\ \E short \in 0..n : line' = [line EXCEPT ![t] = NewLines(take, short)]
  BY DEF Allocate
<1>2. PICK mine \in SUBSET pool : \E take \in [mine \union top -> 1..n] :
           /\ Chosen(r, pool, mine, top, take)
           /\ \E fresh \in FreshIds(take) :
                /\ stat' = SplitStat(Release(Transition(stat, top, "RESERVED"),
                                             pool \ mine), fresh)
                /\ qty' = SplitQty(take, fresh)
           /\ \E short \in 0..n : line' = [line EXCEPT ![t] = NewLines(take, short)]
  BY <1>1
<1>3. PICK take \in [mine \union top -> 1..n] :
           /\ Chosen(r, pool, mine, top, take)
           /\ \E fresh \in FreshIds(take) :
                /\ stat' = SplitStat(Release(Transition(stat, top, "RESERVED"),
                                             pool \ mine), fresh)
                /\ qty' = SplitQty(take, fresh)
           /\ \E short \in 0..n : line' = [line EXCEPT ![t] = NewLines(take, short)]
  BY <1>2
<1>4. PICK fresh \in FreshIds(take) :
           /\ stat' = SplitStat(Release(Transition(stat, top, "RESERVED"),
                                        pool \ mine), fresh)
           /\ qty' = SplitQty(take, fresh)
  BY <1>3
<1>5. PICK short \in 0..n : line' = [line EXCEPT ![t] = NewLines(take, short)]
  BY <1>3
<1> DEFINE D == mine \union top
           lines == NewLines(take, short)
           reserved == Transition(stat, top, "RESERVED")
           st == Release(reserved, pool \ mine)
<1>6. n \in Nat
  BY OutboundAssumption
<1>7. /\ pool \subseteq ApprovalPool(r)
      /\ \A s \in pool : s \in Row /\ stat[s] = "RESERVED"
      /\ \A s \in top : s \in Row /\ stat[s] = "AVAILABLE"
      /\ D \in SUBSET Row
  BY DEF PoolRows, ApprovalPool, RowsIn
<1>8. take \in [D -> Nat] /\ DOMAIN take = D /\ \A s \in D : take[s] \in Nat /\ take[s] > 0
  BY <1>3, <1>6
<1>9. \A s \in D : take[s] <= qty[s]
  BY <1>3, <1>8 DEF Chosen, Fills
<1>10. /\ lines \in [Unit -> LineRecord]
       /\ \A u \in Unit : lines[u].got = 0 /\ ~lines[u].picked
       /\ \A s \in Row : lines[s].want = IF s \in D THEN take[s] ELSE 0
  <2>1. short \in Nat
    BY <1>5, <1>6
  <2> HIDE DEF D
  <2> QED BY <2>1, <1>8, OutboundAssumption DEF NewLines, LineRecord, Unit
<1>11. reserved \in [Row -> StockStatus] /\ st \in [Row -> StockStatus]
  BY Writes DEF TypeOK, StockTypeOK, StockStatus, AfterIssueStatuses, OutboundStatuses
<1>12. \A s \in Row : st[s] = IF s \in top THEN "RESERVED"
                              ELSE IF s \in pool \ mine THEN "AVAILABLE" ELSE stat[s]
  BY <1>7 DEF Transition, Release
<1>13. \A s \in Row : s \in Oversized(take) <=> s \in D /\ qty[s] > take[s]
  BY <1>7, <1>8 DEF Oversized
<1>14. StockTypeOK /\ fresh \in FreshIds(take)
  BY <1>4 DEF TypeOK
<1>15. stat' = SplitStat(st, fresh) /\ qty' = SplitQty(take, fresh)
  BY <1>4
<1> HIDE DEF D, lines, st
<1>16. /\ SplitStat(st, fresh) \in [Row -> StockStatus]
       /\ SplitQty(take, fresh) \in [Row -> Nat]
       /\ \A s \in Row :
            /\ SplitStat(st, fresh)[s] \in {st[s], "AVAILABLE"}
            /\ stat[s] # "ABSENT" => SplitStat(st, fresh)[s] = st[s]
            /\ stat[s] # "ABSENT" =>
                 SplitQty(take, fresh)[s] =
                   IF s \in Oversized(take) THEN take[s] ELSE qty[s]
  <2>1. D \in SUBSET Row
    BY <1>7
  <2>2. take \in [D -> Nat]
    BY <1>8
  <2>3. st \in [Row -> StockStatus]
    BY <1>11
  <2> QED BY <2>1, <2>2, <2>3, <1>14, Splits
<1>17. StockTypeOK'
  BY <1>15, <1>16 DEF StockTypeOK
<1>18. ASSUME NEW s \in Row
       PROVE  \/ /\ lines[s].want > 0
                 /\ stat[s] = "AVAILABLE" \/ s \in ApprovalPool(r)
                 /\ stat'[s] = "RESERVED"
                 /\ lines[s].want = qty'[s]
              \/ /\ lines[s].want = 0
                 /\ \/ stat'[s] = stat[s] /\ (stat[s] = "ABSENT" \/ qty'[s] = qty[s])
                    \/ stat[s] = "ABSENT" /\ stat'[s] = "AVAILABLE"
                    \/ s \in ApprovalPool(r) /\ stat'[s] = "AVAILABLE"
  <2>1. stat'[s] = SplitStat(st, fresh)[s] /\ qty'[s] = SplitQty(take, fresh)[s]
    BY <1>15
  <2>2. qty[s] \in Nat
    BY DEF TypeOK, StockTypeOK
  <2>3. CASE s \in D
    <3>1. s \in mine \/ s \in top
      BY <2>3 DEF D
    <3>2. lines[s].want = take[s] /\ take[s] \in Nat /\ take[s] > 0 /\ take[s] <= qty[s]
      BY <2>3, <1>8, <1>9, <1>10
    <3>3. stat[s] # "ABSENT" /\ st[s] = "RESERVED"
      BY <3>1, <1>7, <1>12
    <3>4. stat'[s] = "RESERVED"
      BY <3>3, <2>1, <1>16
    <3>5. qty'[s] = take[s]
      BY <2>1, <2>2, <2>3, <3>2, <3>3, <1>13, <1>16
    <3>6. stat[s] = "AVAILABLE" \/ s \in ApprovalPool(r)
      BY <3>1, <1>7
    <3> QED BY <3>2, <3>4, <3>5, <3>6
  <2>4. CASE s \notin D
    <3>1. s \notin mine /\ s \notin top
      BY <2>4 DEF D
    <3>2. lines[s].want = 0
      BY <2>4, <1>10
    <3>3. stat[s] # "ABSENT" => stat'[s] = st[s] /\ qty'[s] = qty[s]
      BY <2>1, <2>4, <1>13, <1>16
    <3>4. s \in pool => stat[s] = "RESERVED" /\ s \in ApprovalPool(r)
      BY <1>7
    <3>5. st[s] = IF s \in pool THEN "AVAILABLE" ELSE stat[s]
      BY <3>1, <1>12
    <3>6. stat'[s] \in {st[s], "AVAILABLE"}
      BY <2>1, <1>16
    <3> QED BY <3>2, <3>3, <3>4, <3>5, <3>6
  <2> QED BY <2>3, <2>4
<1> QED BY <1>5, <1>10, <1>17, <1>18 DEF lines

-----------------------------------------------------------------------------
(* Type correctness *)

\* The reads of a repair change nothing but what the repair knows.
LEMMA ReadsKeep ==
    RepairReads => /\ UNCHANGED <<stat, qty, req, link, issued, task, owner, line, ship>>
                   /\ TypeOK => repair'.crossed = repair.crossed
<1> SUFFICES ASSUME RepairReads
             PROVE  /\ UNCHANGED <<stat, qty, req, link, issued, task, owner, line, ship>>
                    /\ TypeOK => repair'.crossed = repair.crossed
  OBVIOUS
<1>1. UNCHANGED <<stat, qty, req, link, issued, task, owner, line, ship>>
  BY DEF RepairReads, BeginRepair, ReadLinks, CheckTask, stockVars, requestVars, taskVars
<1>2. ASSUME TypeOK PROVE repair'.crossed = repair.crossed
  BY <1>2 DEF RepairReads, BeginRepair, ReadLinks, CheckTask, EndRepair, NoRepair, TypeOK,
              RepairRecord
<1> QED BY <1>1, <1>2

\* Every action of the outbound flow keeps every column in its type.
LEMMA TypeNext == TypeOK /\ [Next]_vars => TypeOK'
<1> SUFFICES ASSUME TypeOK, [Next]_vars PROVE TypeOK'
  OBVIOUS
<1> USE OutboundAssumption
<1> USE DEF stockVars, requestVars, taskVars
<1>t. /\ \A a \in TaskStatus, t \in Task : [task EXCEPT ![t] = a] \in [Task -> TaskStatus]
      /\ \A a \in RequestStatus, r \in Req : [req EXCEPT ![r] = a] \in [Req -> RequestStatus]
  BY DEF TypeOK
<1>u. CASE UNCHANGED vars
  BY <1>u DEF vars, TypeOK, StockTypeOK
<1>r. ASSUME NEW r \in Req,
             \/ Submit(r) \/ Defer(r) \/ Reject(r) \/ ApproveOnly(r)
             \/ RecoverStalled(r)
      PROVE  TypeOK'
  <2>1. req' \in [Req -> RequestStatus]
    BY <1>r, <1>t DEF Submit, Defer, Reject, ApproveOnly, RecoverStalled, RequestGoes,
                      RequestStatus
  <2>2. UNCHANGED <<stat, qty, link, issued, task, owner, line, ship, repair>>
    BY <1>r DEF Submit, Defer, Reject, ApproveOnly, RecoverStalled
  <2> QED BY <2>1, <2>2 DEF TypeOK, StockTypeOK
<1>a. ASSUME NEW r \in Req, ApproveAndReserve(r) PROVE TypeOK'
  <2>1. StockTypeOK' /\ link' \in [Req -> Unit]
    BY <1>a, ApproveRows
  <2>2. req' \in [Req -> RequestStatus]
    BY <1>a, <1>t DEF ApproveAndReserve, RequestGoes, RequestStatus
  <2> QED BY <1>a, <2>1, <2>2 DEF ApproveAndReserve, TypeOK
<1>c. ASSUME NEW r \in Req, Cancel(r) PROVE TypeOK'
  <2>1. stat' \in [Row -> StockStatus]
    <3>1. stat' = stat \/ \E S : stat' = Release(stat, S)
      BY <1>c DEF Cancel, CancelTask
    <3>2. stat \in [Row -> StockStatus] /\ "AVAILABLE" \in StockStatus
      BY DEF TypeOK, StockTypeOK, StockStatus, ManualStatuses, AfterIssueStatuses
    <3> QED BY <3>1, <3>2 DEF Release
  <2>2. task' \in [Task -> TaskStatus]
    BY <1>c, <1>t DEF Cancel, CancelTask, TaskGoes, TypeOK, TaskStatus, UncancelledTasks, TasksOf
  <2>3. req' \in [Req -> RequestStatus]
    BY <1>c, <1>t DEF Cancel, RequestGoes, RequestStatus
  <2> QED BY <1>c, <2>1, <2>2, <2>3 DEF Cancel, TypeOK, StockTypeOK
<1>b. ASSUME NEW r \in Req, NEW t \in Task, Allocate(r, t) PROVE TypeOK'
  <2>1. StockTypeOK' /\ line' \in [Task -> [Unit -> LineRecord]]
    BY SMTT(30), <1>b, AllocateRows DEF TypeOK
  <2>2. task' \in [Task -> TaskStatus] /\ req' \in [Req -> RequestStatus]
    BY <1>b, <1>t DEF Allocate, TaskGoes, RequestGoes, TaskStatus, CancellableStatuses, RequestStatus
  <2>3. owner' \in [Task -> Req \union {NoReq}]
    BY <1>b DEF Allocate, TypeOK
  <2> QED BY <1>b, <2>1, <2>2, <2>3 DEF Allocate, TypeOK
<1>p. ASSUME NEW t \in Task, NEW u \in LinesOf(t), NEW n \in 0..line[t][u].want, Pick(t, u, n)
      PROVE  TypeOK'
  <2>1. u \in Unit /\ n \in Nat
    BY DEF LinesOf, TypeOK, LineRecord
  <2>2. line' \in [Task -> [Unit -> LineRecord]]
    BY <1>p, <2>1 DEF Pick, TypeOK, LineRecord
  <2>3. stat' \in [Row -> StockStatus]
    BY <1>p, Writes DEF Pick, PickStat, TypeOK, StockTypeOK, StockStatus, AfterIssueStatuses, OutboundStatuses
  <2>4. task' \in [Task -> TaskStatus]
    BY <1>p, <1>t DEF Pick, TaskGoes, TaskStatus, CancellableStatuses
  <2> QED BY <1>p, <2>2, <2>3, <2>4 DEF Pick, TypeOK, StockTypeOK
<1>q. ASSUME NEW t \in Task, PickRemaining(t) PROVE TypeOK'
  <2>1. line' \in [Task -> [Unit -> LineRecord]]
    BY <1>q DEF PickRemaining, TypeOK, LineRecord
  <2>2. stat' \in [Row -> StockStatus]
    BY <1>q, Writes DEF PickRemaining, TypeOK, StockTypeOK, StockStatus, AfterIssueStatuses, OutboundStatuses
  <2>3. task' \in [Task -> TaskStatus]
    BY <1>q, <1>t DEF PickRemaining, TaskGoes, TaskStatus, CancellableStatuses
  <2> QED BY <1>q, <2>1, <2>2, <2>3 DEF PickRemaining, TypeOK, StockTypeOK
<1>m. ASSUME NEW t \in Task,
             \/ Advance(t) \/ StartPacking(t) \/ CompletePacking(t)
             \/ CreateShipment(t) \/ ConfirmDelivery(t)
      PROVE  TypeOK'
  <2>1. task' \in [Task -> TaskStatus]
    BY <1>m, <1>t DEF Advance, StartPacking, CompletePacking, CreateShipment, ConfirmDelivery,
                      TaskGoes, TaskStatus, CancellableStatuses, IssuedTaskStatuses
  <2>2. ship' \in [Task -> {"none", "created", "shipped"}]
    <3>1. ship \in [Task -> {"none", "created", "shipped"}]
      BY DEF TypeOK
    <3>2. ship' = ship \/ ship' = [ship EXCEPT ![t] = "created"]
      BY <1>m DEF Advance, StartPacking, CompletePacking, CreateShipment, ConfirmDelivery
    <3> QED BY <3>1, <3>2
  <2>3. UNCHANGED <<stat, qty, req, link, issued, owner, line, repair>>
    BY <1>m DEF Advance, StartPacking, CompletePacking, CreateShipment, ConfirmDelivery
  <2> QED BY <2>1, <2>2, <2>3 DEF TypeOK, StockTypeOK
<1>x. ASSUME NEW t \in Task, SetException(t) PROVE TypeOK'
  <2>1. task' \in [Task -> TaskStatus]
    BY <1>x, <1>t DEF SetException, TaskGoes, TaskStatus, CancellableStatuses, IssuedTaskStatuses
  <2> QED BY <1>x, <2>1 DEF SetException, TypeOK, StockTypeOK
<1>d. ASSUME NEW t \in Task, Dispatch(t) PROVE TypeOK'
  <2>1. GoodsIssue(t)
    BY <1>d DEF Dispatch
  <2>2. StockTypeOK'
    BY <2>1, GoodsIssueRows
  <2>3. DOMAIN issued' = Req /\ ship' \in [Task -> {"none", "created", "shipped"}]
    BY <2>1 DEF GoodsIssue, TypeOK
  <2>4. task' \in [Task -> TaskStatus]
    BY <1>d, <1>t DEF Dispatch, TaskGoes, TaskStatus, IssuedTaskStatuses
  <2> QED BY <1>d, <2>2, <2>3, <2>4 DEF Dispatch, TypeOK
<1>i. ASSUME NEW t \in Task, IssueToRma(t) PROVE TypeOK'
  <2>1. task' \in [Task -> TaskStatus]
    BY <1>i, <1>t DEF IssueToRma, TaskGoes, TaskStatus, IssuedTaskStatuses
  <2>2. req' \in [Req -> RequestStatus]
    BY <1>i DEF IssueToRma, TypeOK, RequestStatus
  <2>3. StockTypeOK' /\ DOMAIN issued' = Req /\ ship' \in [Task -> {"none", "created", "shipped"}]
    <3>1. CASE GoodsIssue(t)
      BY <3>1, GoodsIssueRows DEF GoodsIssue, TypeOK
    <3>2. CASE UNCHANGED <<stockVars, issued, ship>>
      BY <3>2 DEF TypeOK, StockTypeOK
    <3> QED BY <1>i, <3>1, <3>2 DEF IssueToRma
  <2> QED BY <1>i, <2>1, <2>2, <2>3 DEF IssueToRma, TypeOK
<1>k. ASSUME NEW t \in Task, ReleaseAndCancel(t) PROVE TypeOK'
  <2>1. stat' \in [Row -> StockStatus]
    BY <1>k, Writes DEF ReleaseAndCancel, CancelTask, TypeOK, StockTypeOK, StockStatus, ManualStatuses, AfterIssueStatuses
  <2>2. task' \in [Task -> TaskStatus]
    BY <1>k, <1>t DEF ReleaseAndCancel, CancelTask, TaskGoes, TaskStatus
  <2>3. req' \in [Req -> RequestStatus]
    BY <1>k DEF ReleaseAndCancel, TypeOK, RequestStatus
  <2> QED BY <1>k, <2>1, <2>2, <2>3 DEF ReleaseAndCancel, TypeOK, StockTypeOK
<1>s. ASSUME NEW s \in Row, NEW to \in ManualHolds, SetStatus(s, to) PROVE TypeOK'
  <2>1. stat' \in [Row -> StockStatus]
    BY <1>s, Writes DEF SetStatus, TypeOK, StockTypeOK, StockStatus, AfterIssueStatuses
  <2> QED BY <1>s, <2>1 DEF SetStatus, TypeOK, StockTypeOK
<1>e. CASE RepairReads
  <2>1. UNCHANGED <<stat, qty, req, link, issued, task, owner, line, ship>>
    BY <1>e, ReadsKeep
  <2>2. repair \in RepairRecord /\ NoUnit \in Unit /\ Row \subseteq Unit
    BY DEF TypeOK, Unit
  <2>3. EndRepair => repair' \in RepairRecord
    BY <2>2 DEF EndRepair, NoRepair, RepairRecord
  <2>4. repair' \in RepairRecord
    <3>1. ASSUME NEW s \in Row, BeginRepair(s) PROVE repair' \in RepairRecord
      BY <2>2, <3>1 DEF BeginRepair, RepairRecord
    <3>2. CASE ReadLinks
      <4>1. PICK L \in SUBSET Req, V \in SUBSET Req, C \in SUBSET Req :
              \/ repair' = [repair EXCEPT !.at = "tasks", !.links = L, !.todo = L, !.live = V,
                                          !.closing = C]
              \/ EndRepair
        BY <3>2 DEF ReadLinks
      <4> QED BY <2>2, <2>3, <4>1 DEF RepairRecord
    <3>3. ASSUME NEW r \in Req, CheckTask(r) PROVE repair' \in RepairRecord
      <4>1. PICK T \in SUBSET Req, V \in SUBSET Req :
              repair' = [repair EXCEPT !.todo = T, !.live = V] \/ EndRepair
        <5>1. repair.todo \in SUBSET Req /\ repair.live \in SUBSET Req
          BY <2>2 DEF RepairRecord
        <5> QED BY <3>3, <5>1 DEF CheckTask
      <4> QED BY <2>2, <2>3, <4>1 DEF RepairRecord
    <3> QED BY <1>e, <3>1, <3>2, <3>3 DEF RepairReads
  <2> QED BY <2>1, <2>4 DEF TypeOK, StockTypeOK
<1>w. CASE WriteRepair
  <2>1. stat' \in [Row -> StockStatus]
    BY <1>w, Writes DEF WriteRepair, TypeOK, StockTypeOK, StockStatus, ManualStatuses, AfterIssueStatuses
  <2>2. req' \in [Req -> RequestStatus]
    BY <1>w DEF WriteRepair, TypeOK, RequestStatus
  <2>3. link' \in [Req -> Unit]
    BY <1>w DEF WriteRepair, TypeOK, Unit
  <2>4. repair' \in RepairRecord
    <3>1. PICK b \in BOOLEAN : repair' = [NoRepair EXCEPT !.crossed = b]
      BY <1>w DEF WriteRepair, TypeOK, RepairRecord
    <3> QED BY <3>1 DEF NoRepair, RepairRecord, Unit
  <2> QED BY <1>w, <2>1, <2>2, <2>3, <2>4 DEF WriteRepair, TypeOK, StockTypeOK
<1> QED
  BY <1>u, <1>r, <1>a, <1>c, <1>b, <1>p, <1>q, <1>m, <1>x, <1>d, <1>i, <1>k, <1>s, <1>e, <1>w
  DEF Next, RequestNext, TaskNext, InventoryNext

\* Every column always holds a value of its type: no split, allocation or pick
\* yields a negative quantity or an unknown status.
THEOREM TypeCorrect == Spec => []TypeOK
<1>1. TypeOK /\ [Next]_vars => TypeOK'
  BY TypeNext
<1> QED BY <1>1, TypeInit, PTL DEF Spec

-----------------------------------------------------------------------------
(* The inductive invariant *)

\* A line not yet picked has no picked quantity.
UnpickedIsZero ==
    \A t \in Task : \A u \in Unit : ~line[t][u].picked => line[t][u].got = 0

\* A line of a live task asks for its whole row; more is never picked.
LinesFit ==
    \A t \in Task : \A s \in Row :
        Holds(t, s) => line[t][s].want = qty[s] /\ line[t][s].got <= qty[s]

\* What concerns the rows and the task lines.
StockInv == OneTaskHolds /\ HeldUnitsCommitted /\ UnpickedIsZero /\ LinesFit

\* A step that touches no line and no unit of a task still live after it.
LEMMA StockKept ==
    ASSUME TypeOK, StockInv, line' = line,
           \A t \in Task : \A s \in Row :
              Holds(t, s)' => Holds(t, s) /\ stat'[s] = stat[s] /\ qty'[s] = qty[s]
    PROVE  StockInv'
<1>1. OneTaskHolds'
  BY DEF StockInv, OneTaskHolds
<1>2. HeldUnitsCommitted'
  BY DEF StockInv, HeldUnitsCommitted
<1>3. UnpickedIsZero'
  BY DEF StockInv, UnpickedIsZero
<1>4. LinesFit'
  BY DEF StockInv, LinesFit
<1> QED BY <1>1, <1>2, <1>3, <1>4 DEF StockInv

\* Cancelling a task gives back its own units only.
LEMMA CancelTaskKeeps ==
    ASSUME TypeOK, StockInv, NEW t \in Task, CancelTask(t), line' = line, qty' = qty
    PROVE  StockInv'
<1>1. ASSUME NEW u \in Task, NEW s \in Row, Holds(u, s)'
      PROVE  Holds(u, s) /\ stat'[s] = stat[s] /\ qty'[s] = qty[s]
  <2>1. u # t /\ Holds(u, s)
    BY <1>1 DEF CancelTask, TaskGoes, Holds, UnitsOf, LinesOf, TypeOK, CancellableStatuses, HoldStatuses
  <2>2. s \notin UnitsOf(t)
    BY <2>1 DEF CancelTask, TaskGoes, StockInv, OneTaskHolds, Holds
  <2> QED BY <2>1, <2>2 DEF CancelTask, Release
<1> QED BY <1>1, StockKept

\* Releasing rows of the approval pool touches no live task's unit.
LEMMA PoolIsUnheld ==
    \A r \in Req : \A s \in ApprovalPool(r) : \A t \in Task : ~Holds(t, s)
BY DEF ApprovalPool

\* A goods issue that takes its task out of the live ones touches only that
\* task's units.
LEMMA GoodsIssueKeeps ==
    ASSUME TypeOK, StockInv, NEW t \in Task, GoodsIssue(t), line' = line,
           NEW to \in IssuedTaskStatuses, task' = [task EXCEPT ![t] = to]
    PROVE  StockInv'
<1>1. ASSUME NEW u \in Task, NEW s \in Row, Holds(u, s)'
      PROVE  Holds(u, s) /\ stat'[s] = stat[s] /\ qty'[s] = qty[s]
  <2>1. u # t /\ Holds(u, s)
    BY <1>1 DEF Holds, UnitsOf, LinesOf, TypeOK, CancellableStatuses, HoldStatuses, IssuedTaskStatuses
  <2>2. task[t] \in CancellableStatuses
    BY DEF GoodsIssue, CancellableStatuses
  <2>3. s \notin UnitsOf(t)
    BY <2>1, <2>2 DEF StockInv, OneTaskHolds, Holds
  <2>4. stat[s] # "ABSENT"
    BY <2>1 DEF StockInv, HeldUnitsCommitted
  <2> QED BY <2>1, <2>3, <2>4, GoodsIssueRows
<1> QED BY <1>1, StockKept

\* A new task holds rows nobody held; the rows of the others stay as they are.
LEMMA AllocateKeeps ==
    ASSUME TypeOK, StockInv, NEW r \in Req, NEW t \in Task, Allocate(r, t)
    PROVE  StockInv'
<1>1. PICK lines \in [Unit -> LineRecord] :
        /\ line' = [line EXCEPT ![t] = lines]
        /\ \A u \in Unit : lines[u].got = 0 /\ ~lines[u].picked
        /\ \A s \in Row :
             \/ /\ lines[s].want > 0
                /\ stat[s] = "AVAILABLE" \/ s \in ApprovalPool(r)
                /\ stat'[s] = "RESERVED"
                /\ lines[s].want = qty'[s]
             \/ /\ lines[s].want = 0
                /\ \/ stat'[s] = stat[s] /\ (stat[s] = "ABSENT" \/ qty'[s] = qty[s])
                   \/ stat[s] = "ABSENT" /\ stat'[s] = "AVAILABLE"
                   \/ s \in ApprovalPool(r) /\ stat'[s] = "AVAILABLE"
  BY AllocateRows
<1>2. /\ line'[t] = lines
      /\ \A u \in Task \ {t} : line'[u] = line[u] /\ task'[u] = task[u]
  BY <1>1 DEF Allocate, TaskGoes, TypeOK
<1>3. ASSUME NEW s \in Row, NEW u \in Task, Holds(u, s)
      PROVE  /\ u # t
             /\ stat[s] \in {"RESERVED", "PICKED"} /\ s \notin ApprovalPool(r)
             /\ lines[s].want = 0 /\ stat'[s] = stat[s] /\ qty'[s] = qty[s]
  <2>1. u # t
    BY <1>3 DEF Allocate, TaskGoes, Holds, CancellableStatuses, HoldStatuses
  <2>2. stat[s] \in {"RESERVED", "PICKED"}
    BY <1>3 DEF StockInv, HeldUnitsCommitted
  <2>3. s \notin ApprovalPool(r)
    BY <1>3, PoolIsUnheld
  <2> QED BY <2>1, <2>2, <2>3, <1>1
<1>4. ASSUME NEW s \in Row, Holds(t, s)'
      PROVE  lines[s].want > 0 /\ stat'[s] = "RESERVED" /\ lines[s].want = qty'[s]
  BY <1>1, <1>2, <1>4 DEF Holds, UnitsOf, LinesOf
<1>5. ASSUME NEW s \in Row, NEW u \in Task, Holds(u, s)', u # t
      PROVE  Holds(u, s)
  BY <1>2, <1>5 DEF Holds, UnitsOf, LinesOf
<1>6. OneTaskHolds'
  <2> SUFFICES ASSUME NEW u \in Task, NEW v \in Task, NEW s \in Row,
                      Holds(u, s)', Holds(v, s)'
               PROVE  u = v
    BY DEF OneTaskHolds
  <2>1. CASE u # t /\ v # t
    BY <2>1, <1>5 DEF StockInv, OneTaskHolds
  <2>2. CASE u = t \/ v = t
    BY <2>2, <1>3, <1>4, <1>5
  <2> QED BY <2>1, <2>2
<1>7. HeldUnitsCommitted'
  <2> SUFFICES ASSUME NEW u \in Task, NEW s \in Row, Holds(u, s)'
               PROVE  stat'[s] = IF line'[u][s].got > 0 THEN "PICKED" ELSE "RESERVED"
    BY DEF HeldUnitsCommitted
  <2>1. CASE u = t
    BY <2>1, <1>1, <1>2, <1>4 DEF Unit
  <2>2. CASE u # t
    <3>1. Holds(u, s)
      BY <2>2, <1>5
    <3>2. stat'[s] = stat[s] /\ line'[u] = line[u]
      BY <3>1, <2>2, <1>2, <1>3
    <3> QED BY <3>1, <3>2 DEF StockInv, HeldUnitsCommitted
  <2> QED BY <2>1, <2>2
<1>8. UnpickedIsZero'
  <2> SUFFICES ASSUME NEW v \in Task, NEW u \in Unit, ~line'[v][u].picked
               PROVE  line'[v][u].got = 0
    BY DEF UnpickedIsZero
  <2>1. CASE v = t
    BY <2>1, <1>1, <1>2
  <2>2. CASE v # t
    BY <2>2, <1>2 DEF StockInv, UnpickedIsZero
  <2> QED BY <2>1, <2>2
<1>9. LinesFit'
  <2> SUFFICES ASSUME NEW u \in Task, NEW s \in Row, Holds(u, s)'
               PROVE  line'[u][s].want = qty'[s] /\ line'[u][s].got <= qty'[s]
    BY DEF LinesFit
  <2>1. CASE u = t
    <3>1. line'[u][s].want = qty'[s] /\ line'[u][s].got = 0
      BY <2>1, <1>1, <1>2, <1>4 DEF Unit
    <3>2. qty'[s] \in Nat
      BY AllocateRows DEF StockTypeOK
    <3> QED BY <3>1, <3>2
  <2>2. CASE u # t
    <3>1. Holds(u, s)
      BY <2>2, <1>5
    <3>2. qty'[s] = qty[s] /\ line'[u] = line[u]
      BY <3>1, <2>2, <1>2, <1>3
    <3> QED BY <3>1, <3>2 DEF StockInv, LinesFit
  <2> QED BY <2>1, <2>2
<1> QED BY <1>6, <1>7, <1>8, <1>9 DEF StockInv

\* A set `open` of unpicked lines of a live task is picked, line u with got[u];
\* the units picked from become PICKED, the others keep their status.
LEMMA PickKeeps ==
    ASSUME TypeOK, StockInv, NEW t \in Task, task[t] \in CancellableStatuses,
           NEW to \in CancellableStatuses, task' = [task EXCEPT ![t] = to],
           NEW open \in SUBSET LinesOf(t), \A u \in open : ~line[t][u].picked,
           NEW got \in [open -> Nat], \A u \in open : got[u] <= line[t][u].want,
           line' = [line EXCEPT ![t] = [u \in Unit |->
                      IF u \in open
                      THEN [want |-> line[t][u].want, got |-> got[u], picked |-> TRUE]
                      ELSE line[t][u]]],
           stat' = Transition(stat, {u \in open : got[u] > 0}, "PICKED"), qty' = qty
    PROVE  StockInv'
<1>1. open \subseteq Unit /\ LinesOf(t) \subseteq Unit
  BY DEF LinesOf
<1>2. /\ \A v \in Task \ {t} : line'[v] = line[v] /\ task'[v] = task[v]
      /\ task'[t] \in CancellableStatuses
      /\ \A u \in Unit : line'[t][u] =
            IF u \in open
            THEN [want |-> line[t][u].want, got |-> got[u], picked |-> TRUE]
            ELSE line[t][u]
  BY DEF TypeOK
<1>3. \A v \in Task : \A u \in Unit : line'[v][u].want = line[v][u].want
  <2>1. ASSUME NEW u \in Unit PROVE line'[t][u].want = line[t][u].want
    BY <1>2
  <2> QED BY <1>2, <2>1
<1>4. \A v \in Task : \A s \in Row : Holds(v, s)' <=> Holds(v, s)
  BY <1>2, <1>3 DEF Holds, UnitsOf, LinesOf
<1>5. \A s \in Row : stat'[s] = IF s \in open /\ got[s] > 0 THEN "PICKED" ELSE stat[s]
  BY DEF Transition
<1>6. \A s \in open \ {NoUnit} : Holds(t, s)
  BY DEF Holds, UnitsOf
<1>7. OneTaskHolds'
  BY <1>4 DEF StockInv, OneTaskHolds
<1>8. HeldUnitsCommitted'
  <2> SUFFICES ASSUME NEW v \in Task, NEW s \in Row, Holds(v, s)
               PROVE  stat'[s] = IF line'[v][s].got > 0 THEN "PICKED" ELSE "RESERVED"
    BY <1>4 DEF HeldUnitsCommitted
  <2>1. /\ s \in Unit /\ s # NoUnit
        /\ stat[s] = IF line[v][s].got > 0 THEN "PICKED" ELSE "RESERVED"
    BY OutboundAssumption DEF StockInv, HeldUnitsCommitted, Unit
  <2>2. CASE s \notin open
    BY <2>1, <2>2, <1>2, <1>5
  <2>3. CASE s \in open
    <3>1. v = t
      BY <2>1, <2>3, <1>6 DEF StockInv, OneTaskHolds
    <3>2. line[t][s].got = 0
      BY <2>1, <2>3 DEF StockInv, UnpickedIsZero
    <3>3. line'[t][s].got = got[s] /\ got[s] \in Nat
      <4>1. line'[t][s] = [want |-> line[t][s].want, got |-> got[s], picked |-> TRUE]
        BY <2>1, <2>3, <1>2
      <4> QED BY <4>1, <2>3
    <3>4. stat[s] = "RESERVED"
      BY <2>1, <3>1, <3>2
    <3>5. CASE got[s] > 0
      BY <2>3, <3>1, <3>3, <3>5, <1>5
    <3>6. CASE ~(got[s] > 0)
      BY <2>3, <3>1, <3>3, <3>4, <3>6, <1>5
    <3> QED BY <3>5, <3>6
  <2> QED BY <2>2, <2>3
<1>9. UnpickedIsZero'
  <2> SUFFICES ASSUME NEW v \in Task, NEW u \in Unit, ~line'[v][u].picked
               PROVE  line'[v][u].got = 0
    BY DEF UnpickedIsZero
  <2> QED BY <1>2 DEF StockInv, UnpickedIsZero
<1>10. LinesFit'
  <2> SUFFICES ASSUME NEW v \in Task, NEW s \in Row, Holds(v, s)
               PROVE  line'[v][s].want = qty[s] /\ line'[v][s].got <= qty[s]
    BY <1>4 DEF LinesFit
  <2>1. /\ s \in Unit
        /\ line[v][s].want = qty[s] /\ line[v][s].got <= qty[s]
    BY DEF StockInv, LinesFit, Unit
  <2>2. CASE v = t /\ s \in open
    BY <2>1, <2>2, <1>2
  <2>3. CASE ~(v = t /\ s \in open)
    BY <2>1, <2>3, <1>2
  <2> QED BY <2>2, <2>3
<1> QED BY <1>7, <1>8, <1>9, <1>10 DEF StockInv

\* Every step keeps StockInv, unless it repairs over a task.
LEMMA StockNext ==
    ASSUME TypeOK, StockInv, ~repair'.crossed, [Next]_vars
    PROVE  StockInv'
<1> USE DEF stockVars, requestVars, taskVars
<1>h. \A t \in Task, s \in Row : Holds(t, s) => stat[s] \in {"RESERVED", "PICKED"}
  BY DEF StockInv, HeldUnitsCommitted
<1>u. CASE UNCHANGED vars
  BY <1>u, StockKept DEF vars, Holds, UnitsOf, LinesOf
<1>r. ASSUME NEW r \in Req,
             \/ Submit(r) \/ Defer(r) \/ Reject(r) \/ ApproveOnly(r)
             \/ RecoverStalled(r)
      PROVE  StockInv'
  <2>1. UNCHANGED <<stat, qty, task, line>>
    BY <1>r DEF Submit, Defer, Reject, ApproveOnly, RecoverStalled
  <2> QED BY <2>1, StockKept DEF Holds, UnitsOf, LinesOf
<1>a. ASSUME NEW r \in Req, ApproveAndReserve(r) PROVE StockInv'
  <2>1. UNCHANGED <<task, line>>
    BY <1>a DEF ApproveAndReserve
  <2>2. \A s \in Row : stat[s] \notin {"ABSENT", "AVAILABLE"} =>
           stat'[s] = stat[s] /\ qty'[s] = qty[s]
    BY <1>a, ApproveRows
  <2>3. \A t \in Task, s \in Row : Holds(t, s)' => Holds(t, s)
    BY <2>1 DEF Holds, UnitsOf, LinesOf
  <2> QED BY <2>1, <2>2, <2>3, <1>h, StockKept
<1>c. ASSUME NEW r \in Req, Cancel(r) PROVE StockInv'
  <2>1. line' = line /\ qty' = qty
    BY <1>c DEF Cancel
  <2>2. CASE \E t \in UncancelledTasks(r) : CancelTask(t)
    BY <2>1, <2>2, CancelTaskKeeps DEF UncancelledTasks, TasksOf
  <2>3. CASE /\ \E P \in PoolRows(r, Want[r]) : stat' = Release(stat, P)
             /\ task' = task
    <3>1. PICK P \in PoolRows(r, Want[r]) : stat' = Release(stat, P)
      BY <2>3
    <3>2. \A t \in Task, s \in Row : Holds(t, s) => s \notin P
      BY <3>1, PoolIsUnheld DEF PoolRows
    <3>3. \A t \in Task, s \in Row : Holds(t, s)' => Holds(t, s)
      BY <2>1, <2>3 DEF Holds, UnitsOf, LinesOf
    <3>4. \A t \in Task, s \in Row : Holds(t, s) => stat'[s] = stat[s]
      BY <3>1, <3>2 DEF Release
    <3> QED BY <2>1, <3>3, <3>4, StockKept
  <2>4. CASE UNCHANGED <<stat, task>>
    <3>1. \A t \in Task, s \in Row : Holds(t, s)' => Holds(t, s)
      BY <2>1, <2>4 DEF Holds, UnitsOf, LinesOf
    <3> QED BY <2>1, <2>4, <3>1, StockKept
  <2> QED BY <1>c, <2>2, <2>3, <2>4 DEF Cancel
<1>b. ASSUME NEW r \in Req, NEW t \in Task, Allocate(r, t) PROVE StockInv'
  BY <1>b, AllocateKeeps
<1>p. ASSUME NEW t \in Task, NEW u \in LinesOf(t), NEW n \in 0..line[t][u].want, Pick(t, u, n)
      PROVE  StockInv'
  <2> DEFINE got == [v \in {u} |-> n]
  <2>1. u \in Unit /\ n \in Nat /\ n <= line[t][u].want
    BY DEF LinesOf, TypeOK, LineRecord
  <2>2. line' = [line EXCEPT ![t] = [v \in Unit |->
                   IF v \in {u}
                   THEN [want |-> line[t][v].want, got |-> got[v], picked |-> TRUE]
                   ELSE line[t][v]]]
    BY <1>p, <2>1 DEF Pick, TypeOK
  <2>3. {v \in {u} : got[v] > 0} = IF n > 0 THEN {u} ELSE {}
    OBVIOUS
  <2>4. stat' = Transition(stat, {v \in {u} : got[v] > 0}, "PICKED") /\ qty' = qty
    BY <1>p, <2>3 DEF Pick, PickStat
  <2>5. PICK to \in {"PICKING", "PICKED"} : task' = [task EXCEPT ![t] = to]
    BY <1>p DEF Pick, TaskGoes
  <2>6. task[t] \in CancellableStatuses /\ to \in CancellableStatuses
    BY <1>p, <2>5 DEF Pick, Pickable, CancellableStatuses
  <2>7. got \in [{u} -> Nat] /\ \A v \in {u} : got[v] <= line[t][v].want
    BY <2>1
  <2>8. {u} \in SUBSET LinesOf(t) /\ \A v \in {u} : ~line[t][v].picked
    BY <1>p DEF Pick
  <2> HIDE DEF got
  <2> QED BY <2>2, <2>4, <2>5, <2>6, <2>7, <2>8, PickKeeps
<1>q. ASSUME NEW t \in Task, PickRemaining(t) PROVE StockInv'
  <2> DEFINE open == {u \in LinesOf(t) : ~line[t][u].picked}
             got == [u \in open |-> IF u = NoUnit THEN 0 ELSE line[t][u].want]
  <2>1. \A u \in open : u \in Unit /\ line[t][u].want \in Nat /\ line[t][u].want > 0
    BY DEF LinesOf, TypeOK, LineRecord
  <2>2. line' = [line EXCEPT ![t] = [u \in Unit |->
                   IF u \in open
                   THEN [want |-> line[t][u].want, got |-> got[u], picked |-> TRUE]
                   ELSE line[t][u]]]
    BY <1>q DEF PickRemaining
  <2>3. {u \in open : got[u] > 0} = open \ {NoUnit}
    BY <2>1
  <2>4. stat' = Transition(stat, {u \in open : got[u] > 0}, "PICKED") /\ qty' = qty
    BY <1>q, <2>3 DEF PickRemaining
  <2>5. task[t] \in CancellableStatuses /\ task' = [task EXCEPT ![t] = "PICKED"]
    BY <1>q DEF PickRemaining, TaskGoes, CancellableStatuses
  <2>6. "PICKED" \in CancellableStatuses
    BY DEF CancellableStatuses
  <2>7. got \in [open -> Nat] /\ \A u \in open : got[u] <= line[t][u].want
    BY <2>1
  <2>8. open \in SUBSET LinesOf(t) /\ \A u \in open : ~line[t][u].picked
    OBVIOUS
  <2> HIDE DEF got, open
  <2> QED BY <2>2, <2>4, <2>5, <2>6, <2>7, <2>8, PickKeeps
<1>m. ASSUME NEW t \in Task,
             \/ Advance(t) \/ StartPacking(t) \/ CompletePacking(t)
             \/ CreateShipment(t) \/ ConfirmDelivery(t) \/ SetException(t)
      PROVE  StockInv'
  <2>1. UNCHANGED <<stat, qty, line>>
    BY <1>m DEF Advance, StartPacking, CompletePacking, CreateShipment, ConfirmDelivery, SetException
  <2>2. \A u \in Task : task'[u] \in CancellableStatuses => task[u] \in CancellableStatuses
    BY <1>m, OutboundAssumption
    DEF Advance, StartPacking, CompletePacking, CreateShipment, ConfirmDelivery, SetException,
        TaskGoes, TypeOK, CancellableStatuses, HoldStatuses
  <2>3. \A u \in Task, s \in Row : Holds(u, s)' => Holds(u, s)
    BY <2>1, <2>2 DEF Holds, UnitsOf, LinesOf
  <2> QED BY <2>1, <2>3, StockKept
<1>d. ASSUME NEW t \in Task, Dispatch(t) PROVE StockInv'
  BY <1>d, GoodsIssueKeeps DEF Dispatch, TaskGoes, IssuedTaskStatuses
<1>i. ASSUME NEW t \in Task, IssueToRma(t) PROVE StockInv'
  <2>1. line' = line /\ task' = [task EXCEPT ![t] = "CLOSED"]
    BY <1>i DEF IssueToRma, TaskGoes
  <2>2. CASE GoodsIssue(t)
    BY <2>1, <2>2, GoodsIssueKeeps DEF IssuedTaskStatuses
  <2>3. CASE UNCHANGED stockVars
    <3>1. \A u \in Task, s \in Row : Holds(u, s)' => Holds(u, s)
      BY <2>1 DEF Holds, UnitsOf, LinesOf, TypeOK, CancellableStatuses, HoldStatuses
    <3> QED BY <2>1, <2>3, <3>1, StockKept
  <2> QED BY <1>i, <2>2, <2>3 DEF IssueToRma
<1>k. ASSUME NEW t \in Task, ReleaseAndCancel(t) PROVE StockInv'
  BY <1>k, CancelTaskKeeps DEF ReleaseAndCancel
<1>s. ASSUME NEW s \in Row, NEW to \in ManualHolds, SetStatus(s, to) PROVE StockInv'
  <2>1. UNCHANGED <<qty, task, line>>
    BY <1>s DEF SetStatus
  <2>2. \A t \in Task, u \in Row : Holds(t, u)' => Holds(t, u)
    BY <2>1 DEF Holds, UnitsOf, LinesOf
  <2>3. \A t \in Task, u \in Row : Holds(t, u) => stat'[u] = stat[u]
    BY <1>s, <1>h DEF SetStatus, Transition, ManualStatuses
  <2> QED BY <2>1, <2>2, <2>3, StockKept
<1>e. CASE RepairReads
  <2>1. UNCHANGED <<stat, qty, task, line>>
    BY <1>e, ReadsKeep
  <2> QED BY <2>1, StockKept DEF Holds, UnitsOf, LinesOf
<1>w. CASE WriteRepair
  <2>1. UNCHANGED <<qty, task, line>> /\ stat' = Release(stat, {repair.unit})
    BY <1>w DEF WriteRepair
  <2>2. \A t \in Task : ~Holds(t, repair.unit)
    BY <1>w DEF WriteRepair, CrossesTask, NoRepair
  <2>3. \A t \in Task, s \in Row : Holds(t, s)' => Holds(t, s)
    BY <2>1 DEF Holds, UnitsOf, LinesOf
  <2>4. \A t \in Task, s \in Row : Holds(t, s) => stat'[s] = stat[s]
    BY <2>1, <2>2 DEF Release
  <2> QED BY <2>1, <2>3, <2>4, StockKept
<1> QED
  BY <1>u, <1>r, <1>a, <1>c, <1>b, <1>p, <1>q, <1>m, <1>d, <1>i, <1>k, <1>s, <1>e, <1>w
  DEF Next, RequestNext, TaskNext, InventoryNext

-----------------------------------------------------------------------------
(* Requests and their tasks *)

\* The unique index on FulfillmentTask.requestId, cancelled tasks apart.
OneTaskEach ==
    \A t, u \in Task :
        (/\ task[t] \notin {"NONE", "CANCELLED"} /\ task[u] \notin {"NONE", "CANCELLED"}
         /\ owner[t] = owner[u]) => t = u

\* A task in use works for a request.
TasksOwned == \A t \in Task : task[t] # "NONE" => owner[t] \in Req

\* A live task works for a request in picking, or for one a repair closed.
LiveTaskKept ==
    \A t \in Task :
        task[t] \in CancellableStatuses =>
            owner[t] \in Req /\ req[owner[t]] \in {"PICKING", "CANCELLED"}

\* A task whose shipment was dispatched stays in the states after goods issue,
\* and its request in PICKING until the handover, or closed by a repair.
ShippedIsIssued ==
    \A t \in Task : ship[t] = "shipped" =>
        /\ task[t] \in IssuedTaskStatuses
        /\ req[owner[t]] \in {"PICKING", "ISSUED_TO_RMA", "COMPLETED", "CANCELLED"}

\* What concerns the requests and their tasks, whatever is repaired.
RequestInv == OneTaskEach /\ TasksOwned /\ LiveTaskKept /\ ShippedIsIssued

\* A decision on a request that has no task in flight.
LEMMA RequestMoves ==
    ASSUME TypeOK, RequestInv, NEW r \in Req, NEW to \in RequestStatus,
           req' = [req EXCEPT ![r] = to], UNCHANGED <<task, owner, ship>>,
           \A t \in TasksOf(r) : task[t] \notin CancellableStatuses /\ ship[t] # "shipped"
    PROVE  RequestInv'
<1>1. OneTaskEach' /\ TasksOwned'
  BY DEF RequestInv, OneTaskEach, TasksOwned
<1>2. LiveTaskKept'
  BY DEF RequestInv, LiveTaskKept, TypeOK, TasksOf
<1>3. ShippedIsIssued'
  BY DEF RequestInv, ShippedIsIssued, TypeOK, TasksOf
<1> QED BY <1>1, <1>2, <1>3 DEF RequestInv

\* A step of one task within its life that leaves its request alone.
LEMMA TaskMoves ==
    ASSUME TypeOK, RequestInv, NEW t \in Task, task[t] \notin {"NONE", "CANCELLED"},
           NEW to \in CancellableStatuses \union IssuedTaskStatuses,
           task' = [task EXCEPT ![t] = to],
           to \in CancellableStatuses => task[t] \in CancellableStatuses /\ ship'[t] # "shipped",
           task[t] \in CancellableStatuses \/ ship'[t] = ship[t],
           \A u \in Task \ {t} : ship'[u] = ship[u],
           UNCHANGED <<req, owner>>
    PROVE  RequestInv'
<1> USE DEF CancellableStatuses, IssuedTaskStatuses, HoldStatuses
<1>0. /\ \A u \in Task \ {t} : task'[u] = task[u]
      /\ task'[t] = to
  BY DEF TypeOK
<1>1. OneTaskEach'
  BY <1>0 DEF RequestInv, OneTaskEach
<1>2. TasksOwned'
  BY <1>0 DEF RequestInv, TasksOwned
<1>3. LiveTaskKept'
  BY <1>0 DEF RequestInv, LiveTaskKept
<1>4. ShippedIsIssued'
  BY <1>0 DEF RequestInv, ShippedIsIssued, LiveTaskKept
<1> QED BY <1>1, <1>2, <1>3, <1>4 DEF RequestInv

\* A task is cancelled and its request re-opened or cancelled with it.
LEMMA CancelMoves ==
    ASSUME TypeOK, RequestInv, NEW t \in Task, CancelTask(t),
           \A r \in Req : r # owner[t] => req'[r] = req[r],
           owner' = owner, ship' = ship
    PROVE  RequestInv'
<1> USE DEF CancellableStatuses, IssuedTaskStatuses, HoldStatuses
<1>0. /\ task[t] \in CancellableStatuses /\ ship[t] # "shipped"
      /\ task'[t] = "CANCELLED" /\ \A u \in Task \ {t} : task'[u] = task[u]
  BY DEF CancelTask, TaskGoes, TypeOK
<1>1. \A u \in Task \ {t} : task[u] \notin {"NONE", "CANCELLED"} => owner[u] # owner[t]
  BY <1>0 DEF RequestInv, OneTaskEach
<1>3. OneTaskEach'
  BY <1>0 DEF RequestInv, OneTaskEach
<1>4. TasksOwned'
  BY <1>0 DEF RequestInv, TasksOwned
<1>5. LiveTaskKept'
  BY <1>0, <1>1 DEF RequestInv, LiveTaskKept
<1>6. ShippedIsIssued'
  BY <1>0, <1>1 DEF RequestInv, ShippedIsIssued, TasksOwned
<1> QED BY <1>3, <1>4, <1>5, <1>6 DEF RequestInv

\* Every step keeps RequestInv.
LEMMA RequestsNext ==
    ASSUME TypeOK, RequestInv, [Next]_vars
    PROVE  RequestInv'
<1> USE DEF stockVars, requestVars, taskVars
<1>u. CASE UNCHANGED <<req, task, owner, ship>>
  BY <1>u DEF RequestInv, OneTaskEach, TasksOwned, LiveTaskKept, ShippedIsIssued
<1>r. ASSUME NEW r \in Req,
             \/ Submit(r) \/ Defer(r) \/ Reject(r) \/ ApproveOnly(r)
             \/ ApproveAndReserve(r)
      PROVE  RequestInv'
  <2>1. UNCHANGED <<task, owner, ship>>
    BY <1>r DEF Submit, Defer, Reject, ApproveOnly, ApproveAndReserve
  <2>2. /\ req[r] \in {"DRAFT", "SUBMITTED", "PENDING_APPROVAL"}
        /\ \E to \in RequestStatus : req' = [req EXCEPT ![r] = to]
    BY <1>r DEF Submit, Defer, Reject, ApproveOnly, ApproveAndReserve, RequestGoes, Reviewable,
                RequestStatus
  <2>3. \A t \in TasksOf(r) : task[t] \notin CancellableStatuses /\ ship[t] # "shipped"
    BY <2>2 DEF RequestInv, LiveTaskKept, ShippedIsIssued, TasksOf
  <2> QED BY <2>1, <2>2, <2>3, RequestMoves
<1>v. ASSUME NEW r \in Req, RecoverStalled(r) PROVE RequestInv'
  <2>1. /\ UNCHANGED <<task, owner, ship>>
        /\ req' = [req EXCEPT ![r] = "CANCELLED"]
        /\ "CANCELLED" \in RequestStatus
    BY <1>v DEF RecoverStalled, RequestGoes, RequestStatus
  <2>2. \A t \in TasksOf(r) : task[t] \notin CancellableStatuses /\ ship[t] # "shipped"
    BY <1>v DEF RecoverStalled, NothingIssued, CancellableStatuses, HoldStatuses
  <2> QED BY <2>1, <2>2, RequestMoves
<1>c. ASSUME NEW r \in Req, Cancel(r) PROVE RequestInv'
  <2>1. /\ UNCHANGED <<owner, ship>>
        /\ req' = [req EXCEPT ![r] = "CANCELLED"]
        /\ "CANCELLED" \in RequestStatus
    BY <1>c DEF Cancel, RequestGoes, RequestStatus
  <2>2. CASE \E t \in UncancelledTasks(r) : CancelTask(t)
    <3>1. PICK t \in Task : owner[t] = r /\ CancelTask(t)
      BY <2>2 DEF UncancelledTasks, TasksOf
    <3>2. \A q \in Req : q # owner[t] => req'[q] = req[q]
      BY <2>1, <3>1 DEF TypeOK
    <3> QED BY <2>1, <3>1, <3>2, CancelMoves
  <2>3. CASE UncancelledTasks(r) = {} /\ task' = task
    <3>1. \A t \in TasksOf(r) : task[t] = "CANCELLED"
      BY <2>3 DEF UncancelledTasks
    <3>2. \A t \in TasksOf(r) : task[t] \notin CancellableStatuses /\ ship[t] # "shipped"
      BY <3>1 DEF TasksOf, RequestInv, ShippedIsIssued, CancellableStatuses, HoldStatuses,
                  IssuedTaskStatuses
    <3> QED BY <2>1, <2>3, <3>2, RequestMoves
  <2> QED BY <1>c, <2>2, <2>3 DEF Cancel
<1>b. ASSUME NEW r \in Req, NEW t \in Task, Allocate(r, t) PROVE RequestInv'
  <2> USE DEF CancellableStatuses, IssuedTaskStatuses, HoldStatuses
  <2>1. /\ task[t] = "NONE" /\ task'[t] = "ALLOCATED" /\ owner'[t] = r
        /\ \A u \in Task \ {t} : task'[u] = task[u] /\ owner'[u] = owner[u]
        /\ req'[r] = "PICKING" /\ \A q \in Req \ {r} : req'[q] = req[q]
        /\ ship' = ship
    BY <1>b DEF Allocate, TaskGoes, RequestGoes, TypeOK
  <2>2. \A u \in Task : owner[u] = r => task[u] = "CANCELLED"
    BY <1>b DEF Allocate, UncancelledTasks, TasksOf
  <2>3. OneTaskEach'
    BY <2>1, <2>2 DEF RequestInv, OneTaskEach
  <2>4. TasksOwned'
    BY <2>1 DEF RequestInv, TasksOwned
  <2>5. LiveTaskKept'
    BY <2>1 DEF RequestInv, LiveTaskKept
  <2>6. ShippedIsIssued'
    <3>1. \A u \in Task : ship[u] = "shipped" => u # t /\ owner[u] # r /\ owner[u] \in Req
      BY <2>1, <2>2 DEF RequestInv, ShippedIsIssued, TasksOwned
    <3> QED BY <2>1, <3>1 DEF RequestInv, ShippedIsIssued
  <2> QED BY <2>3, <2>4, <2>5, <2>6 DEF RequestInv
<1>p. ASSUME NEW t \in Task,
             \/ \E u \in LinesOf(t) : \E n \in 0..line[t][u].want : Pick(t, u, n)
             \/ PickRemaining(t) \/ Advance(t) \/ StartPacking(t) \/ CompletePacking(t)
             \/ ConfirmDelivery(t) \/ SetException(t)
      PROVE  RequestInv'
  <2>1. UNCHANGED <<req, owner, ship>>
    BY <1>p DEF Pick, PickRemaining, Advance, StartPacking, CompletePacking, ConfirmDelivery,
                SetException
  <2>2. \E to \in CancellableStatuses \union IssuedTaskStatuses :
          /\ task' = [task EXCEPT ![t] = to]
          /\ task[t] \notin {"NONE", "CANCELLED"}
          /\ to \in CancellableStatuses => task[t] \in CancellableStatuses
    BY <1>p, OutboundAssumption
    DEF Pick, PickRemaining, Advance, StartPacking, CompletePacking, ConfirmDelivery, SetException,
        TaskGoes, Pickable, CancellableStatuses, HoldStatuses, IssuedTaskStatuses
  <2>3. task[t] \in CancellableStatuses => ship[t] # "shipped"
    BY DEF RequestInv, ShippedIsIssued, CancellableStatuses, HoldStatuses, IssuedTaskStatuses
  <2> QED BY <2>1, <2>2, <2>3, TaskMoves
<1>h. ASSUME NEW t \in Task, CreateShipment(t) PROVE RequestInv'
  <2>1. /\ UNCHANGED <<req, owner>> /\ ship'[t] = "created"
        /\ \A u \in Task \ {t} : ship'[u] = ship[u]
        /\ task' = [task EXCEPT ![t] = "READY_TO_SHIP"]
        /\ task[t] \in CancellableStatuses /\ task[t] \notin {"NONE", "CANCELLED"}
        /\ "READY_TO_SHIP" \in CancellableStatuses \union IssuedTaskStatuses
    BY <1>h DEF CreateShipment, TaskGoes, CancellableStatuses, TypeOK
  <2> QED BY <2>1, TaskMoves
<1>g. ASSUME NEW t \in Task, GoodsIssue(t)
      PROVE  /\ task[t] = "READY_TO_SHIP"
             /\ \A u \in Task \ {t} : ship'[u] = ship[u]
  BY <1>g DEF GoodsIssue, TypeOK
<1>d. ASSUME NEW t \in Task, Dispatch(t) PROVE RequestInv'
  <2>1. /\ UNCHANGED <<req, owner>>
        /\ \A u \in Task \ {t} : ship'[u] = ship[u]
        /\ task' = [task EXCEPT ![t] = "SHIPPED"]
        /\ task[t] \in CancellableStatuses /\ task[t] \notin {"NONE", "CANCELLED"}
        /\ "SHIPPED" \in IssuedTaskStatuses /\ "SHIPPED" \notin CancellableStatuses
    BY <1>d, <1>g DEF Dispatch, TaskGoes, CancellableStatuses, HoldStatuses, IssuedTaskStatuses
  <2> QED BY <2>1, TaskMoves
<1>i. ASSUME NEW t \in Task, IssueToRma(t) PROVE RequestInv'
  <2> USE DEF CancellableStatuses, IssuedTaskStatuses, HoldStatuses
  <2>1. /\ owner' = owner /\ task'[t] = "CLOSED"
        /\ task[t] \in {"READY_TO_SHIP", "SHIPPED", "DELIVERED"}
        /\ \A u \in Task \ {t} : task'[u] = task[u] /\ ship'[u] = ship[u]
        /\ task[t] = "READY_TO_SHIP" \/ ship'[t] = ship[t]
    BY <1>i, <1>g DEF IssueToRma, TaskGoes, TypeOK
  <2>2. /\ owner[t] \in Req
        /\ \A u \in Task \ {t} : task[u] \notin {"NONE", "CANCELLED"} => owner[u] # owner[t]
    BY <2>1 DEF RequestInv, TasksOwned, OneTaskEach
  <2>3. /\ \A r \in Req \ {owner[t]} : req'[r] = req[r]
        /\ req[owner[t]] \in {"PICKING", "ISSUED_TO_RMA", "COMPLETED", "CANCELLED"} =>
             req'[owner[t]] \in {"ISSUED_TO_RMA", "COMPLETED", "CANCELLED"}
    BY <1>i, <2>2 DEF IssueToRma, TypeOK
  <2>4. OneTaskEach' /\ TasksOwned'
    BY <2>1, <2>2 DEF RequestInv, OneTaskEach, TasksOwned
  <2>5. LiveTaskKept'
    BY <2>1, <2>2, <2>3 DEF RequestInv, LiveTaskKept
  <2>6. ShippedIsIssued'
    <3>1. ship'[t] = "shipped" =>
            req[owner[t]] \in {"PICKING", "ISSUED_TO_RMA", "COMPLETED", "CANCELLED"}
      BY <2>1 DEF RequestInv, ShippedIsIssued, LiveTaskKept
    <3> QED BY <2>1, <2>2, <2>3, <3>1 DEF RequestInv, ShippedIsIssued, TasksOwned
  <2> QED BY <2>4, <2>5, <2>6 DEF RequestInv
<1>k. ASSUME NEW t \in Task, ReleaseAndCancel(t) PROVE RequestInv'
  <2>1. /\ CancelTask(t) /\ owner' = owner /\ ship' = ship
        /\ \A r \in Req : r # owner[t] => req'[r] = req[r]
    BY <1>k DEF ReleaseAndCancel, TypeOK
  <2> QED BY <2>1, CancelMoves
<1>s. ASSUME NEW s \in Row, NEW to \in ManualHolds, SetStatus(s, to) PROVE RequestInv'
  BY <1>s, <1>u DEF SetStatus
<1>e. CASE RepairReads
  BY <1>e, <1>u, ReadsKeep
<1>w. CASE WriteRepair
  <2>1. UNCHANGED <<task, owner, ship>>
    BY <1>w DEF WriteRepair
  <2>2. \A r \in Req : req'[r] \in {req[r], "CANCELLED"}
    BY <1>w DEF WriteRepair
  <2>3. \A t \in Task : ship[t] = "shipped" => owner[t] \in Req
    BY DEF RequestInv, TasksOwned, ShippedIsIssued, IssuedTaskStatuses
  <2> QED
    BY <2>1, <2>2, <2>3 DEF RequestInv, OneTaskEach, TasksOwned, LiveTaskKept, ShippedIsIssued
<1>n. CASE UNCHANGED vars
  BY <1>n, <1>u DEF vars
<1> QED
  BY <1>n, <1>r, <1>v, <1>c, <1>b, <1>p, <1>h, <1>d, <1>i, <1>k, <1>s, <1>e, <1>w
  DEF Next, RequestNext, TaskNext, InventoryNext

-----------------------------------------------------------------------------
(* What holds in every run without repairs *)

\* The inductive invariant.
IInv == TypeOK /\ repair = NoRepair /\ StockInv /\ RequestInv

\* It holds at the start,
LEMMA InvInit == Init => IInv
<1> SUFFICES ASSUME Init PROVE IInv
  OBVIOUS
<1>1. TypeOK /\ repair = NoRepair
  BY TypeInit DEF Init
<1>2. /\ \A t \in Task : task[t] = "NONE" /\ ship[t] = "none"
      /\ \A t \in Task : \A u \in Unit : line[t][u] = NoLine
  BY DEF Init
<1>3. \A t \in Task, s \in Row : ~Holds(t, s)
  BY <1>2 DEF Holds, CancellableStatuses, HoldStatuses
<1>4. StockInv
  <2>1. \A t \in Task : \A u \in Unit : line[t][u].got = 0
    BY <1>2 DEF NoLine
  <2> QED BY <1>3, <2>1 DEF StockInv, OneTaskHolds, HeldUnitsCommitted, UnpickedIsZero, LinesFit
<1>5. RequestInv
  BY <1>2 DEF RequestInv, OneTaskEach, TasksOwned, LiveTaskKept, ShippedIsIssued,
              CancellableStatuses, HoldStatuses
<1> QED BY <1>1, <1>4, <1>5 DEF IInv

\* where repairs are not made, none is under way,
LEMMA NoRepairStays ==
    ASSUME Repair = {}, repair = NoRepair, [Next]_vars
    PROVE  repair' = NoRepair /\ ~repair'.crossed
<1>1. repair.at = "idle" /\ repair.todo = {}
  BY DEF NoRepair
<1>2. repair' = NoRepair
  BY <1>1, ZenonT(60) DEF Next, RequestNext, TaskNext, InventoryNext, vars, Submit, Defer, Reject,
         ApproveOnly, ApproveAndReserve, Cancel, RecoverStalled, Allocate, Pick, PickRemaining,
         Advance, StartPacking, CompletePacking, CreateShipment, Dispatch, ConfirmDelivery,
         IssueToRma, ReleaseAndCancel, SetException, SetStatus, RepairReads,
         BeginRepair, ReadLinks, CheckTask, WriteRepair
<1> QED BY <1>2 DEF NoRepair

\* every step preserves it,
LEMMA InvNext == ASSUME Repair = {} PROVE IInv /\ [Next]_vars => IInv'
<1> SUFFICES ASSUME IInv, [Next]_vars PROVE IInv'
  OBVIOUS
<1>1. TypeOK'
  BY TypeNext DEF IInv
<1>2. repair' = NoRepair /\ ~repair'.crossed
  BY NoRepairStays DEF IInv
<1>3. StockInv'
  BY <1>2, StockNext DEF IInv
<1>4. RequestInv'
  BY <1>2, RequestsNext DEF IInv
<1> QED BY <1>1, <1>2, <1>3, <1>4 DEF IInv

\* so it always holds.
LEMMA InvAlways == ASSUME Repair = {} PROVE Spec => []IInv
<1>1. IInv /\ [Next]_vars => IInv'
  BY InvNext
<1> QED BY <1>1, InvInit, PTL DEF Spec

\* The units of a live task are always reserved for it or picked.
THEOREM HeldUnitsCommittedAlways ==
    ASSUME Repair = {} PROVE Spec => []HeldUnitsCommitted
<1>1. IInv => HeldUnitsCommitted
  BY DEF IInv, StockInv
<1> QED BY <1>1, InvAlways, PTL

\* A unit leaves only by a dispatch of the task that holds it, after it was
\* picked, in the quantity that was picked.
THEOREM OnlyPickedLeavesAlways == ASSUME Repair = {} PROVE Spec => OnlyPickedLeaves
<1>1. IInv /\ [Next]_vars =>
        [\A s \in Row : stat[s] # "SHIPPED" /\ stat'[s] = "SHIPPED" =>
           /\ stat[s] = "PICKED"
           /\ \E t \in Task : /\ Holds(t, s) /\ ship[t] # "shipped" /\ ship'[t] = "shipped"
                             /\ qty'[s] = line[t][s].got]_vars
  <2> DEFINE Picked(s) == /\ stat[s] = "PICKED"
                          /\ \E t \in Task : /\ Holds(t, s)
                                            /\ ship[t] # "shipped" /\ ship'[t] = "shipped"
                                            /\ qty'[s] = line[t][s].got
  <2> SUFFICES ASSUME IInv, Next, NEW s \in Row, stat[s] # "SHIPPED", stat'[s] = "SHIPPED"
               PROVE  Picked(s)
    BY DEF vars
  <2> USE DEF stockVars, requestVars, taskVars
  <2>0. TypeOK /\ StockInv /\ repair = NoRepair /\ stat[s] \in StockStatus
    BY DEF IInv, TypeOK, StockTypeOK
  <2>1. ASSUME stat' = stat PROVE FALSE
    BY <2>1
  <2>2. ASSUME NEW S, stat' = Release(stat, S) PROVE FALSE
    BY <2>2 DEF Release
  <2>3. ASSUME NEW S, NEW to, to # "SHIPPED", stat' = Transition(stat, S, to) PROVE FALSE
    BY <2>3 DEF Transition
  <2>4. ASSUME NEW t \in Task, GoodsIssue(t) PROVE Picked(s)
    <3>1. s \in OutRows(t)
      BY <2>0, <2>4, GoodsIssueRows
    <3>2. Holds(t, s) /\ line[t][s].got > 0
      BY <3>1, <2>4 DEF OutRows, Holds, GoodsIssue, CancellableStatuses
    <3>3. stat[s] = "PICKED"
      BY <3>2, <2>0 DEF StockInv, HeldUnitsCommitted
    <3>4. line[t][s].got <= qty[s] /\ line[t][s].got \in Nat /\ qty[s] \in Nat
      BY <3>2, <2>0 DEF StockInv, LinesFit, TypeOK, StockTypeOK, LineRecord, Unit
    <3>5. qty'[s] = IF qty[s] > line[t][s].got THEN line[t][s].got ELSE qty[s]
      BY <3>1, <2>0, <2>4, GoodsIssueRows
    <3>6. ship[t] # "shipped" /\ ship'[t] = "shipped"
      BY <2>0, <2>4 DEF GoodsIssue, TypeOK
    <3> QED BY <3>2, <3>3, <3>4, <3>5, <3>6
  <2>r. ASSUME NEW r \in Req,
               \/ Submit(r) \/ Defer(r) \/ Reject(r) \/ ApproveOnly(r) \/ RecoverStalled(r)
        PROVE  FALSE
    BY <2>r, <2>1 DEF Submit, Defer, Reject, ApproveOnly, RecoverStalled
  <2>a. ASSUME NEW r \in Req, ApproveAndReserve(r) PROVE FALSE
    BY <2>a, <2>0, ApproveRows
  <2>c. ASSUME NEW r \in Req, Cancel(r) PROVE FALSE
    BY <2>c, <2>1, <2>2 DEF Cancel, CancelTask
  <2>b. ASSUME NEW r \in Req, NEW t \in Task, Allocate(r, t) PROVE FALSE
    BY <2>b, <2>0, AllocateRows
  <2>t. ASSUME NEW t \in Task,
               \/ Advance(t) \/ StartPacking(t) \/ CompletePacking(t) \/ CreateShipment(t)
               \/ ConfirmDelivery(t) \/ SetException(t)
        PROVE  FALSE
    BY <2>t, <2>1 DEF Advance, StartPacking, CompletePacking, CreateShipment, ConfirmDelivery,
                      SetException
  <2>p. ASSUME NEW t \in Task, NEW u, NEW n, Pick(t, u, n) PROVE FALSE
    BY <2>p, <2>3 DEF Pick, PickStat
  <2>q. ASSUME NEW t \in Task, PickRemaining(t) PROVE FALSE
    BY <2>q, <2>3 DEF PickRemaining
  <2>d. ASSUME NEW t \in Task, Dispatch(t) \/ IssueToRma(t) PROVE Picked(s)
    BY <2>d, <2>1, <2>4 DEF Dispatch, IssueToRma
  <2>k. ASSUME NEW t \in Task, ReleaseAndCancel(t) PROVE FALSE
    BY <2>k, <2>2 DEF ReleaseAndCancel, CancelTask
  <2>s. ASSUME NEW x \in Row, NEW to \in ManualHolds, SetStatus(x, to) PROVE FALSE
    <3>1. to # "SHIPPED"
      BY OutboundAssumption DEF ManualStatuses
    <3> QED BY <2>s, <2>3, <3>1 DEF SetStatus
  <2>e. ASSUME RepairReads PROVE FALSE
    BY <2>e, <2>1, ReadsKeep
  <2>w. ASSUME WriteRepair PROVE FALSE
    BY <2>w, <2>0 DEF WriteRepair, NoRepair
  <2> QED
    BY <2>r, <2>a, <2>c, <2>b, <2>t, <2>p, <2>q, <2>d, <2>k, <2>s, <2>e, <2>w
    DEF Next, RequestNext, TaskNext, InventoryNext
<1> QED BY <1>1, InvAlways, PTL DEF Spec, OnlyPickedLeaves

-----------------------------------------------------------------------------
(* What holds beside repairs *)

\* A repair that wrote over a task is not forgotten.
LEMMA CrossedStays == ASSUME TypeOK, [Next]_vars, repair.crossed PROVE repair'.crossed
<1>1. CASE repair' = repair
  BY <1>1
<1>2. CASE RepairReads
  BY <1>2, ReadsKeep
<1>3. CASE WriteRepair
  BY <1>3 DEF WriteRepair, NoRepair
<1>4. CASE UNCHANGED vars
  BY <1>1, <1>4 DEF vars
<1>5. ASSUME RequestNext \/ TaskNext PROVE repair' = repair
  BY <1>5, ZenonT(60) DEF RequestNext, TaskNext, Submit, Defer, Reject, ApproveOnly,
     ApproveAndReserve, Cancel, RecoverStalled, Allocate, Pick, PickRemaining, Advance,
     StartPacking, CompletePacking, CreateShipment, Dispatch, ConfirmDelivery, IssueToRma,
     ReleaseAndCancel, SetException
<1>6. ASSUME NEW s \in Row, NEW to \in ManualHolds, SetStatus(s, to) PROVE repair' = repair
  BY <1>6 DEF SetStatus
<1> QED BY <1>1, <1>2, <1>3, <1>4, <1>5, <1>6 DEF Next, InventoryNext

\* Only an allocation makes a task live, and its request is then in picking.
LEMMA LiveSince ==
    ASSUME TypeOK, RequestInv, Next, NEW t \in Task, task'[t] \in CancellableStatuses
    PROVE  \/ task[t] \in CancellableStatuses /\ owner'[t] = owner[t]
           \/ req'[owner'[t]] = "PICKING"
<1> USE DEF stockVars, requestVars, taskVars
<1>1. CASE task' = task /\ owner' = owner
  BY <1>1
<1>2. ASSUME NEW u \in Task, NEW from \in SUBSET (CancellableStatuses \union IssuedTaskStatuses),
             NEW to, TaskGoes(u, from, to), owner' = owner,
             task[u] \in CancellableStatuses \/ to \notin CancellableStatuses
      PROVE  task[t] \in CancellableStatuses /\ owner'[t] = owner[t]
  BY <1>2 DEF TaskGoes, TypeOK
<1>3. ASSUME NEW r \in Req, NEW u \in Task, Allocate(r, u)
      PROVE  \/ task[t] \in CancellableStatuses /\ owner'[t] = owner[t]
             \/ req'[owner'[t]] = "PICKING"
  BY <1>3 DEF Allocate, TaskGoes, RequestGoes, TypeOK
<1>4. ASSUME NEW u \in Task, CancelTask(u), owner' = owner
      PROVE  task[t] \in CancellableStatuses /\ owner'[t] = owner[t]
  BY <1>4 DEF CancelTask, TaskGoes, TypeOK
<1>5. ASSUME NEW r \in Req,
             \/ Submit(r) \/ Defer(r) \/ Reject(r) \/ ApproveOnly(r)
             \/ ApproveAndReserve(r) \/ RecoverStalled(r)
      PROVE  task' = task /\ owner' = owner
  BY <1>5 DEF Submit, Defer, Reject, ApproveOnly, ApproveAndReserve, RecoverStalled
<1>6. ASSUME NEW r \in Req, Cancel(r)
      PROVE  task[t] \in CancellableStatuses /\ owner'[t] = owner[t]
  BY <1>4, <1>6 DEF Cancel, UncancelledTasks, TasksOf
<1>7. ASSUME NEW u \in Task,
             \/ \E v \in LinesOf(u) : \E n \in 0..line[u][v].want : Pick(u, v, n)
             \/ PickRemaining(u) \/ Advance(u) \/ StartPacking(u) \/ CompletePacking(u)
             \/ CreateShipment(u) \/ Dispatch(u) \/ ConfirmDelivery(u) \/ IssueToRma(u)
             \/ SetException(u)
      PROVE  task[t] \in CancellableStatuses /\ owner'[t] = owner[t]
  <2>1. owner' = owner
    BY <1>7 DEF Pick, PickRemaining, Advance, StartPacking, CompletePacking, CreateShipment,
                Dispatch, ConfirmDelivery, IssueToRma, SetException
  <2> DEFINE Stays(to) == task[u] \in CancellableStatuses \/ to \notin CancellableStatuses
  <2> USE DEF CancellableStatuses, HoldStatuses
  <2>2. \E to : task' = [task EXCEPT ![u] = to] /\ Stays(to)
    <3>1. ASSUME \/ \E v \in LinesOf(u) : \E n \in 0..line[u][v].want : Pick(u, v, n)
                 \/ PickRemaining(u)
          PROVE  \E to \in {"PICKED", "PICKING"} :
                     task' = [task EXCEPT ![u] = to] /\ task[u] \in Pickable
      BY <3>1 DEF Pick, PickRemaining, TaskGoes, Pickable
    <3>2. ASSUME Advance(u) \/ ConfirmDelivery(u) \/ SetException(u)
          PROVE  \E to : task' = [task EXCEPT ![u] = to] /\ Stays(to)
      BY <3>2 DEF Advance, ConfirmDelivery, SetException, TaskGoes
    <3>3. ASSUME StartPacking(u) \/ CompletePacking(u) \/ CreateShipment(u)
          PROVE  \E to : task' = [task EXCEPT ![u] = to] /\ Stays(to)
      BY <3>3 DEF StartPacking, CompletePacking, CreateShipment, TaskGoes
    <3>4. ASSUME Dispatch(u) \/ IssueToRma(u)
          PROVE  \E to \in {"SHIPPED", "CLOSED"} : task' = [task EXCEPT ![u] = to]
      BY <3>4 DEF Dispatch, IssueToRma, TaskGoes
    <3> QED BY <1>7, <3>1, <3>2, <3>3, <3>4 DEF Pickable
  <2> QED BY <2>1, <2>2 DEF TypeOK
<1>8. ASSUME NEW u \in Task, ReleaseAndCancel(u)
      PROVE  task[t] \in CancellableStatuses /\ owner'[t] = owner[t]
  BY <1>4, <1>8 DEF ReleaseAndCancel
<1>9. ASSUME InventoryNext PROVE task' = task /\ owner' = owner
  BY <1>9, ReadsKeep DEF InventoryNext, SetStatus, WriteRepair
<1> QED BY <1>1, <1>3, <1>5, <1>6, <1>7, <1>8, <1>9 DEF Next, RequestNext, TaskNext

\* A request is closed under its live task by no step but the write of a repair.
LEMMA LiveNext ==
    ASSUME TypeOK, RequestInv, RequestInv', LiveTaskHasRequest, [Next]_vars
    PROVE  LiveTaskHasRequest'
<1> USE DEF stockVars, requestVars, taskVars
<1>1. SUFFICES ASSUME ~repair'.crossed, NEW t \in Task, task'[t] \in CancellableStatuses
               PROVE  req'[owner'[t]] # "CANCELLED"
  BY DEF LiveTaskHasRequest, RequestInv, LiveTaskKept
<1>2. ~repair.crossed
  BY <1>1, CrossedStays
<1>3. CASE UNCHANGED vars
  BY <1>1, <1>2, <1>3 DEF vars, LiveTaskHasRequest
<1>4. ASSUME Next, task[t] \in CancellableStatuses, owner'[t] = owner[t]
      PROVE  req'[owner'[t]] # "CANCELLED"
  <2> DEFINE r == owner[t]
  <2>1. r \in Req /\ req[r] = "PICKING" /\ t \in UncancelledTasks(r)
    BY <1>2, <1>4 DEF LiveTaskHasRequest, UncancelledTasks, TasksOf, CancellableStatuses, HoldStatuses
  <2> SUFFICES ASSUME req'[r] = "CANCELLED" PROVE FALSE
    BY <1>4
  <2>2. ASSUME NEW q \in Req, Cancel(q) PROVE FALSE
    <3>1. q = r
      BY <2>1, <2>2 DEF Cancel, RequestGoes, TypeOK
    <3>2. PICK u \in UncancelledTasks(r) : CancelTask(u)
      BY <2>1, <2>2, <3>1 DEF Cancel
    <3>3. u = t
      BY <1>4, <3>2 DEF RequestInv, OneTaskEach, UncancelledTasks, TasksOf, CancelTask, TaskGoes,
                        CancellableStatuses, HoldStatuses
    <3> QED BY <1>1, <3>2, <3>3 DEF CancelTask, TaskGoes, TypeOK, CancellableStatuses, HoldStatuses
  <2>3. ASSUME NEW q \in Req, RecoverStalled(q) PROVE FALSE
    <3>1. q = r
      BY <2>1, <2>3 DEF RecoverStalled, RequestGoes, TypeOK
    <3> QED BY <1>4, <2>3, <3>1 DEF RecoverStalled, TasksOf, CancellableStatuses, HoldStatuses
  <2>4. ASSUME WriteRepair PROVE FALSE
    <3>1. r \in repair.closing
      BY <2>1, <2>4 DEF WriteRepair
    <3> QED BY <1>1, <2>1, <2>4, <3>1 DEF WriteRepair, CrossesTask, NoRepair
  <2>5. ASSUME NEW q \in Req,
               \/ Submit(q) \/ Defer(q) \/ Reject(q) \/ ApproveOnly(q) \/ ApproveAndReserve(q)
               \/ \E u \in Task : Allocate(q, u)
        PROVE  FALSE
    BY <2>1, <2>5 DEF Submit, Defer, Reject, ApproveOnly, ApproveAndReserve, Allocate, RequestGoes, TypeOK
  <2>6. ASSUME NEW u \in Task, IssueToRma(u) \/ ReleaseAndCancel(u) PROVE FALSE
    BY <2>1, <2>6 DEF IssueToRma, ReleaseAndCancel, TypeOK
  <2>7. req' # req
    BY <2>1
  <2> QED
    BY <1>4, <2>2, <2>3, <2>4, <2>5, <2>6, <2>7, ReadsKeep
    DEF Next, RequestNext, TaskNext, InventoryNext, Pick, PickRemaining, Advance, StartPacking,
        CompletePacking, CreateShipment, Dispatch, ConfirmDelivery, SetException, SetStatus
<1> QED BY <1>1, <1>3, <1>4, LiveSince

\* What holds of requests and tasks, whatever is repaired.
TasksInv == TypeOK /\ RequestInv /\ LiveTaskHasRequest

\* It always holds.
LEMMA TasksAlways == Spec => []TasksInv
<1>1. Init => TasksInv
  BY InvInit DEF IInv, TasksInv, Init, LiveTaskHasRequest, CancellableStatuses, HoldStatuses
<1>2. TasksInv /\ [Next]_vars => TasksInv'
  BY TypeNext, RequestsNext, LiveNext DEF TasksInv
<1> QED BY <1>1, <1>2, PTL DEF Spec

\* No live task ever works for a cancelled, re-opened or finished request, until
\* a repair writes over a task that came to life after its reads.
THEOREM LiveTaskHasRequestAlways == Spec => []LiveTaskHasRequest
<1>1. TasksInv => LiveTaskHasRequest
  BY DEF TasksInv
<1> QED BY <1>1, TasksAlways, PTL

\* No request whose goods were issued is ever cancelled or re-opened by any
\* handler but the unguarded write of a repair, whatever repairs did before.
THEOREM IssuedIsNeverUndoneAlways == Spec => IssuedIsNeverUndone
<1> DEFINE Issued(r) == \E t \in TasksOf(r) : ship[t] = "shipped"
<1>1. TasksInv /\ [Next]_vars =>
        [WriteRepair \/ UndoesNoIssue]_vars
  <2> SUFFICES ASSUME TasksInv, Next, ~WriteRepair, NEW r \in Req, Issued(r)
               PROVE  req'[r] \in {req[r], "ISSUED_TO_RMA"}
    BY DEF vars, UndoesNoIssue
  <2> USE DEF stockVars, requestVars, taskVars
  <2>0. TypeOK /\ RequestInv
    BY DEF TasksInv
  <2>1. PICK t \in Task : owner[t] = r /\ ship[t] = "shipped"
    BY DEF TasksOf
  <2>2. task[t] \in IssuedTaskStatuses /\ req[r] \in {"PICKING", "ISSUED_TO_RMA", "COMPLETED", "CANCELLED"}
    BY <2>0, <2>1 DEF RequestInv, ShippedIsIssued
  <2>3. t \in UncancelledTasks(r)
    BY <2>1, <2>2 DEF UncancelledTasks, TasksOf, IssuedTaskStatuses
  <2>4. ASSUME NEW u \in Task, CancelTask(u) PROVE owner[u] # r
    BY <2>0, <2>1, <2>2, <2>4 DEF CancelTask, TaskGoes, RequestInv, OneTaskEach,
       IssuedTaskStatuses, CancellableStatuses, HoldStatuses
  <2>5. ASSUME NEW q \in Req,
               \/ Submit(q) \/ Defer(q) \/ Reject(q) \/ ApproveOnly(q) \/ ApproveAndReserve(q)
        PROVE  req'[r] = req[r]
    <3>1. req[q] \in {"DRAFT", "SUBMITTED", "PENDING_APPROVAL"}
      BY <2>5 DEF Submit, Defer, Reject, ApproveOnly, ApproveAndReserve, RequestGoes, Reviewable
    <3>2. \E to : req' = [req EXCEPT ![q] = to]
      BY <2>5 DEF Submit, Defer, Reject, ApproveOnly, ApproveAndReserve, RequestGoes
    <3> QED BY <2>0, <2>2, <3>1, <3>2 DEF TypeOK
  <2>6. ASSUME NEW q \in Req, RecoverStalled(q) PROVE req'[r] = req[r]
    <3>1. q # r
      BY <2>1, <2>6 DEF RecoverStalled, NothingIssued, TasksOf
    <3> QED BY <2>0, <2>6, <3>1 DEF RecoverStalled, RequestGoes, TypeOK
  <2>7. ASSUME NEW q \in Req, Cancel(q) PROVE req'[r] = req[r]
    <3>1. q # r
      BY <2>3, <2>4, <2>7 DEF Cancel, UncancelledTasks, TasksOf
    <3> QED BY <2>0, <2>7, <3>1 DEF Cancel, RequestGoes, TypeOK
  <2>8. ASSUME NEW q \in Req, NEW u \in Task, Allocate(q, u) PROVE req'[r] = req[r]
    <3>1. q # r
      BY <2>3, <2>8 DEF Allocate
    <3> QED BY <2>0, <2>8, <3>1 DEF Allocate, RequestGoes, TypeOK
  <2>9. ASSUME NEW u \in Task, IssueToRma(u) PROVE req'[r] \in {req[r], "ISSUED_TO_RMA"}
    BY <2>0, <2>9 DEF IssueToRma, TypeOK
  <2>10. ASSUME NEW u \in Task, ReleaseAndCancel(u) PROVE req'[r] = req[r]
    <3>1. owner[u] # r
      BY <2>4, <2>10 DEF ReleaseAndCancel
    <3> QED BY <2>0, <2>10, <3>1 DEF ReleaseAndCancel, TypeOK
  <2>11. ASSUME NEW u \in Task,
                \/ \E v \in LinesOf(u) : \E n \in 0..line[u][v].want : Pick(u, v, n)
                \/ PickRemaining(u) \/ Advance(u) \/ StartPacking(u) \/ CompletePacking(u)
                \/ CreateShipment(u) \/ Dispatch(u) \/ ConfirmDelivery(u) \/ SetException(u)
         PROVE  req'[r] = req[r]
    BY <2>11 DEF Pick, PickRemaining, Advance, StartPacking, CompletePacking, CreateShipment,
                 Dispatch, ConfirmDelivery, SetException
  <2>12. ASSUME InventoryNext PROVE req'[r] = req[r]
    BY <2>12, ReadsKeep DEF InventoryNext, SetStatus
  <2> QED
    BY <2>5, <2>6, <2>7, <2>8, <2>9, <2>10, <2>11, <2>12
    DEF Next, RequestNext, TaskNext
<1> QED BY <1>1, TasksAlways, PTL DEF Spec, IssuedIsNeverUndone

\* What concerns rows and lines holds until then.
StockUnlessCrossed == ~repair.crossed => StockInv

\* It holds at the start and is preserved.
LEMMA StockThroughRepairs == Spec => [](TasksInv /\ StockUnlessCrossed)
<1>1. Init => StockUnlessCrossed
  BY InvInit DEF IInv, StockUnlessCrossed
<1>2. TasksInv /\ StockUnlessCrossed /\ [Next]_vars => StockUnlessCrossed'
  <2> SUFFICES ASSUME TasksInv, StockUnlessCrossed, [Next]_vars, ~repair'.crossed
               PROVE  StockInv'
    BY DEF StockUnlessCrossed
  <2>1. ~repair.crossed
    BY CrossedStays DEF TasksInv
  <2> QED BY <2>1, StockNext DEF TasksInv, StockUnlessCrossed
<1> QED BY <1>1, <1>2, TasksAlways, PTL DEF Spec

\* No two live tasks ever hold the same unit, with approval-time or unified
\* reservation, for any number of requests, tasks, rows and splits, unless a
\* repair has written over a task.
THEOREM HeldOnceAlways == Spec => []HeldOnce
<1>1. StockUnlessCrossed => HeldOnce
  BY DEF StockUnlessCrossed, StockInv, HeldOnce
<1> QED BY <1>1, StockThroughRepairs, PTL

-----------------------------------------------------------------------------
(* Nothing stays reserved for nobody *)

\* Somebody accounts for the row: a live task, or data older than this release.
Accounted(s) == (\E t \in Task : Holds(t, s)) \/ (\E r \in Stranded : link[r] = s)

\* At the start only old data reserves rows.
LEMMA OrphansInit == Init => NoOrphanReservation
<1> SUFFICES ASSUME Init, NEW s \in Row, stat[s] \in OutboundStatuses
             PROVE  \E r \in Stranded : link[r] = s
  BY DEF NoOrphanReservation, RowsIn
<1>1. PICK P \in SUBSET Stranded, H \in SUBSET Stranded :
        \E held \in Injection(H, {x \in Row : InitialQty[x] > 0}) :
          /\ link = [r \in Req |-> IF r \in H THEN held[r] ELSE NoUnit]
          /\ stat = [x \in Row |-> IF InitialQty[x] = 0 THEN "ABSENT"
                                   ELSE IF x \in Range(held) THEN "RESERVED"
                                   ELSE "AVAILABLE"]
          /\ req = [r \in Req |-> IF r \in P THEN "PICKING" ELSE "DRAFT"]
  BY DEF Init
<1>2. PICK held \in Injection(H, {x \in Row : InitialQty[x] > 0}) :
          /\ link = [r \in Req |-> IF r \in H THEN held[r] ELSE NoUnit]
          /\ stat = [x \in Row |-> IF InitialQty[x] = 0 THEN "ABSENT"
                                   ELSE IF x \in Range(held) THEN "RESERVED"
                                   ELSE "AVAILABLE"]
  BY <1>1
<1>3. s \in Range(held)
  BY <1>2 DEF OutboundStatuses
<1>4. PICK r \in H : held[r] = s
  BY <1>3 DEF Range, Injection
<1>5. r \in Stranded /\ link[r] = s
  BY <1>2, <1>4, OutboundAssumption
<1> QED BY <1>5

\* A task that is cancelled releases all it holds, and nothing of the others'.
LEMMA CancelFrees ==
    ASSUME TypeOK, StockInv, NEW t \in Task, CancelTask(t), line' = line,
           NEW s \in Row, stat'[s] \in OutboundStatuses,
           stat[s] \in OutboundStatuses => \E u \in Task : Holds(u, s)
    PROVE  \E u \in Task : Holds(u, s)'
<1>1. stat' = Release(stat, UnitsOf(t)) /\ task' = [task EXCEPT ![t] = "CANCELLED"]
  BY DEF CancelTask, TaskGoes
<1>2. stat[s] \in OutboundStatuses
  BY <1>1 DEF Release, OutboundStatuses
<1>3. PICK u \in Task : Holds(u, s)
  BY <1>2
<1>4. stat[s] \in {"RESERVED", "PICKED"}
  BY <1>3 DEF StockInv, HeldUnitsCommitted
<1>5. s \notin UnitsOf(t)
  BY <1>1, <1>4 DEF Release, OutboundStatuses
<1>6. u # t /\ task'[u] = task[u]
  BY <1>1, <1>3, <1>5 DEF Holds, TypeOK
<1> QED BY <1>3, <1>6 DEF Holds, UnitsOf, LinesOf

\* A goods issue ships or frees all its task holds.
LEMMA IssueFrees ==
    ASSUME TypeOK, StockInv, NEW t \in Task, GoodsIssue(t), line' = line,
           NEW to, task' = [task EXCEPT ![t] = to],
           NEW s \in Row, stat'[s] \in OutboundStatuses,
           stat[s] \in OutboundStatuses => \E u \in Task : Holds(u, s)
    PROVE  \E u \in Task : Holds(u, s)'
<1>1. s \notin OutRows(t)
  BY GoodsIssueRows DEF OutboundStatuses
<1>2. s \notin UnitsOf(t)
  <2> SUFFICES ASSUME s \in UnitsOf(t) PROVE FALSE
    OBVIOUS
  <2>1. Holds(t, s)
    BY DEF Holds, GoodsIssue, CancellableStatuses
  <2>2. stat[s] \in {"RESERVED", "PICKED"}
    BY <2>1 DEF StockInv, HeldUnitsCommitted
  <2>3. stat'[s] = "AVAILABLE"
    BY <1>1, <2>2, GoodsIssueRows
  <2> QED BY <2>3 DEF OutboundStatuses
<1>3. stat'[s] \in {stat[s], "AVAILABLE"}
  BY <1>2, GoodsIssueRows
<1>4. PICK u \in Task : Holds(u, s)
  BY <1>3 DEF OutboundStatuses
<1>5. u # t /\ task'[u] = task[u]
  BY <1>2, <1>4 DEF Holds, TypeOK
<1> QED BY <1>4, <1>5 DEF Holds, UnitsOf, LinesOf

\* The row that is written or was somebody's before is somebody's after every
\* step of unified reservation.
LEMMA OrphansNext ==
    ASSUME Repair = {}, Unified = TRUE, IInv, Next, NEW s \in Row,
           stat[s] \in OutboundStatuses => \E t \in Task : Holds(t, s),
           stat'[s] \in OutboundStatuses
    PROVE  \E t \in Task : Holds(t, s)'
<1> USE DEF stockVars, requestVars, taskVars
<1>0. TypeOK /\ StockInv /\ repair = NoRepair
  BY DEF IInv
<1>1. ASSUME line' = line, stat[s] \in OutboundStatuses,
             \A t \in Task : task[t] \in CancellableStatuses => task'[t] \in CancellableStatuses
      PROVE  \E t \in Task : Holds(t, s)'
  <2>1. PICK t \in Task : Holds(t, s)
    BY <1>1
  <2> QED BY <1>1, <2>1 DEF Holds, UnitsOf, LinesOf
<1>2. ASSUME NEW S, stat' = Release(stat, S) PROVE stat[s] \in OutboundStatuses
  BY <1>2 DEF Release, OutboundStatuses
<1>r. ASSUME NEW r \in Req,
             \/ Submit(r) \/ Defer(r) \/ Reject(r) \/ ApproveOnly(r) \/ RecoverStalled(r)
      PROVE  \E t \in Task : Holds(t, s)'
  BY <1>r, <1>1 DEF Submit, Defer, Reject, ApproveOnly, RecoverStalled
<1>a. ASSUME NEW r \in Req, ApproveAndReserve(r) PROVE FALSE
  BY <1>a DEF ApproveAndReserve
<1>c. ASSUME NEW r \in Req, Cancel(r) PROVE \E t \in Task : Holds(t, s)'
  <2>1. line' = line
    BY <1>c DEF Cancel
  <2>2. CASE \E t \in UncancelledTasks(r) : CancelTask(t)
    BY <1>0, <2>1, <2>2, CancelFrees DEF UncancelledTasks, TasksOf
  <2>3. CASE (\E P : stat' = Release(stat, P)) /\ task' = task
    BY <1>1, <1>2, <2>1, <2>3
  <2>4. CASE UNCHANGED <<stat, task>>
    BY <1>1, <2>1, <2>4
  <2> QED BY <1>c, <2>2, <2>3, <2>4 DEF Cancel
<1>b. ASSUME NEW r \in Req, NEW t \in Task, Allocate(r, t) PROVE \E u \in Task : Holds(u, s)'
  <2>1. PICK lines \in [Unit -> LineRecord] :
          /\ line' = [line EXCEPT ![t] = lines]
          /\ \A x \in Row :
               \/ lines[x].want > 0
               \/ stat'[x] \in {stat[x], "AVAILABLE"}
    BY <1>0, <1>b, AllocateRows
  <2>2. /\ task[t] = "NONE" /\ task'[t] = "ALLOCATED" /\ line'[t] = lines
        /\ \A u \in Task \ {t} : task'[u] = task[u] /\ line'[u] = line[u]
    BY <1>0, <1>b, <2>1 DEF Allocate, TaskGoes, TypeOK
  <2>3. CASE lines[s].want > 0
    <3>1. s \in Unit /\ s # NoUnit
      BY OutboundAssumption DEF Unit
    <3>2. Holds(t, s)'
      BY <2>2, <2>3, <3>1 DEF Holds, UnitsOf, LinesOf, CancellableStatuses
    <3> QED BY <3>2
  <2>4. CASE stat'[s] \in {stat[s], "AVAILABLE"}
    <3>1. PICK u \in Task : Holds(u, s)
      BY <2>4 DEF OutboundStatuses
    <3>2. u # t
      BY <2>2, <3>1 DEF Holds, CancellableStatuses, HoldStatuses
    <3>3. Holds(u, s)'
      BY <2>2, <3>1, <3>2 DEF Holds, UnitsOf, LinesOf
    <3> QED BY <3>3
  <2> QED BY <2>1, <2>3, <2>4
<1>3. ASSUME NEW t \in Task, task[t] \in CancellableStatuses, task'[t] \in CancellableStatuses,
             \A u \in Task \ {t} : task'[u] = task[u],
             \A u \in Task : \A v \in Unit : line'[u][v].want = line[u][v].want,
             stat'[s] = stat[s] \/ s \in LinesOf(t)
      PROVE  \E u \in Task : Holds(u, s)'
  <2>1. s \in Unit /\ s # NoUnit
    BY OutboundAssumption DEF Unit
  <2>2. PICK u \in Task : Holds(u, s)
    BY <1>3, <2>1 DEF Holds, UnitsOf
  <2>3. task'[u] \in CancellableStatuses
    BY <1>3, <2>2 DEF Holds
  <2> QED BY <1>3, <2>1, <2>2, <2>3 DEF Holds, UnitsOf, LinesOf
<1>p. ASSUME NEW t \in Task, NEW u \in LinesOf(t), NEW n, Pick(t, u, n)
      PROVE  \E v \in Task : Holds(v, s)'
  <2>1. PICK to \in {"PICKING", "PICKED"} : task' = [task EXCEPT ![t] = to]
    BY <1>p DEF Pick, TaskGoes
  <2>2. /\ task[t] \in CancellableStatuses /\ task'[t] \in CancellableStatuses
        /\ \A v \in Task \ {t} : task'[v] = task[v]
    BY <1>0, <1>p, <2>1 DEF Pick, Pickable, CancellableStatuses, TypeOK
  <2>3. u \in Unit
    BY DEF LinesOf
  <2>4. ASSUME NEW v \in Task, NEW w \in Unit PROVE line'[v][w].want = line[v][w].want
    <3>1. line' = [line EXCEPT ![t] = [line[t] EXCEPT ![u] =
                     [want |-> line[t][u].want, got |-> n, picked |-> TRUE]]]
      BY <1>p DEF Pick
    <3>2. CASE v = t /\ w = u
      BY <1>0, <2>3, <3>1, <3>2 DEF TypeOK
    <3>3. CASE ~(v = t /\ w = u)
      BY <1>0, <2>3, <3>1, <3>3 DEF TypeOK
    <3> QED BY <3>2, <3>3
  <2>5. stat'[s] = stat[s] \/ s \in LinesOf(t)
    BY <1>p DEF Pick, PickStat, Transition
  <2> QED BY <1>3, <2>2, <2>4, <2>5
<1>q. ASSUME NEW t \in Task, PickRemaining(t) PROVE \E v \in Task : Holds(v, s)'
  <2>1. /\ task[t] \in CancellableStatuses /\ task'[t] \in CancellableStatuses
        /\ \A v \in Task \ {t} : task'[v] = task[v]
    BY <1>0, <1>q DEF PickRemaining, TaskGoes, CancellableStatuses, TypeOK
  <2>2. ASSUME NEW v \in Task, NEW w \in Unit PROVE line'[v][w].want = line[v][w].want
    BY <1>0, <1>q DEF PickRemaining, TypeOK
  <2>3. stat'[s] = stat[s] \/ s \in LinesOf(t)
    BY <1>q DEF PickRemaining, Transition
  <2> QED BY <1>3, <2>1, <2>2, <2>3
<1>m. ASSUME NEW t \in Task,
             \/ Advance(t) \/ StartPacking(t) \/ CompletePacking(t)
             \/ CreateShipment(t) \/ ConfirmDelivery(t) \/ SetException(t)
      PROVE  \E u \in Task : Holds(u, s)'
  <2>1. UNCHANGED <<stat, line>>
    BY <1>m DEF Advance, StartPacking, CompletePacking, CreateShipment, ConfirmDelivery,
                SetException
  <2>2. \A u \in Task : task[u] \in CancellableStatuses => task'[u] \in CancellableStatuses
    BY <1>0, <1>m, OutboundAssumption
    DEF Advance, StartPacking, CompletePacking, CreateShipment, ConfirmDelivery, SetException,
        TaskGoes, TypeOK, CancellableStatuses, HoldStatuses
  <2> QED BY <1>1, <2>1, <2>2
<1>d. ASSUME NEW t \in Task, Dispatch(t) PROVE \E u \in Task : Holds(u, s)'
  <2>1. GoodsIssue(t) /\ line' = line /\ task' = [task EXCEPT ![t] = "SHIPPED"]
    BY <1>d DEF Dispatch, TaskGoes
  <2> QED BY <1>0, <2>1, IssueFrees
<1>i. ASSUME NEW t \in Task, IssueToRma(t) PROVE \E u \in Task : Holds(u, s)'
  <2>1. line' = line /\ task' = [task EXCEPT ![t] = "CLOSED"]
    BY <1>i DEF IssueToRma, TaskGoes
  <2>2. CASE GoodsIssue(t)
    BY <1>0, <2>1, <2>2, IssueFrees
  <2>3. CASE task[t] \in {"SHIPPED", "DELIVERED"} /\ stat' = stat
    <3>1. \A u \in Task : task[u] \in CancellableStatuses => task'[u] \in CancellableStatuses
      BY <1>0, <2>1, <2>3 DEF TypeOK, CancellableStatuses, HoldStatuses
    <3> QED BY <1>1, <2>1, <2>3, <3>1
  <2> QED BY <1>i, <2>2, <2>3 DEF IssueToRma, TaskGoes
<1>k. ASSUME NEW t \in Task, ReleaseAndCancel(t) PROVE \E u \in Task : Holds(u, s)'
  BY <1>0, <1>k, CancelFrees DEF ReleaseAndCancel
<1>s. ASSUME NEW x \in Row, NEW to \in ManualHolds, SetStatus(x, to)
      PROVE  \E t \in Task : Holds(t, s)'
  <2>1. to \in ManualStatuses
    BY OutboundAssumption
  <2>2. stat[s] \in OutboundStatuses
    BY <1>s, <2>1 DEF SetStatus, Transition, ManualStatuses, OutboundStatuses
  <2> QED BY <1>s, <1>1, <2>2 DEF SetStatus
<1>e. ASSUME RepairReads PROVE FALSE
  BY <1>e, <1>0 DEF RepairReads, BeginRepair, ReadLinks, CheckTask, NoRepair
<1>w. CASE WriteRepair
  BY <1>0, <1>w DEF WriteRepair, NoRepair
<1> QED
  BY <1>r, <1>a, <1>c, <1>b, <1>p, <1>q, <1>m, <1>d, <1>i, <1>k, <1>s, <1>e, <1>w
  DEF Next, RequestNext, TaskNext, InventoryNext

\* With unified reservation, no step ever leaves a row reserved or picked that
\* no live task holds: every cancel, zero pick and dispatch frees what it must.
THEOREM NoOrphanReservationAlways ==
    ASSUME Repair = {} PROVE Spec => []NoOrphanReservation
<1>1. IInv /\ NoOrphanReservation /\ [Next]_vars => NoOrphanReservation'
  <2> SUFFICES ASSUME IInv, NoOrphanReservation, [Next]_vars, Unified = TRUE,
                      NEW s \in Row, stat'[s] \in OutboundStatuses
               PROVE  Accounted(s)'
    BY OutboundAssumption DEF NoOrphanReservation, RowsIn, Accounted
  <2>1. stat[s] \in OutboundStatuses => Accounted(s)
    BY DEF NoOrphanReservation, RowsIn, Accounted
  <2>2. CASE UNCHANGED vars
    BY <2>1, <2>2 DEF vars, Accounted, Holds, UnitsOf, LinesOf
  <2>3. CASE Next
    <3>1. link' = link
      <4>1. CASE RequestNext
        BY <4>1 DEF RequestNext, Submit, Defer, Reject, ApproveOnly, ApproveAndReserve, Cancel,
                    RecoverStalled, Allocate
      <4>2. CASE TaskNext
        BY <4>2 DEF TaskNext, Pick, PickRemaining, Advance, StartPacking, CompletePacking,
                    CreateShipment, Dispatch, ConfirmDelivery, IssueToRma, ReleaseAndCancel,
                    SetException, requestVars
      <4>3. CASE InventoryNext
        BY <4>3 DEF InventoryNext, RepairReads, BeginRepair, ReadLinks, CheckTask, SetStatus, WriteRepair, IInv, NoRepair, requestVars
      <4> QED BY <2>3, <4>1, <4>2, <4>3 DEF Next
    <3>2. CASE \E r \in Stranded : link[r] = s
      BY <3>1, <3>2 DEF Accounted
    <3>3. CASE ~ \E r \in Stranded : link[r] = s
      BY <2>1, <2>3, <3>3, OrphansNext DEF Accounted
    <3> QED BY <3>2, <3>3
  <2> QED BY <2>2, <2>3
<1> QED BY <1>1, OrphansInit, InvAlways, PTL DEF Spec

-----------------------------------------------------------------------------
(* Quantities: splits conserve the stock *)

\* An id not in use has no quantity yet.
AbsentIsEmpty == \A s \in Row : stat[s] = "ABSENT" => qty[s] = 0

\* What the rows kept lose is what the new rows get.
LEMMA SplitConserves ==
    ASSUME StockTypeOK, AbsentIsEmpty,
           NEW D \in SUBSET Row, NEW keep \in [D -> Nat], NEW fresh \in FreshIds(keep)
    PROVE  SumFunctionOnSet(SplitQty(keep, fresh), Row) = TotalQty
<1> DEFINE Big == Oversized(keep)
           New == Range(fresh)
           rest == [s \in Big |-> qty[s] - keep[s]]
           lost == [s \in Row |-> IF s \in Big THEN rest[s] ELSE 0]
           won  == [s \in Row |-> IF s \in New
                                  THEN Remainder(CHOOSE p \in DOMAIN fresh : fresh[p] = s, keep)
                                  ELSE 0]
           new == SplitQty(keep, fresh)
           both == [s \in Row |-> qty[s] + won[s]]
<1>0. IsFiniteSet(Row)
  BY FiniteAssumption
<1>1. /\ Big \in SUBSET D /\ D \subseteq Row /\ DOMAIN fresh = Big
      /\ fresh \in Injection(Big, RowsIn({"ABSENT"}))
      /\ fresh \in [Big -> RowsIn({"ABSENT"})]
      /\ \A x, y \in Big : fresh[x] = fresh[y] => x = y
  BY DEF FreshIds, Injection, IsInjective, Oversized
<1>2. /\ New \in SUBSET Row
      /\ \A s \in New : stat[s] = "ABSENT" /\ qty[s] = 0
  BY <1>1 DEF Range, RowsIn, AbsentIsEmpty
<1>3. \A s \in Big : s \in Row /\ qty[s] \in Nat /\ keep[s] \in Nat /\ qty[s] > keep[s] /\ keep[s] > 0
  BY <1>1 DEF Oversized, StockTypeOK
<1>4. \A s \in Big : rest[s] \in Int /\ rest[s] = qty[s] - keep[s]
  BY <1>3
<1>5. \A p \in Big : fresh[p] \in New /\ won[fresh[p]] = rest[p]
  <2> SUFFICES ASSUME NEW p \in Big PROVE fresh[p] \in New /\ won[fresh[p]] = rest[p]
    OBVIOUS
  <2>1. fresh[p] \in New
    BY <1>1 DEF Range
  <2>2. (CHOOSE x \in DOMAIN fresh : fresh[x] = fresh[p]) = p
    BY <1>1
  <2>3. won[fresh[p]] = Remainder(p, keep)
    BY <2>1, <2>2, <1>2
  <2> QED BY <2>1, <2>3 DEF Remainder
<1>6. \A s \in New : \E p \in Big : s = fresh[p]
  BY <1>1 DEF Range
<1>7. \A s \in Row : qty[s] \in Int /\ lost[s] \in Int /\ won[s] \in Int
  <2> SUFFICES ASSUME NEW s \in Row PROVE qty[s] \in Int /\ lost[s] \in Int /\ won[s] \in Int
    OBVIOUS
  <2>1. qty[s] \in Int
    BY DEF StockTypeOK
  <2>2. lost[s] \in Int
    <3> HIDE DEF rest, Big
    <3> QED BY <1>4
  <2>3. CASE s \in New
    <3>1. PICK p \in Big : s = fresh[p]
      BY <2>3, <1>6
    <3> HIDE DEF rest, Big, won
    <3> QED BY <2>1, <2>2, <3>1, <1>4, <1>5
  <2>4. CASE s \notin New
    BY <2>1, <2>2, <2>4
  <2> QED BY <2>3, <2>4
<1>8. \A s \in Row : new[s] \in Int /\ both[s] = qty[s] + won[s] /\ both[s] = new[s] + lost[s]
  <2> SUFFICES ASSUME NEW s \in Row PROVE new[s] \in Int /\ both[s] = new[s] + lost[s]
    OBVIOUS
  <2>1. CASE s \in Big
    <3>1. s \notin New
      BY <2>1, <1>2, <1>3
    <3>2. new[s] = keep[s] /\ lost[s] = qty[s] - keep[s] /\ won[s] = 0
      BY <2>1, <3>1, <1>1 DEF SplitQty
    <3> QED BY <2>1, <3>2, <1>3
  <2>2. CASE s \in New
    <3>1. s \notin Big
      BY <2>2, <1>2, <1>3
    <3>2. new[s] = won[s] /\ lost[s] = 0 /\ qty[s] = 0
      BY <2>2, <3>1, <1>1, <1>2 DEF SplitQty
    <3> QED BY <2>2, <3>2, <1>7
  <2>3. CASE s \notin Big /\ s \notin New
    <3>1. new[s] = qty[s] /\ lost[s] = 0 /\ won[s] = 0
      BY <2>3, <1>1 DEF SplitQty
    <3> QED BY <3>1, <1>7
  <2> QED BY <2>1, <2>2, <2>3
<1>9. IsFiniteSet(Big) /\ Big \in SUBSET Row
  BY <1>0, <1>1, FS_Subset
<1>10. \A s \in Row \ Big : lost[s] = 0
  OBVIOUS
<1>11. \A s \in Row \ New : won[s] = 0
  OBVIOUS
<1>12. \A s \in Big : lost[s] = rest[s]
  BY <1>9
<1> HIDE DEF Big, New, rest, lost, won, new, both
<1>13. SumFunctionOnSet(lost, Row) = SumFunctionOnSet(rest, Big)
  <2>1. SumFunctionOnSet(lost, Row) = SumFunctionOnSet(lost, Big)
    BY <1>0, <1>7, <1>9, <1>10, SumPart
  <2>2. SumFunctionOnSet(lost, Big) = SumFunctionOnSet(rest, Big)
    BY <1>4, <1>9, <1>12, SumCongruent
  <2> QED BY <2>1, <2>2
<1>14. SumFunctionOnSet(won, Row) = SumFunctionOnSet(rest, Big)
  <2>1. SumFunctionOnSet(won, Row) = SumFunctionOnSet(won, New)
    BY <1>0, <1>2, <1>7, <1>11, SumPart
  <2>2. SumFunctionOnSet(won, Range(fresh)) = SumFunctionOnSet(rest, Big)
    BY <1>1, <1>4, <1>5, <1>9, SumRenamed
  <2> QED BY <2>1, <2>2 DEF New
<1>15. SumFunctionOnSet(both, Row) = SumFunctionOnSet(qty, Row) + SumFunctionOnSet(won, Row)
  BY <1>0, <1>7, <1>8, SumPlus
<1>16. SumFunctionOnSet(both, Row) = SumFunctionOnSet(new, Row) + SumFunctionOnSet(lost, Row)
  BY <1>0, <1>7, <1>8, SumPlus
<1>17. /\ SumFunctionOnSet(qty, Row) \in Int /\ SumFunctionOnSet(new, Row) \in Int
       /\ SumFunctionOnSet(won, Row) \in Int
  BY <1>0, <1>7, <1>8, SumInt
<1>18. SumFunctionOnSet(new, Row) = SumFunctionOnSet(qty, Row)
  BY <1>13, <1>14, <1>15, <1>16, <1>17
<1> QED BY <1>18 DEF new, TotalQty, SumFunction, StockTypeOK

\* What splits and status changes keep together.
Conserved == AbsentIsEmpty /\ StockConserved

\* Writing statuses conserves the stock.
LEMMA StatusKeeps ==
    ASSUME TypeOK, Conserved, qty' = qty,
           \A s \in Row : stat'[s] = "ABSENT" => stat[s] = "ABSENT"
    PROVE  Conserved'
BY DEF Conserved, AbsentIsEmpty, StockConserved, TotalQty

\* Splitting rows conserves the stock, and gives no id back.
LEMMA SplitKeeps ==
    ASSUME TypeOK, Conserved,
           NEW D \in SUBSET Row, NEW keep \in [D -> Nat], NEW fresh \in FreshIds(keep),
           NEW st, \A s \in Row : st[s] = "ABSENT" => stat[s] = "ABSENT",
           stat' = SplitStat(st, fresh), qty' = SplitQty(keep, fresh)
    PROVE  Conserved'
<1>1. AbsentIsEmpty'
  <2> SUFFICES ASSUME NEW s \in Row, stat'[s] = "ABSENT" PROVE qty'[s] = 0
    BY DEF AbsentIsEmpty
  <2>1. s \notin Range(fresh) /\ stat[s] = "ABSENT"
    BY DEF SplitStat
  <2>2. qty[s] = 0
    BY <2>1 DEF Conserved, AbsentIsEmpty
  <2>3. s \notin DOMAIN fresh
    BY <2>2 DEF FreshIds, Injection, Oversized
  <2> QED BY <2>1, <2>2, <2>3 DEF SplitQty
<1>2. StockConserved'
  <2>1. SumFunctionOnSet(SplitQty(keep, fresh), Row) = TotalQty
    BY SplitConserves DEF Conserved, TypeOK
  <2>2. DOMAIN qty' = Row
    BY DEF SplitQty
  <2>3. TotalQty' = SumFunctionOnSet(qty', Row)
    BY <2>2 DEF TotalQty, SumFunction
  <2> QED BY <2>1, <2>3 DEF Conserved, StockConserved
<1> QED BY <1>1, <1>2 DEF Conserved

\* All the stock there is at the start.
LEMMA ConservedInit == Init => Conserved
<1> SUFFICES ASSUME Init PROVE Conserved
  OBVIOUS
<1>1. \A s \in Row : stat[s] = "ABSENT" => InitialQty[s] = 0
  BY DEF Init
<1>2. qty = InitialQty
  BY DEF Init
<1> QED BY <1>1, <1>2 DEF Conserved, AbsentIsEmpty, StockConserved, TotalQty

\* Every action, repairs included, conserves the stock.
LEMMA ConservedNext == TypeOK /\ Conserved /\ [Next]_vars => Conserved'
<1> SUFFICES ASSUME TypeOK, Conserved, [Next]_vars PROVE Conserved'
  OBVIOUS
<1> USE DEF stockVars, requestVars, taskVars
<1>u. CASE UNCHANGED <<stat, qty>>
  BY <1>u, StatusKeeps
<1>l. ASSUME NEW S, qty' = qty, stat' = Release(stat, S) PROVE Conserved'
  BY <1>l, StatusKeeps DEF Release
<1>t. ASSUME NEW S, NEW to, to # "ABSENT", qty' = qty, stat' = Transition(stat, S, to)
      PROVE  Conserved'
  BY <1>t, StatusKeeps DEF Transition
<1>g. ASSUME NEW t \in Task, GoodsIssue(t) PROVE Conserved'
  <2> DEFINE out == OutRows(t)
             keep == [s \in out |-> line[t][s].got]
             st == Transition(Release(stat, UnitsOf(t) \ out), out, "SHIPPED")
  <2>1. PICK fresh \in FreshIds(keep) : stat' = SplitStat(st, fresh) /\ qty' = SplitQty(keep, fresh)
    BY <1>g DEF GoodsIssue
  <2>2. out \in SUBSET Row /\ keep \in [out -> Nat]
    BY DEF OutRows, UnitsOf, LinesOf, Unit, TypeOK, LineRecord
  <2>3. \A s \in Row : st[s] = "ABSENT" => stat[s] = "ABSENT"
    BY DEF Transition, Release
  <2> HIDE DEF out, keep, st
  <2> QED BY <2>1, <2>2, <2>3, SplitKeeps
<1>a. ASSUME NEW r \in Req, ApproveAndReserve(r) PROVE Conserved'
  <2>1. PICK S \in SUBSET RowsIn({"AVAILABLE"}) : \E take \in [S -> 1..Want[r]] :
          \E fresh \in FreshIds(take) :
            /\ stat' = SplitStat(Transition(stat, S, "RESERVED"), fresh)
            /\ qty' = SplitQty(take, fresh)
    BY <1>a DEF ApproveAndReserve
  <2>2. PICK take \in [S -> 1..Want[r]] : \E fresh \in FreshIds(take) :
            /\ stat' = SplitStat(Transition(stat, S, "RESERVED"), fresh)
            /\ qty' = SplitQty(take, fresh)
    BY <2>1
  <2>3. PICK fresh \in FreshIds(take) :
            /\ stat' = SplitStat(Transition(stat, S, "RESERVED"), fresh)
            /\ qty' = SplitQty(take, fresh)
    BY <2>2
  <2> DEFINE st == Transition(stat, S, "RESERVED")
  <2>4. S \in SUBSET Row /\ take \in [S -> Nat]
    BY OutboundAssumption DEF RowsIn
  <2>5. \A s \in Row : st[s] = "ABSENT" => stat[s] = "ABSENT"
    BY DEF Transition
  <2> HIDE DEF st
  <2> QED BY <2>3, <2>4, <2>5, SplitKeeps DEF st
<1>b. ASSUME NEW r \in Req, NEW t \in Task, Allocate(r, t) PROVE Conserved'
  <2>1. PICK pool \in PoolRows(r, OwnedRows(r)), top \in SUBSET RowsIn({"AVAILABLE"}) :
         \E mine \in SUBSET pool : \E take \in [mine \union top -> 1..Want[r]] :
           \E fresh \in FreshIds(take) :
                /\ stat' = SplitStat(Release(Transition(stat, top, "RESERVED"),
                                             pool \ mine), fresh)
                /\ qty' = SplitQty(take, fresh)
    BY <1>b DEF Allocate
  <2>2. PICK mine \in SUBSET pool : \E take \in [mine \union top -> 1..Want[r]] :
           \E fresh \in FreshIds(take) :
                /\ stat' = SplitStat(Release(Transition(stat, top, "RESERVED"),
                                             pool \ mine), fresh)
                /\ qty' = SplitQty(take, fresh)
    BY <2>1
  <2>3. PICK take \in [mine \union top -> 1..Want[r]] :
           \E fresh \in FreshIds(take) :
                /\ stat' = SplitStat(Release(Transition(stat, top, "RESERVED"),
                                             pool \ mine), fresh)
                /\ qty' = SplitQty(take, fresh)
    BY <2>2
  <2>4. PICK fresh \in FreshIds(take) :
                /\ stat' = SplitStat(Release(Transition(stat, top, "RESERVED"),
                                             pool \ mine), fresh)
                /\ qty' = SplitQty(take, fresh)
    BY <2>3
  <2> DEFINE D == mine \union top
             st == Release(Transition(stat, top, "RESERVED"), pool \ mine)
  <2>5. D \in SUBSET Row /\ take \in [D -> Nat]
    BY OutboundAssumption DEF RowsIn, PoolRows, ApprovalPool
  <2>6. \A s \in Row : st[s] = "ABSENT" => stat[s] = "ABSENT"
    BY DEF Transition, Release
  <2>7. stat' = SplitStat(st, fresh)
    BY <2>4
  <2> HIDE DEF st, D
  <2> QED BY <2>4, <2>5, <2>6, <2>7, SplitKeeps
<1>r. ASSUME NEW r \in Req,
             \/ Submit(r) \/ Defer(r) \/ Reject(r) \/ ApproveOnly(r) \/ RecoverStalled(r)
      PROVE  Conserved'
  BY <1>r, <1>u DEF Submit, Defer, Reject, ApproveOnly, RecoverStalled
<1>c. ASSUME NEW r \in Req, Cancel(r) PROVE Conserved'
  BY <1>c, <1>u, <1>l DEF Cancel, CancelTask
<1>p. ASSUME NEW t \in Task, NEW u, NEW n, Pick(t, u, n) PROVE Conserved'
  BY <1>p, <1>t DEF Pick, PickStat
<1>q. ASSUME NEW t \in Task, PickRemaining(t) PROVE Conserved'
  BY <1>q, <1>t DEF PickRemaining
<1>m. ASSUME NEW t \in Task,
             \/ Advance(t) \/ StartPacking(t) \/ CompletePacking(t) \/ CreateShipment(t)
             \/ ConfirmDelivery(t) \/ SetException(t)
      PROVE  Conserved'
  BY <1>m, <1>u DEF Advance, StartPacking, CompletePacking, CreateShipment, ConfirmDelivery,
                    SetException
<1>d. ASSUME NEW t \in Task, Dispatch(t) \/ IssueToRma(t) PROVE Conserved'
  BY <1>d, <1>g, <1>u DEF Dispatch, IssueToRma
<1>k. ASSUME NEW t \in Task, ReleaseAndCancel(t) PROVE Conserved'
  BY <1>k, <1>l DEF ReleaseAndCancel, CancelTask
<1>s. ASSUME NEW s \in Row, NEW to \in ManualHolds, SetStatus(s, to) PROVE Conserved'
  <2>1. to # "ABSENT"
    BY OutboundAssumption DEF ManualStatuses
  <2> QED BY <1>s, <1>t, <2>1 DEF SetStatus
<1>e. ASSUME RepairReads PROVE Conserved'
  BY <1>e, <1>u, ReadsKeep
<1>w. ASSUME WriteRepair PROVE Conserved'
  BY <1>w, <1>l DEF WriteRepair
<1> QED
  BY <1>u, <1>r, <1>a, <1>c, <1>b, <1>p, <1>q, <1>m, <1>d, <1>k, <1>s, <1>e, <1>w
  DEF Next, RequestNext, TaskNext, InventoryNext, vars

\* The stock is conserved throughout, whatever the modes.
LEMMA ConservedAlways == Spec => []Conserved
<1>1. TypeOK /\ Conserved /\ [Next]_vars => Conserved'
  BY ConservedNext
<1> QED BY <1>1, ConservedInit, TypeCorrect, PTL DEF Spec

\* Whatever is reserved, split, cancelled, shipped or repaired, with either
\* reservation mode, the quantities of all rows add up to the initial stock.
THEOREM StockConservedAlways == Spec => []StockConserved
<1>1. Conserved => StockConserved
  BY DEF Conserved
<1> QED BY <1>1, ConservedAlways, PTL

-----------------------------------------------------------------------------
(* The ledger of goods issue *)

\* A line without a unit picks nothing.
NothingWithoutUnit == \A t \in Task : line[t][NoUnit].got = 0

\* Never more is picked than a line asks for, and nothing where there is none.
PickedIsWanted == \A t \in Task : \A u \in Unit : line[t][u].got <= line[t][u].want

\* Every step of Outbound but a goods issue.
Indoors ==
    /\ \A s \in Row : stat'[s] = "SHIPPED" <=> stat[s] = "SHIPPED"
    /\ \A t \in Task : ship'[t] = "shipped" <=> ship[t] = "shipped"
    /\ \A t \in Task : ship[t] = "shipped" =>
          owner'[t] = owner[t] /\ line'[t] = line[t] /\ task'[t] \in IssuedTaskStatuses
    /\ \A t \in Task : task'[t] \in IssuedTaskStatuses => task[t] \in IssuedTaskStatuses
    /\ PickedIsWanted => PickedIsWanted'
    /\ NothingWithoutUnit => NothingWithoutUnit'
    /\ \A s \in Row : stat[s] = "SHIPPED" => qty'[s] = qty[s]
    /\ issued' = issued

\* The goods issue of t, and what follows from it for its task.
Outdoors(t) ==
    /\ GoodsIssue(t)
    /\ UNCHANGED <<owner, line>>
    /\ \A u \in Task \ {t} : task'[u] = task[u] /\ ship'[u] = ship[u]
    /\ ship'[t] = "shipped"

\* Every step is a goods issue or is not.
LEMMA InOrOut ==
    ASSUME TypeOK, StockInv, RequestInv, Next
    PROVE  Indoors \/ \E t \in Task : Outdoors(t)
<1> USE DEF stockVars, requestVars, taskVars
<1>0. \A s \in Row : stat[s] \in StockStatus
  BY DEF TypeOK, StockTypeOK
<1>i. \A t \in Task : ship[t] = "shipped" => task[t] \in IssuedTaskStatuses
  BY DEF RequestInv, ShippedIsIssued
<1>d. IssuedTaskStatuses \cap ({"NONE", "CANCELLED"} \union CancellableStatuses) = {}
  BY DEF IssuedTaskStatuses, CancellableStatuses, HoldStatuses
\* Where lines, owners and shipments stay, and tasks in or out of issue, too.
<1>1. ASSUME UNCHANGED <<owner, line, ship, issued>>,
             \A s \in Row : stat[s] = "SHIPPED" => qty'[s] = qty[s],
             \A t \in Task : task'[t] \in IssuedTaskStatuses <=> task[t] \in IssuedTaskStatuses,
             \A s \in Row : stat'[s] = "SHIPPED" <=> stat[s] = "SHIPPED"
      PROVE  Indoors
  BY <1>1, <1>i DEF Indoors, PickedIsWanted, NothingWithoutUnit
<1>2. ASSUME NEW S, stat' = Release(stat, S)
      PROVE  \A s \in Row : stat'[s] = "SHIPPED" <=> stat[s] = "SHIPPED"
  BY <1>2 DEF Release
<1>3. ASSUME NEW t \in Task, NEW to, task' = [task EXCEPT ![t] = to],
             to \in IssuedTaskStatuses <=> task[t] \in IssuedTaskStatuses
      PROVE  \A u \in Task : task'[u] \in IssuedTaskStatuses <=> task[u] \in IssuedTaskStatuses
  BY <1>3 DEF TypeOK
<1>x. ASSUME NEW t \in Task, CancelTask(t), UNCHANGED <<owner, line, ship, issued, qty>>
      PROVE  Indoors
  <2>1. task' = [task EXCEPT ![t] = "CANCELLED"] /\ task[t] \notin IssuedTaskStatuses
    BY <1>x, <1>d DEF CancelTask, TaskGoes
  <2>2. "CANCELLED" \notin IssuedTaskStatuses
    BY <1>d
  <2>3. \A u \in Task : task'[u] \in IssuedTaskStatuses <=> task[u] \in IssuedTaskStatuses
    BY <2>1, <2>2, <1>3
  <2> QED BY <1>x, <1>1, <1>2, <2>3 DEF CancelTask
<1>r. ASSUME NEW r \in Req,
             \/ Submit(r) \/ Defer(r) \/ Reject(r) \/ ApproveOnly(r) \/ RecoverStalled(r)
      PROVE  Indoors
  BY <1>r, <1>1 DEF Submit, Defer, Reject, ApproveOnly, RecoverStalled
<1>a. ASSUME NEW r \in Req, ApproveAndReserve(r) PROVE Indoors
  <2>1. \A s \in Row : /\ stat'[s] = "SHIPPED" <=> stat[s] = "SHIPPED"
                       /\ stat[s] = "SHIPPED" => qty'[s] = qty[s]
    BY <1>a, ApproveRows
  <2> QED BY <1>a, <1>1, <2>1 DEF ApproveAndReserve
<1>c. ASSUME NEW r \in Req, Cancel(r) PROVE Indoors
  <2>1. UNCHANGED <<owner, line, ship, issued, qty>>
    BY <1>c DEF Cancel
  <2>2. CASE \E t \in UncancelledTasks(r) : CancelTask(t)
    BY <2>1, <2>2, <1>x DEF UncancelledTasks, TasksOf
  <2>3. CASE (\E P : stat' = Release(stat, P)) /\ task' = task
    BY <1>1, <1>2, <2>1, <2>3
  <2>4. CASE UNCHANGED <<stat, task>>
    BY <1>1, <2>1, <2>4
  <2> QED BY <1>c, <2>2, <2>3, <2>4 DEF Cancel
<1>b. ASSUME NEW r \in Req, NEW t \in Task, Allocate(r, t) PROVE Indoors
  <2>1. PICK lines \in [Unit -> LineRecord] :
          /\ line' = [line EXCEPT ![t] = lines]
          /\ \A u \in Unit : lines[u].got = 0
    BY <1>b, AllocateRows
  <2>2. /\ task[t] = "NONE" /\ task'[t] = "ALLOCATED" /\ line'[t] = lines /\ ship' = ship
        /\ \A u \in Task \ {t} :
             task'[u] = task[u] /\ line'[u] = line[u] /\ owner'[u] = owner[u]
    BY <1>b, <2>1 DEF Allocate, TaskGoes, TypeOK
  <2>3. \A s \in Row : /\ stat'[s] = "SHIPPED" <=> stat[s] = "SHIPPED"
                       /\ stat[s] = "SHIPPED" => qty'[s] = qty[s]
    BY <1>b, AllocateRows DEF ApprovalPool, RowsIn
  <2>4. task[t] \notin IssuedTaskStatuses /\ task'[t] \notin IssuedTaskStatuses
    BY <2>2 DEF IssuedTaskStatuses
  <2>5. PickedIsWanted => PickedIsWanted'
    <3>1. \A u \in Unit : lines[u].got <= lines[u].want
      BY <2>1 DEF LineRecord
    <3> QED BY <2>2, <3>1 DEF PickedIsWanted
  <2>6. \A u \in Task : ship[u] = "shipped" =>
          owner'[u] = owner[u] /\ line'[u] = line[u] /\ task'[u] \in IssuedTaskStatuses
    BY <1>i, <2>2, <2>4
  <2>7. \A u \in Task : task'[u] \in IssuedTaskStatuses => task[u] \in IssuedTaskStatuses
    BY <2>2, <2>4
  <2>8. NothingWithoutUnit => NothingWithoutUnit'
    BY <2>1, <2>2 DEF NothingWithoutUnit, Unit
  <2>9. issued' = issued
    BY <1>b DEF Allocate
  <2> QED BY <2>2, <2>3, <2>5, <2>6, <2>7, <2>8, <2>9 DEF Indoors
\* A pick changes the lines of a task that was not dispatched.
<1>4. ASSUME NEW t \in Task, task[t] \notin IssuedTaskStatuses,
             NEW to, to \notin IssuedTaskStatuses, task' = [task EXCEPT ![t] = to],
             UNCHANGED <<owner, ship, issued, qty>>,
             \A u \in Task \ {t} : line'[u] = line[u],
             \A u \in Unit : \/ line'[t][u] = line[t][u]
                             \/ /\ line'[t][u].got <= line'[t][u].want
                                /\ u = NoUnit => line'[t][u].got = 0,
             NEW S, \A s \in S : stat[s] # "SHIPPED", stat' = Transition(stat, S, "PICKED")
      PROVE  Indoors
  <2>1. \A s \in Row : stat'[s] = "SHIPPED" <=> stat[s] = "SHIPPED"
    BY <1>4 DEF Transition
  <2>2. \A u \in Task : task'[u] \in IssuedTaskStatuses <=> task[u] \in IssuedTaskStatuses
    BY <1>4, <1>3
  <2>3. PickedIsWanted => PickedIsWanted'
    <3> SUFFICES ASSUME PickedIsWanted, NEW v \in Task, NEW u \in Unit
                 PROVE  line'[v][u].got <= line'[v][u].want
      BY DEF PickedIsWanted
    <3>1. CASE v = t
      BY <1>4, <3>1 DEF PickedIsWanted
    <3>2. CASE v # t
      BY <1>4, <3>2 DEF PickedIsWanted
    <3> QED BY <3>1, <3>2
  <2>4. \A u \in Task : ship[u] = "shipped" => u # t /\ task'[u] \in IssuedTaskStatuses
    BY <1>4, <1>i, <2>2
  <2>5. NothingWithoutUnit => NothingWithoutUnit'
    <3> SUFFICES ASSUME NothingWithoutUnit, NEW v \in Task PROVE line'[v][NoUnit].got = 0
      BY DEF NothingWithoutUnit
    <3>1. CASE v = t
      BY <1>4, <3>1 DEF NothingWithoutUnit, Unit
    <3>2. CASE v # t
      BY <1>4, <3>2 DEF NothingWithoutUnit
    <3> QED BY <3>1, <3>2
  <2> QED BY <1>4, <2>1, <2>2, <2>3, <2>4, <2>5 DEF Indoors
<1>p. ASSUME NEW t \in Task, NEW u \in LinesOf(t), NEW n \in 0..line[t][u].want, Pick(t, u, n)
      PROVE  Indoors
  <2>1. PICK to \in {"PICKING", "PICKED"} : task' = [task EXCEPT ![t] = to]
    BY <1>p DEF Pick, TaskGoes
  <2>2. task[t] \notin IssuedTaskStatuses /\ to \notin IssuedTaskStatuses
    BY <1>p DEF Pick, Pickable, IssuedTaskStatuses
  <2>3. line' = [line EXCEPT ![t] = [line[t] EXCEPT ![u] =
                   [want |-> line[t][u].want, got |-> n, picked |-> TRUE]]]
    BY <1>p DEF Pick
  <2>4. \A v \in Task \ {t} : line'[v] = line[v]
    BY <2>3 DEF TypeOK
  <2>5. line'[t] = [line[t] EXCEPT ![u] =
                      [want |-> line[t][u].want, got |-> n, picked |-> TRUE]]
    BY <2>3 DEF TypeOK
  <2>6. \A v \in Unit : \/ line'[t][v] = line[t][v]
                        \/ /\ line'[t][v].got <= line'[t][v].want
                           /\ v = NoUnit => line'[t][v].got = 0
    <3>1. u \in Unit /\ n <= line[t][u].want /\ (u = NoUnit => n = 0)
      BY <1>p DEF LinesOf, Pick
    <3>2. line'[t][u] = [want |-> line[t][u].want, got |-> n, picked |-> TRUE]
      <4>1. line \in [Task -> [Unit -> LineRecord]]
        BY DEF TypeOK
      <4> QED BY <2>5, <3>1, <4>1
    <3>3. \A v \in Unit \ {u} : line'[t][v] = line[t][v]
      BY <2>5 DEF TypeOK
    <3> QED BY <3>1, <3>2, <3>3
  <2> DEFINE S == IF n > 0 THEN {u} ELSE {}
  <2>7. (\A s \in S : stat[s] # "SHIPPED") /\ stat' = Transition(stat, S, "PICKED")
    BY <1>p DEF Pick, PickStat
  <2>8. UNCHANGED <<owner, ship, issued, qty>>
    BY <1>p DEF Pick
  <2> HIDE DEF S
  <2> QED BY <1>4, <2>1, <2>2, <2>4, <2>6, <2>7, <2>8
<1>q. ASSUME NEW t \in Task, PickRemaining(t) PROVE Indoors
  <2> DEFINE open == {u \in LinesOf(t) : ~line[t][u].picked}
             S == open \ {NoUnit}
  <2>1. task' = [task EXCEPT ![t] = "PICKED"] /\ UNCHANGED <<owner, ship, issued, qty>>
    BY <1>q DEF PickRemaining, TaskGoes
  <2>2. task[t] \notin IssuedTaskStatuses /\ "PICKED" \notin IssuedTaskStatuses
    BY <1>q DEF PickRemaining, TaskGoes, IssuedTaskStatuses
  <2>3. \A v \in Task \ {t} : line'[v] = line[v]
    BY <1>q DEF PickRemaining, TypeOK
  <2>4. ASSUME NEW v \in Unit
        PROVE  \/ line'[t][v] = line[t][v]
               \/ /\ line'[t][v].got <= line'[t][v].want
                  /\ v = NoUnit => line'[t][v].got = 0
    <3>1. line'[t][v] = IF v \in open
                        THEN [want |-> line[t][v].want, picked |-> TRUE,
                              got |-> IF v = NoUnit THEN 0 ELSE line[t][v].want]
                        ELSE line[t][v]
      BY <1>q DEF PickRemaining, TypeOK
    <3>2. line[t][v].want \in Nat
      BY DEF TypeOK, LineRecord
    <3> HIDE DEF open
    <3>3. CASE v \notin open
      BY <3>1, <3>3
    <3>4. CASE v \in open /\ v = NoUnit
      BY <3>1, <3>2, <3>4
    <3>5. CASE v \in open /\ v # NoUnit
      BY <3>1, <3>2, <3>5
    <3> QED BY <3>3, <3>4, <3>5
  <2>5. (\A s \in S : stat[s] # "SHIPPED") /\ stat' = Transition(stat, S, "PICKED")
    BY <1>q DEF PickRemaining
  <2> HIDE DEF open, S
  <2> QED BY <1>4, <2>1, <2>2, <2>3, <2>4, <2>5
<1>m. ASSUME NEW t \in Task,
             \/ Advance(t) \/ StartPacking(t) \/ CompletePacking(t)
             \/ ConfirmDelivery(t) \/ SetException(t)
      PROVE  Indoors
  <2>1. \A u \in Task : task'[u] \in IssuedTaskStatuses <=> task[u] \in IssuedTaskStatuses
    BY <1>m, OutboundAssumption
    DEF Advance, StartPacking, CompletePacking, ConfirmDelivery, SetException,
        TaskGoes, TypeOK, CancellableStatuses, HoldStatuses, IssuedTaskStatuses
  <2> QED BY <1>m, <1>1, <2>1
          DEF Advance, StartPacking, CompletePacking, ConfirmDelivery, SetException
<1>h. ASSUME NEW t \in Task, CreateShipment(t) PROVE Indoors
  <2>1. \A u \in Task : task'[u] \in IssuedTaskStatuses <=> task[u] \in IssuedTaskStatuses
    BY <1>h DEF CreateShipment, TaskGoes, TypeOK, IssuedTaskStatuses
  <2>2. UNCHANGED <<owner, line, stat, qty, issued>> /\ \A u \in Task : ship'[u] = "shipped" <=> ship[u] = "shipped"
    BY <1>h DEF CreateShipment, TypeOK
  <2> QED BY <1>i, <2>1, <2>2 DEF Indoors, PickedIsWanted, NothingWithoutUnit
<1>g. ASSUME NEW t \in Task, GoodsIssue(t), UNCHANGED <<owner, line>>,
             NEW to, task' = [task EXCEPT ![t] = to]
      PROVE  Outdoors(t)
  BY <1>g DEF GoodsIssue, Outdoors, TypeOK
<1>e. ASSUME NEW t \in Task, Dispatch(t) PROVE Outdoors(t)
  BY <1>e, <1>g DEF Dispatch, TaskGoes
<1>f. ASSUME NEW t \in Task, IssueToRma(t) PROVE Indoors \/ Outdoors(t)
  <2>1. UNCHANGED <<owner, line>> /\ task' = [task EXCEPT ![t] = "CLOSED"]
    BY <1>f DEF IssueToRma, TaskGoes
  <2>2. CASE GoodsIssue(t)
    BY <1>g, <2>1, <2>2
  <2>3. CASE task[t] \in {"SHIPPED", "DELIVERED"} /\ UNCHANGED <<stat, qty, issued, ship>>
    <3>1. \A u \in Task : task'[u] \in IssuedTaskStatuses <=> task[u] \in IssuedTaskStatuses
      BY <2>1, <2>3 DEF TypeOK, IssuedTaskStatuses
    <3> QED BY <1>1, <2>1, <2>3, <3>1
  <2> QED BY <1>f, <2>2, <2>3 DEF IssueToRma, TaskGoes
<1>k. ASSUME NEW t \in Task, ReleaseAndCancel(t) PROVE Indoors
  BY <1>k, <1>x DEF ReleaseAndCancel
<1>s. ASSUME NEW x \in Row, NEW to \in ManualHolds, SetStatus(x, to) PROVE Indoors
  <2>1. to # "SHIPPED" /\ stat[x] # "SHIPPED"
    BY <1>s, OutboundAssumption DEF SetStatus, ManualStatuses
  <2> QED BY <1>s, <1>1, <2>1 DEF SetStatus, Transition
<1>y. ASSUME RepairReads PROVE Indoors
  BY <1>y, <1>1, ReadsKeep
<1>w. CASE WriteRepair
  BY <1>w, <1>1, <1>2 DEF WriteRepair
<1> QED
  BY <1>r, <1>a, <1>c, <1>b, <1>p, <1>q, <1>m, <1>h, <1>e, <1>f, <1>k, <1>s, <1>y, <1>w
  DEF Next, RequestNext, TaskNext, InventoryNext

\* What the lines of a task picked.
GotQty(t) == SumFunction([u \in Unit |-> line[t][u].got])

\* The lines of a task in use ask for no more than its request.
WantedFits ==
    \A t \in Task : task[t] # "NONE" =>
        SumFunctionOnSet([s \in Row |-> line[t][s].want], Row) <= Want[owner[t]]

\* What a task picked is a quantity.
LEMMA GotIsNat == TypeOK => \A t \in Task : GotQty(t) \in Nat
<1> SUFFICES ASSUME TypeOK, NEW t \in Task PROVE GotQty(t) \in Nat
  OBVIOUS
<1> DEFINE got == [u \in Unit |-> line[t][u].got]
<1>1. IsFiniteSet(Unit)
  BY FiniteAssumption, FS_AddElement DEF Unit
<1>2. \A u \in Unit : got[u] \in Nat
  BY DEF TypeOK, LineRecord
<1>3. DOMAIN got = Unit
  OBVIOUS
<1> HIDE DEF got
<1>4. SumFunctionOnSet(got, Unit) \in Nat
  BY <1>1, <1>2, SumNat
<1> QED BY <1>3, <1>4 DEF GotQty, SumFunction, got

\* What the lines picked is what the units that leave picked.
LEMMA GotIsOut ==
    ASSUME TypeOK, NothingWithoutUnit, PickedIsWanted, NEW t \in Task
    PROVE  GotQty(t) = SumFunction([s \in OutRows(t) |-> line[t][s].got])
<1> DEFINE got == [u \in Unit |-> line[t][u].got]
           keep == [s \in OutRows(t) |-> line[t][s].got]
           out == OutRows(t)
<1>1. IsFiniteSet(Unit)
  BY FiniteAssumption, FS_AddElement DEF Unit
<1>2. \A u \in Unit : got[u] \in Int
  BY DEF TypeOK, LineRecord
<1>3. out \in SUBSET Unit
  BY DEF OutRows, UnitsOf, LinesOf
<1>4. \A u \in Unit \ out : got[u] = 0
  <2> SUFFICES ASSUME NEW u \in Unit, u \notin OutRows(t) PROVE line[t][u].got = 0
    OBVIOUS
  <2>1. line[t][u].got \in Nat /\ line[t][u].want \in Nat /\ line[t][u].got <= line[t][u].want
    BY DEF TypeOK, LineRecord, PickedIsWanted
  <2>2. CASE u = NoUnit
    BY <2>2 DEF NothingWithoutUnit
  <2>3. CASE u # NoUnit /\ ~(line[t][u].want > 0)
    BY <2>1, <2>3
  <2>4. CASE u # NoUnit /\ line[t][u].want > 0
    BY <2>1, <2>4 DEF OutRows, UnitsOf, LinesOf
  <2> QED BY <2>2, <2>3, <2>4
<1>5. DOMAIN got = Unit /\ DOMAIN keep = out /\ \A s \in out : keep[s] = got[s] /\ got[s] \in Int
  BY <1>2, <1>3
<1> HIDE DEF got, keep, out
<1>6. SumFunctionOnSet(got, Unit) = SumFunctionOnSet(got, out)
  BY <1>1, <1>2, <1>3, <1>4, SumPart
<1>7. IsFiniteSet(out)
  BY <1>1, <1>3, FS_Subset
<1>8. SumFunctionOnSet(keep, out) = SumFunctionOnSet(got, out)
  BY <1>5, <1>7, SumCongruent
<1> QED BY <1>5, <1>6, <1>8 DEF GotQty, SumFunction, got, keep

\* Nor is more picked for a request than it asked for.
LEMMA GotFits ==
    ASSUME TypeOK, NothingWithoutUnit, PickedIsWanted, WantedFits,
           NEW t \in Task, task[t] # "NONE", owner[t] \in Req
    PROVE  GotQty(t) <= Want[owner[t]]
<1> DEFINE got == [u \in Unit |-> line[t][u].got]
           want == [s \in Row |-> line[t][s].want]
<1>1. /\ IsFiniteSet(Row) /\ IsFiniteSet(Unit) /\ Row \in SUBSET Unit
      /\ \A u \in Unit \ Row : u = NoUnit
  BY FiniteAssumption, FS_AddElement DEF Unit
<1>2. \A u \in Unit : got[u] \in Int
  BY DEF TypeOK, LineRecord
<1>3. \A u \in Unit \ Row : got[u] = 0
  BY <1>1 DEF NothingWithoutUnit
<1>4. \A s \in Row : got[s] \in Int /\ want[s] \in Int /\ got[s] <= want[s]
  BY <1>1 DEF TypeOK, LineRecord, PickedIsWanted
<1>5. DOMAIN got = Unit
  OBVIOUS
<1>6. SumFunctionOnSet(want, Row) <= Want[owner[t]] /\ Want[owner[t]] \in Int
  BY OutboundAssumption DEF WantedFits
<1> HIDE DEF got, want
<1>7. SumFunctionOnSet(got, Unit) = SumFunctionOnSet(got, Row)
  BY <1>1, <1>2, <1>3, SumPart
<1>8. SumFunctionOnSet(got, Row) <= SumFunctionOnSet(want, Row)
  BY <1>1, <1>4, SumMonotone
<1>9. SumFunctionOnSet(got, Row) \in Int /\ SumFunctionOnSet(want, Row) \in Int
  BY <1>1, <1>4, SumInt
<1>10. GotQty(t) = SumFunctionOnSet(got, Unit)
  BY <1>5 DEF GotQty, SumFunction, got
<1> QED BY <1>6, <1>7, <1>8, <1>9, <1>10

\* Nothing is dispatched for a request until its one shipment leaves.
OneDispatch ==
    /\ \A r \in Req : (\A t \in Task : owner[t] = r => ship[t] # "shipped") => DispatchedQty(r) = 0
    /\ \A t \in Task : \A r \in Req :
         owner[t] = r /\ ship[t] = "shipped" => DispatchedQty(r) = GotQty(t)
    /\ \A r \in Req : DispatchedQty(r) \in Nat

\* A request has at most one dispatched task, and what was dispatched for it
\* is what that task picked.
LEMMA DispatchedIsGot == TypeOK /\ RequestInv => OneDispatch
<1> SUFFICES ASSUME TypeOK, RequestInv, NEW r \in Req
             PROVE  /\ (\A t \in Task : owner[t] = r => ship[t] # "shipped") => DispatchedQty(r) = 0
                    /\ \A t \in Task : owner[t] = r /\ ship[t] = "shipped" =>
                          DispatchedQty(r) = GotQty(t)
                    /\ DispatchedQty(r) \in Nat
  BY DEF OneDispatch
<1> DEFINE S == {x \in TasksOf(r) : ship[x] = "shipped"}
           f == [x \in S |-> GotQty(x)]
<1>1. DispatchedQty(r) = SumFunctionOnSet(f, S)
  BY DEF DispatchedQty, SumFunction, GotQty
<1>2. ASSUME \A t \in Task : owner[t] = r => ship[t] # "shipped" PROVE DispatchedQty(r) = 0
  <2>1. S = {}
    BY <1>2 DEF TasksOf
  <2> HIDE DEF f
  <2> QED BY <1>1, <2>1, SumEmpty
<1>3. ASSUME NEW t \in Task, owner[t] = r, ship[t] = "shipped" PROVE DispatchedQty(r) = GotQty(t)
  <2>1. S = {} \union {t}
    BY <1>3 DEF RequestInv, ShippedIsIssued, OneTaskEach, IssuedTaskStatuses, TasksOf
  <2>2. f[t] = GotQty(t) /\ GotQty(t) \in Int
    BY <2>1, GotIsNat
  <2> HIDE DEF f, S
  <2>3. SumFunctionOnSet(f, {} \union {t}) = f[t] + SumFunctionOnSet(f, {})
    BY <2>2, FS_EmptySet, SumInsert
  <2> QED BY <1>1, <2>1, <2>2, <2>3, SumEmpty
<1> QED BY <1>2, <1>3, GotIsNat

\* An allocation writes lines for no more than the request still needs.
LEMMA AllocateWants ==
    ASSUME TypeOK, NEW r \in Req, NEW t \in Task, Allocate(r, t)
    PROVE  SumFunctionOnSet([s \in Row |-> line'[t][s].want], Row) <= Want[r]
<1>1. PICK pool \in PoolRows(r, OwnedRows(r)), top \in SUBSET RowsIn({"AVAILABLE"}) :
         \E mine \in SUBSET pool : \E take \in [mine \union top -> 1..Want[r]] :
           /\ Chosen(r, pool, mine, top, take)
           /\ \E short \in 0..Want[r] : line' = [line EXCEPT ![t] = NewLines(take, short)]
  BY DEF Allocate
<1>2. PICK mine \in SUBSET pool : \E take \in [mine \union top -> 1..Want[r]] :
           /\ Chosen(r, pool, mine, top, take)
           /\ \E short \in 0..Want[r] : line' = [line EXCEPT ![t] = NewLines(take, short)]
  BY <1>1
<1>3. PICK take \in [mine \union top -> 1..Want[r]] :
           /\ Chosen(r, pool, mine, top, take)
           /\ \E short \in 0..Want[r] : line' = [line EXCEPT ![t] = NewLines(take, short)]
  BY <1>2
<1>4. PICK short \in 0..Want[r] : line' = [line EXCEPT ![t] = NewLines(take, short)]
  BY <1>3
<1> DEFINE D == mine \union top
           want == [s \in Row |-> line'[t][s].want]
<1>5. D \in SUBSET Row /\ Want[r] \in Nat
  BY OutboundAssumption DEF RowsIn, PoolRows, ApprovalPool
<1>6. DOMAIN take = D /\ \A s \in D : take[s] \in Int
  BY <1>5
<1>7. \A s \in Row : want[s] = IF s \in D THEN take[s] ELSE 0
  <2>1. line'[t] = NewLines(take, short)
    BY <1>4 DEF TypeOK
  <2> HIDE DEF D
  <2> QED BY <2>1, <1>6, OutboundAssumption DEF NewLines, Unit
<1>8. SumFunction(take) <= Want[r]
  BY <1>3 DEF Chosen, Fills
<1> HIDE DEF D, want
<1>9. IsFiniteSet(Row) /\ IsFiniteSet(D)
  BY <1>5, FiniteAssumption, FS_Subset
<1>10. /\ \A s \in Row : want[s] \in Int
       /\ \A s \in Row \ D : want[s] = 0
       /\ \A s \in D : want[s] = take[s]
  BY <1>5, <1>6, <1>7
<1>11. SumFunctionOnSet(want, Row) = SumFunctionOnSet(want, D)
  BY <1>5, <1>9, <1>10, SumPart
<1>12. SumFunctionOnSet(want, D) = SumFunctionOnSet(take, D)
  BY <1>6, <1>9, <1>10, SumCongruent
<1>13. SumFunctionOnSet(want, Row) <= Want[r]
  BY <1>6, <1>8, <1>11, <1>12 DEF SumFunction
<1> QED BY <1>13 DEF want

\* Only an allocation brings a task into use or changes what its lines ask for.
LEMMA WantsKept ==
    ASSUME TypeOK, [Next]_vars
    PROVE  \A u \in Task :
             \/ /\ task'[u] = "NONE" <=> task[u] = "NONE"
                /\ owner'[u] = owner[u]
                /\ \A s \in Row : line'[u][s].want = line[u][s].want
             \/ \E r \in Req : Allocate(r, u)
<1> USE DEF stockVars, requestVars, taskVars
<1> DEFINE Kept(u) == /\ task'[u] = "NONE" <=> task[u] = "NONE"
                      /\ owner'[u] = owner[u]
                      /\ \A s \in Row : line'[u][s].want = line[u][s].want
<1> SUFFICES ASSUME NEW u \in Task PROVE Kept(u) \/ \E r \in Req : Allocate(r, u)
  OBVIOUS
<1>u. CASE UNCHANGED <<task, owner, line>>
  BY <1>u
<1>g. ASSUME NEW t \in Task, NEW from, NEW to, TaskGoes(t, from, to),
             "NONE" \notin from, to # "NONE", UNCHANGED <<owner, line>>
      PROVE  Kept(u)
  BY <1>g DEF TaskGoes, TypeOK
<1>r. ASSUME NEW r \in Req,
             \/ Submit(r) \/ Defer(r) \/ Reject(r) \/ ApproveOnly(r) \/ ApproveAndReserve(r)
             \/ RecoverStalled(r)
      PROVE  Kept(u)
  BY <1>r, <1>u DEF Submit, Defer, Reject, ApproveOnly, ApproveAndReserve, RecoverStalled
<1>n. /\ "NONE" \notin CancellableStatuses
      /\ "NONE" \notin Pickable
      /\ \A x \in Exceptions : x # "NONE"
  BY OutboundAssumption DEF CancellableStatuses, HoldStatuses, Pickable
<1>k. ASSUME NEW t \in Task, CancelTask(t), UNCHANGED <<owner, line>> PROVE Kept(u)
  BY <1>k, <1>g, <1>n DEF CancelTask
<1>c. ASSUME NEW r \in Req, Cancel(r) PROVE Kept(u)
  BY <1>c, <1>u, <1>k DEF Cancel, UncancelledTasks, TasksOf
<1>b. ASSUME NEW r \in Req, NEW t \in Task, Allocate(r, t)
      PROVE  Kept(u) \/ \E q \in Req : Allocate(q, u)
  <2>1. CASE t = u
    BY <1>b, <2>1
  <2>2. CASE t # u
    BY <1>b, <2>2 DEF Allocate, TaskGoes, TypeOK
  <2> QED BY <2>1, <2>2
<1>p. ASSUME NEW t \in Task, NEW v \in LinesOf(t), NEW n, Pick(t, v, n) PROVE Kept(u)
  <2>1. \E to \in {"PICKED", "PICKING"} : TaskGoes(t, Pickable, to)
    BY <1>p DEF Pick
  <2>2. task'[u] = "NONE" <=> task[u] = "NONE"
    BY <2>1, <1>n DEF TaskGoes, TypeOK
  <2>3. \A s \in Row : line'[u][s].want = line[u][s].want
    <3>1. line' = [line EXCEPT ![t] = [line[t] EXCEPT ![v] =
                     [want |-> line[t][v].want, got |-> n, picked |-> TRUE]]]
      BY <1>p DEF Pick
    <3>2. CASE u # t
      BY <3>1, <3>2 DEF TypeOK
    <3>3. CASE u = t
      <4>1. line'[t] = [line[t] EXCEPT ![v] = [want |-> line[t][v].want, got |-> n, picked |-> TRUE]]
        BY <3>1, <3>3 DEF TypeOK
      <4> QED BY <3>3, <4>1 DEF TypeOK, Unit
    <3> QED BY <3>2, <3>3
  <2> QED BY <1>p, <2>2, <2>3 DEF Pick
<1>q. ASSUME NEW t \in Task, PickRemaining(t) PROVE Kept(u)
  <2>1. task'[u] = "NONE" <=> task[u] = "NONE"
    BY <1>q DEF PickRemaining, TaskGoes, TypeOK
  <2>2. \A s \in Row : line'[u][s].want = line[u][s].want
    <3> DEFINE open == {v \in LinesOf(t) : ~line[t][v].picked}
               lines == [v \in Unit |->
                          IF v \in open
                          THEN [want |-> line[t][v].want, picked |-> TRUE,
                                got |-> IF v = NoUnit THEN 0 ELSE line[t][v].want]
                          ELSE line[t][v]]
    <3>1. line' = [line EXCEPT ![t] = lines]
      BY <1>q DEF PickRemaining
    <3>2. \A s \in Row : lines[s].want = line[t][s].want
      <4> HIDE DEF open
      <4> QED BY DEF Unit
    <3> HIDE DEF lines
    <3> QED BY <3>1, <3>2 DEF TypeOK
  <2> QED BY <1>q, <2>1, <2>2 DEF PickRemaining
<1>m. ASSUME NEW t \in Task,
             \/ Advance(t) \/ StartPacking(t) \/ CompletePacking(t) \/ CreateShipment(t)
             \/ ConfirmDelivery(t) \/ SetException(t) \/ Dispatch(t) \/ IssueToRma(t)
      PROVE  Kept(u)
  <2>1. PICK from, to : TaskGoes(t, from, to) /\ "NONE" \notin from /\ to # "NONE"
    BY <1>m, <1>n, Zenon DEF Advance, StartPacking, CompletePacking, CreateShipment, ConfirmDelivery,
                      SetException, Dispatch, IssueToRma
  <2>2. UNCHANGED <<owner, line>>
    BY <1>m DEF Advance, StartPacking, CompletePacking, CreateShipment, ConfirmDelivery,
                SetException, Dispatch, IssueToRma
  <2> QED BY <2>1, <2>2, <1>g
<1>l. ASSUME NEW t \in Task, ReleaseAndCancel(t) PROVE Kept(u)
  BY <1>l, <1>k DEF ReleaseAndCancel
<1>i. ASSUME InventoryNext PROVE Kept(u)
  BY <1>i, <1>u DEF InventoryNext, RepairReads, BeginRepair, ReadLinks, CheckTask, SetStatus, WriteRepair
<1> HIDE DEF Kept
<1> QED
  BY <1>r, <1>c, <1>b, <1>p, <1>q, <1>m, <1>l, <1>i, <1>u
  DEF Next, RequestNext, TaskNext, vars, Kept

\* The lines of a task in use go on asking for no more than its request.
LEMMA WantedFitsNext ==
    ASSUME TypeOK, WantedFits, [Next]_vars PROVE WantedFits'
<1> SUFFICES ASSUME NEW u \in Task, task'[u] # "NONE"
             PROVE  SumFunctionOnSet([s \in Row |-> line'[u][s].want], Row) <= Want[owner'[u]]
  BY DEF WantedFits
<1>1. CASE \E r \in Req : Allocate(r, u)
  <2>1. PICK r \in Req : Allocate(r, u)
    BY <1>1
  <2>2. owner'[u] = r
    BY <2>1 DEF Allocate, TypeOK
  <2> QED BY <2>1, <2>2, AllocateWants
<1>2. CASE /\ task'[u] = "NONE" <=> task[u] = "NONE"
           /\ owner'[u] = owner[u]
           /\ \A s \in Row : line'[u][s].want = line[u][s].want
  <2>1. [s \in Row |-> line'[u][s].want] = [s \in Row |-> line[u][s].want]
    BY <1>2
  <2> QED BY <1>2, <2>1 DEF WantedFits
<1> QED BY <1>1, <1>2, WantsKept

\* The books of goods issue: the request lines record what its dispatched task
\* picked, and so do, added up, the rows that left.
Balanced ==
    /\ \A r \in Req : issued[r] = DispatchedQty(r)
    /\ ShippedQty = SumFunction([r \in Req |-> DispatchedQty(r)])

\* The same with what goods issue needs to know to keep them balanced.
LedgerInv == NothingWithoutUnit /\ PickedIsWanted /\ WantedFits /\ Balanced

\* A step without goods issue dispatches nothing.
LEMMA IndoorsDispatched ==
    ASSUME Indoors PROVE \A r \in Req : DispatchedQty(r)' = DispatchedQty(r)
<1> SUFFICES ASSUME NEW r \in Req PROVE DispatchedQty(r)' = DispatchedQty(r)
  OBVIOUS
<1> DEFINE S == {x \in TasksOf(r) : ship[x] = "shipped"}
           got == [x \in S |-> SumFunction([u \in Unit |-> line[x][u].got])]
<1>1. {x \in TasksOf(r) : ship[x] = "shipped"}' = S
  BY DEF Indoors, TasksOf
<1>2. \A x \in S : line'[x] = line[x]
  BY DEF Indoors, TasksOf
<1>3. \A x \in S : SumFunction([u \in Unit |-> line'[x][u].got]) =
                   SumFunction([u \in Unit |-> line[x][u].got])
  BY <1>2
<1>4. [x \in {y \in TasksOf(r) : ship[y] = "shipped"} |->
         SumFunction([u \in Unit |-> line[x][u].got])]' = got
  BY <1>1, <1>3
<1> QED BY <1>4 DEF DispatchedQty

\* Nor does it change an entry of the books.
LEMMA IndoorsBalances ==
    ASSUME TypeOK, Balanced, Indoors
    PROVE  Balanced'
<1>1. \A r \in Req : DispatchedQty(r)' = DispatchedQty(r)
  BY IndoorsDispatched
<1>2. ShippedQty' = ShippedQty
  <2>1. RowsIn({"SHIPPED"})' = RowsIn({"SHIPPED"})
    BY DEF Indoors, RowsIn
  <2>2. \A s \in RowsIn({"SHIPPED"}) : qty[s] \in Int /\ qty'[s] = qty[s]
    BY DEF Indoors, RowsIn, TypeOK, StockTypeOK
  <2>3. IsFiniteSet(RowsIn({"SHIPPED"}))
    BY FiniteAssumption, FS_Subset DEF RowsIn
  <2>4. SumFunctionOnSet(qty', RowsIn({"SHIPPED"})) = SumFunctionOnSet(qty, RowsIn({"SHIPPED"}))
    BY <2>2, <2>3, SumCongruent
  <2> QED BY <2>1, <2>4 DEF ShippedQty
<1>3. [r \in Req |-> DispatchedQty(r)]' = [r \in Req |-> DispatchedQty(r)]
  BY <1>1
<1>4. issued' = issued
  BY DEF Indoors
<1> QED BY <1>1, <1>2, <1>3, <1>4 DEF Balanced

\* The same after a step.
LEMMA DispatchedNext == (TypeOK /\ RequestInv => OneDispatch)'
BY DispatchedIsGot, PTL

\* A goods issue dispatches what its task picked, for a request that had none.
LEMMA OutdoorsDispatched ==
    ASSUME TypeOK, RequestInv, TypeOK', RequestInv', NEW t \in Task, Outdoors(t)
    PROVE  /\ owner[t] \in Req
           /\ \A u \in Task : owner[u] = owner[t] => ship[u] # "shipped"
           /\ \A r \in Req : r = owner[t] => DispatchedQty(r) = 0 /\ DispatchedQty(r)' = GotQty(t)
           /\ \A q \in Req : q # owner[t] => DispatchedQty(q)' = DispatchedQty(q)
<1>1. task[t] = "READY_TO_SHIP" /\ ship[t] # "shipped"
  BY DEF Outdoors, GoodsIssue
<1>2. owner[t] \in Req
  BY <1>1 DEF RequestInv, TasksOwned
<1>3. \A u \in Task : owner[u] = owner[t] => ship[u] # "shipped"
  BY <1>1 DEF RequestInv, ShippedIsIssued, OneTaskEach, IssuedTaskStatuses
<1>4. OneDispatch /\ OneDispatch'
  BY DispatchedIsGot, DispatchedNext
<1>5. owner' = owner /\ line' = line /\ ship'[t] = "shipped"
      /\ \A u \in Task \ {t} : ship'[u] = ship[u]
  BY DEF Outdoors
<1>6. ASSUME NEW r \in Req, r = owner[t]
      PROVE  DispatchedQty(r) = 0 /\ DispatchedQty(r)' = GotQty(t)
  <2>1. GotQty(t)' = GotQty(t)
    BY <1>5 DEF GotQty
  <2>2. DispatchedQty(r)' = GotQty(t)
    BY <1>4, <1>5, <1>6, <2>1 DEF OneDispatch
  <2> QED BY <1>3, <1>4, <1>6, <2>2 DEF OneDispatch
<1>7. ASSUME NEW q \in Req, q # owner[t] PROVE DispatchedQty(q)' = DispatchedQty(q)
  <2>1. {x \in TasksOf(q) : ship[x] = "shipped"}' = {x \in TasksOf(q) : ship[x] = "shipped"}
    BY <1>5, <1>7 DEF TasksOf
  <2> QED BY <1>5, <2>1 DEF DispatchedQty
<1> QED BY <1>2, <1>3, <1>6, <1>7

\* The rows of a goods issue: what was picked ships in the quantity picked, the
\* other units of the task become free.
LEMMA OutdoorsRows ==
    ASSUME TypeOK, StockInv, NEW t \in Task, Outdoors(t), NEW s \in Row
    PROVE  /\ s \in OutRows(t) =>
                s \in UnitsOf(t) /\ stat'[s] = "SHIPPED" /\ qty'[s] = line[t][s].got
           /\ s \in UnitsOf(t) =>
                /\ stat[s] \in {"PICKED", "RESERVED"}
                /\ line[t][s].got \in Nat /\ qty[s] \in Nat /\ line[t][s].got <= qty[s]
                /\ line[t][s].got > 0 <=> s \in OutRows(t)
           /\ s \in UnitsOf(t) \ OutRows(t) => stat'[s] = "AVAILABLE"
           /\ s \notin UnitsOf(t) =>
                /\ stat'[s] \in {stat[s], "AVAILABLE"}
                /\ stat[s] # "ABSENT" => stat'[s] = stat[s] /\ qty'[s] = qty[s]
<1>1. GoodsIssue(t) /\ task[t] \in CancellableStatuses
  BY DEF Outdoors, GoodsIssue, CancellableStatuses
<1>2. OutRows(t) \subseteq UnitsOf(t)
  BY DEF OutRows
<1>3. ASSUME s \in UnitsOf(t)
      PROVE  /\ stat[s] \in {"PICKED", "RESERVED"}
             /\ line[t][s].got \in Nat /\ qty[s] \in Nat /\ line[t][s].got <= qty[s]
             /\ line[t][s].got > 0 <=> s \in OutRows(t)
  <2>1. Holds(t, s)
    BY <1>1, <1>3 DEF Holds
  <2>2. stat[s] \in {"PICKED", "RESERVED"} /\ line[t][s].got <= qty[s]
    BY <2>1 DEF StockInv, HeldUnitsCommitted, LinesFit
  <2>3. line[t][s].got \in Nat /\ qty[s] \in Nat
    BY DEF TypeOK, StockTypeOK, LineRecord, Unit
  <2> QED BY <1>3, <2>2, <2>3 DEF OutRows
<1>4. CASE s \in OutRows(t)
  <2>1. stat'[s] = "SHIPPED" /\ qty'[s] = IF qty[s] > line[t][s].got THEN line[t][s].got ELSE qty[s]
    BY <1>1, <1>4, GoodsIssueRows
  <2> QED BY <1>2, <1>3, <1>4, <2>1
<1>5. CASE s \in UnitsOf(t) \ OutRows(t)
  BY <1>1, <1>3, <1>5, GoodsIssueRows
<1>6. CASE s \notin UnitsOf(t)
  BY <1>1, <1>2, <1>6, GoodsIssueRows
<1> QED BY <1>4, <1>5, <1>6

\* A goods issue enters what it ships, once, on the request and on the rows.
LEMMA OutdoorsBalances ==
    ASSUME TypeOK, StockInv, RequestInv, TypeOK', RequestInv',
           NothingWithoutUnit, PickedIsWanted, Balanced,
           NEW t \in Task, Outdoors(t)
    PROVE  Balanced'
<1>1. PICK r \in Req : r = owner[t]
  BY OutdoorsDispatched
<1>2. PICK n \in Nat : n = GotQty(t)
  BY GotIsNat
<1>3. /\ DispatchedQty(r) = 0 /\ DispatchedQty(r)' = n
      /\ \A q \in Req \ {r} : DispatchedQty(q)' = DispatchedQty(q)
  BY <1>1, <1>2, OutdoorsDispatched
<1>4. OneDispatch /\ OneDispatch'
  BY DispatchedIsGot, DispatchedNext
<1>5. SumFunction([s \in OutRows(t) |-> line[t][s].got]) = n
  BY <1>2, GotIsOut
\* The entry of the request.
<1>6. \A q \in Req : issued'[q] = DispatchedQty(q)'
  <2>1. issued' = [issued EXCEPT ![r] = IF @ > 0 THEN @ ELSE n]
    BY <1>1, <1>5 DEF Outdoors, GoodsIssue
  <2>2. issued[r] = 0 /\ \A q \in Req : issued[q] = DispatchedQty(q)
    BY <1>3 DEF Balanced
  <2>3. \A q \in Req : issued'[q] = IF q = r THEN n ELSE issued[q]
    BY <2>1, <2>2 DEF TypeOK
  <2> QED BY <1>3, <2>2, <2>3
\* The rows that leave.
<1>7. ShippedQty' = ShippedQty + n
  <2> DEFINE out == OutRows(t)
             keep == [s \in out |-> line[t][s].got]
             gone == RowsIn({"SHIPPED"})
  <2>1. out \in SUBSET Row
    BY DEF OutRows, UnitsOf, LinesOf, Unit
  <2>2. ASSUME NEW s \in Row
        PROVE  /\ stat'[s] = "SHIPPED" <=> stat[s] = "SHIPPED" \/ s \in out
               /\ stat[s] = "SHIPPED" => qty'[s] = qty[s] /\ s \notin out
    BY OutdoorsRows DEF OutRows
  <2>3. RowsIn({"SHIPPED"})' = gone \union out
    BY <2>1, <2>2 DEF RowsIn
  <2>4. gone \intersect out = {} /\ gone \subseteq Row
    BY <2>1, <2>2 DEF RowsIn
  <2>5. /\ \A s \in out : keep[s] \in Int /\ qty'[s] = keep[s]
        /\ \A s \in gone : qty[s] \in Int /\ qty'[s] = qty[s]
        /\ DOMAIN keep = out
    <3>1. \A s \in out : line[t][s].got \in Int /\ qty'[s] = line[t][s].got
      BY <2>1, OutdoorsRows
    <3> QED BY <3>1, <2>2 DEF RowsIn, TypeOK, StockTypeOK
  <2>6. IsFiniteSet(gone) /\ IsFiniteSet(out)
    BY <2>1, <2>4, FiniteAssumption, FS_Subset
  <2>7. SumFunction(keep) = n
    BY <1>5
  <2>8. ShippedQty = SumFunctionOnSet(qty, gone)
    BY DEF ShippedQty
  <2>9. ShippedQty' = SumFunctionOnSet(qty', gone \union out)
    BY <2>3 DEF ShippedQty
  <2> HIDE DEF out, keep, gone
  <2>10. SumFunctionOnSet(qty', gone \union out) =
           SumFunctionOnSet(qty', gone) + SumFunctionOnSet(qty', out)
    <3>1. \A s \in gone \union out : qty'[s] \in Int
      BY <2>5
    <3> QED BY <3>1, <2>4, <2>6, SumUnion
  <2>11. SumFunctionOnSet(qty', gone) = SumFunctionOnSet(qty, gone)
    BY <2>5, <2>6, SumCongruent
  <2>12. SumFunctionOnSet(qty', out) = SumFunctionOnSet(keep, out)
    BY <2>5, <2>6, SumCongruent
  <2>13. SumFunctionOnSet(keep, out) = n
    BY <2>5, <2>7 DEF SumFunction
  <2> QED BY <2>8, <2>9, <2>10, <2>11, <2>12, <2>13
<1>8. SumFunction([q \in Req |-> DispatchedQty(q)])' = SumFunction([q \in Req |-> DispatchedQty(q)]) + n
  <2> DEFINE f == [q \in Req |-> DispatchedQty(q)]
             g == [q \in Req |-> DispatchedQty(q)']
  <2>1. \A q \in Req : f[q] \in Int /\ g[q] \in Int
    BY <1>4 DEF OneDispatch
  <2>2. f[r] = 0 /\ g[r] = n /\ \A q \in Req \ {r} : g[q] = f[q]
    BY <1>3
  <2>3. DOMAIN f = Req /\ DOMAIN g = Req
    OBVIOUS
  <2>4. SumFunction([q \in Req |-> DispatchedQty(q)])' = SumFunction(g)
    OBVIOUS
  <2> HIDE DEF f, g
  <2>5. SumFunctionOnSet(g, Req) = SumFunctionOnSet(f, Req) + g[r] - f[r]
    BY <2>1, <2>2, FiniteAssumption, SumChanged
  <2>6. SumFunctionOnSet(f, Req) \in Int
    BY <2>1, FiniteAssumption, SumInt
  <2>7. SumFunction(g) = SumFunction(f) + n
    BY <2>2, <2>3, <2>5, <2>6 DEF SumFunction
  <2> QED BY <2>4, <2>7 DEF f
<1> QED BY <1>6, <1>7, <1>8 DEF Balanced

\* The books balance at the start,
LEMMA LedgerInit == Init => LedgerInv
<1> SUFFICES ASSUME Init PROVE LedgerInv
  OBVIOUS
<1>1. /\ \A t \in Task : task[t] = "NONE" /\ ship[t] = "none"
      /\ \A t \in Task : \A u \in Unit : line[t][u] = NoLine
      /\ \A r \in Req : issued[r] = 0
  BY DEF Init
<1>2. NothingWithoutUnit /\ PickedIsWanted /\ WantedFits
  BY <1>1 DEF NothingWithoutUnit, PickedIsWanted, WantedFits, Unit, NoLine
<1>3. \A r \in Req : DispatchedQty(r) = 0
  <2>1. TypeOK /\ RequestInv
    BY InvInit DEF IInv
  <2> QED BY <1>1, <2>1, DispatchedIsGot DEF OneDispatch
<1>4. ShippedQty = 0
  <2>1. \A s \in Row : stat[s] # "SHIPPED"
    BY DEF Init
  <2>2. RowsIn({"SHIPPED"}) = {}
    BY <2>1 DEF RowsIn
  <2> QED BY <2>2, SumEmpty DEF ShippedQty
<1>5. SumFunction([r \in Req |-> DispatchedQty(r)]) = 0
  <2> DEFINE f == [r \in Req |-> DispatchedQty(r)]
  <2>1. DOMAIN f = Req /\ \A r \in Req : f[r] = 0
    BY <1>3
  <2> HIDE DEF f
  <2>2. SumFunctionOnSet(f, Req) = 0
    BY <2>1, FiniteAssumption, SumZero
  <2> QED BY <2>1, <2>2 DEF SumFunction, f
<1> QED BY <1>1, <1>2, <1>3, <1>4, <1>5 DEF LedgerInv, Balanced

\* every step keeps them balanced,
LEMMA LedgerNext ==
    ASSUME TypeOK, StockInv, RequestInv, TypeOK', RequestInv', LedgerInv, [Next]_vars
    PROVE  LedgerInv'
<1>0. TypeOK /\ StockInv /\ RequestInv
  OBVIOUS
<1>1. TypeOK' /\ RequestInv'
  OBVIOUS
<1>2. WantedFits'
  BY <1>0, WantedFitsNext DEF LedgerInv
<1>3. CASE Indoors
  BY <1>0, <1>2, <1>3, IndoorsBalances DEF LedgerInv, Indoors
<1>4. ASSUME NEW t \in Task, Outdoors(t) PROVE LedgerInv'
  <2>1. Balanced'
    BY <1>0, <1>1, <1>4, OutdoorsBalances DEF LedgerInv
  <2>2. line' = line
    BY <1>4 DEF Outdoors
  <2> QED BY <1>2, <2>1, <2>2 DEF LedgerInv, NothingWithoutUnit, PickedIsWanted
<1>5. CASE UNCHANGED vars
  <2>1. Indoors
    BY <1>0, <1>5 DEF vars, Indoors, PickedIsWanted, NothingWithoutUnit, RequestInv, ShippedIsIssued
  <2> QED BY <1>3, <2>1
<1>6. CASE Next
  BY <1>0, <1>3, <1>4, <1>6, InOrOut
<1> QED BY <1>5, <1>6

\* so they always balance.
LEMMA LedgerAlways ==
    ASSUME Repair = {} PROVE Spec => [](IInv /\ LedgerInv)
<1>1. IInv /\ [Next]_vars => IInv'
  BY InvNext
<1>2. IInv /\ IInv' /\ LedgerInv /\ [Next]_vars => LedgerInv'
  BY LedgerNext DEF IInv
<1> QED BY <1>1, <1>2, InvInit, LedgerInit, PTL DEF Spec

\* Beside repairs, too, the books balance until one writes over a task.
LedgerUnlessCrossed == ~repair.crossed => LedgerInv

\* It holds at the start and is preserved.
LEMMA LedgerThroughRepairs ==
    Spec => [](TasksInv /\ StockUnlessCrossed /\ LedgerUnlessCrossed)
<1>1. Init => LedgerUnlessCrossed
  BY LedgerInit DEF LedgerUnlessCrossed
<1>2. /\ TasksInv /\ TasksInv' /\ StockUnlessCrossed /\ LedgerUnlessCrossed /\ [Next]_vars
      => LedgerUnlessCrossed'
  <2> SUFFICES ASSUME TasksInv, TasksInv', StockUnlessCrossed, LedgerUnlessCrossed, [Next]_vars,
                      ~repair'.crossed
               PROVE  LedgerInv'
    BY DEF LedgerUnlessCrossed
  <2>1. ~repair.crossed
    BY CrossedStays DEF TasksInv
  <2> QED
    BY <2>1, LedgerNext DEF TasksInv, StockUnlessCrossed, LedgerUnlessCrossed
<1> QED BY <1>1, <1>2, StockThroughRepairs, PTL DEF Spec

\* The quantity on the rows that left is what the dispatched tasks picked, each
\* request line records its own part of it, and no request is issued more than
\* it asked for, over every cancellation, re-allocation, short pick and split,
\* and over repairs, until one writes over a task.
THEOREM IssueLedgerAlways == Spec => []IssueLedger
<1>1. TasksInv /\ LedgerUnlessCrossed => IssueLedger
  <2> SUFFICES ASSUME TasksInv, LedgerInv, NEW r \in Req PROVE issued[r] <= Want[r]
    BY DEF IssueLedger, LedgerUnlessCrossed, LedgerInv, Balanced
  <2>0. TypeOK /\ RequestInv /\ OneDispatch /\ issued[r] = DispatchedQty(r)
    BY DispatchedIsGot DEF TasksInv, LedgerInv, Balanced
  <2>1. CASE \E t \in Task : owner[t] = r /\ ship[t] = "shipped"
    <3>1. PICK t \in Task : owner[t] = r /\ ship[t] = "shipped"
      BY <2>1
    <3>2. task[t] # "NONE"
      BY <2>0, <3>1 DEF RequestInv, ShippedIsIssued, IssuedTaskStatuses
    <3>3. issued[r] = GotQty(t)
      BY <2>0, <3>1 DEF OneDispatch
    <3> QED BY <2>0, <3>1, <3>2, <3>3, GotFits DEF LedgerInv
  <2>2. CASE \A t \in Task : owner[t] = r => ship[t] # "shipped"
    <3>1. issued[r] = 0
      BY <2>0, <2>2 DEF OneDispatch
    <3> QED BY <3>1, OutboundAssumption
  <2> QED BY <2>1, <2>2
<1> QED BY <1>1, LedgerThroughRepairs, PTL

-----------------------------------------------------------------------------
(* Outbound implements StockLedger *)

\* With unified reservation and no old data, no request is linked to a row.
NoLinks == \A r \in Req : link[r] = NoUnit

\* The rows in the hands of the outbound flow.
TakenRows == RowsIn(OutboundStatuses \union AfterIssueStatuses)

\* The quantity on them.
takenQty == SumFunctionOnSet(qty, TakenRows)

\* What is not taken is free.
FreeIsRest == /\ takenQty \in Nat /\ freeQty \in Nat /\ SumFunction(InitialQty) \in Nat
              /\ freeQty = SumFunction(InitialQty) - takenQty

\* Conserved stock is free, taken, or on a row out of use, which holds none.
LEMMA FreeHolds == TypeOK /\ Conserved => FreeIsRest
<1> SUFFICES ASSUME TypeOK, Conserved PROVE FreeIsRest
  OBVIOUS
<1> DEFINE Manual == RowsIn(ManualStatuses)
           Absent == RowsIn({"ABSENT"})
           Rest == Manual \union Absent
           Taken == TakenRows
<1>1. /\ Row = Taken \union Rest /\ Taken \intersect Rest = {}
      /\ Manual \intersect Absent = {}
      /\ Taken \subseteq Row /\ Manual \subseteq Row /\ Absent \subseteq Row
  BY DEF TakenRows, RowsIn, TypeOK, StockTypeOK, StockStatus, ManualStatuses, OutboundStatuses,
         AfterIssueStatuses
<1>2. /\ IsFiniteSet(Taken) /\ IsFiniteSet(Manual) /\ IsFiniteSet(Absent) /\ IsFiniteSet(Rest)
  BY <1>1, FiniteAssumption, FS_Subset, FS_Union
<1>3. \A s \in Row : qty[s] \in Nat /\ qty[s] \in Int
  BY DEF TypeOK, StockTypeOK
<1>4. \A s \in Absent : qty[s] = 0
  BY DEF Conserved, AbsentIsEmpty, RowsIn
<1>5. SumFunction(InitialQty) = SumFunctionOnSet(qty, Row)
  BY DEF Conserved, StockConserved, TotalQty, SumFunction, TypeOK, StockTypeOK
<1>6. freeQty = SumFunctionOnSet(qty, Manual) /\ takenQty = SumFunctionOnSet(qty, Taken)
  BY DEF freeQty, takenQty
<1> HIDE DEF Manual, Absent, Taken
<1>7. SumFunctionOnSet(qty, Row) = SumFunctionOnSet(qty, Taken) + SumFunctionOnSet(qty, Rest)
  <2>1. \A s \in Taken \union Rest : qty[s] \in Int
    BY <1>1, <1>3
  <2> HIDE DEF Rest
  <2>2. SumFunctionOnSet(qty, Taken \union Rest) = SumFunctionOnSet(qty, Taken) + SumFunctionOnSet(qty, Rest)
    BY <1>1, <1>2, <2>1, SumUnion
  <2> QED BY <1>1, <2>2
<1>8. SumFunctionOnSet(qty, Rest) = SumFunctionOnSet(qty, Manual) + SumFunctionOnSet(qty, Absent)
  <2>1. \A s \in Manual \union Absent : qty[s] \in Int
    BY <1>1, <1>3
  <2> QED BY <1>1, <1>2, <2>1, SumUnion
<1>9. SumFunctionOnSet(qty, Absent) = 0
  BY <1>2, <1>4, SumZero
<1>10. SumFunctionOnSet(qty, Manual) \in Nat /\ SumFunctionOnSet(qty, Taken) \in Nat
  BY <1>1, <1>2, <1>3, SumNat
<1>11. /\ SumFunctionOnSet(qty, Row) \in Nat
       /\ SumFunctionOnSet(qty, Manual) =
            SumFunctionOnSet(qty, Row) - SumFunctionOnSet(qty, Taken)
  BY <1>7, <1>8, <1>9, <1>10
<1> QED BY <1>5, <1>6, <1>10, <1>11 DEF FreeIsRest

\* The same after a step.
LEMMA FreeNext == (TypeOK /\ Conserved => FreeIsRest)'
BY FreeHolds, PTL

\* A request's one live task holds all that is held for it.
OneHolder ==
    /\ \A t \in Task : \A r \in Req :
         task[t] \in CancellableStatuses /\ owner[t] = r => LiveUnits(r) = UnitsOf(t)
    /\ \A r \in Req :
         (\A t \in Task : owner[t] = r => task[t] \notin CancellableStatuses) => LiveUnits(r) = {}
    /\ \A r \in Req : LiveUnits(r) \subseteq TakenRows

\* It follows from the inductive invariant,
LEMMA OneHolderHolds == TypeOK /\ StockInv /\ RequestInv => OneHolder
<1> SUFFICES ASSUME TypeOK, StockInv, RequestInv, NEW r \in Req
             PROVE  /\ \A t \in Task : task[t] \in CancellableStatuses /\ owner[t] = r =>
                          LiveUnits(r) = UnitsOf(t)
                    /\ (\A t \in Task : owner[t] = r => task[t] \notin CancellableStatuses) =>
                          LiveUnits(r) = {}
                    /\ LiveUnits(r) \subseteq TakenRows
  BY DEF OneHolder
<1>1. ASSUME NEW t \in Task, task[t] \in CancellableStatuses, owner[t] = r
      PROVE  LiveUnits(r) = UnitsOf(t)
  <2>1. \A u \in Task : owner[u] = r /\ task[u] \in CancellableStatuses => u = t
    BY <1>1 DEF RequestInv, OneTaskEach, CancellableStatuses, HoldStatuses
  <2>2. UnitsOf(t) \subseteq Row
    BY DEF UnitsOf, LinesOf, Unit
  <2> QED BY <1>1, <2>1, <2>2 DEF LiveUnits, Holds, TasksOf
<1>2. LiveUnits(r) \subseteq TakenRows
  BY DEF LiveUnits, TasksOf, TakenRows, RowsIn, StockInv, HeldUnitsCommitted, OutboundStatuses
<1> QED BY <1>1, <1>2 DEF LiveUnits, Holds, TasksOf

\* before and after a step.
LEMMA OneHolderNext == (TypeOK /\ StockInv /\ RequestInv => OneHolder)'
BY OneHolderHolds, PTL

\* The statuses of those rows.
TakenStatuses == OutboundStatuses \union AfterIssueStatuses

\* A step that takes, frees, holds and ships nothing.
Quiet ==
    /\ Indoors
    /\ \A s \in Row : stat'[s] \in TakenStatuses <=> stat[s] \in TakenStatuses
    /\ qty' = qty
    /\ owner' = owner
    /\ \A t \in Task : \A s \in Row : Holds(t, s)' <=> Holds(t, s)

\* The four kinds of step.
LEMMA StepKinds ==
    ASSUME Repair = {}, Unified = TRUE, IInv, NoLinks, Next
    PROVE  \/ Quiet
           \/ \E r \in Req : \E t \in Task : Allocate(r, t)
           \/ \E t \in Task : CancelTask(t) /\ UNCHANGED <<qty, owner, line, ship>>
           \/ \E t \in Task : Outdoors(t)
<1> USE DEF stockVars, requestVars, taskVars
<1>0. TypeOK /\ StockInv /\ RequestInv /\ repair = NoRepair
  BY DEF IInv
<1> DEFINE Goal == \/ Quiet
                   \/ \E t \in Task : CancelTask(t) /\ UNCHANGED <<qty, owner, line, ship>>
<1> SUFFICES ASSUME Indoors, \A r \in Req : \A t \in Task : ~Allocate(r, t) PROVE Goal
  BY <1>0, InOrOut
<1>1. owner' = owner /\ \A u \in Task : \A s \in Row : line'[u][s].want = line[u][s].want
  <2>1. \A u \in Task : /\ owner'[u] = owner[u]
                        /\ \A s \in Row : line'[u][s].want = line[u][s].want
    BY <1>0, WantsKept
  <2>2. owner \in [Task -> Req \union {NoReq}] /\ owner' \in [Task -> Req \union {NoReq}]
    BY <1>0, TypeNext DEF TypeOK
  <2> QED BY <2>1, <2>2
<1>2. ASSUME \A u \in Task : task'[u] \in CancellableStatuses <=> task[u] \in CancellableStatuses,
             \A s \in Row : stat'[s] \in TakenStatuses <=> stat[s] \in TakenStatuses,
             qty' = qty
      PROVE  Goal
  <2>1. \A t \in Task, s \in Row : s \in UnitsOf(t)' <=> s \in UnitsOf(t)
    BY <1>1, OutboundAssumption DEF UnitsOf, LinesOf, Unit
  <2>2. \A t \in Task, s \in Row : Holds(t, s)' <=> Holds(t, s)
    BY <1>2, <2>1 DEF Holds
  <2> QED BY <1>1, <1>2, <2>2 DEF Quiet
<1>3. ASSUME NEW t \in Task, NEW to, task' = [task EXCEPT ![t] = to],
             to \in CancellableStatuses <=> task[t] \in CancellableStatuses
      PROVE  \A u \in Task : task'[u] \in CancellableStatuses <=> task[u] \in CancellableStatuses
  BY <1>0, <1>3 DEF TypeOK
<1>r. ASSUME NEW r \in Req,
             \/ Submit(r) \/ Defer(r) \/ Reject(r) \/ ApproveOnly(r) \/ RecoverStalled(r)
      PROVE  Goal
  BY <1>r, <1>2 DEF Submit, Defer, Reject, ApproveOnly, RecoverStalled
<1>a. ASSUME NEW r \in Req, ApproveAndReserve(r) PROVE FALSE
  BY <1>a DEF ApproveAndReserve
<1>c. ASSUME NEW r \in Req, Cancel(r) PROVE Goal
  <2>1. UNCHANGED <<qty, owner, line, ship>>
    BY <1>c DEF Cancel
  <2>2. CASE \E t \in UncancelledTasks(r) : CancelTask(t)
    BY <2>1, <2>2 DEF UncancelledTasks, TasksOf
  <2>3. CASE UNCHANGED <<stat, task>>
    BY <1>2, <2>1, <2>3
  <2> QED BY <1>c, <2>2, <2>3 DEF Cancel, NoLinks
<1>p. ASSUME NEW t \in Task, NEW u \in LinesOf(t), NEW n, Pick(t, u, n) PROVE Goal
  <2>1. PICK to \in {"PICKING", "PICKED"} : task' = [task EXCEPT ![t] = to]
    BY <1>p DEF Pick, TaskGoes
  <2>2. task[t] \in CancellableStatuses /\ to \in CancellableStatuses
    BY <1>p DEF Pick, Pickable, CancellableStatuses
  <2>3. \A s \in Row : stat'[s] \in TakenStatuses <=> stat[s] \in TakenStatuses
    BY <1>p DEF Pick, PickStat, Transition, TakenStatuses, OutboundStatuses
  <2>4. qty' = qty
    BY <1>p DEF Pick
  <2> QED BY <1>2, <1>3, <2>1, <2>2, <2>3, <2>4
<1>q. ASSUME NEW t \in Task, PickRemaining(t) PROVE Goal
  <2>1. task' = [task EXCEPT ![t] = "PICKED"]
    BY <1>q DEF PickRemaining, TaskGoes
  <2>2. task[t] \in CancellableStatuses /\ "PICKED" \in CancellableStatuses
    BY <1>q DEF PickRemaining, TaskGoes, CancellableStatuses
  <2>3. \A s \in Row : stat'[s] \in TakenStatuses <=> stat[s] \in TakenStatuses
    BY <1>q DEF PickRemaining, Transition, TakenStatuses, OutboundStatuses
  <2>4. qty' = qty
    BY <1>q DEF PickRemaining
  <2> QED BY <1>2, <1>3, <2>1, <2>2, <2>3, <2>4
<1>m. ASSUME NEW t \in Task,
             \/ Advance(t) \/ StartPacking(t) \/ CompletePacking(t)
             \/ CreateShipment(t) \/ ConfirmDelivery(t) \/ SetException(t)
      PROVE  Goal
  <2>1. UNCHANGED <<stat, qty>>
    BY <1>m DEF Advance, StartPacking, CompletePacking, CreateShipment, ConfirmDelivery, SetException
  <2>2. \A u \in Task : task'[u] \in CancellableStatuses <=> task[u] \in CancellableStatuses
    <3>1. task \in [Task -> TaskStatus]
      BY <1>0 DEF TypeOK
    <3> QED BY <1>m, <3>1, OutboundAssumption
        DEF Advance, StartPacking, CompletePacking, CreateShipment, ConfirmDelivery, SetException,
            TaskGoes, CancellableStatuses, HoldStatuses
  <2> QED BY <1>2, <2>1, <2>2
<1>g. ASSUME NEW t \in Task, GoodsIssue(t) PROVE FALSE
  BY <1>0, <1>g DEF GoodsIssue, Indoors, TypeOK
<1>i. ASSUME NEW t \in Task, Dispatch(t) \/ IssueToRma(t) PROVE Goal
  <2>1. task[t] \in {"SHIPPED", "DELIVERED"} /\ task' = [task EXCEPT ![t] = "CLOSED"]
    BY <1>i, <1>g DEF Dispatch, IssueToRma, TaskGoes
  <2>2. UNCHANGED <<stat, qty>>
    BY <1>i, <1>g DEF Dispatch, IssueToRma
  <2>3. task[t] \notin CancellableStatuses /\ "CLOSED" \notin CancellableStatuses
    BY <2>1 DEF CancellableStatuses, HoldStatuses
  <2> QED BY <1>2, <1>3, <2>1, <2>2, <2>3
<1>k. ASSUME NEW t \in Task, ReleaseAndCancel(t) PROVE Goal
  BY <1>k DEF ReleaseAndCancel
<1>s. ASSUME NEW x \in Row, NEW to \in ManualHolds, SetStatus(x, to) PROVE Goal
  <2>1. to \in ManualStatuses /\ stat[x] \in ManualStatuses
    BY <1>s, OutboundAssumption DEF SetStatus
  <2>2. to \notin TakenStatuses /\ stat[x] \notin TakenStatuses
    BY <2>1 DEF TakenStatuses, ManualStatuses, OutboundStatuses, AfterIssueStatuses
  <2>3. \A s \in Row : stat'[s] \in TakenStatuses <=> stat[s] \in TakenStatuses
    BY <1>s, <2>2 DEF SetStatus, Transition
  <2> QED BY <1>s, <1>2, <2>3 DEF SetStatus
<1>e. ASSUME RepairReads PROVE FALSE
  BY <1>e, <1>0 DEF RepairReads, BeginRepair, ReadLinks, CheckTask, NoRepair
<1>w. CASE WriteRepair
  BY <1>0, <1>w DEF WriteRepair, NoRepair
<1> HIDE DEF Goal
<1> QED
  BY <1>r, <1>a, <1>c, <1>p, <1>q, <1>m, <1>i, <1>k, <1>s, <1>e, <1>w
  DEF Next, RequestNext, TaskNext, InventoryNext

\* A quiet step leaves the ledger alone.
LEMMA QuietStep ==
    ASSUME TypeOK, Conserved, FreeIsRest, FreeIsRest', OneHolder, Quiet
    PROVE  UNCHANGED Ledger!vars
<1>1. TakenRows' = TakenRows
  BY DEF Quiet, TakenRows, RowsIn, TakenStatuses
<1>2. freeQty' = freeQty
  <2>1. takenQty' = takenQty
    BY <1>1 DEF takenQty, Quiet
  <2> QED BY <2>1 DEF FreeIsRest
<1>3. heldQty' = heldQty
  <2>1. \A r \in Req : LiveUnits(r)' = LiveUnits(r)
    BY DEF Quiet, LiveUnits, TasksOf
  <2> QED BY <2>1 DEF heldQty, Quiet
<1>4. goneQty' = goneQty
  BY IndoorsDispatched DEF goneQty, Quiet
<1>5. doneReq' = doneReq
  BY DEF doneReq, Quiet, Indoors, TasksOf
<1> QED BY <1>2, <1>3, <1>4, <1>5 DEF Ledger!vars

\* The ledger's quantities are numbers.
LEMMA HeldIsNat ==
    ASSUME TypeOK, OneHolder
    PROVE  /\ IsFiniteSet(TakenRows) /\ TakenRows \subseteq Row
           /\ \A s \in TakenRows : qty[s] \in Nat
           /\ \A r \in Req : IsFiniteSet(LiveUnits(r)) /\ heldQty[r] \in Nat
<1>1. IsFiniteSet(TakenRows) /\ TakenRows \subseteq Row
  BY FiniteAssumption, FS_Subset DEF TakenRows, RowsIn
<1>2. \A s \in TakenRows : qty[s] \in Nat
  BY <1>1 DEF TypeOK, StockTypeOK
<1>3. ASSUME NEW r \in Req PROVE IsFiniteSet(LiveUnits(r)) /\ heldQty[r] \in Nat
  <2>1. IsFiniteSet(LiveUnits(r)) /\ \A s \in LiveUnits(r) : qty[s] \in Nat
    BY <1>1, <1>2, FS_Subset DEF OneHolder
  <2>2. SumFunctionOnSet(qty, LiveUnits(r)) \in Nat
    BY <2>1, SumNat
  <2> QED BY <2>1, <2>2 DEF heldQty
<1> QED BY <1>1, <1>2, <1>3

\* A task that ends changes what is held for its own request only.
LEMMA OthersHold ==
    ASSUME TypeOK, NEW t \in Task, NEW r \in Req, UNCHANGED <<owner, line>>,
           owner[t] = r, \A u \in Task \ {t} : task'[u] = task[u]
    PROVE  \A q \in Req \ {r} : LiveUnits(q)' = LiveUnits(q)
<1> SUFFICES ASSUME NEW q \in Req \ {r} PROVE LiveUnits(q)' = LiveUnits(q)
  OBVIOUS
<1>1. \A u \in Task, s \in Row : owner[u] = q => (Holds(u, s)' <=> Holds(u, s))
  BY DEF Holds, UnitsOf, LinesOf
<1> QED BY <1>1 DEF LiveUnits, TasksOf

\* Cancelling a task gives back everything its request holds.
LEMMA GiveBackStep ==
    ASSUME TypeOK, StockInv, RequestInv, OneHolder, OneHolder', FreeIsRest, FreeIsRest',
           NEW t \in Task, CancelTask(t), UNCHANGED <<qty, owner, line, ship>>
    PROVE  \E r \in Req : Ledger!GiveBack(r)
<1>1. PICK r \in Req : owner[t] = r
  BY DEF CancelTask, TaskGoes, RequestInv, LiveTaskKept
<1>2. /\ task[t] \in CancellableStatuses /\ task'[t] = "CANCELLED"
      /\ \A u \in Task \ {t} : task'[u] = task[u]
      /\ stat' = Release(stat, UnitsOf(t))
  BY DEF CancelTask, TaskGoes, TypeOK
<1>3. LiveUnits(r) = UnitsOf(t)
  BY <1>1, <1>2 DEF OneHolder
<1>4. LiveUnits(r)' = {}
  <2>1. \A u \in Task : owner[u] = r => task'[u] \notin CancellableStatuses
    BY <1>1, <1>2 DEF RequestInv, OneTaskEach, CancellableStatuses, HoldStatuses
  <2> QED BY <2>1 DEF OneHolder
<1>5. \A q \in Req \ {r} : LiveUnits(q)' = LiveUnits(q)
  BY <1>1, <1>2, OthersHold
<1> DEFINE D == LiveUnits(r)
           T == TakenRows
<1>6. TakenRows' = T \ D /\ D \in SUBSET T
  <2>1. D \in SUBSET T
    BY DEF OneHolder
  <2>2. \A s \in UnitsOf(t) : stat[s] \in {"RESERVED", "PICKED"}
    BY <1>2 DEF StockInv, HeldUnitsCommitted, Holds, UnitsOf, LinesOf, Unit
  <2>3. \A s \in Row : s \in TakenRows' <=> s \in T /\ s \notin UnitsOf(t)
    BY <1>2, <2>2 DEF TakenRows, RowsIn, Release, OutboundStatuses, AfterIssueStatuses
  <2> QED BY <1>3, <2>1, <2>3 DEF TakenRows, RowsIn
<1>7. takenQty = heldQty[r] + takenQty'
  <2>1. takenQty = SumFunctionOnSet(qty, T) /\ takenQty' = SumFunctionOnSet(qty, T \ D)
    BY <1>6 DEF takenQty
  <2>2. IsFiniteSet(T) /\ \A s \in T : qty[s] \in Int
    BY HeldIsNat
  <2>3. heldQty[r] = SumFunctionOnSet(qty, D)
    BY DEF heldQty
  <2> HIDE DEF T, D
  <2> QED BY <1>6, <2>1, <2>2, <2>3, SumSplit
<1>8. freeQty' = freeQty + heldQty[r]
  <2>1. heldQty[r] \in Nat
    BY HeldIsNat
  <2>2. freeQty' = SumFunction(InitialQty) - takenQty' /\ takenQty' \in Nat
    BY DEF FreeIsRest
  <2>3. freeQty = SumFunction(InitialQty) - takenQty /\ SumFunction(InitialQty) \in Nat
    BY DEF FreeIsRest
  <2> QED BY <1>7, <2>1, <2>2, <2>3
<1>9. heldQty' = [heldQty EXCEPT ![r] = 0]
  <2>1. SumFunctionOnSet(qty', LiveUnits(r)') = 0
    BY <1>4, SumEmpty
  <2> QED BY <1>5, <2>1 DEF heldQty
<1>10. goneQty' = goneQty /\ doneReq' = doneReq
  <2>1. goneQty' = goneQty
    BY DEF goneQty, DispatchedQty, TasksOf
  <2> QED BY <2>1 DEF doneReq, TasksOf
<1> QED BY <1>8, <1>9, <1>10 DEF Ledger!GiveBack

\* Without old data every reserved row is a live task's: there is no pool.
LEMMA NoPool ==
    ASSUME Unified = TRUE, Stranded = {}, NoOrphanReservation, NEW r \in Req
    PROVE  ApprovalPool(r) = {}
BY DEF NoOrphanReservation, ApprovalPool, RowsIn, OutboundStatuses

\* The rows of an allocation, when there is no pool: D is what it takes.
LEMMA AllocateTakes ==
    ASSUME TypeOK, Unified = TRUE, Stranded = {}, NoOrphanReservation,
           NEW r \in Req, NEW t \in Task, Allocate(r, t)
    PROVE  LET D == {s \in Row : line'[t][s].want > 0}
           IN  /\ UnitsOf(t)' = D
               /\ \A s \in D : s \notin TakenRows /\ line'[t][s].want = qty'[s]
               /\ TakenRows' = TakenRows \union D
               /\ \A s \in TakenRows : qty'[s] = qty[s]
               /\ \A u \in Task \ {t} : line'[u] = line[u]
<1>1. PICK lines \in [Unit -> LineRecord] :
        /\ line' = [line EXCEPT ![t] = lines]
        /\ \A s \in Row :
             \/ /\ lines[s].want > 0
                /\ stat[s] = "AVAILABLE" \/ s \in ApprovalPool(r)
                /\ stat'[s] = "RESERVED"
                /\ lines[s].want = qty'[s]
             \/ /\ lines[s].want = 0
                /\ \/ stat'[s] = stat[s] /\ (stat[s] = "ABSENT" \/ qty'[s] = qty[s])
                   \/ stat[s] = "ABSENT" /\ stat'[s] = "AVAILABLE"
                   \/ s \in ApprovalPool(r) /\ stat'[s] = "AVAILABLE"
  BY AllocateRows
<1>2. /\ line'[t] = lines
      /\ \A u \in Task \ {t} : line'[u] = line[u]
  BY <1>1 DEF TypeOK
<1> DEFINE D == {s \in Row : line'[t][s].want > 0}
<1>3. \A s \in Row :
        \/ /\ s \in D /\ stat[s] = "AVAILABLE" /\ stat'[s] = "RESERVED"
           /\ line'[t][s].want = qty'[s]
        \/ /\ s \notin D
           /\ \/ stat'[s] = stat[s] /\ (stat[s] = "ABSENT" \/ qty'[s] = qty[s])
              \/ stat[s] = "ABSENT" /\ stat'[s] = "AVAILABLE"
  BY <1>1, <1>2, NoPool
<1>4. UnitsOf(t)' = D
  BY OutboundAssumption DEF UnitsOf, LinesOf, Unit
<1>5. \A s \in Row : s \in TakenRows <=> stat[s] \in OutboundStatuses \union AfterIssueStatuses
  BY DEF TakenRows, RowsIn
<1>6. \A s \in Row : s \in TakenRows' <=> stat'[s] \in OutboundStatuses \union AfterIssueStatuses
  BY DEF TakenRows, RowsIn
<1>7. TakenRows \subseteq Row /\ TakenRows' \subseteq Row /\ D \subseteq Row
  BY DEF TakenRows, RowsIn
<1> HIDE DEF D
<1>8. \A s \in Row : /\ s \in TakenRows' <=> s \in TakenRows \/ s \in D
                     /\ s \in D => s \notin TakenRows /\ line'[t][s].want = qty'[s]
                     /\ s \in TakenRows => qty'[s] = qty[s]
  BY <1>3, <1>5, <1>6 DEF OutboundStatuses, AfterIssueStatuses
<1>9. TakenRows' = TakenRows \union D
  BY <1>7, <1>8
<1> QED BY <1>2, <1>4, <1>7, <1>8, <1>9 DEF D

\* An allocation dispatches nothing, and its request had nothing dispatched.
LEMMA AllocateDispatches ==
    ASSUME TypeOK, StockInv, RequestInv, Repair = {}, repair = NoRepair, Next,
           NEW r \in Req, NEW t \in Task, Allocate(r, t)
    PROVE  r \notin doneReq /\ goneQty' = goneQty /\ doneReq' = doneReq
<1>1. ship' = ship /\ task[t] = "NONE" /\ owner' = [owner EXCEPT ![t] = r]
  BY DEF Allocate, TaskGoes
<1>2. Indoors
  <2>1. \A u \in Task : ~Outdoors(u)
    BY <1>1 DEF Outdoors, GoodsIssue
  <2> QED BY <2>1, InOrOut
<1>3. ship[t] # "shipped"
  BY <1>1 DEF RequestInv, ShippedIsIssued, IssuedTaskStatuses
<1>4. r \notin doneReq
  BY DEF doneReq, Allocate, UncancelledTasks, TasksOf, RequestInv, ShippedIsIssued,
         IssuedTaskStatuses
<1>5. goneQty' = goneQty
  BY <1>2, IndoorsDispatched DEF goneQty
<1>6. doneReq' = doneReq
  <2>1. \A u \in Task : ship[u] = "shipped" => owner'[u] = owner[u]
    BY <1>2 DEF Indoors
  <2> QED BY <1>1, <2>1 DEF doneReq, TasksOf
<1> QED BY <1>4, <1>5, <1>6

\* An allocation takes, for a request that holds nothing, what its lines ask.
LEMMA TakeStep ==
    ASSUME IInv, IInv', OneHolder, OneHolder', FreeIsRest, FreeIsRest',
           Repair = {}, Unified = TRUE, Stranded = {}, NoOrphanReservation, Next,
           NEW r \in Req, NEW t \in Task, Allocate(r, t)
    PROVE  \/ \E n \in 1..Want[r] : n <= freeQty /\ Ledger!Take(r, n)
           \/ UNCHANGED Ledger!vars
<1>0. /\ TypeOK /\ StockInv /\ RequestInv /\ repair = NoRepair
      /\ TypeOK' /\ StockInv' /\ RequestInv'
  BY DEF IInv
<1>1. PICK D : /\ D = {s \in Row : line'[t][s].want > 0}
               /\ UnitsOf(t)' = D
               /\ \A s \in D : s \notin TakenRows /\ line'[t][s].want = qty'[s]
               /\ TakenRows' = TakenRows \union D
               /\ \A s \in TakenRows : qty'[s] = qty[s]
               /\ \A u \in Task \ {t} : line'[u] = line[u]
  BY <1>0, AllocateTakes
<1>2. /\ task[t] = "NONE" /\ task'[t] = "ALLOCATED" /\ owner'[t] = r
      /\ \A u \in Task \ {t} : task'[u] = task[u] /\ owner'[u] = owner[u]
      /\ \A u \in Task : owner[u] = r => task[u] = "CANCELLED"
  BY <1>0 DEF Allocate, TaskGoes, TypeOK, UncancelledTasks, TasksOf
<1>3. LiveUnits(r)' = D
  BY <1>1, <1>2 DEF OneHolder, CancellableStatuses
<1>4. LiveUnits(r) = {}
  BY <1>2 DEF OneHolder, CancellableStatuses, HoldStatuses
<1>5. \A q \in Req \ {r} : LiveUnits(q)' = LiveUnits(q)
  <2> SUFFICES ASSUME NEW q \in Req \ {r} PROVE LiveUnits(q)' = LiveUnits(q)
    OBVIOUS
  <2>1. \A u \in Task, s \in Row :
          u # t => (Holds(u, s)' <=> Holds(u, s)) /\ owner'[u] = owner[u]
    BY <1>1, <1>2 DEF Holds, UnitsOf, LinesOf
  <2>2. \A s \in Row : ~Holds(t, s)
    BY <1>2 DEF Holds, CancellableStatuses, HoldStatuses
  <2>3. owner'[t] # q
    BY <1>2
  <2> QED BY <2>1, <2>2, <2>3 DEF LiveUnits, TasksOf
<1>6. /\ IsFiniteSet(TakenRows) /\ IsFiniteSet(D) /\ D \subseteq Row
      /\ \A s \in TakenRows : qty[s] \in Int /\ qty'[s] \in Int
      /\ \A s \in D : qty'[s] \in Nat
  <2>1. TakenRows \subseteq Row /\ D \subseteq Row
    BY <1>1 DEF TakenRows, RowsIn
  <2> QED BY <2>1, <1>0, FiniteAssumption, FS_Subset DEF TypeOK, StockTypeOK
<1>7. PICK n : n = SumFunctionOnSet(qty', D)
  OBVIOUS
<1>8. n \in Nat
  BY <1>6, <1>7, SumNat
<1>9. heldQty[r] = 0 /\ heldQty' = [heldQty EXCEPT ![r] = n]
  <2>1. SumFunctionOnSet(qty, LiveUnits(r)) = 0
    BY <1>4, SumEmpty
  <2>2. SumFunctionOnSet(qty', LiveUnits(r)') = n
    BY <1>3, <1>7
  <2>3. ASSUME NEW q \in Req \ {r}
        PROVE  SumFunctionOnSet(qty', LiveUnits(q)') = SumFunctionOnSet(qty, LiveUnits(q))
    <3> DEFINE L == LiveUnits(q)
    <3>1. L \subseteq TakenRows
      BY DEF OneHolder
    <3>2. IsFiniteSet(L) /\ \A s \in L : qty[s] \in Int /\ qty'[s] = qty[s]
      BY <3>1, <1>1, <1>6, FS_Subset
    <3>3. LiveUnits(q)' = L
      BY <1>5
    <3> HIDE DEF L
    <3>4. SumFunctionOnSet(qty', L) = SumFunctionOnSet(qty, L)
      BY <3>2, SumCongruent
    <3> QED BY <3>3, <3>4 DEF L
  <2> QED BY <2>1, <2>2, <2>3 DEF heldQty
<1>10. freeQty' = freeQty - n /\ n <= freeQty
  <2>1. SumFunctionOnSet(qty', TakenRows \union D)
          = SumFunctionOnSet(qty', TakenRows) + SumFunctionOnSet(qty', D)
    BY <1>1, <1>6, SumUnion
  <2>2. SumFunctionOnSet(qty', TakenRows) = SumFunctionOnSet(qty, TakenRows)
    BY <1>1, <1>6, SumCongruent
  <2>3. takenQty' = takenQty + n
    BY <2>1, <2>2, <1>1, <1>7 DEF takenQty
  <2>4. /\ freeQty = SumFunction(InitialQty) - takenQty /\ SumFunction(InitialQty) \in Nat
        /\ takenQty \in Nat
    BY DEF FreeIsRest
  <2>5. freeQty' = SumFunction(InitialQty) - takenQty' /\ freeQty' \in Nat
    BY DEF FreeIsRest
  <2> QED BY <1>8, <2>3, <2>4, <2>5
<1>11. n <= Want[r]
  <2> DEFINE want == [s \in Row |-> line'[t][s].want]
  <2>1. SumFunctionOnSet(want, Row) <= Want[r]
    BY <1>0, AllocateWants
  <2>2. /\ \A s \in Row : want[s] \in Int
        /\ \A s \in Row \ D : want[s] = 0
        /\ \A s \in D : qty'[s] = want[s]
    <3>1. \A s \in Row : line'[t][s].want \in Nat
      BY <1>0 DEF TypeOK, LineRecord, Unit
    <3> QED BY <3>1, <1>1
  <2> HIDE DEF want
  <2>3. SumFunctionOnSet(want, Row) = SumFunctionOnSet(want, D)
    BY <2>2, <1>6, FiniteAssumption, SumPart
  <2>4. SumFunctionOnSet(qty', D) = SumFunctionOnSet(want, D)
    BY <2>2, <1>6, SumCongruent
  <2> QED BY <2>1, <2>3, <2>4, <1>7
<1>12. r \notin doneReq /\ goneQty' = goneQty /\ doneReq' = doneReq
  BY <1>0, AllocateDispatches
<1>13. CASE n = 0
  <2>1. heldQty' = heldQty
    BY <1>9, <1>13 DEF heldQty
  <2>2. freeQty' = freeQty
    BY <1>10, <1>13 DEF FreeIsRest
  <2> QED BY <2>1, <2>2, <1>12 DEF Ledger!vars
<1>14. CASE n # 0
  <2>1. n \in 1..Want[r]
    BY <1>8, <1>11, <1>14, OutboundAssumption
  <2> QED BY <2>1, <1>9, <1>10, <1>12 DEF Ledger!Take
<1> QED BY <1>13, <1>14

\* The rows of a goods issue, by what is taken before and after it.
LEMMA OutdoorsTakes ==
    ASSUME TypeOK, StockInv, NEW t \in Task, Outdoors(t)
    PROVE  /\ OutRows(t) \subseteq UnitsOf(t) /\ UnitsOf(t) \subseteq TakenRows
           /\ TakenRows' = (TakenRows \ UnitsOf(t)) \union OutRows(t)
           /\ \A s \in TakenRows \ UnitsOf(t) : qty'[s] = qty[s]
           /\ \A s \in OutRows(t) : qty'[s] = line[t][s].got /\ qty'[s] <= qty[s]
<1>1. /\ UnitsOf(t) \subseteq Row /\ OutRows(t) \subseteq UnitsOf(t)
      /\ TakenRows \subseteq Row /\ TakenRows' \subseteq Row
  BY DEF UnitsOf, LinesOf, Unit, OutRows, TakenRows, RowsIn
<1>2. \A s \in Row : s \in TakenRows <=> stat[s] \in OutboundStatuses \union AfterIssueStatuses
  BY DEF TakenRows, RowsIn
<1>3. \A s \in Row : s \in TakenRows' <=> stat'[s] \in OutboundStatuses \union AfterIssueStatuses
  BY DEF TakenRows, RowsIn
<1> DEFINE U == UnitsOf(t)
           O == OutRows(t)
<1>4. \A s \in Row :
        /\ s \in O => s \in U /\ stat'[s] = "SHIPPED" /\ qty'[s] = line[t][s].got
        /\ s \in U => stat[s] \in {"PICKED", "RESERVED"} /\ line[t][s].got <= qty[s]
        /\ s \in U \ O => stat'[s] = "AVAILABLE"
        /\ s \notin U => /\ stat'[s] \in {stat[s], "AVAILABLE"}
                         /\ stat[s] # "ABSENT" => stat'[s] = stat[s] /\ qty'[s] = qty[s]
  BY OutdoorsRows
<1> HIDE DEF U, O
<1>5. \A s \in Row :
        /\ s \in U => s \in TakenRows
        /\ s \in TakenRows' <=> (s \in TakenRows /\ s \notin U) \/ s \in O
        /\ s \in TakenRows /\ s \notin U => qty'[s] = qty[s]
        /\ s \in O => qty'[s] = line[t][s].got /\ qty'[s] <= qty[s]
  BY <1>2, <1>3, <1>4 DEF OutboundStatuses, AfterIssueStatuses
<1>6. U \subseteq TakenRows /\ TakenRows' = (TakenRows \ U) \union O
  BY <1>1, <1>5 DEF U, O
<1> QED BY <1>1, <1>5, <1>6 DEF U, O

\* A goods issue issues, of what its request holds, what was picked, and frees
\* the rest, once for each request.
LEMMA IssueStep ==
    ASSUME IInv, IInv', OneHolder, OneHolder', FreeIsRest, FreeIsRest',
           NothingWithoutUnit, PickedIsWanted,
           NEW t \in Task, Outdoors(t)
    PROVE  \E r \in Req : \E n \in 0..heldQty[r] : Ledger!Issue(r, n)
<1>0. TypeOK /\ StockInv /\ RequestInv /\ TypeOK' /\ StockInv' /\ RequestInv'
  BY DEF IInv
<1>1. PICK r \in Req : r = owner[t]
  BY <1>0, OutdoorsDispatched
<1>2. /\ task[t] = "READY_TO_SHIP" /\ ship[t] # "shipped" /\ ship'[t] = "shipped"
      /\ owner' = owner /\ line' = line
      /\ \A u \in Task \ {t} : task'[u] = task[u] /\ ship'[u] = ship[u]
  BY DEF Outdoors, GoodsIssue
<1>3. task'[t] \in IssuedTaskStatuses
  BY <1>0, <1>2 DEF RequestInv, ShippedIsIssued
<1> DEFINE U == UnitsOf(t)
           O == OutRows(t)
           T == TakenRows
<1>4. LiveUnits(r) = U
  BY <1>1, <1>2 DEF OneHolder, CancellableStatuses
<1>5. LiveUnits(r)' = {}
  <2>1. \A u \in Task : owner'[u] = r => task'[u] \notin CancellableStatuses
    BY <1>0, <1>1, <1>2, <1>3
    DEF RequestInv, OneTaskEach, CancellableStatuses, HoldStatuses, IssuedTaskStatuses
  <2> QED BY <2>1 DEF OneHolder
<1>6. \A q \in Req \ {r} : LiveUnits(q)' = LiveUnits(q)
  BY <1>0, <1>1, <1>2, OthersHold
<1>7. /\ O \subseteq U /\ U \subseteq T /\ T' = (T \ U) \union O
      /\ \A s \in T \ U : qty'[s] = qty[s]
      /\ \A s \in O : qty'[s] = line[t][s].got /\ qty'[s] <= qty[s]
  BY <1>0, OutdoorsTakes
<1>8. /\ IsFiniteSet(T) /\ IsFiniteSet(U) /\ IsFiniteSet(O) /\ IsFiniteSet(T \ U)
      /\ \A s \in T : qty[s] \in Nat /\ qty'[s] \in Nat
  <2>1. T \subseteq Row /\ U \subseteq Row /\ O \subseteq Row /\ T \ U \subseteq Row
    BY <1>7 DEF TakenRows, RowsIn
  <2>2. \A s \in Row : qty[s] \in Nat /\ qty'[s] \in Nat
    BY <1>0 DEF TypeOK, StockTypeOK
  <2> QED BY <2>1, <2>2, FiniteAssumption, FS_Subset
<1>9. PICK n : n = SumFunctionOnSet(qty', O)
  OBVIOUS
<1>10. GotQty(t) = n
  <2> DEFINE keep == [s \in OutRows(t) |-> line[t][s].got]
  <2>1. GotQty(t) = SumFunction(keep)
    BY <1>0, GotIsOut
  <2>2. DOMAIN keep = O /\ \A s \in O : keep[s] = qty'[s] /\ qty'[s] \in Int
    BY <1>7, <1>8
  <2> HIDE DEF keep, O
  <2>3. SumFunctionOnSet(keep, O) = SumFunctionOnSet(qty', O)
    BY <2>2, <1>8, SumCongruent
  <2> QED BY <2>1, <2>2, <2>3, <1>9 DEF SumFunction
<1>11. heldQty[r] = SumFunctionOnSet(qty, U)
  BY <1>4 DEF heldQty
<1>12. n \in Nat /\ n <= heldQty[r] /\ heldQty[r] \in Nat
  <2>1. \A s \in U : qty[s] \in Nat /\ qty[s] \in Int /\ qty'[s] \in Nat
    BY <1>7, <1>8
  <2>2. \A s \in O : qty[s] \in Int /\ qty'[s] \in Nat /\ qty'[s] \in Int /\ qty'[s] <= qty[s]
    BY <2>1, <1>7
  <2> HIDE DEF U, O
  <2>3. n \in Nat
    BY <2>2, <1>8, <1>9, SumNat
  <2>4. /\ SumFunctionOnSet(qty, U) = SumFunctionOnSet(qty, O) + SumFunctionOnSet(qty, U \ O)
        /\ SumFunctionOnSet(qty, O) \in Int
    <3>1. O \in SUBSET U
      BY <1>7
    <3> QED BY <3>1, <2>1, <1>8, SumSplit
  <2>5. n <= SumFunctionOnSet(qty, O)
    BY <2>2, <1>8, <1>9, SumMonotone
  <2>6. SumFunctionOnSet(qty, U \ O) \in Nat
    <3>1. IsFiniteSet(U \ O) /\ \A s \in U \ O : qty[s] \in Nat
      BY <2>1, <1>8, FS_Subset
    <3> QED BY <3>1, SumNat
  <2>7. SumFunctionOnSet(qty, U) \in Nat
    BY <2>1, <1>8, SumNat
  <2> QED BY <2>3, <2>4, <2>5, <2>6, <2>7, <1>11
<1>13. freeQty' = freeQty + heldQty[r] - n
  <2>0. \A s \in T : qty[s] \in Int
    BY <1>8
  <2>1. takenQty = SumFunctionOnSet(qty, T)
    BY DEF takenQty
  <2>2. takenQty' = SumFunctionOnSet(qty', (T \ U) \union O)
    BY <1>7 DEF takenQty
  <2>3. /\ (T \ U) \intersect O = {} /\ U \in SUBSET T
        /\ \A s \in (T \ U) \union O : qty'[s] \in Int
        /\ \A s \in T \ U : qty[s] \in Int /\ qty'[s] = qty[s]
    BY <1>7, <1>8
  <2> HIDE DEF T, U, O
  <2>4. SumFunctionOnSet(qty, T) = SumFunctionOnSet(qty, U) + SumFunctionOnSet(qty, T \ U)
    BY <2>0, <2>3, <1>8, SumSplit
  <2>5. SumFunctionOnSet(qty', (T \ U) \union O)
          = SumFunctionOnSet(qty', T \ U) + SumFunctionOnSet(qty', O)
    BY <2>3, <1>8, SumUnion
  <2>6. SumFunctionOnSet(qty', T \ U) = SumFunctionOnSet(qty, T \ U)
    BY <2>3, <1>8, SumCongruent
  <2>7. SumFunctionOnSet(qty, T \ U) \in Int
    BY <2>3, <1>8, SumInt
  <2>8. takenQty' = takenQty - heldQty[r] + n
    BY <2>1, <2>2, <2>4, <2>5, <2>6, <2>7, <1>9, <1>11, <1>12
  <2>9. freeQty = SumFunction(InitialQty) - takenQty /\ SumFunction(InitialQty) \in Nat
        /\ takenQty \in Nat
    BY DEF FreeIsRest
  <2>10. freeQty' = SumFunction(InitialQty) - takenQty'
    BY DEF FreeIsRest
  <2> QED BY <2>8, <2>9, <2>10, <1>12
<1>14. heldQty' = [heldQty EXCEPT ![r] = 0]
  <2>1. SumFunctionOnSet(qty', LiveUnits(r)') = 0
    BY <1>5, SumEmpty
  <2>2. ASSUME NEW q \in Req \ {r}
        PROVE  SumFunctionOnSet(qty', LiveUnits(q)') = SumFunctionOnSet(qty, LiveUnits(q))
    <3> DEFINE L == LiveUnits(q)
    <3>1. \A u \in Task : owner[u] = q => u # t
      BY <1>1
    <3>2. L \subseteq T \ U
      <4>1. L \subseteq T
        BY DEF OneHolder
      <4>2. \A s \in L : s \notin U
        <5> SUFFICES ASSUME NEW s \in L, s \in U PROVE FALSE
          OBVIOUS
        <5>1. PICK u \in Task : owner[u] = q /\ Holds(u, s) /\ s \in Row
          BY DEF LiveUnits, TasksOf
        <5>2. Holds(t, s)
          BY <1>2 DEF Holds, CancellableStatuses
        <5> QED BY <5>1, <5>2, <3>1, <1>0 DEF StockInv, OneTaskHolds
      <4> QED BY <4>1, <4>2
    <3>3. IsFiniteSet(L) /\ \A s \in L : qty[s] \in Int /\ qty'[s] = qty[s]
      BY <3>2, <1>7, <1>8, FS_Subset
    <3>4. LiveUnits(q)' = L
      BY <1>6
    <3> HIDE DEF L
    <3>5. SumFunctionOnSet(qty', L) = SumFunctionOnSet(qty, L)
      BY <3>3, SumCongruent
    <3> QED BY <3>4, <3>5 DEF L
  <2> QED BY <2>1, <2>2 DEF heldQty
<1>15. goneQty' = [goneQty EXCEPT ![r] = n]
  <2>1. DispatchedQty(r)' = n
    BY <1>0, <1>1, <1>10, OutdoorsDispatched
  <2>2. \A q \in Req : q # r => DispatchedQty(q)' = DispatchedQty(q)
    BY <1>0, <1>1, OutdoorsDispatched
  <2> QED BY <2>1, <2>2 DEF goneQty
<1>16. r \notin doneReq /\ doneReq' = doneReq \union {r}
  <2>1. \A u \in Task : owner[u] = r => ship[u] # "shipped"
    BY <1>0, <1>1, OutdoorsDispatched
  <2> QED BY <2>1, <1>1, <1>2 DEF doneReq, TasksOf
<1>17. n \in 0..heldQty[r]
  BY <1>12
<1> QED BY <1>13, <1>14, <1>15, <1>16, <1>17 DEF Ledger!Issue

\* Without stranded requests nothing is linked at the start.
LEMMA NoLinksInit == ASSUME Stranded = {} PROVE Init => NoLinks
<1> SUFFICES ASSUME Init, NEW r \in Req PROVE link[r] = NoUnit
  BY DEF NoLinks
<1>1. PICK P \in SUBSET Stranded, H \in SUBSET Stranded :
        \E held \in Injection(H, {x \in Row : InitialQty[x] > 0}) :
          /\ link = [q \in Req |-> IF q \in H THEN held[q] ELSE NoUnit]
          /\ stat = [x \in Row |-> IF InitialQty[x] = 0 THEN "ABSENT"
                                   ELSE IF x \in Range(held) THEN "RESERVED"
                                   ELSE "AVAILABLE"]
          /\ req = [q \in Req |-> IF q \in P THEN "PICKING" ELSE "DRAFT"]
  BY ZenonT(60) DEF Init
<1>2. PICK held : link = [q \in Req |-> IF q \in H THEN held[q] ELSE NoUnit]
  BY <1>1
<1>3. r \notin H
  OBVIOUS
<1> QED BY <1>2, <1>3

\* Only a legacy approval and a repair write the link of a request.
LEMMA LinksStay ==
    ASSUME Unified = TRUE, IInv, [Next]_vars PROVE link' = link
<1>1. CASE RequestNext
  BY <1>1 DEF RequestNext, Submit, Defer, Reject, ApproveOnly, ApproveAndReserve, Cancel,
              RecoverStalled, Allocate
<1>2. CASE TaskNext
  BY <1>2 DEF TaskNext, Pick, PickRemaining, Advance, StartPacking, CompletePacking,
              CreateShipment, Dispatch, ConfirmDelivery, IssueToRma, ReleaseAndCancel,
              SetException, requestVars
<1>3. CASE InventoryNext
  BY <1>3 DEF InventoryNext, RepairReads, BeginRepair, ReadLinks, CheckTask, SetStatus, WriteRepair, IInv, NoRepair, requestVars
<1>4. CASE UNCHANGED vars
  BY <1>4 DEF vars
<1> QED BY <1>1, <1>2, <1>3, <1>4 DEF Next

\* At the start everything is free.
LEMMA LedgerStarts ==
    ASSUME Stranded = {} PROVE Init => Ledger!Init
<1> SUFFICES ASSUME Init PROVE Ledger!Init
  OBVIOUS
<1>1. IInv /\ Conserved /\ NoLinks
  BY InvInit, ConservedInit, NoLinksInit
<1>2. TypeOK /\ StockInv /\ RequestInv
  BY <1>1 DEF IInv
<1>3. \A t \in Task : task[t] = "NONE" /\ ship[t] # "shipped"
  BY DEF Init
<1>4. NoOrphanReservation
  BY OrphansInit
<1>5. FreeIsRest /\ OneHolder /\ OneDispatch
  BY <1>1, <1>2, FreeHolds, OneHolderHolds, DispatchedIsGot
<1>6. freeQty = SumFunction(InitialQty)
  <2>1. \A s \in Row : stat[s] \notin OutboundStatuses \union AfterIssueStatuses
    <3>1. PICK held : stat = [s \in Row |-> IF InitialQty[s] = 0 THEN "ABSENT"
                                            ELSE IF s \in Range(held) THEN "RESERVED"
                                            ELSE "AVAILABLE"]
      BY DEF Init
    <3>2. \A s \in Row : stat[s] \in {"ABSENT", "RESERVED", "AVAILABLE"}
      BY <3>1
    <3>3. \A s \in Row : stat[s] # "RESERVED"
      BY <1>3, <1>4, OrphansInit
      DEF NoOrphanReservation, RowsIn, Holds, CancellableStatuses, HoldStatuses, Init, Injection, Range
    <3> QED BY <3>2, <3>3 DEF OutboundStatuses, AfterIssueStatuses
  <2>2. TakenRows = {}
    BY <2>1 DEF TakenRows, RowsIn
  <2>3. takenQty = 0
    BY <2>2, SumEmpty DEF takenQty
  <2> QED BY <2>3, <1>5 DEF FreeIsRest
<1>7. heldQty = [r \in Req |-> 0]
  <2>1. \A r \in Req : LiveUnits(r) = {}
    BY <1>3, <1>5 DEF OneHolder, CancellableStatuses, HoldStatuses
  <2>2. \A r \in Req : SumFunctionOnSet(qty, LiveUnits(r)) = 0
    BY <2>1, SumEmpty
  <2> QED BY <2>2 DEF heldQty
<1>8. goneQty = [r \in Req |-> 0]
  BY <1>3, <1>5 DEF OneDispatch, goneQty
<1>9. doneReq = {}
  BY <1>3 DEF doneReq, TasksOf
<1> QED BY <1>6, <1>7, <1>8, <1>9 DEF Ledger!Init

\* Every step is a step of the ledger or leaves it alone.
LEMMA LedgerSteps ==
    ASSUME Repair = {}, Unified = TRUE, Stranded = {},
           IInv, Conserved, LedgerInv, NoLinks, NoOrphanReservation,
           IInv', Conserved', [Next]_vars
    PROVE  [Ledger!Next]_(Ledger!vars)
<1>0. /\ TypeOK /\ StockInv /\ RequestInv /\ TypeOK' /\ StockInv' /\ RequestInv'
      /\ NothingWithoutUnit /\ PickedIsWanted
  BY DEF IInv, LedgerInv
<1>1. FreeIsRest /\ FreeIsRest' /\ OneHolder /\ OneHolder'
  BY <1>0, FreeHolds, FreeNext, OneHolderHolds, OneHolderNext
<1>2. CASE Next
  <2>1. CASE Quiet
    BY <2>1, <1>0, <1>1, QuietStep
  <2>2. ASSUME NEW r \in Req, NEW t \in Task, Allocate(r, t)
        PROVE  Ledger!Next \/ UNCHANGED Ledger!vars
    <3>1. \/ \E n \in 1..Want[r] : n <= freeQty /\ Ledger!Take(r, n)
          \/ UNCHANGED Ledger!vars
      BY <2>2, <1>1, <1>2, TakeStep
    <3> QED BY <3>1 DEF Ledger!Next
  <2>3. ASSUME NEW t \in Task, CancelTask(t), UNCHANGED <<qty, owner, line, ship>>
        PROVE  Ledger!Next
    <3>1. \E r \in Req : Ledger!GiveBack(r)
      BY <2>3, <1>0, <1>1, GiveBackStep
    <3> QED BY <3>1 DEF Ledger!Next
  <2>4. ASSUME NEW t \in Task, Outdoors(t) PROVE Ledger!Next
    <3>1. \E r \in Req : \E n \in 0..heldQty[r] : Ledger!Issue(r, n)
      BY <2>4, <1>0, <1>1, IssueStep
    <3> QED BY <3>1 DEF Ledger!Next
  <2> QED BY <2>1, <2>2, <2>3, <2>4, <1>2, StepKinds
<1>3. CASE UNCHANGED vars
  <2>1. UNCHANGED <<stat, qty, req, link, issued, task, owner, line, ship, repair>>
    BY <1>3 DEF vars
  <2>2. freeQty' = freeQty
    BY <2>1 DEF freeQty, RowsIn
  <2>3. heldQty' = heldQty
    BY <2>1 DEF heldQty, LiveUnits, TasksOf, Holds, UnitsOf, LinesOf
  <2>4. goneQty' = goneQty /\ doneReq' = doneReq
    BY <2>1 DEF goneQty, DispatchedQty, TasksOf, doneReq
  <2> QED BY <2>2, <2>3, <2>4 DEF Ledger!vars
<1> QED BY <1>2, <1>3

\* With unified reservation, no repairs and no stranded data, every behaviour of
\* the outbound flow is one of the ledger: goods are taken only when free and
\* never beyond the request's quantity, issued at most once and only out of what
\* the request holds, and all that is held is given back or issued at once.
THEOREM ImplementsLedgerAlways ==
    ASSUME Repair = {}, Unified = TRUE, Stranded = {} PROVE Spec => ImplementsLedger
<1>1. NoLinks /\ IInv /\ [Next]_vars => NoLinks'
  BY LinksStay DEF NoLinks
<1>2. Spec => []NoLinks
  BY <1>1, NoLinksInit, InvAlways, PTL DEF Spec
<1>3. /\ IInv /\ Conserved /\ LedgerInv /\ NoLinks /\ NoOrphanReservation
      /\ IInv' /\ Conserved' /\ [Next]_vars
      => [Ledger!Next]_(Ledger!vars)
  BY LedgerSteps
<1>4. Init => Ledger!Init
  BY LedgerStarts
<1> QED
  BY <1>2, <1>3, <1>4, InvAlways, ConservedAlways, LedgerAlways, NoOrphanReservationAlways, PTL
  DEF Spec, ImplementsLedger, Ledger!Spec

-----------------------------------------------------------------------------
(* What the ledger guarantees *)

\* What the ledger guarantees: every unit is free, held or issued, and what a
\* request holds and was issued never exceeds what it asked for; one that was
\* issued goods holds nothing.
LedgerBalances ==
    /\ freeQty + SumFunction(heldQty) + SumFunction(goneQty) = SumFunction(InitialQty)
    /\ \A r \in Req : heldQty[r] + goneQty[r] <= Want[r]
    /\ \A r \in doneReq : heldQty[r] = 0

\* The same with what a step needs to know to preserve it.
LedgerSound ==
    /\ freeQty \in Nat /\ heldQty \in [Req -> Nat] /\ goneQty \in [Req -> Nat]
    /\ \A r \in Req : r \notin doneReq => goneQty[r] = 0
    /\ LedgerBalances

\* It holds of the ledger at the start,
LEMMA SoundInit == SumFunction(InitialQty) \in Nat /\ Ledger!Init => LedgerSound
<1> SUFFICES ASSUME SumFunction(InitialQty) \in Nat, Ledger!Init PROVE LedgerSound
  OBVIOUS
<1>1. /\ freeQty = SumFunction(InitialQty) /\ doneReq = {}
      /\ heldQty = [r \in Req |-> 0] /\ goneQty = [r \in Req |-> 0]
  BY DEF Ledger!Init
<1>2. PICK zero : zero = [r \in Req |-> 0]
  OBVIOUS
<1>3. SumFunctionOnSet(zero, Req) = 0
  <2>1. \A r \in Req : zero[r] = 0
    BY <1>2
  <2> QED BY <2>1, FiniteAssumption, SumZero
<1>4. SumFunction(zero) = 0
  BY <1>2, <1>3 DEF SumFunction
<1>5. SumFunction(heldQty) = 0 /\ SumFunction(goneQty) = 0
  BY <1>1, <1>2, <1>4
<1> QED BY <1>1, <1>5, OutboundAssumption DEF LedgerSound, LedgerBalances

\* A sum over the requests in which the value of one changes.
LEMMA SumWrite ==
    ASSUME NEW f \in [Req -> Nat], NEW g \in [Req -> Nat], NEW r \in Req,
           \A q \in Req \ {r} : g[q] = f[q]
    PROVE  /\ SumFunction(g) = SumFunction(f) + g[r] - f[r]
           /\ SumFunction(f) \in Nat
<1>1. /\ DOMAIN f = Req /\ DOMAIN g = Req
      /\ \A q \in Req : f[q] \in Int /\ g[q] \in Int /\ f[q] \in Nat
  OBVIOUS
<1>2. SumFunctionOnSet(g, Req) = SumFunctionOnSet(f, Req) + g[r] - f[r]
  BY <1>1, FiniteAssumption, SumChanged
<1>3. SumFunctionOnSet(f, Req) \in Nat
  BY <1>1, FiniteAssumption, SumNat
<1> QED BY <1>1, <1>2, <1>3 DEF SumFunction

\* and every step of the ledger preserves it.
LEMMA SoundNext ==
    SumFunction(InitialQty) \in Nat /\ LedgerSound /\ [Ledger!Next]_(Ledger!vars) => LedgerSound'
<1> SUFFICES ASSUME SumFunction(InitialQty) \in Nat, LedgerSound, [Ledger!Next]_(Ledger!vars)
             PROVE  LedgerSound'
  OBVIOUS
<1>0. /\ freeQty \in Nat /\ heldQty \in [Req -> Nat] /\ goneQty \in [Req -> Nat]
      /\ \A q \in Req : q \notin doneReq => goneQty[q] = 0
      /\ freeQty + SumFunction(heldQty) + SumFunction(goneQty) = SumFunction(InitialQty)
      /\ \A q \in Req : heldQty[q] + goneQty[q] <= Want[q]
      /\ \A q \in doneReq : heldQty[q] = 0
      /\ Want \in [Req -> Nat]
  BY OutboundAssumption DEF LedgerSound, LedgerBalances
<1>1. ASSUME freeQty' \in Nat, heldQty' \in [Req -> Nat], goneQty' \in [Req -> Nat],
             \A q \in Req : q \notin doneReq' => goneQty'[q] = 0,
             freeQty' + SumFunction(heldQty') + SumFunction(goneQty') = SumFunction(InitialQty),
             \A q \in Req : heldQty'[q] + goneQty'[q] <= Want[q],
             \A q \in doneReq' : heldQty'[q] = 0
      PROVE  LedgerSound'
  BY <1>1 DEF LedgerSound, LedgerBalances
<1>2. ASSUME NEW r \in Req, NEW n \in 1..Want[r], n <= freeQty, Ledger!Take(r, n)
      PROVE  LedgerSound'
  <2>1. /\ freeQty' = freeQty - n /\ heldQty' = [heldQty EXCEPT ![r] = n]
        /\ goneQty' = goneQty /\ doneReq' = doneReq /\ r \notin doneReq /\ heldQty[r] = 0
    BY <1>2 DEF Ledger!Take
  <2>2. n \in Nat /\ n <= Want[r] /\ goneQty[r] = 0
    BY <1>0, <1>2, <2>1
  <2>3. /\ heldQty' \in [Req -> Nat] /\ heldQty'[r] = n
        /\ \A q \in Req \ {r} : heldQty'[q] = heldQty[q]
        /\ SumFunction(heldQty') = SumFunction(heldQty) + n
        /\ SumFunction(heldQty) \in Nat
    <3>1. /\ heldQty' \in [Req -> Nat] /\ heldQty'[r] = n
          /\ \A q \in Req \ {r} : heldQty'[q] = heldQty[q]
      BY <1>0, <2>1, <2>2
    <3>2. /\ SumFunction(heldQty') = SumFunction(heldQty) + heldQty'[r] - heldQty[r]
          /\ SumFunction(heldQty) \in Nat
      BY <1>0, <3>1, SumWrite
    <3> QED BY <1>0, <2>1, <2>2, <3>1, <3>2
  <2>4. SumFunction(goneQty) \in Nat
    BY <1>0, SumWrite, <2>2
  <2>5. freeQty' + SumFunction(heldQty') + SumFunction(goneQty') = SumFunction(InitialQty)
    BY <1>0, <2>1, <2>2, <2>3, <2>4
  <2>6. \A q \in Req : heldQty'[q] + goneQty'[q] <= Want[q]
    BY <1>0, <2>1, <2>2, <2>3
  <2> QED BY <1>0, <1>1, <1>2, <2>1, <2>2, <2>3, <2>5, <2>6
<1>3. ASSUME NEW r \in Req, Ledger!GiveBack(r) PROVE LedgerSound'
  <2>1. /\ freeQty' = freeQty + heldQty[r] /\ heldQty' = [heldQty EXCEPT ![r] = 0]
        /\ goneQty' = goneQty /\ doneReq' = doneReq
    BY <1>3 DEF Ledger!GiveBack
  <2>2. /\ heldQty' \in [Req -> Nat] /\ heldQty'[r] = 0
        /\ \A q \in Req \ {r} : heldQty'[q] = heldQty[q]
        /\ SumFunction(heldQty') = SumFunction(heldQty) + 0 - heldQty[r]
        /\ SumFunction(heldQty) \in Nat
    <3>1. /\ heldQty' \in [Req -> Nat] /\ heldQty'[r] = 0
          /\ \A q \in Req \ {r} : heldQty'[q] = heldQty[q]
      BY <1>0, <2>1
    <3>2. /\ SumFunction(heldQty') = SumFunction(heldQty) + heldQty'[r] - heldQty[r]
          /\ SumFunction(heldQty) \in Nat
      BY <1>0, <3>1, SumWrite
    <3> QED BY <1>0, <2>1, <3>1, <3>2
  <2>3. SumFunction(goneQty) \in Nat /\ heldQty[r] \in Nat /\ goneQty[r] \in Nat
    BY <1>0, SumWrite
  <2>4. freeQty' + SumFunction(heldQty') + SumFunction(goneQty') = SumFunction(InitialQty)
    BY <1>0, <2>1, <2>2, <2>3
  <2>5. \A q \in Req : heldQty'[q] + goneQty'[q] <= Want[q]
    BY <1>0, <2>1, <2>2, <2>3
  <2>6. \A q \in doneReq' : heldQty'[q] = 0
    BY <1>0, <2>1, <2>2 DEF doneReq
  <2> QED BY <1>0, <1>1, <2>1, <2>2, <2>3, <2>4, <2>5, <2>6
<1>4. ASSUME NEW r \in Req, NEW n \in 0..heldQty[r], Ledger!Issue(r, n) PROVE LedgerSound'
  <2>1. /\ freeQty' = freeQty + heldQty[r] - n /\ heldQty' = [heldQty EXCEPT ![r] = 0]
        /\ goneQty' = [goneQty EXCEPT ![r] = n] /\ doneReq' = doneReq \union {r}
        /\ r \notin doneReq
    BY <1>4 DEF Ledger!Issue
  <2>2. heldQty[r] \in Nat /\ n \in Nat /\ n <= heldQty[r] /\ goneQty[r] = 0
    BY <1>0, <1>4, <2>1
  <2>3. /\ heldQty' \in [Req -> Nat] /\ heldQty'[r] = 0
        /\ \A q \in Req \ {r} : heldQty'[q] = heldQty[q]
        /\ SumFunction(heldQty') = SumFunction(heldQty) + 0 - heldQty[r]
        /\ SumFunction(heldQty) \in Nat
    <3>1. /\ heldQty' \in [Req -> Nat] /\ heldQty'[r] = 0
          /\ \A q \in Req \ {r} : heldQty'[q] = heldQty[q]
      BY <1>0, <2>1
    <3>2. /\ SumFunction(heldQty') = SumFunction(heldQty) + heldQty'[r] - heldQty[r]
          /\ SumFunction(heldQty) \in Nat
      BY <1>0, <3>1, SumWrite
    <3> QED BY <1>0, <2>1, <3>1, <3>2
  <2>4. /\ goneQty' \in [Req -> Nat] /\ goneQty'[r] = n
        /\ \A q \in Req \ {r} : goneQty'[q] = goneQty[q]
        /\ SumFunction(goneQty') = SumFunction(goneQty) + n - 0
        /\ SumFunction(goneQty) \in Nat
    <3>1. /\ goneQty' \in [Req -> Nat] /\ goneQty'[r] = n
          /\ \A q \in Req \ {r} : goneQty'[q] = goneQty[q]
      BY <1>0, <2>1, <2>2
    <3>2. /\ SumFunction(goneQty') = SumFunction(goneQty) + goneQty'[r] - goneQty[r]
          /\ SumFunction(goneQty) \in Nat
      BY <1>0, <3>1, SumWrite
    <3> QED BY <1>0, <2>1, <2>2, <3>1, <3>2
  <2>5. freeQty' + SumFunction(heldQty') + SumFunction(goneQty') = SumFunction(InitialQty)
    BY <1>0, <2>1, <2>2, <2>3, <2>4
  <2>6. \A q \in Req : heldQty'[q] + goneQty'[q] <= Want[q]
    BY <1>0, <2>2, <2>3, <2>4
  <2>7. \A q \in doneReq' : heldQty'[q] = 0
    BY <1>0, <2>1, <2>3 DEF doneReq
  <2>8. \A q \in Req : q \notin doneReq' => goneQty'[q] = 0
    BY <1>0, <2>1, <2>4
  <2>9. freeQty' \in Nat
    BY <1>0, <2>1, <2>2
  <2> QED BY <1>1, <2>3, <2>4, <2>5, <2>6, <2>7, <2>8, <2>9
<1>5. CASE UNCHANGED Ledger!vars
  <2>1. freeQty' = freeQty /\ heldQty' = heldQty /\ goneQty' = goneQty /\ doneReq' = doneReq
    BY <1>5 DEF Ledger!vars
  <2> QED BY <1>0, <1>1, <2>1
<1>6. CASE Ledger!Next
  <2>1. PICK r \in Req : \/ \E n \in 1..Want[r] : n <= freeQty /\ Ledger!Take(r, n)
                         \/ Ledger!GiveBack(r)
                         \/ \E n \in 0..heldQty[r] : Ledger!Issue(r, n)
    BY <1>6 DEF Ledger!Next
  <2> QED BY <2>1, <1>2, <1>3, <1>4
<1> QED BY <1>5, <1>6

\* At every moment each unit of the initial stock is free, held by the one live
\* task of one request, or issued.
THEOREM LedgerBalancesAlways ==
    ASSUME Repair = {}, Unified = TRUE, Stranded = {} PROVE Spec => []LedgerBalances
<1>1. SumFunction(InitialQty) \in Nat
  <2>1. DOMAIN InitialQty = Row /\ \A s \in Row : InitialQty[s] \in Nat
    BY InitialQtyAssumption
  <2>2. SumFunctionOnSet(InitialQty, Row) \in Nat
    BY <2>1, FiniteAssumption, SumNat
  <2> QED BY <2>1, <2>2 DEF SumFunction
<1>2. Ledger!Init => LedgerSound
  BY <1>1, SoundInit
<1>3. LedgerSound /\ [Ledger!Next]_(Ledger!vars) => LedgerSound'
  BY <1>1, SoundNext
<1>4. Ledger!Spec => []LedgerSound
  BY <1>2, <1>3, PTL DEF Ledger!Spec
<1>5. LedgerSound => LedgerBalances
  BY DEF LedgerSound
<1> QED BY <1>4, <1>5, ImplementsLedgerAlways, PTL DEF ImplementsLedger
=============================================================================
