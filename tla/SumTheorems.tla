---------------------------- MODULE SumTheorems ----------------------------
(***************************************************************************)
(* Facts about the sums that the modules take over finite sets of bookings *)
(* and requests: MapThenSumSet of the community modules, which picks one   *)
(* element after the other with CHOOSE.  The library has no theorem about  *)
(* it.  Inductions are by a smallest set that breaks a fact.               *)
(***************************************************************************)
EXTENDS Integers, FiniteSets, FiniteSetsExt, FiniteSetTheorems,
        WellFoundedInduction, TLAPS

Sum(w, T) == MapThenSumSet(LAMBDA x : w[x], T)

Picked(T) == CHOOSE y \in T : TRUE

\* The equation of the function that the fold of S applies.
Adds(w, S, f) ==
    f = [T \in SUBSET S |->
           IF T = {} THEN 0
           ELSE LET x == CHOOSE y \in T : TRUE IN w[x] + f[T \ {x}]]

LEMMA SumIsFold ==
  ASSUME NEW w, NEW S
  PROVE  Sum(w, S) = (CHOOSE f : Adds(w, S, f))[S]
  BY DEF Sum, MapThenSumSet, MapThenFoldSet, Adds

\* A set of finite sets has one with no strict subset in it.
LEMMA SmallestSubset ==
  ASSUME NEW S, IsFiniteSet(S), NEW B \in SUBSET SUBSET S, B # {}
  PROVE  \E T \in B : \A U \in B : ~(U \subseteq T /\ U # T)
<1>1. IsWellFoundedOn(StrictSubsetOrdering(S), SUBSET S)
  BY FS_StrictSubsetOrderingWellFounded, FS_FiniteSubsetsOfFinite
<1>2. PICK T \in B : \A U \in B : ~(<<U, T>> \in StrictSubsetOrdering(S))
  BY <1>1, WFMin
<1>3. \A U \in B : <<U, T>> \in (SUBSET S) \X (SUBSET S)
  OBVIOUS
<1> QED BY <1>2, <1>3 DEF StrictSubsetOrdering

LEMMA SmallestNat ==
  ASSUME NEW B \in SUBSET Nat, B # {}
  PROVE  \E n \in B : \A m \in B : n <= m
<1>1. PICK k \in B : TRUE
  OBVIOUS
<1> DEFINE D == 0 .. k
           C == {0 .. n : n \in {m \in B : m <= k}}
<1>2. IsFiniteSet(D)
  BY FS_Interval
<1>3. C \in SUBSET SUBSET D /\ C # {}
  BY <1>1
<1>4. PICK T \in C : \A U \in C : ~(U \subseteq T /\ U # T)
  <2> HIDE DEF C, D
  <2> QED BY <1>2, <1>3, SmallestSubset
<1>5. PICK n \in B : n <= k /\ T = 0 .. n
  OBVIOUS
<1>6. ASSUME NEW m \in B, m < n PROVE FALSE
  <2>1. m \in Nat /\ n \in Nat /\ k \in Nat /\ m <= k
    BY <1>1, <1>5, <1>6
  <2>2. (0 .. m) \in C
    BY <2>1
  <2>3. (0 .. m) \subseteq (0 .. n) /\ n \in 0 .. n /\ n \notin 0 .. m
    BY <2>1, <1>6
  <2> QED BY <2>2, <2>3, <1>4, <1>5
<1>7. \A m \in B : m \in Nat /\ n \in Nat /\ ~(m < n)
  BY <1>6
<1>8. \A m \in B : n <= m
  BY <1>7
<1> QED BY <1>8

-----------------------------------------------------------------------------
(* There is a function that adds.                                          *)

UpTo(S, n) == {T \in SUBSET S : Cardinality(T) <= n}

AddsUpTo(w, S, n, f) ==
    /\ f \in [UpTo(S, n) -> Nat]
    /\ \A T \in UpTo(S, n) :
          f[T] = IF T = {} THEN 0 ELSE w[Picked(T)] + f[T \ {Picked(T)}]

LEMMA PickedIn ==
  ASSUME NEW S, IsFiniteSet(S), NEW T \in SUBSET S, T # {}
  PROVE  /\ Picked(T) \in T
         /\ T \ {Picked(T)} \in SUBSET S
         /\ Cardinality(T) \in Nat
         /\ Cardinality(T \ {Picked(T)}) = Cardinality(T) - 1
<1>1. Picked(T) \in T
  BY DEF Picked
<1>2. IsFiniteSet(T)
  BY FS_Subset
<1> QED BY <1>1, <1>2, FS_RemoveElement, FS_CardinalityType

LEMMA AddsUpToExists ==
  ASSUME NEW S, IsFiniteSet(S), NEW w \in [S -> Nat], NEW n \in Nat
  PROVE  \E f : AddsUpTo(w, S, n, f)
<1> DEFINE Bad == {k \in Nat : ~\E f : AddsUpTo(w, S, k, f)}
<1>1. ASSUME NEW k \in Nat, NEW f, AddsUpTo(w, S, k, f)
      PROVE  \E g : AddsUpTo(w, S, k + 1, g)
  <2> DEFINE g == [T \in UpTo(S, k + 1) |->
                     IF T \in UpTo(S, k) THEN f[T]
                     ELSE w[Picked(T)] + f[T \ {Picked(T)}]]
  <2>1. \A T \in UpTo(S, k + 1) : T # {} =>
           /\ Picked(T) \in S
           /\ T \ {Picked(T)} \in UpTo(S, k)
    BY PickedIn DEF UpTo
  <2>2. \A T \in UpTo(S, k + 1) : T \notin UpTo(S, k) => T # {}
    BY FS_EmptySet DEF UpTo
  <2>3. g \in [UpTo(S, k + 1) -> Nat]
    BY <1>1, <2>1, <2>2 DEF AddsUpTo
  <2>4. \A T \in UpTo(S, k) : T \in UpTo(S, k + 1) /\ g[T] = f[T]
    <3>1. \A T \in SUBSET S : Cardinality(T) \in Nat
      BY FS_Subset, FS_CardinalityType
    <3> QED BY <3>1 DEF UpTo
  <2>5. ASSUME NEW T \in UpTo(S, k + 1)
        PROVE  g[T] = IF T = {} THEN 0 ELSE w[Picked(T)] + g[T \ {Picked(T)}]
    <3>1. CASE T \in UpTo(S, k)
      <4>1. f[T] = IF T = {} THEN 0 ELSE w[Picked(T)] + f[T \ {Picked(T)}]
        BY <1>1, <3>1 DEF AddsUpTo
      <4> HIDE DEF g
      <4> QED BY <4>1, <3>1, <2>1, <2>4
    <3>2. CASE T \notin UpTo(S, k)
      <4>1. g[T] = w[Picked(T)] + f[T \ {Picked(T)}]
        BY <3>2
      <4> HIDE DEF g
      <4> QED BY <4>1, <3>2, <2>1, <2>2, <2>4
    <3> QED BY <3>1, <3>2
  <2> HIDE DEF g
  <2> QED BY <2>3, <2>5 DEF AddsUpTo
<1>2. \E f : AddsUpTo(w, S, 0, f)
  <2>1. UpTo(S, 0) = {{}}
    <3>1. \A T \in SUBSET S : Cardinality(T) \in Nat /\ (Cardinality(T) = 0 <=> T = {})
      BY FS_Subset, FS_CardinalityType, FS_EmptySet
    <3> QED BY <3>1 DEF UpTo
  <2>2. AddsUpTo(w, S, 0, [T \in {{}} |-> 0])
    BY <2>1 DEF AddsUpTo
  <2> QED BY <2>2
<1>3. Bad = {}
  <2>1. SUFFICES ASSUME Bad # {} PROVE FALSE
    OBVIOUS
  <2>2. PICK k \in Bad : \A m \in Bad : k <= m
    BY <2>1, SmallestNat
  <2>3. k # 0
    BY <2>2, <1>2
  <2>4. k - 1 \in Nat /\ k - 1 \notin Bad /\ (k - 1) + 1 = k
    BY <2>2, <2>3
  <2>5. \E f : AddsUpTo(w, S, (k - 1) + 1, f)
    BY <2>4, <1>1
  <2> QED BY <2>2, <2>4, <2>5
<1> QED BY <1>3

LEMMA AdderExists ==
  ASSUME NEW S, IsFiniteSet(S), NEW w \in [S -> Nat]
  PROVE  \E f \in [SUBSET S -> Nat] : Adds(w, S, f)
<1>1. Cardinality(S) \in Nat
  BY FS_CardinalityType
<1>2. UpTo(S, Cardinality(S)) = SUBSET S
  BY FS_Subset DEF UpTo
<1>3. PICK f : AddsUpTo(w, S, Cardinality(S), f)
  BY <1>1, AddsUpToExists
<1>4. f \in [SUBSET S -> Nat]
  BY <1>2, <1>3 DEF AddsUpTo
<1>5. Adds(w, S, f)
  BY <1>2, <1>3, <1>4 DEF AddsUpTo, Adds, Picked
<1> QED BY <1>4, <1>5

-----------------------------------------------------------------------------
(* And only one, whatever set the fold starts from.                        *)

LEMMA AddersAgree ==
  ASSUME NEW S, IsFiniteSet(S), NEW w, NEW f, Adds(w, S, f),
         NEW T \in SUBSET S, NEW g, Adds(w, T, g)
  PROVE  \A U \in SUBSET T : g[U] = f[U]
<1> DEFINE Bad == {U \in SUBSET T : g[U] # f[U]}
<1>1. SUFFICES ASSUME Bad # {} PROVE FALSE
  OBVIOUS
<1>2. IsFiniteSet(T)
  BY FS_Subset
<1>3. PICK U \in Bad : \A V \in Bad : ~(V \subseteq U /\ V # U)
  <2> HIDE <1>1
  <2>1. Bad \in SUBSET SUBSET T
    OBVIOUS
  <2> HIDE DEF Bad
  <2> QED BY <1>1, <1>2, <2>1, SmallestSubset
<1>4. /\ f[U] = IF U = {} THEN 0 ELSE w[Picked(U)] + f[U \ {Picked(U)}]
      /\ g[U] = IF U = {} THEN 0 ELSE w[Picked(U)] + g[U \ {Picked(U)}]
  BY DEF Adds, Picked
<1>5. U # {}
  BY <1>4
<1>6. Picked(U) \in U
  BY <1>5 DEF Picked
<1>7. g[U \ {Picked(U)}] = f[U \ {Picked(U)}]
  BY <1>3, <1>6
<1> QED BY <1>4, <1>5, <1>7

LEMMA SumIsAdder ==
  ASSUME NEW S, IsFiniteSet(S), NEW w, NEW f, Adds(w, S, f), NEW T \in SUBSET S
  PROVE  Sum(w, T) = f[T]
<1> DEFINE g == [U \in SUBSET T |-> f[U]]
<1>1. Adds(w, T, g)
  <2>1. ASSUME NEW U \in SUBSET T
        PROVE  g[U] = IF U = {} THEN 0
                      ELSE LET x == CHOOSE y \in U : TRUE IN w[x] + g[U \ {x}]
    <3>1. f[U] = IF U = {} THEN 0
                 ELSE LET x == CHOOSE y \in U : TRUE IN w[x] + f[U \ {x}]
      BY DEF Adds
    <3> QED BY <3>1
  <2>2. g = [U \in SUBSET T |-> g[U]]
    OBVIOUS
  <2> HIDE DEF g
  <2> QED BY <2>1, <2>2 DEF Adds
<1>2. Adds(w, T, CHOOSE h : Adds(w, T, h))
  BY <1>1
<1>3. (CHOOSE h : Adds(w, T, h))[T] = f[T]
  BY <1>2, AddersAgree
<1> QED BY <1>3, SumIsFold

\* The element that is taken out need not be the one that CHOOSE picks.
LEMMA AnyElement ==
  ASSUME NEW S, IsFiniteSet(S), NEW w \in [S -> Nat],
         NEW f \in [SUBSET S -> Nat], Adds(w, S, f)
  PROVE  \A T \in SUBSET S : \A x \in T : f[T] = w[x] + f[T \ {x}]
<1> DEFINE Bad == {T \in SUBSET S : \E x \in T : f[T] # w[x] + f[T \ {x}]}
<1>1. SUFFICES ASSUME Bad # {} PROVE FALSE
  OBVIOUS
<1>2. PICK T \in Bad : \A V \in Bad : ~(V \subseteq T /\ V # T)
  <2>1. Bad \in SUBSET SUBSET S
    OBVIOUS
  <2> HIDE DEF Bad
  <2> QED BY <1>1, <2>1, SmallestSubset
<1>3. PICK x \in T : f[T] # w[x] + f[T \ {x}]
  OBVIOUS
<1> DEFINE y == Picked(T)
<1>4. y \in T /\ f[T] = w[y] + f[T \ {y}]
  BY DEF Adds, Picked
<1>5. x # y
  BY <1>3, <1>4
<1> HIDE DEF y
<1>6. \A V \in SUBSET S : V \subseteq T /\ V # T =>
         \A z \in V : f[V] = w[z] + f[V \ {z}]
  BY <1>2
<1>7. /\ f[T \ {y}] = w[x] + f[(T \ {y}) \ {x}]
      /\ f[T \ {x}] = w[y] + f[(T \ {x}) \ {y}]
  <2>1. T \ {y} \in SUBSET S /\ T \ {x} \in SUBSET S
    OBVIOUS
  <2> QED BY <2>1, <1>4, <1>5, <1>6
<1>8. (T \ {y}) \ {x} = (T \ {x}) \ {y}
  OBVIOUS
<1> DEFINE a == w[x]
           b == w[y]
           c == f[(T \ {x}) \ {y}]
<1>9. a \in Nat /\ b \in Nat /\ c \in Nat
  BY <1>3, <1>4
<1>10. f[T] = b + (a + c) /\ f[T] # a + (b + c)
  BY <1>3, <1>4, <1>7, <1>8
<1> HIDE DEF a, b, c
<1> QED BY <1>9, <1>10

-----------------------------------------------------------------------------
(* What the other modules cite.                                            *)

\* A sum of naturals over a finite set is a natural.
LEMMA SumType ==
  ASSUME NEW S, IsFiniteSet(S), NEW w \in [S -> Nat], NEW T \in SUBSET S
  PROVE  Sum(w, T) \in Nat
<1>1. PICK f \in [SUBSET S -> Nat] : Adds(w, S, f)
  BY AdderExists
<1> QED BY <1>1, SumIsAdder

LEMMA SumEmpty ==
  ASSUME NEW w
  PROVE  Sum(w, {}) = 0
<1>1. IsFiniteSet({})
  BY FS_EmptySet
<1>2. Adds(w, {}, [T \in {{}} |-> 0])
  BY DEF Adds
<1>3. Sum(w, {}) = [T \in {{}} |-> 0][{}]
  BY <1>1, <1>2, SumIsAdder
<1> QED BY <1>3

\* One element more, or one less.
LEMMA SumRemove ==
  ASSUME NEW S, IsFiniteSet(S), NEW w \in [S -> Nat], NEW T \in SUBSET S,
         NEW x \in T
  PROVE  Sum(w, T) = w[x] + Sum(w, T \ {x})
<1>1. PICK f \in [SUBSET S -> Nat] : Adds(w, S, f)
  BY AdderExists
<1>2. f[T] = w[x] + f[T \ {x}]
  BY <1>1, AnyElement
<1>3. Sum(w, T) = f[T] /\ Sum(w, T \ {x}) = f[T \ {x}]
  BY <1>1, SumIsAdder
<1> QED BY <1>2, <1>3

LEMMA SumAdd ==
  ASSUME NEW S, IsFiniteSet(S), NEW w \in [S -> Nat], NEW T \in SUBSET S,
         NEW x \in S, x \notin T
  PROVE  Sum(w, T \cup {x}) = Sum(w, T) + w[x]
<1>1. Sum(w, T \cup {x}) = w[x] + Sum(w, (T \cup {x}) \ {x})
  <2>1. T \cup {x} \in SUBSET S /\ x \in T \cup {x}
    OBVIOUS
  <2> QED BY <2>1, SumRemove
<1>2. (T \cup {x}) \ {x} = T
  OBVIOUS
<1>3. w[x] \in Nat /\ Sum(w, T) \in Nat
  BY SumType
<1>4. Sum(w, T \cup {x}) = w[x] + Sum(w, T)
  BY <1>1, <1>2
<1> QED BY <1>3, <1>4

\* A larger set has no smaller sum.
LEMMA SumMonotone ==
  ASSUME NEW S, IsFiniteSet(S), NEW w \in [S -> Nat], NEW U \in SUBSET S,
         NEW T \in SUBSET U
  PROVE  Sum(w, T) <= Sum(w, U)
<1> DEFINE Bad == {V \in SUBSET S : T \subseteq V /\ ~(Sum(w, T) <= Sum(w, V))}
<1>1. SUFFICES ASSUME Bad # {} PROVE FALSE
  OBVIOUS
<1>2. PICK V \in Bad : \A W \in Bad : ~(W \subseteq V /\ W # V)
  <2>1. Bad \in SUBSET SUBSET S
    OBVIOUS
  <2> HIDE DEF Bad
  <2> QED BY <1>1, <2>1, SmallestSubset
<1>3. \A W \in SUBSET S : Sum(w, W) \in Nat
  BY SumType
<1>4. V # T
  <2>1. T \in SUBSET S
    OBVIOUS
  <2> QED BY <1>3, <2>1
<1>5. PICK x \in V : x \notin T
  BY <1>2, <1>4
<1>6. Sum(w, T) <= Sum(w, V \ {x})
  BY <1>2, <1>5
<1>7. Sum(w, V) = w[x] + Sum(w, V \ {x})
  BY SumRemove
<1>8. w[x] \in Nat /\ Sum(w, T) \in Nat /\ Sum(w, V \ {x}) \in Nat
  BY <1>3
<1>9. Sum(w, T) <= Sum(w, V)
  BY <1>6, <1>7, <1>8
<1> QED BY <1>9

\* Two sets apart add up.
LEMMA SumUnion ==
  ASSUME NEW S, IsFiniteSet(S), NEW w \in [S -> Nat], NEW T \in SUBSET S,
         NEW U \in SUBSET S, T \cap U = {}
  PROVE  Sum(w, T \cup U) = Sum(w, T) + Sum(w, U)
<1> DEFINE Bad == {V \in SUBSET S : /\ V \subseteq U
                                    /\ Sum(w, T \cup V) # Sum(w, T) + Sum(w, V)}
<1>1. SUFFICES ASSUME Bad # {} PROVE FALSE
  OBVIOUS
<1>2. PICK V \in Bad : \A W \in Bad : ~(W \subseteq V /\ W # V)
  <2>1. Bad \in SUBSET SUBSET S
    OBVIOUS
  <2> HIDE DEF Bad
  <2> QED BY <1>1, <2>1, SmallestSubset
<1>3. \A W \in SUBSET S : Sum(w, W) \in Nat
  BY SumType
<1>4. V # {}
  <2>1. T \cup {} = T /\ Sum(w, {}) = 0 /\ Sum(w, T) \in Nat
    BY <1>3, SumEmpty
  <2> QED BY <2>1
<1>5. PICK x \in V : TRUE
  BY <1>4
<1>6. Sum(w, T \cup (V \ {x})) = Sum(w, T) + Sum(w, V \ {x})
  BY <1>2, <1>5
<1>7. Sum(w, V) = w[x] + Sum(w, V \ {x})
  BY SumRemove
<1>8. Sum(w, T \cup V) = w[x] + Sum(w, T \cup (V \ {x}))
  <2>1. (T \cup V) \ {x} = T \cup (V \ {x})
    BY <1>5
  <2>2. T \cup V \in SUBSET S /\ x \in T \cup V
    OBVIOUS
  <2>3. Sum(w, T \cup V) = w[x] + Sum(w, (T \cup V) \ {x})
    BY <2>2, SumRemove
  <2> QED BY <2>1, <2>3
<1>9. /\ w[x] \in Nat /\ Sum(w, T) \in Nat /\ Sum(w, V \ {x}) \in Nat
      /\ Sum(w, T \cup (V \ {x})) \in Nat
  BY <1>3
<1>10. Sum(w, T \cup V) = Sum(w, T) + Sum(w, V)
  BY <1>6, <1>7, <1>8, <1>9
<1> QED BY <1>10

=============================================================================
