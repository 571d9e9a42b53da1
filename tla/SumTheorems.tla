---------------------------- MODULE SumTheorems ----------------------------
(***************************************************************************)
(* What a sum over a finite set does when one term or one member changes,   *)
(* for the totals kept by the ledgers of the program.                       *)
(*                                                                          *)
(* MapThenSumSet is a choice among the functions that equal their own       *)
(* recursive definition.  That there is one, and that all agree, is an      *)
(* induction over the subsets of the set: a set of counterexamples has a    *)
(* minimal one (MinimalSubset), from which one member is taken away.        *)
(***************************************************************************)
EXTENDS FiniteSetsExt, FiniteSetTheorems, WellFoundedInduction, TLAPS

\* The sum of f over S, as the models write it.
SumOf(f, S) == MapThenSumSet(LAMBDA x : f[x], S)

-----------------------------------------------------------------------------
(* Induction over the subsets of a finite set.                              *)

\* Among the subsets of a finite set that are bad, if any is, one has no bad part.
LEMMA MinimalSubset ==
  ASSUME NEW S, IsFiniteSet(S), NEW Bad \in SUBSET (SUBSET S), Bad # {}
  PROVE  \E T \in Bad : \A U \in Bad : U \subseteq T => U = T
<1>1. IsWellFoundedOn(StrictSubsetOrdering(S), SUBSET S)
  BY FS_FiniteSubsetsOfFinite, FS_StrictSubsetOrderingWellFounded
<1>2. \E T \in Bad : \A U \in Bad : <<U, T>> \notin StrictSubsetOrdering(S)
  BY <1>1, WFMin
<1> QED
  BY <1>2 DEF StrictSubsetOrdering

-----------------------------------------------------------------------------
(* The fold is the function its definition says it is.                      *)

Chosen(s) == CHOOSE x \in s : TRUE

Steps(f, g, T) ==
  [s \in SUBSET T |-> IF s = {} THEN 0 ELSE f[Chosen(s)] + g[s \ {Chosen(s)}]]

Fold(f, T) == CHOOSE g : g = Steps(f, g, T)

\* The sum is the fold at the set itself.
LEMMA SumOfDef ==
  ASSUME NEW f, NEW S
  PROVE  SumOf(f, S) = Fold(f, S)[S]
  BY DEF SumOf, MapThenSumSet, MapThenFoldSet, Fold, Steps, Chosen

\* The member the fold takes next is one.
LEMMA ChosenIn ==
  ASSUME NEW s, s # {}
  PROVE  Chosen(s) \in s
  BY DEF Chosen

\* Two functions that both fold f agree wherever both are defined.
LEMMA FoldsAgree ==
  ASSUME NEW f, NEW T, NEW U, NEW g, NEW h, g = Steps(f, g, T), h = Steps(f, h, U),
         NEW W \in SUBSET T, W \in SUBSET U, IsFiniteSet(W)
  PROVE  g[W] = h[W]
<1> DEFINE Bad == {s \in SUBSET W : g[s] # h[s]}
<1> SUFFICES ASSUME Bad # {} PROVE FALSE
  OBVIOUS
<1>0. Bad \in SUBSET (SUBSET W)
  OBVIOUS
<1>1. PICK s \in Bad : \A t \in Bad : t \subseteq s => t = s
  <2> HIDE DEF Bad
  <2> QED
    BY <1>0, MinimalSubset
<1>2. s \in SUBSET T /\ s \in SUBSET U
  OBVIOUS
<1>3. /\ g[s] = IF s = {} THEN 0 ELSE f[Chosen(s)] + g[s \ {Chosen(s)}]
      /\ h[s] = IF s = {} THEN 0 ELSE f[Chosen(s)] + h[s \ {Chosen(s)}]
  BY <1>2 DEF Steps
<1>4. s # {}
  BY <1>3
<1>5. s \ {Chosen(s)} \notin Bad
  BY <1>1, <1>4, ChosenIn
<1>6. g[s \ {Chosen(s)}] = h[s \ {Chosen(s)}]
  BY <1>5
<1> QED
  BY <1>3, <1>6

\* There is a function that folds f over a finite set.
LEMMA FoldExists ==
  ASSUME NEW f, NEW S, IsFiniteSet(S)
  PROVE  Fold(f, S) = Steps(f, Fold(f, S), S)
<1> DEFINE Bad == {T \in SUBSET S : ~ \E g : g = Steps(f, g, T)}
<1>1. SUFFICES ASSUME Bad # {} PROVE FALSE
  BY DEF Fold
<1>0. Bad \in SUBSET (SUBSET S)
  OBVIOUS
<1>2. PICK T \in Bad : \A U \in Bad : U \subseteq T => U = T
  <2> HIDE DEF Bad
  <2> QED
    BY <1>0, <1>1, MinimalSubset
<1>3. ASSUME NEW U \in SUBSET T, U # T
      PROVE  Fold(f, U) = Steps(f, Fold(f, U), U) /\ IsFiniteSet(U)
  <2>1. U \notin Bad /\ U \in SUBSET S
    BY <1>2, <1>3
  <2>2. \E g : g = Steps(f, g, U)
    BY <2>1
  <2> QED
    BY <2>1, <2>2, FS_Subset DEF Fold
<1> DEFINE Value(U) == IF U = {} THEN 0
                       ELSE f[Chosen(U)] + Fold(f, U \ {Chosen(U)})[U \ {Chosen(U)}]
           h == [U \in SUBSET T |-> Value(U)]
<1>4. ASSUME NEW V \in SUBSET T, V # T
      PROVE  Fold(f, V)[V] = Value(V)
  <2>1. Fold(f, V)[V] = IF V = {} THEN 0
                        ELSE f[Chosen(V)] + Fold(f, V)[V \ {Chosen(V)}]
    <3>1. Fold(f, V) = Steps(f, Fold(f, V), V)
      BY <1>3, <1>4
    <3> DEFINE g == Fold(f, V)
    <3>2. g = Steps(f, g, V)
      BY <3>1
    <3> HIDE DEF g
    <3>3. g[V] = IF V = {} THEN 0 ELSE f[Chosen(V)] + g[V \ {Chosen(V)}]
      BY <3>2 DEF Steps
    <3> QED
      BY <3>3 DEF g
  <2>2. CASE V # {}
    <3> DEFINE W == V \ {Chosen(V)}
    <3>1. W \in SUBSET V /\ W \in SUBSET W /\ W \in SUBSET T /\ W # T
      BY <2>2, <1>4, ChosenIn
    <3>2. Fold(f, V) = Steps(f, Fold(f, V), V) /\ Fold(f, W) = Steps(f, Fold(f, W), W)
            /\ IsFiniteSet(W)
      BY <1>3, <1>4, <3>1
    <3> HIDE DEF W
    <3>3. Fold(f, V)[W] = Fold(f, W)[W]
      BY <3>1, <3>2, FoldsAgree
    <3> QED
      BY <2>1, <2>2, <3>3 DEF W
  <2> QED
    BY <2>1, <2>2
<1>5. ASSUME NEW U \in SUBSET T
      PROVE  h[U] = IF U = {} THEN 0 ELSE f[Chosen(U)] + h[U \ {Chosen(U)}]
  <2>1. CASE U # {}
    <3>1. U \ {Chosen(U)} \in SUBSET T /\ U \ {Chosen(U)} # T
      BY <2>1, ChosenIn
    <3>2. h[U \ {Chosen(U)}] = Value(U \ {Chosen(U)})
      BY <3>1
    <3>3. h[U \ {Chosen(U)}] = Fold(f, U \ {Chosen(U)})[U \ {Chosen(U)}]
      BY <3>1, <3>2, <1>4
    <3> QED
      BY <2>1, <3>3
  <2> QED
    BY <2>1
<1>6. h = Steps(f, h, T)
  <2> HIDE DEF Value
  <2>1. h \in [SUBSET T -> {Value(U) : U \in SUBSET T}]
    OBVIOUS
  <2> QED
    BY <1>5, <2>1 DEF Steps
<1> QED
  BY <1>2, <1>6

-----------------------------------------------------------------------------
(* What a sum is.                                                           *)

\* Whatever function folds f over S, at S it is the sum.
LEMMA SumIs ==
  ASSUME NEW f, NEW S, IsFiniteSet(S), NEW h, h = Steps(f, h, S)
  PROVE  h[S] = SumOf(f, S)
<1> DEFINE k == Fold(f, S)
<1>1. k = Steps(f, k, S)
  BY FoldExists
<1> HIDE DEF k
<1>2. h[S] = k[S]
  BY <1>1, FoldsAgree
<1> QED
  BY <1>2, SumOfDef DEF k

\* Nothing sums up to 0.
LEMMA SumEmpty ==
  ASSUME NEW f
  PROVE  SumOf(f, {}) = 0
<1> DEFINE g == Fold(f, {})
<1>1. g = Steps(f, g, {})
  BY FoldExists, FS_EmptySet
<1> HIDE DEF g
<1>2. g[{}] = 0
  BY <1>1 DEF Steps
<1> QED
  BY <1>2, SumOfDef DEF g

\* A sum is one of its terms and the sum of the others.
LEMMA SumStep ==
  ASSUME NEW f, NEW S, IsFiniteSet(S), S # {}
  PROVE  SumOf(f, S) = f[Chosen(S)] + SumOf(f, S \ {Chosen(S)})
<1> DEFINE W == S \ {Chosen(S)}
           g == Fold(f, S)
           h == Fold(f, W)
<1>1. W \in SUBSET S /\ W \in SUBSET W /\ IsFiniteSet(W)
  BY FS_Subset
<1>2. g = Steps(f, g, S) /\ h = Steps(f, h, W)
  BY <1>1, FoldExists
<1>3. SumOf(f, S) = g[S] /\ SumOf(f, W) = h[W]
  BY SumOfDef
<1> HIDE DEF g, h, W
<1>4. g[S] = f[Chosen(S)] + g[W]
  BY <1>2 DEF Steps, W
<1>5. g[W] = h[W]
  BY <1>1, <1>2, FoldsAgree
<1> QED
  BY <1>3, <1>4, <1>5 DEF W

\* A sum of integers is one, and of naturals too.
LEMMA SumType ==
  ASSUME NEW f, NEW S, IsFiniteSet(S), NEW N \in {Nat, Int}, \A x \in S : f[x] \in N
  PROVE  SumOf(f, S) \in N
<1> DEFINE Bad == {T \in SUBSET S : SumOf(f, T) \notin N}
<1>1. SUFFICES ASSUME Bad # {} PROVE FALSE
  OBVIOUS
<1>2. Bad \in SUBSET (SUBSET S)
  OBVIOUS
<1>3. PICK T \in Bad : \A U \in Bad : U \subseteq T => U = T
  <2> HIDE DEF Bad
  <2> QED
    BY <1>1, <1>2, MinimalSubset
<1>4. T \in SUBSET S /\ IsFiniteSet(T) /\ SumOf(f, T) \notin N
  BY FS_Subset
<1>5. T # {}
  BY <1>4, SumEmpty
<1>6. Chosen(T) \in T
  BY <1>5, ChosenIn
<1>7. SumOf(f, T \ {Chosen(T)}) \in N
  BY <1>3, <1>4, <1>6
<1>8. f[Chosen(T)] \in N
  BY <1>4, <1>6
<1>9. SumOf(f, T) = f[Chosen(T)] + SumOf(f, T \ {Chosen(T)})
  BY <1>4, <1>5, SumStep
<1> QED
  BY <1>4, <1>7, <1>8, <1>9

\* Equal terms have equal sums.
LEMMA SumSame ==
  ASSUME NEW f, NEW g, NEW S, IsFiniteSet(S), \A x \in S : f[x] = g[x]
  PROVE  SumOf(f, S) = SumOf(g, S)
<1> DEFINE Bad == {T \in SUBSET S : SumOf(f, T) # SumOf(g, T)}
<1>1. SUFFICES ASSUME Bad # {} PROVE FALSE
  OBVIOUS
<1>2. Bad \in SUBSET (SUBSET S)
  OBVIOUS
<1>3. PICK T \in Bad : \A U \in Bad : U \subseteq T => U = T
  <2> HIDE DEF Bad
  <2> QED
    BY <1>1, <1>2, MinimalSubset
<1>4. T \in SUBSET S /\ IsFiniteSet(T) /\ SumOf(f, T) # SumOf(g, T)
  BY FS_Subset
<1>5. T # {}
  BY <1>4, SumEmpty
<1>6. Chosen(T) \in T
  BY <1>5, ChosenIn
<1>7. SumOf(f, T \ {Chosen(T)}) = SumOf(g, T \ {Chosen(T)})
  BY <1>3, <1>4, <1>6
<1>8. f[Chosen(T)] = g[Chosen(T)]
  BY <1>4, <1>6
<1>9. /\ SumOf(f, T) = f[Chosen(T)] + SumOf(f, T \ {Chosen(T)})
      /\ SumOf(g, T) = g[Chosen(T)] + SumOf(g, T \ {Chosen(T)})
  BY <1>4, <1>5, SumStep
<1> QED
  BY <1>4, <1>7, <1>8, <1>9

\* Whatever element the fold takes first, any one of them can be taken out.
LEMMA SumOut ==
  ASSUME NEW f, NEW S, IsFiniteSet(S), \A x \in S : f[x] \in Int, NEW y \in S
  PROVE  SumOf(f, S) = f[y] + SumOf(f, S \ {y})
<1> DEFINE Bad == {T \in SUBSET S : \E z \in T : SumOf(f, T) # f[z] + SumOf(f, T \ {z})}
<1>1. SUFFICES ASSUME Bad # {} PROVE FALSE
  BY FS_Subset
<1>2. Bad \in SUBSET (SUBSET S)
  OBVIOUS
<1>3. PICK T \in Bad : \A U \in Bad : U \subseteq T => U = T
  <2> HIDE DEF Bad
  <2> QED
    BY <1>1, <1>2, MinimalSubset
<1>4. T \in SUBSET S /\ IsFiniteSet(T)
  BY FS_Subset
<1>5. PICK z \in T : SumOf(f, T) # f[z] + SumOf(f, T \ {z})
  OBVIOUS
<1> DEFINE x == Chosen(T)
           U == T \ {x}
           V == T \ {z}
           W == T \ {x, z}
<1>6. x \in T /\ SumOf(f, T) = f[x] + SumOf(f, U)
  BY <1>4, ChosenIn, SumStep
<1>7. x # z
  BY <1>5, <1>6
<1>8. U \in SUBSET S /\ z \in U /\ IsFiniteSet(U) /\ U \ {z} = W /\ U \subseteq T /\ U # T
  BY <1>4, <1>6, <1>7, FS_Subset
<1>9. SumOf(f, U) = f[z] + SumOf(f, W)
  BY <1>3, <1>8
<1>10. V \in SUBSET S /\ IsFiniteSet(V) /\ x \in V /\ V \ {x} = W
        /\ V \subseteq T /\ V # T
  BY <1>4, <1>6, <1>7, FS_Subset
<1>11. W \in SUBSET S /\ IsFiniteSet(W)
  BY <1>4, FS_Subset
<1>12. SumOf(f, V) = f[x] + SumOf(f, W)
  BY <1>3, <1>10
<1>13. f[x] \in Int /\ f[z] \in Int /\ SumOf(f, W) \in Int
  <2>1. \A w \in W : f[w] \in Int
    BY <1>11
  <2> HIDE DEF W
  <2>2. SumOf(f, W) \in Int
    BY <1>11, <2>1, SumType
  <2> QED
    BY <1>4, <1>6, <2>2
<1> QED
  BY <1>5, <1>6, <1>9, <1>12, <1>13

\* When one term changes, the sum changes by as much.
LEMMA SumUpdate ==
  ASSUME NEW f, NEW g, NEW S, IsFiniteSet(S), \A x \in S : f[x] \in Int /\ g[x] \in Int,
         NEW y \in S, \A x \in S \ {y} : g[x] = f[x]
  PROVE  SumOf(g, S) = SumOf(f, S) + (g[y] - f[y])
<1> DEFINE W == S \ {y}
<1>1. IsFiniteSet(W) /\ \A x \in W : f[x] \in Int /\ g[x] = f[x]
  BY FS_Subset
<1>2. SumOf(f, S) = f[y] + SumOf(f, W) /\ SumOf(g, S) = g[y] + SumOf(g, W)
  BY SumOut
<1> HIDE DEF W
<1>3. SumOf(f, W) = SumOf(g, W)
  BY <1>1, SumSame
<1>4. SumOf(f, W) \in Int
  BY <1>1, SumType
<1> QED
  BY <1>2, <1>3, <1>4

\* A sum of zeros is 0.
LEMMA SumZero ==
  ASSUME NEW f, NEW S, IsFiniteSet(S), \A x \in S : f[x] = 0
  PROVE  SumOf(f, S) = 0
<1> DEFINE Bad == {T \in SUBSET S : SumOf(f, T) # 0}
<1>1. SUFFICES ASSUME Bad # {} PROVE FALSE
  OBVIOUS
<1>2. Bad \in SUBSET (SUBSET S)
  OBVIOUS
<1>3. PICK T \in Bad : \A U \in Bad : U \subseteq T => U = T
  <2> HIDE DEF Bad
  <2> QED
    BY <1>1, <1>2, MinimalSubset
<1>4. T \in SUBSET S /\ IsFiniteSet(T) /\ T # {}
  BY FS_Subset, SumEmpty
<1>5. Chosen(T) \in T
  BY <1>4, ChosenIn
<1>6. SumOf(f, T \ {Chosen(T)}) = 0
  BY <1>3, <1>4, <1>5
<1>7. SumOf(f, T) = f[Chosen(T)] + SumOf(f, T \ {Chosen(T)})
  BY <1>4, SumStep
<1> QED
  BY <1>4, <1>5, <1>6, <1>7

\* Of two sets that differ in one element at most, the sizes differ by it.
LEMMA OneMoved ==
  ASSUME NEW S, IsFiniteSet(S), NEW A \in SUBSET S, NEW B \in SUBSET S, NEW x,
         A \ {x} = B \ {x}
  PROVE  /\ Cardinality(A) \in Nat /\ Cardinality(B) \in Nat
         /\ Cardinality(B) + (IF x \in A THEN 1 ELSE 0)
              = Cardinality(A) + (IF x \in B THEN 1 ELSE 0)
<1>1. IsFiniteSet(A) /\ IsFiniteSet(B)
  BY FS_Subset
<1>2. /\ Cardinality(A \ {x}) = IF x \in A THEN Cardinality(A) - 1 ELSE Cardinality(A)
      /\ Cardinality(B \ {x}) = IF x \in B THEN Cardinality(B) - 1 ELSE Cardinality(B)
  BY <1>1, FS_RemoveElement
<1>3. Cardinality(A) \in Nat /\ Cardinality(B) \in Nat
  BY <1>1, FS_CardinalityType
<1> QED
  BY <1>2, <1>3

\* Terms that are 0 can be left out.
LEMMA SumWithin ==
  ASSUME NEW f, NEW S, IsFiniteSet(S), \A x \in S : f[x] \in Int,
         NEW U \in SUBSET S, \A x \in S \ U : f[x] = 0
  PROVE  SumOf(f, S) = SumOf(f, U)
<1> DEFINE Bad == {T \in SUBSET S : SumOf(f, T) # SumOf(f, T \cap U)}
<1>1. SUFFICES ASSUME Bad # {} PROVE FALSE
  <2>1. S \cap U = U
    OBVIOUS
  <2> QED
    BY <2>1
<1>2. Bad \in SUBSET (SUBSET S)
  OBVIOUS
<1>3. PICK T \in Bad : \A V \in Bad : V \subseteq T => V = T
  <2> HIDE DEF Bad
  <2> QED
    BY <1>1, <1>2, MinimalSubset
<1> DEFINE x == Chosen(T)
           W == T \ {x}
           P == T \cap U
<1>4. T \in SUBSET S /\ IsFiniteSet(T) /\ T # {} /\ SumOf(f, T) # SumOf(f, P)
  <2>1. {} \cap U = {}
    OBVIOUS
  <2> QED
    BY <2>1, FS_Subset
<1>5. x \in T
  BY <1>4, ChosenIn
<1>6. SumOf(f, W) = SumOf(f, W \cap U)
  BY <1>3, <1>4, <1>5
<1>7. SumOf(f, T) = f[x] + SumOf(f, W)
  BY <1>4, SumStep
<1>8. SumOf(f, W) \in Int
  <2>1. IsFiniteSet(W) /\ \A w \in W : f[w] \in Int
    BY <1>4, FS_Subset
  <2> HIDE DEF W
  <2> QED
    BY <2>1, SumType
<1>9. CASE x \in U
  <2>1. IsFiniteSet(P) /\ x \in P /\ \A p \in P : f[p] \in Int
    BY <1>4, <1>5, <1>9, FS_Subset
  <2>2. P \ {x} = W \cap U
    OBVIOUS
  <2> HIDE DEF P, W, x
  <2>3. SumOf(f, P) = f[x] + SumOf(f, P \ {x})
    BY <2>1, SumOut
  <2> QED
    BY <1>4, <1>6, <1>7, <2>2, <2>3
<1>10. CASE x \notin U
  <2>1. P = W \cap U /\ f[x] = 0
    BY <1>4, <1>5, <1>10
  <2> QED
    BY <1>4, <1>6, <1>7, <1>8, <2>1
<1> QED
  BY <1>9, <1>10

\* Larger terms have a larger sum.
LEMMA SumGrows ==
  ASSUME NEW f, NEW g, NEW S, IsFiniteSet(S),
         \A x \in S : f[x] \in Int /\ g[x] \in Int /\ f[x] <= g[x]
  PROVE  SumOf(f, S) <= SumOf(g, S)
<1> DEFINE Bad == {T \in SUBSET S : ~(SumOf(f, T) <= SumOf(g, T))}
<1>1. SUFFICES ASSUME Bad # {} PROVE FALSE
  OBVIOUS
<1>2. Bad \in SUBSET (SUBSET S)
  OBVIOUS
<1>3. PICK T \in Bad : \A U \in Bad : U \subseteq T => U = T
  <2> HIDE DEF Bad
  <2> QED
    BY <1>1, <1>2, MinimalSubset
<1> DEFINE x == Chosen(T)
           W == T \ {x}
<1>4. T \in SUBSET S /\ IsFiniteSet(T) /\ T # {}
  <2>1. SumOf(f, {}) <= SumOf(g, {})
    <3>1. SumOf(f, {}) = 0 /\ SumOf(g, {}) = 0
      BY SumEmpty
    <3>2. QED
      BY <3>1
  <2>2. T # {}
    BY <2>1
  <2>3. T \in SUBSET S /\ IsFiniteSet(T)
    BY FS_Subset
  <2>4. QED
    BY <2>2, <2>3
<1>5. x \in T
  BY <1>4, ChosenIn
<1>6. SumOf(f, W) <= SumOf(g, W)
  BY <1>3, <1>4, <1>5
<1>7. SumOf(f, T) = f[x] + SumOf(f, W) /\ SumOf(g, T) = g[x] + SumOf(g, W)
  BY <1>4, SumStep
<1>8. IsFiniteSet(W) /\ \A w \in W : f[w] \in Int /\ g[w] \in Int
  BY <1>4, FS_Subset
<1>9. SumOf(f, W) \in Int /\ SumOf(g, W) \in Int
  <2> HIDE DEF W
  <2> QED
    BY <1>8, SumType
<1>10. ~(SumOf(f, T) <= SumOf(g, T)) /\ f[x] \in Int /\ g[x] \in Int /\ f[x] <= g[x]
  BY <1>4, <1>5
<1> HIDE DEF W, x, Bad
<1> QED
  BY <1>6, <1>7, <1>9, <1>10

\* A finite set is counted part by part, whatever it is divided by.
LEMMA SumOfParts ==
  ASSUME NEW C, IsFiniteSet(C), NEW D, IsFiniteSet(D), NEW f, \A x \in C : f[x] \in D
  PROVE  SumOf([d \in D |-> Cardinality({x \in C : f[x] = d})], D) = Cardinality(C)
<1> DEFINE Part(T, d) == {x \in T : f[x] = d}
           Parts(T) == [d \in D |-> Cardinality(Part(T, d))]
           Bad == {T \in SUBSET C : SumOf(Parts(T), D) # Cardinality(T)}
<1>1. SUFFICES ASSUME Bad # {} PROVE FALSE
  OBVIOUS
<1>2. Bad \in SUBSET (SUBSET C)
  OBVIOUS
<1>3. PICK T \in Bad : \A U \in Bad : U \subseteq T => U = T
  <2> HIDE DEF Bad
  <2> QED
    BY <1>1, <1>2, MinimalSubset
<1>4. T \in SUBSET C /\ IsFiniteSet(T) /\ SumOf(Parts(T), D) # Cardinality(T)
  BY FS_Subset
<1>5. \A S \in SUBSET C, d \in D : IsFiniteSet(Part(S, d)) /\ Cardinality(Part(S, d)) \in Nat
  <2> TAKE S \in SUBSET C, d \in D
  <2>1. Part(S, d) \subseteq C
    OBVIOUS
  <2> HIDE DEF Part
  <2> QED
    BY <2>1, FS_Subset, FS_CardinalityType
<1>6. T # {}
  <2> SUFFICES ASSUME T = {} PROVE FALSE
    OBVIOUS
  <2>1. \A d \in D : Part({}, d) = {}
    OBVIOUS
  <2> HIDE DEF Part
  <2>2. \A d \in D : Parts({})[d] = 0
    BY <2>1, FS_EmptySet
  <2> HIDE DEF Parts
  <2> QED
    BY <1>4, <2>2, SumZero, FS_EmptySet
<1>7. PICK y \in T : TRUE
  BY <1>6
<1> DEFINE U == T \ {y}
<1>8. U \in SUBSET C /\ U # T /\ U \subseteq T /\ IsFiniteSet(U)
  BY <1>4, FS_Subset
<1>9. SumOf(Parts(U), D) = Cardinality(U)
  BY <1>3, <1>8
<1>10. Cardinality(T) = Cardinality(U) + 1 /\ Cardinality(U) \in Nat
  <2>1. T = U \cup {y} /\ y \notin U
    BY <1>7
  <2> HIDE DEF U
  <2> QED
    BY <1>8, <2>1, FS_AddElement, FS_CardinalityType
<1>11. f[y] \in D
  BY <1>4, <1>7
<1>12. /\ Part(T, f[y]) = Part(U, f[y]) \cup {y} /\ y \notin Part(U, f[y])
       /\ \A d \in D \ {f[y]} : Part(T, d) = Part(U, d)
  BY <1>7
<1> HIDE DEF Part, U, Bad
<1>13. /\ Parts(T)[f[y]] = Parts(U)[f[y]] + 1
       /\ \A d \in D \ {f[y]} : Parts(T)[d] = Parts(U)[d]
       /\ \A d \in D : Parts(T)[d] \in Int /\ Parts(U)[d] \in Int
  BY <1>4, <1>5, <1>8, <1>11, <1>12, FS_AddElement
<1> HIDE DEF Parts
<1>14. SumOf(Parts(T), D) = SumOf(Parts(U), D) + (Parts(T)[f[y]] - Parts(U)[f[y]])
  BY <1>11, <1>13, SumUpdate
<1>15. Parts(U)[f[y]] \in Int
  BY <1>11, <1>13
<1> QED
  BY <1>4, <1>9, <1>10, <1>13, <1>14, <1>15
=============================================================================
