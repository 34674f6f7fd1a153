--------------------------- MODULE RecordsProofs ---------------------------
(***************************************************************************)
(* Proofs about the models of single records, for any sets of records and  *)
(* requests: addresses, the menu, a restaurant's computed columns, prices, *)
(* the surge, the figures of the reports.                                  *)
(*                                                                         *)
(* They begin with what is true of every finite sum, as the columns, the   *)
(* amounts and the figures are sums.                                       *)
(***************************************************************************)
EXTENDS Addresses, Menu, Shopfront, Amounts, Reports, FiniteSetTheorems, TLAPS

-----------------------------------------------------------------------------
(* Sums over finite sets.  What is shown of every finite set is shown by   *)
(* looking at a smallest one that it does not hold of.                     *)

\* The element that the library's fold takes next.
El(T) == CHOOSE x \in T : TRUE

IsSum(f, g, S) ==
    g = [T \in SUBSET S |-> IF T = {} THEN 0 ELSE f[El(T)] + g[T \ {El(T)}]]

LEMMA SumUnfold ==
    ASSUME NEW f, NEW S
    PROVE  SumFunctionOnSet(f, S) = (CHOOSE g : IsSum(f, g, S))[S]
  BY DEF SumFunctionOnSet, FoldFunctionOnSet, MapThenFoldSet, IsSum, El

\* Of some subsets of a finite set, one has none of the others in it.
LEMMA SmallestSet ==
    ASSUME NEW S, IsFiniteSet(S), NEW Bad \in SUBSET (SUBSET S), Bad # {}
    PROVE  \E T \in Bad : IsFiniteSet(T) /\ \A U \in Bad : U \subseteq T => U = T
  <1>1. FiniteSubsetsOf(S) = SUBSET S
    BY FS_FiniteSubsetsOfFinite
  <1>2. IsWellFoundedOn(StrictSubsetOrdering(S), SUBSET S)
    BY <1>1, FS_StrictSubsetOrderingWellFounded
  <1>3. PICK T \in Bad : \A U \in Bad : <<U, T>> \notin StrictSubsetOrdering(S)
    BY <1>2, WFMin
  <1>4. ASSUME NEW U \in Bad, U \subseteq T PROVE U = T
    BY <1>3, <1>4 DEF StrictSubsetOrdering
  <1>5. IsFiniteSet(T)
    BY FS_Subset
  <1>6. QED
    BY <1>4, <1>5

LEMMA ElIn ==
    ASSUME NEW T, T # {}
    PROVE  El(T) \in T /\ T \ {El(T)} \subseteq T /\ T \ {El(T)} # T
  BY DEF El

LEMMA SumUnique ==
    ASSUME NEW f, NEW S, IsFiniteSet(S), NEW g, NEW h,
           IsSum(f, g, S), IsSum(f, h, S)
    PROVE  \A T \in SUBSET S : g[T] = h[T]
  <1>. DEFINE Bad == {T \in SUBSET S : g[T] # h[T]}
  <1>1. SUFFICES ASSUME Bad # {} PROVE FALSE
    OBVIOUS
  <1>2. PICK T \in Bad : \A U \in Bad : U \subseteq T => U = T
    <2>1. Bad \in SUBSET (SUBSET S)
      OBVIOUS
    <2>. HIDE DEF Bad
    <2>2. QED
      BY <1>1, <2>1, SmallestSet
  <1>3. CASE T = {}
    BY <1>3 DEF IsSum
  <1>4. CASE T # {}
    <2>. DEFINE V == T \ {El(T)}
    <2>1. V \in SUBSET S /\ g[V] = h[V]
      BY <1>2, <1>4, ElIn
    <2>2. g[T] = f[El(T)] + g[V] /\ h[T] = f[El(T)] + h[V]
      BY <1>4 DEF IsSum
    <2>3. QED
      BY <2>1, <2>2
  <1>5. QED
    BY <1>3, <1>4

LEMMA SumRestricts ==
    ASSUME NEW f, NEW S, NEW V \in SUBSET S, NEW g, IsSum(f, g, S)
    PROVE  IsSum(f, [T \in SUBSET V |-> g[T]], V)
  <1>. DEFINE h == [T \in SUBSET V |-> g[T]]
  <1>1. ASSUME NEW T \in SUBSET V
        PROVE  h[T] = IF T = {} THEN 0 ELSE f[El(T)] + h[T \ {El(T)}]
    <2>1. g[T] = IF T = {} THEN 0 ELSE f[El(T)] + g[T \ {El(T)}]
      BY DEF IsSum
    <2>2. T \ {El(T)} \in SUBSET V
      OBVIOUS
    <2>3. QED
      BY <2>1, <2>2
  <1>. HIDE DEF h
  <1>2. h = [T \in SUBSET V |-> h[T]]
    BY DEF h
  <1>3. h = [T \in SUBSET V |-> IF T = {} THEN 0 ELSE f[El(T)] + h[T \ {El(T)}]]
    BY <1>1, <1>2
  <1>4. IsSum(f, h, V)
    BY <1>3 DEF IsSum
  <1>5. QED
    BY <1>4 DEF h

\* The function that the fold is defined by exists.
LEMMA SumExists ==
    ASSUME NEW f, NEW S, IsFiniteSet(S)
    PROVE  \E g : IsSum(f, g, S)
  <1>. DEFINE Bad == {T \in SUBSET S : ~\E g : IsSum(f, g, T)}
              G(T) == CHOOSE g : IsSum(f, g, T)
  <1>1. SUFFICES ASSUME Bad # {} PROVE FALSE
    OBVIOUS
  <1>2. PICK T \in Bad : IsFiniteSet(T) /\ \A U \in Bad : U \subseteq T => U = T
    <2>1. Bad \in SUBSET (SUBSET S)
      OBVIOUS
    <2>. HIDE DEF Bad
    <2>2. QED
      BY <1>1, <2>1, SmallestSet
  <1>3. \A U \in SUBSET T : U # T => IsSum(f, G(U), U)
    <2>1. \A U \in SUBSET T : U # T => \E g : IsSum(f, g, U)
      BY <1>2
    <2>2. QED
      BY <2>1
  <1>. DEFINE V == T \ {El(T)}
              h == [U \in SUBSET T |->
                      IF U = T THEN IF T = {} THEN 0 ELSE f[El(T)] + G(V)[V]
                               ELSE G(U)[U]]
  <1>. HIDE DEF G
  <1>4. ASSUME NEW U \in SUBSET T
        PROVE  h[U] = IF U = {} THEN 0 ELSE f[El(U)] + h[U \ {El(U)}]
    <2>1. CASE U = T /\ T = {}
      BY <2>1
    <2>2. CASE U = T /\ T # {}
      <3>1. V \in SUBSET T /\ V # T
        BY <2>2, ElIn
      <3>2. h[V] = G(V)[V]
        BY <3>1
      <3>3. QED
        BY <2>2, <3>2
    <2>3. CASE U # T
      <3>1. IsSum(f, G(U), U) /\ h[U] = G(U)[U]
        BY <1>3, <2>3
      <3>2. CASE U = {}
        BY <3>1, <3>2 DEF IsSum
      <3>3. CASE U # {}
        <4>. DEFINE W == U \ {El(U)}
        <4>1. W \in SUBSET U /\ W \in SUBSET T /\ W # T
          BY <2>3
        <4>2. G(U)[U] = f[El(U)] + G(U)[W]
          BY <3>1, <3>3 DEF IsSum
        <4>3. IsSum(f, [X \in SUBSET W |-> G(U)[X]], W)
          BY <3>1, <4>1, SumRestricts
        <4>4. IsSum(f, G(W), W) /\ IsFiniteSet(W)
          BY <1>2, <1>3, <4>1, FS_Subset
        <4>5. \A X \in SUBSET W : [Y \in SUBSET W |-> G(U)[Y]][X] = G(W)[X]
          BY <4>3, <4>4, SumUnique
        <4>6. G(U)[W] = G(W)[W]
          BY <4>5
        <4>7. h[W] = G(W)[W]
          BY <4>1
        <4>8. QED
          BY <3>1, <3>3, <4>2, <4>6, <4>7
      <3>4. QED
        BY <3>2, <3>3
    <2>4. QED
      BY <2>1, <2>2, <2>3
  <1>. HIDE DEF h
  <1>5. h = [U \in SUBSET T |-> h[U]]
    BY DEF h
  <1>6. h = [U \in SUBSET T |-> IF U = {} THEN 0 ELSE f[El(U)] + h[U \ {El(U)}]]
    BY <1>4, <1>5
  <1>7. IsSum(f, h, T)
    BY <1>6 DEF IsSum
  <1>8. QED
    BY <1>2, <1>7

LEMMA SumEmpty ==
    ASSUME NEW f
    PROVE  SumFunctionOnSet(f, {}) = 0
  <1>1. \E g : IsSum(f, g, {})
    BY SumExists, FS_EmptySet
  <1>2. PICK g : g = CHOOSE h : IsSum(f, h, {})
    OBVIOUS
  <1>3. IsSum(f, g, {})
    BY <1>1, <1>2
  <1>4. g[{}] = 0
    BY <1>3 DEF IsSum
  <1>5. QED
    BY <1>2, <1>4, SumUnfold

\* The sum takes out one element after the other.
LEMMA SumTakes ==
    ASSUME NEW f, NEW S, IsFiniteSet(S), S # {}
    PROVE  SumFunctionOnSet(f, S)
             = f[El(S)] + SumFunctionOnSet(f, S \ {El(S)})
  <1>. DEFINE V == S \ {El(S)}
  <1>1. /\ V \in SUBSET S /\ IsFiniteSet(V)
    BY FS_Subset
  <1>2. PICK g : g = CHOOSE h : IsSum(f, h, S)
    OBVIOUS
  <1>3. IsSum(f, g, S)
    BY <1>2, SumExists
  <1>4. PICK h : h = CHOOSE k : IsSum(f, k, V)
    OBVIOUS
  <1>5. IsSum(f, h, V)
    BY <1>1, <1>4, SumExists
  <1>6. IsSum(f, [T \in SUBSET V |-> g[T]], V)
    BY <1>1, <1>3, SumRestricts
  <1>7. g[V] = h[V]
    <2>1. \A T \in SUBSET V : [U \in SUBSET V |-> g[U]][T] = h[T]
      BY <1>1, <1>5, <1>6, SumUnique
    <2>2. QED
      BY <2>1
  <1>8. g[S] = f[El(S)] + g[V]
    BY <1>3 DEF IsSum
  <1>9. SumFunctionOnSet(f, S) = g[S] /\ SumFunctionOnSet(f, V) = h[V]
    BY <1>2, <1>4, SumUnfold
  <1>10. QED
    BY <1>7, <1>8, <1>9

LEMMA SumType ==
    ASSUME NEW f, NEW S, IsFiniteSet(S), \A x \in S : f[x] \in Int
    PROVE  SumFunctionOnSet(f, S) \in Int
  <1>. DEFINE Bad == {T \in SUBSET S : SumFunctionOnSet(f, T) \notin Int}
  <1>1. SUFFICES ASSUME Bad # {} PROVE FALSE
    OBVIOUS
  <1>2. PICK T \in Bad : IsFiniteSet(T) /\ \A U \in Bad : U \subseteq T => U = T
    <2>1. Bad \in SUBSET (SUBSET S)
      OBVIOUS
    <2>. HIDE DEF Bad
    <2>2. QED
      BY <1>1, <2>1, SmallestSet
  <1>3. T # {}
    <2>1. SumFunctionOnSet(f, {}) \in Int
      BY SumEmpty
    <2>2. QED
      BY <1>2, <2>1
  <1>4. T \ {El(T)} \in SUBSET S /\ SumFunctionOnSet(f, T \ {El(T)}) \in Int
    BY <1>2, <1>3, ElIn
  <1>5. El(T) \in S
    BY <1>3, ElIn
  <1>6. QED
    BY <1>2, <1>3, <1>4, <1>5, SumTakes

\* So in any order.
LEMMA SumRemove ==
    ASSUME NEW f, NEW S, IsFiniteSet(S), \A x \in S : f[x] \in Int, NEW a \in S
    PROVE  SumFunctionOnSet(f, S) = f[a] + SumFunctionOnSet(f, S \ {a})
  <1>. DEFINE Sum(T) == SumFunctionOnSet(f, T)
              Bad == {T \in SUBSET S : \E x \in T : Sum(T) # f[x] + Sum(T \ {x})}
  <1>1. SUFFICES ASSUME Bad # {} PROVE FALSE
    OBVIOUS
  <1>2. PICK T \in Bad : IsFiniteSet(T) /\ \A U \in Bad : U \subseteq T => U = T
    <2>1. Bad \in SUBSET (SUBSET S)
      OBVIOUS
    <2>. HIDE DEF Bad
    <2>2. QED
      BY <1>1, <2>1, SmallestSet
  <1>3. PICK x \in T : Sum(T) # f[x] + Sum(T \ {x})
    BY <1>2
  <1>c. PICK c : c = El(T)
    OBVIOUS
  <1>4. c \in T /\ Sum(T) = f[c] + Sum(T \ {c})
    BY <1>c, <1>2, <1>3, ElIn, SumTakes
  <1>5. c # x
    BY <1>3, <1>4
  <1>6. \A U \in SUBSET T : U # T => \A y \in U : Sum(U) = f[y] + Sum(U \ {y})
    BY <1>2
  <1>7. Sum(T \ {c}) = f[x] + Sum((T \ {c}) \ {x})
    BY <1>4, <1>5, <1>6
  <1>8. Sum(T \ {x}) = f[c] + Sum((T \ {x}) \ {c})
    BY <1>4, <1>5, <1>6
  <1>9. (T \ {c}) \ {x} = (T \ {x}) \ {c}
    OBVIOUS
  <1>10. f[x] \in Int /\ f[c] \in Int /\ Sum((T \ {x}) \ {c}) \in Int
    <2>1. IsFiniteSet((T \ {x}) \ {c})
      BY <1>2, FS_Subset
    <2>2. \A y \in (T \ {x}) \ {c} : f[y] \in Int
      OBVIOUS
    <2>3. QED
      BY <1>4, <2>1, <2>2, SumType
  <1>11. Sum((T \ {c}) \ {x}) = Sum((T \ {x}) \ {c})
    BY <1>9
  <1>. HIDE DEF Sum
  <1>12. QED
    BY <1>3, <1>4, <1>7, <1>8, <1>10, <1>11

LEMMA SumAdds ==
    ASSUME NEW f, NEW S, IsFiniteSet(S), NEW a, a \notin S,
           \A x \in S \cup {a} : f[x] \in Int
    PROVE  SumFunctionOnSet(f, S \cup {a}) = f[a] + SumFunctionOnSet(f, S)
  <1>1. IsFiniteSet(S \cup {a})
    BY FS_AddElement
  <1>2. (S \cup {a}) \ {a} = S
    OBVIOUS
  <1>3. SumFunctionOnSet(f, S \cup {a})
          = f[a] + SumFunctionOnSet(f, (S \cup {a}) \ {a})
    BY <1>1, SumRemove
  <1>4. QED
    BY <1>2, <1>3

\* Only the values on the set count.
LEMMA SumSame ==
    ASSUME NEW f, NEW g, NEW S, IsFiniteSet(S), \A x \in S : f[x] = g[x]
    PROVE  SumFunctionOnSet(f, S) = SumFunctionOnSet(g, S)
  <1>. DEFINE Bad == {T \in SUBSET S :
                        SumFunctionOnSet(f, T) # SumFunctionOnSet(g, T)}
  <1>1. SUFFICES ASSUME Bad # {} PROVE FALSE
    OBVIOUS
  <1>2. PICK T \in Bad : IsFiniteSet(T) /\ \A U \in Bad : U \subseteq T => U = T
    <2>1. Bad \in SUBSET (SUBSET S)
      OBVIOUS
    <2>. HIDE DEF Bad
    <2>2. QED
      BY <1>1, <2>1, SmallestSet
  <1>3. T # {}
    BY <1>2, SumEmpty
  <1>4. /\ T \ {El(T)} \in SUBSET S
        /\ SumFunctionOnSet(f, T \ {El(T)}) = SumFunctionOnSet(g, T \ {El(T)})
    BY <1>2, <1>3, ElIn
  <1>5. El(T) \in S
    BY <1>3, ElIn
  <1>6. /\ SumFunctionOnSet(f, T) = f[El(T)] + SumFunctionOnSet(f, T \ {El(T)})
        /\ SumFunctionOnSet(g, T) = g[El(T)] + SumFunctionOnSet(g, T \ {El(T)})
    BY <1>2, <1>3, SumTakes
  <1>7. QED
    BY <1>2, <1>4, <1>5, <1>6

LEMMA SumUnion ==
    ASSUME NEW f, NEW S, IsFiniteSet(S), NEW R, IsFiniteSet(R), S \cap R = {},
           \A x \in S \cup R : f[x] \in Int
    PROVE  SumFunctionOnSet(f, S \cup R)
             = SumFunctionOnSet(f, S) + SumFunctionOnSet(f, R)
  <1>. DEFINE Sum(T) == SumFunctionOnSet(f, T)
              Bad == {T \in SUBSET S : Sum(T \cup R) # Sum(T) + Sum(R)}
  <1>1. SUFFICES ASSUME Bad # {} PROVE FALSE
    OBVIOUS
  <1>2. PICK T \in Bad : IsFiniteSet(T) /\ \A U \in Bad : U \subseteq T => U = T
    <2>1. Bad \in SUBSET (SUBSET S)
      OBVIOUS
    <2>. HIDE DEF Bad
    <2>2. QED
      BY <1>1, <2>1, SmallestSet
  <1>0. Sum(R) \in Int
    BY SumType
  <1>3. T # {}
    <2>1. SUFFICES ASSUME T = {} PROVE FALSE
      OBVIOUS
    <2>2. Sum(T) = 0 /\ T \cup R = R
      BY <2>1, SumEmpty
    <2>3. Sum(T \cup R) = Sum(R)
      BY <2>2
    <2>4. Sum(T \cup R) # Sum(T) + Sum(R)
      BY <1>2
    <2>. HIDE DEF Sum
    <2>5. QED
      BY <1>0, <2>2, <2>3, <2>4
  <1>c. PICK c \in T : TRUE
    BY <1>3
  <1>. DEFINE V == T \ {c}
  <1>4. V \in SUBSET S /\ IsFiniteSet(V)
    BY <1>2, FS_Subset
  <1>5. Sum(V \cup R) = Sum(V) + Sum(R)
    BY <1>2, <1>4, <1>c
  <1>6. Sum(T) = f[c] + Sum(V)
    BY <1>2, SumRemove
  <1>7. Sum(T \cup R) = f[c] + Sum(V \cup R)
    <2>1. IsFiniteSet(V \cup R)
      BY <1>4, FS_Union
    <2>2. c \notin V \cup R /\ T \cup R = (V \cup R) \cup {c}
      OBVIOUS
    <2>3. \A x \in (V \cup R) \cup {c} : f[x] \in Int
      OBVIOUS
    <2>4. Sum((V \cup R) \cup {c}) = f[c] + Sum(V \cup R)
      BY <2>1, <2>2, <2>3, SumAdds
    <2>5. QED
      BY <2>2, <2>4
  <1>8. f[c] \in Int /\ Sum(V) \in Int
    BY <1>4, SumType
  <1>9. QED
    BY <1>0, <1>2, <1>5, <1>6, <1>7, <1>8

LEMMA SumCardinality ==
    ASSUME NEW f, NEW S, IsFiniteSet(S), \A x \in S : f[x] = 1
    PROVE  SumFunctionOnSet(f, S) = Cardinality(S)
  <1>. DEFINE Bad == {T \in SUBSET S : SumFunctionOnSet(f, T) # Cardinality(T)}
  <1>1. SUFFICES ASSUME Bad # {} PROVE FALSE
    OBVIOUS
  <1>2. PICK T \in Bad : IsFiniteSet(T) /\ \A U \in Bad : U \subseteq T => U = T
    <2>1. Bad \in SUBSET (SUBSET S)
      OBVIOUS
    <2>. HIDE DEF Bad
    <2>2. QED
      BY <1>1, <2>1, SmallestSet
  <1>3. T # {}
    <2>1. SumFunctionOnSet(f, {}) = 0 /\ Cardinality({}) = 0
      BY SumEmpty, FS_EmptySet
    <2>2. QED
      BY <1>2, <2>1
  <1>c. PICK c \in T : TRUE
    BY <1>3
  <1>4. T \ {c} \in SUBSET S /\ SumFunctionOnSet(f, T \ {c}) = Cardinality(T \ {c})
    BY <1>2, <1>c
  <1>5. SumFunctionOnSet(f, T) = 1 + SumFunctionOnSet(f, T \ {c})
    <2>1. c \in S /\ \A x \in T : f[x] \in Int
      OBVIOUS
    <2>2. SumFunctionOnSet(f, T) = f[c] + SumFunctionOnSet(f, T \ {c})
      BY <1>2, <2>1, SumRemove
    <2>3. QED
      BY <2>1, <2>2
  <1>6. Cardinality(T \ {c}) = Cardinality(T) - 1 /\ Cardinality(T) \in Nat
    BY <1>2, FS_RemoveElement, FS_CardinalityType
  <1>7. QED
    BY <1>2, <1>4, <1>5, <1>6

\* The sum over the parts of a set is the sum over the set.
LEMMA SumPartition ==
    ASSUME NEW f, NEW S, IsFiniteSet(S), \A x \in S : f[x] \in Int,
           NEW L, IsFiniteSet(L), NEW b, \A x \in S : b[x] \in L,
           NEW part, \A l \in L : part[l] \in SUBSET S,
           \A x \in S : \A l \in L : x \in part[l] <=> b[x] = l,
           NEW g, \A l \in L : g[l] = SumFunctionOnSet(f, part[l])
    PROVE  SumFunctionOnSet(g, L) = SumFunctionOnSet(f, S)
  <1>. DEFINE Part(T) == {x \in S : b[x] \in T}
              Bad == {T \in SUBSET L :
                        SumFunctionOnSet(g, T) # SumFunctionOnSet(f, Part(T))}
  <1>p. ASSUME NEW l \in L
        PROVE  g[l] = SumFunctionOnSet(f, {x \in S : b[x] = l})
    <2>1. part[l] = {x \in S : b[x] = l}
      OBVIOUS
    <2>2. QED
      BY <2>1
  <1>1. SUFFICES ASSUME Bad # {} PROVE FALSE
    <2>1. L \in SUBSET L /\ Part(L) = S
      OBVIOUS
    <2>2. L \notin Bad => SumFunctionOnSet(g, L) = SumFunctionOnSet(f, Part(L))
      BY <2>1
    <2>3. QED
      BY <2>1, <2>2
  <1>2. PICK T \in Bad : IsFiniteSet(T) /\ \A U \in Bad : U \subseteq T => U = T
    <2>1. Bad \in SUBSET (SUBSET L)
      OBVIOUS
    <2>. HIDE DEF Bad
    <2>2. QED
      BY <1>1, <2>1, SmallestSet
  <1>3. T # {}
    <2>1. SUFFICES ASSUME T = {} PROVE FALSE
      OBVIOUS
    <2>2. Part(T) = {}
      BY <2>1
    <2>3. SumFunctionOnSet(g, T) = 0 /\ SumFunctionOnSet(f, Part(T)) = 0
      BY <2>1, <2>2, SumEmpty
    <2>4. QED
      BY <1>2, <2>3
  <1>c. PICK c \in T : TRUE
    BY <1>3
  <1>. DEFINE V == T \ {c}
              R == {x \in S : b[x] = c}
  <1>4. V \in SUBSET L /\ SumFunctionOnSet(g, V) = SumFunctionOnSet(f, Part(V))
    BY <1>2, <1>c
  <1>5. /\ IsFiniteSet(Part(V)) /\ IsFiniteSet(R)
        /\ \A U \in SUBSET S : SumFunctionOnSet(f, U) \in Int
    <2>1. \A U \in SUBSET S : IsFiniteSet(U) /\ \A x \in U : f[x] \in Int
      BY FS_Subset
    <2>2. ASSUME NEW U \in SUBSET S PROVE SumFunctionOnSet(f, U) \in Int
      BY <2>1, SumType
    <2>3. Part(V) \in SUBSET S /\ R \in SUBSET S
      OBVIOUS
    <2>4. QED
      BY <2>1, <2>2, <2>3
  <1>6. Part(T) = Part(V) \cup R /\ Part(V) \cap R = {}
    OBVIOUS
  <1>7. SumFunctionOnSet(f, Part(V) \cup R)
          = SumFunctionOnSet(f, Part(V)) + SumFunctionOnSet(f, R)
    <2>1. \A x \in Part(V) \cup R : f[x] \in Int
      OBVIOUS
    <2>2. IsFiniteSet(Part(V)) /\ IsFiniteSet(R) /\ Part(V) \cap R = {}
      BY <1>5, <1>6
    <2>3. PICK P, Q : P = Part(V) /\ Q = R
      OBVIOUS
    <2>. HIDE DEF Part, R
    <2>4. /\ IsFiniteSet(P) /\ IsFiniteSet(Q) /\ P \cap Q = {}
          /\ \A x \in P \cup Q : f[x] \in Int
      BY <2>1, <2>2, <2>3
    <2>5. SumFunctionOnSet(f, P \cup Q) = SumFunctionOnSet(f, P) + SumFunctionOnSet(f, Q)
      BY ONLY <2>4, SumUnion
    <2>6. QED
      BY <2>3, <2>5
  <1>8. SumFunctionOnSet(g, T) = g[c] + SumFunctionOnSet(g, V)
    <2>1. \A l \in T : g[l] \in Int
      <3>1. ASSUME NEW l \in T PROVE g[l] \in Int
        <4>1. {x \in S : b[x] = l} \in SUBSET S
          OBVIOUS
        <4>2. g[l] = SumFunctionOnSet(f, {x \in S : b[x] = l})
          BY <1>2, <1>p
        <4>3. QED
          BY <1>5, <4>1, <4>2
      <3>2. QED
        BY <3>1
    <2>2. QED
      BY <1>2, <2>1, SumRemove
  <1>9. g[c] = SumFunctionOnSet(f, R)
    BY <1>2, <1>c, <1>p
  <1>10. SumFunctionOnSet(f, Part(V)) \in Int /\ SumFunctionOnSet(f, R) \in Int
    <2>1. Part(V) \in SUBSET S /\ R \in SUBSET S
      OBVIOUS
    <2>. HIDE DEF Part, R
    <2>2. QED
      BY <1>5, <2>1
  <1>11. SumFunctionOnSet(g, T) # SumFunctionOnSet(f, Part(T))
    BY <1>2
  <1>. HIDE DEF Part, R, V
  <1>12. QED
    BY <1>4, <1>6, <1>7, <1>8, <1>9, <1>10, <1>11

LEMMA SumPlus ==
    ASSUME NEW f, NEW g, NEW h, NEW S, IsFiniteSet(S),
           \A x \in S : f[x] \in Int /\ g[x] \in Int /\ h[x] = f[x] + g[x]
    PROVE  SumFunctionOnSet(h, S)
             = SumFunctionOnSet(f, S) + SumFunctionOnSet(g, S)
  <1>. DEFINE F(T) == SumFunctionOnSet(f, T)
              G(T) == SumFunctionOnSet(g, T)
              H(T) == SumFunctionOnSet(h, T)
              Bad == {T \in SUBSET S : H(T) # F(T) + G(T)}
  <1>1. SUFFICES ASSUME Bad # {} PROVE FALSE
    OBVIOUS
  <1>2. PICK T \in Bad : IsFiniteSet(T) /\ \A U \in Bad : U \subseteq T => U = T
    <2>1. Bad \in SUBSET (SUBSET S)
      OBVIOUS
    <2>. HIDE DEF Bad
    <2>2. QED
      BY <1>1, <2>1, SmallestSet
  <1>3. T # {}
    <2>1. SUFFICES ASSUME T = {} PROVE FALSE
      OBVIOUS
    <2>2. F(T) = 0 /\ G(T) = 0 /\ H(T) = 0
      BY <2>1, SumEmpty
    <2>3. H(T) # F(T) + G(T)
      BY <1>2
    <2>. HIDE DEF F, G, H
    <2>4. QED
      BY <2>2, <2>3
  <1>c. PICK c \in T : TRUE
    BY <1>3
  <1>4. T \ {c} \in SUBSET S /\ H(T \ {c}) = F(T \ {c}) + G(T \ {c})
    BY <1>2, <1>c
  <1>5. /\ F(T) = f[c] + F(T \ {c})
        /\ G(T) = g[c] + G(T \ {c})
        /\ H(T) = h[c] + H(T \ {c})
    <2>1. \A x \in T : f[x] \in Int /\ g[x] \in Int /\ h[x] \in Int
      OBVIOUS
    <2>2. QED
      BY <1>2, <2>1, SumRemove
  <1>6. F(T \ {c}) \in Int /\ G(T \ {c}) \in Int
    <2>1. IsFiniteSet(T \ {c}) /\ \A x \in T \ {c} : f[x] \in Int /\ g[x] \in Int
      BY <1>4, FS_Subset
    <2>2. QED
      BY <2>1, SumType
  <1>7. H(T) # F(T) + G(T) /\ f[c] \in Int /\ g[c] \in Int /\ h[c] = f[c] + g[c]
    BY <1>2
  <1>. HIDE DEF F, G, H
  <1>8. QED
    BY <1>4, <1>5, <1>6, <1>7

LEMMA SumNat ==
    ASSUME NEW f, NEW S, IsFiniteSet(S), \A x \in S : f[x] \in Nat
    PROVE  SumFunctionOnSet(f, S) \in Nat
  <1>. DEFINE Bad == {T \in SUBSET S : SumFunctionOnSet(f, T) \notin Nat}
  <1>1. SUFFICES ASSUME Bad # {} PROVE FALSE
    OBVIOUS
  <1>2. PICK T \in Bad : IsFiniteSet(T) /\ \A U \in Bad : U \subseteq T => U = T
    <2>1. Bad \in SUBSET (SUBSET S)
      OBVIOUS
    <2>. HIDE DEF Bad
    <2>2. QED
      BY <1>1, <2>1, SmallestSet
  <1>3. T # {}
    <2>1. SumFunctionOnSet(f, {}) \in Nat
      BY SumEmpty
    <2>2. QED
      BY <1>2, <2>1
  <1>4. T \ {El(T)} \in SUBSET S /\ SumFunctionOnSet(f, T \ {El(T)}) \in Nat
    BY <1>2, <1>3, ElIn
  <1>5. El(T) \in S
    BY <1>3, ElIn
  <1>6. QED
    BY <1>2, <1>3, <1>4, <1>5, SumTakes

\* A part of natural numbers adds up to no more than the whole.
LEMMA SumOfPart ==
    ASSUME NEW f, NEW S, IsFiniteSet(S), \A x \in S : f[x] \in Nat,
           NEW T \in SUBSET S
    PROVE  SumFunctionOnSet(f, T) <= SumFunctionOnSet(f, S)
  <1>1. IsFiniteSet(T) /\ IsFiniteSet(S \ T) /\ S = T \cup (S \ T)
    BY FS_Subset
  <1>2. \A x \in T \cup (S \ T) : f[x] \in Int
    OBVIOUS
  <1>3. SumFunctionOnSet(f, T \cup (S \ T))
          = SumFunctionOnSet(f, T) + SumFunctionOnSet(f, S \ T)
    BY <1>1, <1>2, SumUnion
  <1>4. SumFunctionOnSet(f, T) \in Nat /\ SumFunctionOnSet(f, S \ T) \in Nat
    BY <1>1, SumNat
  <1>5. SumFunctionOnSet(f, S)
          = SumFunctionOnSet(f, T) + SumFunctionOnSet(f, S \ T)
    BY <1>1, <1>3
  <1>6. QED
    BY <1>4, <1>5

-----------------------------------------------------------------------------
(* Addresses: the inductive invariant *)

\* DefaultMoves is about the step that commits, so the proof has to know what
\* the request has cleared by then.  A customer who waits for each answer has one
\* request under way; nothing else touches the rows, so the default that the
\* request has found is the default there is, and so is the one that its UPDATE
\* has cleared (RequestSound).

OneRequest ==
    unhurried => \A s, t \in Sessions :
                    addrReq[s] # Idle /\ addrReq[t] # Idle => s = t

\* What a request may be, with the default rows ds.
Sound(w, ds) ==
    /\ w.at = "clear" => w.set = "default"
    /\ w.at = "delete" => w.set = "same"
    /\ w.at = "insert" \/ (w.at = "clear" /\ w.then = "insert")
         => w.set \in {"plain", "default"}
    /\ w.set # "default" => w.cleared = {}
    /\ unhurried /\ w.at = "clear" => w.finds = ds
    /\ unhurried /\ w.set = "default" /\ w.at # "clear" => w.cleared = ds

RequestSound == \A s \in Sessions : addrReq[s] # Idle => Sound(addrReq[s], Defaults)

AddrInv == AddrTypeOK /\ OneRequest /\ RequestSound

-----------------------------------------------------------------------------
(* Addresses: the steps *)

\* A request record is not Idle.
LEMMA RequestNotIdle ==
    ASSUME NEW w \in AddrRequest
    PROVE  w # Idle
  BY DEF AddrRequest, Idle

LEMMA InitHolds == AddrInit => AddrInv
  BY DEF AddrInit, AddrInv, AddrTypeOK, OneRequest, RequestSound

\* A request begins: it is sound if what it finds is right.
LEMMA RequestKept ==
    ASSUME AddrInv, NEW s \in Sessions, NEW a \in Addrs,
           NEW at \in {"clear", "insert", "write", "delete"},
           NEW then \in {"insert", "write"},
           NEW set \in {"plain", "default", "same"},
           NEW finds \in SUBSET Addrs,
           Request(s, a, at, then, set, finds),
           at = "clear" => finds = Defaults,
           at = "clear" <=> set = "default",
           at = "delete" => set = "same",
           at = "insert" => set = "plain"
    PROVE  AddrInv' /\ address' = address
  <1> DEFINE w == [at |-> at, then |-> then, addr |-> a, set |-> set,
                   finds |-> finds, cleared |-> {}]
  <1>1. w \in AddrRequest
    BY DEF AddrRequest
  <1>2. /\ addrReq' = [addrReq EXCEPT ![s] = w]
        /\ address' = address /\ unhurried' = unhurried
        /\ unhurried => \A t \in Sessions : addrReq[t] = Idle
    BY DEF Request
  <1>3. AddrTypeOK'
    BY <1>1, <1>2 DEF AddrInv, AddrTypeOK
  <1>4. Defaults' = Defaults
    BY <1>2 DEF Defaults
  <1>5. OneRequest'
    BY <1>2 DEF AddrInv, AddrTypeOK, OneRequest
  <1>6. Sound(w, Defaults)'
    BY <1>2, <1>4 DEF Sound
  <1>7. ASSUME NEW t \in Sessions, addrReq'[t] # Idle
        PROVE  Sound(addrReq[t], Defaults)'
    <2>1. CASE t = s
      BY <2>1, <1>2, <1>6 DEF AddrInv, AddrTypeOK
    <2>2. CASE t # s
      <3>1. addrReq'[t] = addrReq[t] /\ addrReq[t] # Idle
        BY <2>2, <1>2, <1>7 DEF AddrInv, AddrTypeOK
      <3>2. Sound(addrReq[t], Defaults)
        BY <3>1 DEF AddrInv, RequestSound
      <3>3. QED
        BY <3>1, <3>2, <1>2, <1>4 DEF Sound
    <2>3. QED
      BY <2>1, <2>2
  <1>8. QED
    BY <1>2, <1>3, <1>5, <1>7 DEF AddrInv, RequestSound

\* What a commit leaves of the default rows.
LEMMA CommitFacts ==
    ASSUME AddrInv, NEW s \in Sessions, CommitAddress(s)
    PROVE  LET w == addrReq[s]
           IN  /\ w \in AddrRequest /\ Sound(w, Defaults)
               /\ address' \in [Addrs -> {"none", "plain", "default"}]
               /\ unhurried => IF w.set = "default" THEN Defaults' = {w.addr}
                               ELSE Defaults' \in {Defaults, Defaults \ {w.addr}}
  <1> DEFINE w == addrReq[s]
             a == w.addr
  <1>1. w \in AddrRequest /\ Sound(w, Defaults) /\ w.at # "clear"
    BY DEF CommitAddress, AddrInv, AddrTypeOK, RequestSound
  <1>2. a \in Addrs /\ w.set \in {"plain", "default", "same"}
    BY <1>1 DEF AddrRequest
  <1>3. address \in [Addrs -> {"none", "plain", "default"}]
    BY DEF AddrInv, AddrTypeOK
  <1>4. Cleared(w) \in [Addrs -> {"none", "plain", "default"}]
    BY <1>3 DEF Cleared
  <1>5. CASE w.set = "default"
    <2>1. w.at # "delete"
      BY <1>1, <1>5 DEF Sound
    <2>2. address' = [Cleared(w) EXCEPT ![a] = "default"]
      BY <1>5, <2>1 DEF CommitAddress
    <2>3. address' \in [Addrs -> {"none", "plain", "default"}]
      BY <2>2, <1>4
    <2>4. unhurried => \A b \in Addrs : Cleared(w)[b] # "default"
      BY <1>1, <1>5 DEF Sound, Cleared, Defaults
    <2>5. unhurried => Defaults' = {a}
      BY <2>2, <2>4, <1>2, <1>4 DEF Defaults
    <2>6. QED
      BY <1>1, <1>5, <2>3, <2>5
  <1>6. CASE w.set # "default"
    <2>1. w.cleared = {} /\ Cleared(w) = address
      BY <1>1, <1>3, <1>6 DEF Sound, Cleared
    <2>2. \/ address' = address
          \/ \E v \in {"none", "plain"} : address' = [address EXCEPT ![a] = v]
      BY <1>1, <1>2, <1>3, <1>6, <2>1 DEF CommitAddress, Sound, AddrRequest
    <2>3. address' \in [Addrs -> {"none", "plain", "default"}]
      BY <2>2, <1>3
    <2>4. Defaults' \in {Defaults, Defaults \ {a}}
      BY <2>2, <1>2, <1>3 DEF Defaults
    <2>5. QED
      BY <1>1, <1>6, <2>3, <2>4
  <1>7. QED
    BY <1>5, <1>6

LEMMA CommitKept ==
    ASSUME AddrInv, NEW s \in Sessions, CommitAddress(s)
    PROVE  AddrInv'
  <1>1. /\ addrReq' = [addrReq EXCEPT ![s] = Idle] /\ unhurried' = unhurried
        /\ addrReq[s] # Idle
    BY DEF CommitAddress, Ends
  <1>2. AddrTypeOK'
    BY <1>1, CommitFacts DEF AddrInv, AddrTypeOK
  <1>3. OneRequest'
    BY <1>1 DEF AddrInv, AddrTypeOK, OneRequest
  <1>4. ASSUME NEW t \in Sessions, addrReq'[t] # Idle
        PROVE  Sound(addrReq[t], Defaults)'
    <2>1. t # s /\ addrReq'[t] = addrReq[t] /\ addrReq[t] # Idle
      BY <1>1, <1>4 DEF AddrInv, AddrTypeOK
    <2>2. ~unhurried
      BY <2>1, <1>1 DEF AddrInv, OneRequest
    <2>3. Sound(addrReq[t], Defaults)
      BY <2>1 DEF AddrInv, RequestSound
    <2>4. QED
      BY <2>1, <2>2, <2>3, <1>1 DEF Sound
  <1>5. QED
    BY <1>2, <1>3, <1>4 DEF AddrInv, RequestSound

LEMMA ClearKept ==
    ASSUME AddrInv, NEW s \in Sessions, ClearDefault(s)
    PROVE  AddrInv' /\ address' = address
  <1> DEFINE w == addrReq[s]
             v == [w EXCEPT !.at = w.then, !.finds = {}, !.cleared = w.finds \cap Defaults]
  <1>1. /\ w # Idle /\ w.at = "clear" /\ w \in AddrRequest
        /\ Sound(w, Defaults)
        /\ address' = address /\ unhurried' = unhurried
    BY DEF ClearDefault, AddrAt, AddrInv, AddrTypeOK, RequestSound
  <1>2. addrReq' = [addrReq EXCEPT ![s] = v]
    BY <1>1 DEF ClearDefault, AddrInv, AddrTypeOK, AddrRequest
  <1>3. v \in AddrRequest
    BY <1>1 DEF AddrRequest, Defaults
  <1>4. Defaults' = Defaults
    BY <1>1 DEF Defaults
  <1>5. Sound(v, Defaults)
    BY <1>1 DEF Sound, AddrRequest
  <1>6. AddrTypeOK'
    BY <1>1, <1>2, <1>3 DEF AddrInv, AddrTypeOK
  <1>7. OneRequest'
    BY <1>1, <1>2 DEF AddrInv, AddrTypeOK, OneRequest
  <1>8. ASSUME NEW t \in Sessions, addrReq'[t] # Idle
        PROVE  Sound(addrReq[t], Defaults)'
    <2>1. CASE t = s
      <3>1. addrReq'[t] = v
        BY <2>1, <1>2 DEF AddrInv, AddrTypeOK
      <3>2. QED
        BY <3>1, <1>1, <1>4, <1>5 DEF Sound
    <2>2. CASE t # s
      <3>1. addrReq'[t] = addrReq[t] /\ addrReq[t] # Idle
        BY <2>2, <1>2, <1>8 DEF AddrInv, AddrTypeOK
      <3>2. Sound(addrReq[t], Defaults)
        BY <3>1 DEF AddrInv, RequestSound
      <3>3. QED
        BY <3>1, <3>2, <1>1, <1>4 DEF Sound
    <2>3. QED
      BY <2>1, <2>2
  <1>9. QED
    BY <1>1, <1>6, <1>7, <1>8 DEF AddrInv, RequestSound

LEMMA FailsKept ==
    ASSUME AddrInv, NEW s \in Sessions, AddrFails(s)
    PROVE  AddrInv' /\ address' = address
  <1>1. /\ addrReq' = [addrReq EXCEPT ![s] = Idle]
        /\ address' = address /\ unhurried' = unhurried
    BY DEF AddrFails, Ends
  <1>2. Defaults' = Defaults
    BY <1>1 DEF Defaults
  <1>3. AddrTypeOK' /\ OneRequest'
    BY <1>1 DEF AddrInv, AddrTypeOK, OneRequest
  <1>4. RequestSound'
    BY <1>1, <1>2 DEF AddrInv, AddrTypeOK, RequestSound, Sound
  <1>5. QED
    BY <1>1, <1>3, <1>4 DEF AddrInv

\* Every other step begins a request.
LEMMA BeginKept ==
    ASSUME AddrInv, NEW s \in Sessions, NEW a \in Addrs,
           \/ \E default \in BOOLEAN : CreateAddress(s, a, default)
           \/ \E set \in {"plain", "default", "same"} : UpdateAddress(s, a, set)
           \/ SetDefault(s, a) \/ DeleteAddress(s, a)
    PROVE  AddrInv' /\ address' = address
  <1> DEFINE Q == AddrInv' /\ address' = address
  <1>1. Defaults \in SUBSET Addrs
    BY DEF Defaults
  <1>2. ASSUME NEW default \in BOOLEAN, CreateAddress(s, a, default) PROVE Q
    BY <1>1, <1>2, RequestKept DEF CreateAddress
  <1>3. ASSUME NEW set \in {"plain", "default", "same"}, UpdateAddress(s, a, set) PROVE Q
    <2>1. CASE set = "default"
      BY <1>1, <1>3, <2>1, RequestKept DEF UpdateAddress
    <2>2. CASE set # "default" /\ set = address[a]
      BY <1>3, <2>2, RequestKept DEF UpdateAddress
    <2>3. CASE set # "default" /\ set # address[a]
      BY <1>3, <2>3, RequestKept DEF UpdateAddress
    <2>4. QED
      BY <2>1, <2>2, <2>3
  <1>4. ASSUME SetDefault(s, a) PROVE Q
    BY <1>4, <1>3 DEF SetDefault
  <1>5. ASSUME DeleteAddress(s, a) PROVE Q
    BY <1>5, RequestKept DEF DeleteAddress
  <1>6. QED
    BY <1>2, <1>3, <1>4, <1>5

\* Every step keeps the invariant, and only a commit changes a row.
LEMMA NextKept ==
    ASSUME AddrInv, [AddrNext]_addrVars
    PROVE  /\ AddrInv'
           /\ address' # address => \E s \in Sessions : CommitAddress(s)
  <1>1. CASE UNCHANGED addrVars
    BY <1>1 DEF addrVars, AddrInv, AddrTypeOK, OneRequest, RequestSound, Sound, Defaults
  <1>2. CASE AddrNext
    <2>1. PICK s \in Sessions :
            \/ \E a \in Addrs :
                 \/ \E default \in BOOLEAN : CreateAddress(s, a, default)
                 \/ \E set \in {"plain", "default", "same"} : UpdateAddress(s, a, set)
                 \/ SetDefault(s, a) \/ DeleteAddress(s, a)
            \/ ClearDefault(s) \/ CommitAddress(s) \/ AddrFails(s)
      BY <1>2 DEF AddrNext
    <2>2. QED
      BY <2>1, BeginKept, ClearKept, CommitKept, FailsKept
  <1>3. QED
    BY <1>1, <1>2

-----------------------------------------------------------------------------
(* Addresses: the theorems *)

\* Every reachable state is well typed: in particular, whatever statements
\* overlap, a row is never left between two of them (address_service.py:32-99).
THEOREM AddressTypeCorrect == AddrSpec => []AddrTypeOK
  <1>1. AddrInit => AddrInv
    BY InitHolds
  <1>2. AddrInv /\ [AddrNext]_addrVars => AddrInv'
    BY NextKept
  <1>3. AddrInv => AddrTypeOK
    BY DEF AddrInv
  <1>4. QED
    BY <1>1, <1>2, <1>3, PTL DEF AddrSpec

\* A customer who waits for each answer has, after a request that makes an
\* address the default, that default and no other, and no other request makes
\* one (address_service.py:62-67).
THEOREM DefaultIsMoved == AddrSpec => DefaultMoves
  <1> DEFINE Moves ==
        unhurried =>
         \A s \in Sessions :
           LET w == addrReq[s]
           IN  addrReq[s] # Idle /\ address' # address =>
                 IF w.set = "default" THEN Defaults' = {w.addr}
                 ELSE Defaults' \in {Defaults, Defaults \ {w.addr}}
  <1>1. AddrInit => AddrInv
    BY InitHolds
  <1>2. AddrInv /\ [AddrNext]_addrVars => AddrInv'
    BY NextKept
  <1>3. AddrInv /\ [AddrNext]_addrVars => [Moves]_addrVars
    <2> SUFFICES ASSUME AddrInv, [AddrNext]_addrVars, unhurried, address' # address,
                        NEW s \in Sessions, addrReq[s] # Idle
                 PROVE  IF addrReq[s].set = "default" THEN Defaults' = {addrReq[s].addr}
                        ELSE Defaults' \in {Defaults, Defaults \ {addrReq[s].addr}}
      OBVIOUS
    <2>1. PICK t \in Sessions : CommitAddress(t)
      BY NextKept
    <2>2. t = s
      BY <2>1 DEF CommitAddress, AddrInv, OneRequest
    <2>3. QED
      BY <2>1, <2>2, CommitFacts
  <1>4. QED
    BY <1>1, <1>2, <1>3, PTL DEF AddrSpec, DefaultMoves

-----------------------------------------------------------------------------
(* Menu: the inductive invariant *)

\* What a request has read is still so, if the owner waits for each answer.
MenuSound(w) ==
    /\ w.at = "insert" => /\ w.item \in Items /\ w.row \in ItemRow
                          /\ w.row.category = w.category
                          /\ careful => item[w.item] = NoItem
    /\ w.at = "write" => /\ w.item \in Items /\ w.row \in ItemRow
                         /\ w.read \in ItemRow /\ ~w.read.removed
                         /\ careful => item[w.item] = w.read
    /\ careful /\ w.at \in {"count", "delete"} => w.rows = Rows(w.category)
    /\ careful /\ w.at = "delete" => Remaining(w.category) = {}

OneMenuRequest ==
    careful => \A s, t \in Sessions :
                  menuReq[s] # Idle /\ menuReq[t] # Idle => s = t

MenuInv ==
    /\ MenuTypeOK
    /\ OneMenuRequest
    /\ \A s \in Sessions : menuReq[s] # Idle => MenuSound(menuReq[s])

-----------------------------------------------------------------------------
(* Menu: the steps *)

LEMMA MenuRequestNotIdle ==
    ASSUME NEW w \in MenuRequest
    PROVE  w # Idle
  BY DEF MenuRequest, Idle

LEMMA MenuBusy ==
    ASSUME MenuInv, NEW s \in Sessions, menuReq[s] # Idle
    PROVE  /\ menuReq[s] \in MenuRequest /\ MenuSound(menuReq[s])
           /\ careful => \A t \in Sessions \ {s} : menuReq[t] = Idle
  BY DEF MenuInv, MenuTypeOK, OneMenuRequest

LEMMA ItemFacts ==
    ASSUME MenuTypeOK, NEW i \in Items, item[i] # NoItem
    PROVE  item[i] \in ItemRow /\ item[i].category \in category
  BY DEF MenuTypeOK, ItemRow

\* A request that goes on, while the rows stay as they are.
LEMMA MenuGoesOn ==
    ASSUME MenuInv, NEW s \in Sessions, NEW w \in MenuRequest, MenuSound(w),
           careful => \A t \in Sessions \ {s} : menuReq[t] = Idle,
           menuReq' = [menuReq EXCEPT ![s] = w],
           UNCHANGED <<category, shown, item, careful>>
    PROVE  MenuInv'
  <1>1. MenuTypeOK
    BY DEF MenuInv
  <1>2. /\ menuReq'[s] = w
        /\ \A t \in Sessions \ {s} : menuReq'[t] = menuReq[t]
    BY <1>1 DEF MenuTypeOK
  <1>3. MenuTypeOK'
    BY <1>1 DEF MenuTypeOK
  <1>4. OneMenuRequest'
    BY <1>2 DEF OneMenuRequest
  <1>5. ASSUME NEW t \in Sessions, menuReq'[t] # Idle
        PROVE  MenuSound(menuReq'[t])
    BY <1>2, <1>5 DEF MenuInv
  <1>7. ASSUME NEW t \in Sessions, menuReq'[t] # Idle
        PROVE  MenuSound(menuReq[t])'
    <2>1. MenuSound(menuReq'[t])
      BY <1>5, <1>7
    <2>2. QED
      BY <2>1 DEF MenuSound, Rows, Remaining, Live
  <1>8. QED
    BY <1>3, <1>4, <1>7 DEF MenuInv

\* A request that ends may change the rows: nobody else has read them, if the
\* owner waits for each answer.
LEMMA MenuEnds ==
    ASSUME MenuInv, NEW s \in Sessions, menuReq[s] # Idle,
           menuReq' = [menuReq EXCEPT ![s] = Idle], careful' = careful,
           category' \in SUBSET Categories, shown' \in SUBSET category',
           item' \in [Items -> [category : category', available : BOOLEAN,
                                removed : BOOLEAN] \cup {NoItem}]
    PROVE  MenuInv'
  <1>1. MenuTypeOK
    BY DEF MenuInv
  <1>2. /\ menuReq'[s] = Idle
        /\ \A t \in Sessions \ {s} : menuReq'[t] = menuReq[t]
    BY <1>1 DEF MenuTypeOK
  <1>3. MenuTypeOK'
    BY <1>1 DEF MenuTypeOK
  <1>4. OneMenuRequest'
    BY <1>2 DEF MenuInv, OneMenuRequest
  <1>5. ASSUME NEW t \in Sessions, menuReq'[t] # Idle
        PROVE  MenuSound(menuReq[t])'
    <2>1. t # s /\ menuReq'[t] = menuReq[t]
      BY <1>2, <1>5
    <2>2. ~careful /\ MenuSound(menuReq[t])
      BY <1>5, <2>1, MenuBusy
    <2>3. QED
      BY <2>1, <2>2 DEF MenuSound
  <1>6. QED
    BY <1>3, <1>4, <1>5 DEF MenuInv

\* A handler that begins.
LEMMA MenuAsks ==
    ASSUME MenuInv, NEW s \in Sessions, NEW w, Asking(s, w), w \in MenuRequest,
           MenuSound(w)
    PROVE  MenuInv'
  BY MenuGoesOn DEF Asking

LEMMA AskedType ==
    ASSUME NEW c \in Categories
    PROVE  /\ Asked \in MenuRequest
           /\ Asked.row = NoItem /\ Asked.read = NoItem /\ Asked.item = NoItem
           /\ Asked.rows = {} /\ Asked.at = "show"
  <1>1. (CHOOSE b \in Categories : TRUE) \in Categories
    OBVIOUS
  <1>2. QED
    BY <1>1 DEF Asked, MenuRequest

LEMMA CategoryAsks ==
    ASSUME MenuInv, NEW s \in Sessions, NEW c \in Categories,
           CreateCategory(s, c) \/ UpdateCategory(s, c) \/ DeleteCategory(s, c)
    PROVE  MenuInv'
  <1>1. CASE CreateCategory(s, c) \/ UpdateCategory(s, c)
    <2>1. PICK w : /\ Asking(s, w)
                   /\ \/ w = [Asked EXCEPT !.at = "show", !.category = c,
                                           !.new = TRUE]
                      \/ w = [Asked EXCEPT !.at = "show", !.category = c]
      BY <1>1 DEF CreateCategory, UpdateCategory
    <2>2. w \in MenuRequest /\ w.at = "show"
      BY <2>1, AskedType DEF MenuRequest
    <2>3. MenuSound(w)
      BY <2>2 DEF MenuSound
    <2>4. QED
      BY <2>1, <2>2, <2>3, MenuAsks
  <1>2. CASE DeleteCategory(s, c)
    <2>1. PICK w : /\ Asking(s, w)
                   /\ w = [Asked EXCEPT !.at = "count", !.category = c,
                                        !.rows = Rows(c)]
      BY <1>2 DEF DeleteCategory
    <2>2. Rows(c) \in SUBSET Items
      BY DEF Rows
    <2>3. /\ w \in MenuRequest /\ w.at = "count"
          /\ w.rows = Rows(c) /\ w.category = c
      BY <2>1, <2>2, AskedType DEF MenuRequest
    <2>4. MenuSound(w)
      BY <2>3 DEF MenuSound
    <2>5. QED
      BY <2>1, <2>3, <2>4, MenuAsks
  <1>3. QED
    BY <1>1, <1>2

LEMMA CreateItemStep ==
    ASSUME MenuInv, NEW s \in Sessions, NEW i \in Items, NEW c \in Categories,
           NEW b \in BOOLEAN, CreateItem(s, i, c, b)
    PROVE  MenuInv'
  <1>r. PICK r : r = [category |-> c, available |-> b, removed |-> FALSE]
    OBVIOUS
  <1>n. PICK n \in BOOLEAN : n = (c \notin category)
    OBVIOUS
  <1>1. PICK w : /\ Asking(s, w)
                 /\ w = [Asked EXCEPT !.at = "insert", !.category = c,
                    !.new = n, !.item = i, !.row = r]
    BY <1>r, <1>n DEF CreateItem
  <1>2. r \in ItemRow /\ r.category = c
    BY <1>r DEF ItemRow
  <1>3. /\ w \in MenuRequest /\ w.at = "insert"
        /\ w.item = i /\ w.row = r /\ w.category = c
    BY <1>1, <1>2, AskedType DEF MenuRequest
  <1>4. item[i] = NoItem
    BY DEF CreateItem, NewItem
  <1>5. MenuSound(w)
    BY <1>2, <1>3, <1>4 DEF MenuSound
  <1>6. QED
    BY <1>1, <1>3, <1>5, MenuAsks

\* The handlers that change an item.
LEMMA ChangesStep ==
    ASSUME MenuInv, NEW s \in Sessions, NEW i \in Items, NEW r \in ItemRow,
           NEW retag \in BOOLEAN, Changes(s, i, r, retag)
    PROVE  MenuInv'
  <1>1. PICK w : /\ Asking(s, w)
                 /\ w = [Asked EXCEPT !.at = "write", !.item = i,
                        !.read = item[i], !.row = r, !.retag = retag]
    BY DEF Changes
  <1>2. item[i] \in ItemRow /\ ~item[i].removed
    BY ItemFacts DEF MenuInv, Changes, Live
  <1>3. r.category \in Categories
    BY DEF ItemRow
  <1>4. /\ w \in MenuRequest /\ w.at = "write"
        /\ w.item = i /\ w.row = r /\ w.read = item[i]
    BY <1>1, <1>2, <1>3, AskedType DEF MenuRequest
  <1>5. MenuSound(w)
    BY <1>2, <1>4 DEF MenuSound
  <1>6. QED
    BY <1>1, <1>4, <1>5, MenuAsks

LEMMA ItemAsks ==
    ASSUME MenuInv, NEW s \in Sessions, NEW i \in Items,
           \/ \E c \in Categories, b \in BOOLEAN, retag \in BOOLEAN :
                 UpdateItem(s, i, c, b, retag)
           \/ \E b \in BOOLEAN : ToggleAvailability(s, i, b)
           \/ DeleteItem(s, i)
    PROVE  MenuInv'
  <1>1. item[i] \in ItemRow
    BY ItemFacts DEF MenuInv, UpdateItem, ToggleAvailability, DeleteItem,
       Changes, Live
  <1>2. ASSUME NEW c \in Categories, NEW b \in BOOLEAN, NEW retag \in BOOLEAN,
               UpdateItem(s, i, c, b, retag)
        PROVE  MenuInv'
    <2>r. PICK r : r = [item[i] EXCEPT !.category = c, !.available = b]
      OBVIOUS
    <2>1. r \in ItemRow
      BY <1>1, <2>r DEF ItemRow
    <2>2. QED
      BY <1>2, <2>r, <2>1, ChangesStep DEF UpdateItem
  <1>3. ASSUME NEW b \in BOOLEAN, ToggleAvailability(s, i, b)
        PROVE  MenuInv'
    <2>r. PICK r : r = [item[i] EXCEPT !.available = b]
      OBVIOUS
    <2>1. r \in ItemRow
      BY <1>1, <2>r DEF ItemRow
    <2>2. QED
      BY <1>3, <2>r, <2>1, ChangesStep DEF ToggleAvailability
  <1>4. CASE DeleteItem(s, i)
    <2>r. PICK r : r = [item[i] EXCEPT !.available = FALSE, !.removed = TRUE]
      OBVIOUS
    <2>1. r \in ItemRow
      BY <1>1, <2>r DEF ItemRow
    <2>2. QED
      BY <1>4, <2>r, <2>1, ChangesStep DEF DeleteItem
  <1>5. QED
    BY <1>2, <1>3, <1>4

\* Counting leads to a deletion only if no item is left.
LEMMA CountStep ==
    ASSUME MenuInv, NEW s \in Sessions, CountItems(s)
    PROVE  MenuInv'
  <1>v. PICK v : v = menuReq[s]
    OBVIOUS
  <1>1. /\ v \in MenuRequest /\ MenuSound(v) /\ v.at = "count"
        /\ careful => \A t \in Sessions \ {s} : menuReq[t] = Idle
    BY <1>v, MenuBusy DEF CountItems, MenuAt
  <1>2. MenuTypeOK /\ UNCHANGED <<category, shown, item, careful>>
    BY DEF MenuInv, CountItems
  <1>3. CASE Remaining(v.category) = {}
    <2>w. PICK w : w = [v EXCEPT !.at = "delete"]
      OBVIOUS
    <2>1. /\ w \in MenuRequest /\ w.at = "delete"
          /\ w.category = v.category /\ w.rows = v.rows
      BY <1>1, <2>w DEF MenuRequest
    <2>2. MenuSound(w)
      BY <1>1, <1>3, <2>1 DEF MenuSound
    <2>3. menuReq' = [menuReq EXCEPT ![s] = w]
      BY <1>v, <1>2, <1>3, <2>w DEF CountItems, Goes, MenuTypeOK
    <2>4. QED
      BY <1>1, <1>2, <2>1, <2>2, <2>3, MenuGoesOn
  <1>4. CASE Remaining(v.category) # {}
    <2>1. menuReq' = [menuReq EXCEPT ![s] = Idle]
      BY <1>v, <1>4 DEF CountItems, Ends
    <2>2. menuReq[s] # Idle
      BY DEF CountItems, MenuAt
    <2>3. QED
      BY <1>2, <2>1, <2>2, MenuEnds DEF MenuTypeOK
  <1>5. QED
    BY <1>3, <1>4

LEMMA WriteCategoryStep ==
    ASSUME MenuInv, NEW s \in Sessions, WriteCategory(s)
    PROVE  MenuInv'
  <1>1. menuReq[s] # Idle /\ menuReq[s].category \in Categories
    BY MenuBusy DEF WriteCategory, MenuAt, MenuRequest
  <1>2. MenuTypeOK
    BY DEF MenuInv
  <1>3. /\ category' \in SUBSET Categories /\ shown' \in SUBSET category'
        /\ category \subseteq category'
    BY <1>1, <1>2 DEF WriteCategory, MenuTypeOK
  <1>4. item' \in [Items -> [category : category', available : BOOLEAN,
                             removed : BOOLEAN] \cup {NoItem}]
    BY <1>2, <1>3 DEF WriteCategory, MenuTypeOK
  <1>5. /\ menuReq' = [menuReq EXCEPT ![s] = Idle] /\ careful' = careful
    BY DEF WriteCategory, Edited, Ends
  <1>6. QED
    BY <1>1, <1>3, <1>4, <1>5, MenuEnds

LEMMA RemoveCategoryStep ==
    ASSUME MenuInv, NEW s \in Sessions, RemoveCategory(s)
    PROVE  MenuInv'
  <1>v. PICK v : v = menuReq[s]
    OBVIOUS
  <1>1. menuReq[s] # Idle /\ v.category \in Categories
    BY <1>v, MenuBusy DEF RemoveCategory, MenuAt, MenuRequest
  <1>2. MenuTypeOK
    BY DEF MenuInv
  <1>3. /\ category' = category \ {v.category}
        /\ shown' = shown \ {v.category}
        /\ item' = [i \in Items |-> IF i \in v.rows \cup Rows(v.category)
                                    THEN NoItem ELSE item[i]]
        /\ menuReq' = [menuReq EXCEPT ![s] = Idle] /\ careful' = careful
    BY <1>v DEF RemoveCategory, Edited, Ends
  <1>4. /\ category' \in SUBSET Categories /\ shown' \in SUBSET category'
    BY <1>2, <1>3 DEF MenuTypeOK
  <1>5. ASSUME NEW i \in Items
        PROVE  item'[i] \in [category : category', available : BOOLEAN,
                             removed : BOOLEAN] \cup {NoItem}
    <2>1. CASE i \in v.rows \cup Rows(v.category) \/ item[i] = NoItem
      BY <1>3, <2>1
    <2>2. CASE i \notin v.rows \cup Rows(v.category) /\ item[i] # NoItem
      <3>1. item'[i] = item[i]
        BY <1>3, <2>2
      <3>2. item[i] \in ItemRow /\ item[i].category \in category
        BY <1>2, <2>2, ItemFacts
      <3>3. item[i].category # v.category
        BY <2>2 DEF Rows
      <3>4. QED
        BY <1>3, <3>1, <3>2, <3>3 DEF ItemRow
    <2>3. QED
      BY <2>1, <2>2
  <1>6. item' \in [Items -> [category : category', available : BOOLEAN,
                             removed : BOOLEAN] \cup {NoItem}]
    <2>1. item' = [i \in Items |-> item'[i]]
      BY <1>3
    <2>2. QED
      BY <1>5, <2>1
  <1>7. QED
    BY <1>1, <1>3, <1>4, <1>6, MenuEnds

LEMMA InsertItemStep ==
    ASSUME MenuInv, NEW s \in Sessions, InsertItem(s)
    PROVE  MenuInv'
  <1>v. PICK v : v = menuReq[s]
    OBVIOUS
  <1>1. /\ menuReq[s] # Idle /\ v \in MenuRequest /\ v.category \in Categories
        /\ v.item \in Items /\ v.row \in ItemRow /\ v.row.category = v.category
    BY <1>v, MenuBusy DEF InsertItem, MenuAt, MenuRequest, MenuSound
  <1>2. MenuTypeOK
    BY DEF MenuInv
  <1>3. /\ category' = category \cup {v.category}
        /\ shown' = IF v.new THEN shown \cup {v.category} ELSE shown
        /\ item' = [item EXCEPT ![v.item] = v.row]
        /\ menuReq' = [menuReq EXCEPT ![s] = Idle] /\ careful' = careful
    BY <1>v DEF InsertItem, Edited, Ends
  <1>4. /\ category' \in SUBSET Categories /\ shown' \in SUBSET category'
    BY <1>1, <1>2, <1>3 DEF MenuTypeOK
  <1>5. v.row \in [category : category', available : BOOLEAN, removed : BOOLEAN]
    BY <1>1, <1>3 DEF ItemRow
  <1>6. item \in [Items -> [category : category', available : BOOLEAN,
                             removed : BOOLEAN] \cup {NoItem}]
    BY <1>2, <1>3 DEF MenuTypeOK
  <1>7. item' \in [Items -> [category : category', available : BOOLEAN,
                             removed : BOOLEAN] \cup {NoItem}]
    BY <1>1, <1>3, <1>5, <1>6
  <1>8. QED
    BY <1>1, <1>3, <1>4, <1>7, MenuEnds

\* An item is written that is not removed, if the owner waits.
LEMMA WriteItemFacts ==
    ASSUME MenuInv, NEW s \in Sessions, WriteItem(s)
    PROVE  /\ menuReq[s] # Idle /\ menuReq[s].item \in Items
           /\ careful => ~item[menuReq[s].item].removed
           /\ \E r \in ItemRow :
                r.category \in category
                  /\ item' = [item EXCEPT ![menuReq[s].item] = r]
  <1>v. PICK v : v = menuReq[s]
    OBVIOUS
  <1>i. PICK i : i = v.item
    OBVIOUS
  <1>1. /\ menuReq[s] # Idle /\ v \in MenuRequest
        /\ v.item \in Items /\ v.row \in ItemRow /\ v.read \in ItemRow
        /\ careful => item[v.item] = v.read /\ ~v.read.removed
    BY <1>v, MenuBusy DEF WriteItem, MenuAt, MenuSound
  <1>2. MenuTypeOK /\ item[i] # NoItem
    BY <1>v, <1>i DEF MenuInv, WriteItem
  <1>3. item[i] \in ItemRow
    BY <1>1, <1>2, <1>i, ItemFacts
  <1>c. PICK c : c = IF v.row["category"] = v.read["category"]
                     THEN item[i]["category"] ELSE v.row["category"]
    OBVIOUS
  <1>a. PICK a : a = IF v.row["available"] = v.read["available"]
                     THEN item[i]["available"] ELSE v.row["available"]
    OBVIOUS
  <1>b. PICK b : b = (~v.retag /\ (IF v.row["removed"] = v.read["removed"]
                                   THEN item[i]["removed"] ELSE v.row["removed"]))
    OBVIOUS
  <1>r. PICK r : r = [category |-> c, available |-> a, removed |-> b]
    OBVIOUS
  <1>4. /\ c \in category
        /\ item' = [item EXCEPT ![i] = r]
    BY <1>v, <1>i, <1>c, <1>a, <1>b, <1>r DEF WriteItem
  <1>5. c \in Categories /\ a \in BOOLEAN /\ b \in BOOLEAN
    BY <1>1, <1>3, <1>c, <1>a, <1>b DEF ItemRow
  <1>6. r \in ItemRow /\ r.category \in category
    BY <1>r, <1>4, <1>5 DEF ItemRow
  <1>7. QED
    BY <1>v, <1>i, <1>1, <1>4, <1>6

LEMMA WriteItemStep ==
    ASSUME MenuInv, NEW s \in Sessions, WriteItem(s)
    PROVE  MenuInv'
  <1>i. PICK i : i = menuReq[s].item
    OBVIOUS
  <1>1. PICK r \in ItemRow : /\ menuReq[s] # Idle /\ i \in Items
                             /\ r.category \in category
                             /\ item' = [item EXCEPT ![i] = r]
    BY <1>i, WriteItemFacts
  <1>2. r \in [category : category, available : BOOLEAN, removed : BOOLEAN]
    BY <1>1 DEF ItemRow
  <1>3. /\ menuReq' = [menuReq EXCEPT ![s] = Idle]
        /\ UNCHANGED <<careful, category, shown>>
    BY DEF WriteItem, Edited, Ends
  <1>4. /\ category' \in SUBSET Categories /\ shown' \in SUBSET category'
        /\ item' \in [Items -> [category : category', available : BOOLEAN,
                                removed : BOOLEAN] \cup {NoItem}]
    BY <1>1, <1>2, <1>3 DEF MenuInv, MenuTypeOK
  <1>5. QED
    BY <1>1, <1>3, <1>4, MenuEnds

LEMMA BulkToggleStep ==
    ASSUME MenuInv, NEW is \in SUBSET Items, NEW b \in BOOLEAN, BulkToggle(is, b)
    PROVE  MenuInv'
  <1>1. MenuTypeOK
    BY DEF MenuInv
  <1>2. ASSUME NEW i \in Items
        PROVE  item'[i] \in [category : category, available : BOOLEAN,
                             removed : BOOLEAN] \cup {NoItem}
    <2>1. item'[i] = IF i \in is /\ item[i] # NoItem
                     THEN [item[i] EXCEPT !.available = b] ELSE item[i]
      BY DEF BulkToggle
    <2>2. QED
      BY <1>1, <2>1 DEF MenuTypeOK
  <1>3. item' = [i \in Items |-> item'[i]]
    BY DEF BulkToggle
  <1>4. MenuTypeOK'
    BY <1>1, <1>2, <1>3 DEF BulkToggle, MenuTypeOK
  <1>5. OneMenuRequest'
    BY DEF MenuInv, OneMenuRequest, BulkToggle
  <1>6. ASSUME NEW s \in Sessions, menuReq'[s] # Idle
        PROVE  MenuSound(menuReq[s])'
    <2>1. ~careful /\ UNCHANGED <<menuReq, careful>> /\ MenuSound(menuReq[s])
      BY <1>6 DEF BulkToggle, MenuInv
    <2>2. QED
      BY <2>1 DEF MenuSound
  <1>7. QED
    BY <1>4, <1>5, <1>6 DEF MenuInv

LEMMA MenuFailsStep ==
    ASSUME MenuInv, NEW s \in Sessions, MenuFails(s)
    PROVE  MenuInv'
  BY MenuEnds DEF MenuFails, Ends, MenuInv, MenuTypeOK

LEMMA MenuInitHolds == MenuInit => MenuInv
  BY DEF MenuInit, MenuInv, MenuTypeOK, OneMenuRequest

LEMMA MenuNextKeeps == MenuInv /\ [MenuNext]_menuVars => MenuInv'
  <1>. SUFFICES ASSUME MenuInv, [MenuNext]_menuVars PROVE MenuInv'
    OBVIOUS
  <1>1. CASE MenuNext
    <2>1. CASE \E s \in Sessions : WriteCategory(s) \/ CountItems(s)
                  \/ RemoveCategory(s) \/ InsertItem(s) \/ WriteItem(s)
                  \/ MenuFails(s)
      BY <2>1, WriteCategoryStep, CountStep, RemoveCategoryStep,
         InsertItemStep, WriteItemStep, MenuFailsStep
    <2>2. CASE \E s \in Sessions, c \in Categories :
                  CreateCategory(s, c) \/ UpdateCategory(s, c)
                  \/ DeleteCategory(s, c)
      BY <2>2, CategoryAsks
    <2>3. CASE \E s \in Sessions, i \in Items :
                  \/ \E c \in Categories, b \in BOOLEAN, retag \in BOOLEAN :
                        UpdateItem(s, i, c, b, retag)
                  \/ \E b \in BOOLEAN : ToggleAvailability(s, i, b)
                  \/ DeleteItem(s, i)
      BY <2>3, ItemAsks
    <2>4. CASE \E s \in Sessions, i \in Items, c \in Categories, b \in BOOLEAN :
                  CreateItem(s, i, c, b)
      BY <2>4, CreateItemStep
    <2>5. CASE \E is \in SUBSET Items, b \in BOOLEAN : BulkToggle(is, b)
      BY <2>5, BulkToggleStep
    <2>6. QED
      BY <1>1, <2>1, <2>2, <2>3, <2>4, <2>5 DEF MenuNext
  <1>2. CASE UNCHANGED menuVars
    <2>1. UNCHANGED <<category, shown, item, menuReq, careful>>
      BY <1>2 DEF menuVars
    <2>2. MenuTypeOK' /\ OneMenuRequest'
      BY <2>1 DEF MenuInv, MenuTypeOK, OneMenuRequest
    <2>3. ASSUME NEW s \in Sessions, menuReq'[s] # Idle
          PROVE  MenuSound(menuReq[s])'
      <3>1. MenuSound(menuReq[s])
        BY <2>1, <2>3 DEF MenuInv
      <3>2. QED
        BY <2>1, <3>1 DEF MenuSound, Rows, Remaining, Live
    <2>4. QED
      BY <2>2, <2>3 DEF MenuInv
  <1>3. QED
    BY <1>1, <1>2

-----------------------------------------------------------------------------
(* Menu: the theorems *)

\* The menu is well typed: every item that is in its table has a category that
\* is in its own, whatever is deleted while a request is under way.
THEOREM MenuTypeCorrect == MenuSpec => []MenuTypeOK
  <1>1. MenuInv => MenuTypeOK
    BY DEF MenuInv
  <1>2. QED
    BY <1>1, MenuInitHolds, MenuNextKeeps, PTL DEF MenuSpec

\* What a step may do to an item.
Keeps(i) ==
    /\ Live(i) => item'[i] # NoItem
    /\ item[i] # NoItem /\ item[i].removed => item'[i] = NoItem \/ item'[i].removed

LEMMA MenuStepKeeps ==
    ASSUME MenuInv, MenuNext, careful, NEW i \in Items
    PROVE  Keeps(i)
  <1>1. MenuTypeOK
    BY DEF MenuInv
  <1>2. CASE item' = item
    BY <1>2 DEF Keeps, Live
  <1>3. ASSUME NEW s \in Sessions, RemoveCategory(s) PROVE Keeps(i)
    <2>v. PICK v : v = menuReq[s]
      OBVIOUS
    <2>1. v.rows = Rows(v.category) /\ Remaining(v.category) = {}
      BY <1>3, <2>v, MenuBusy DEF RemoveCategory, MenuAt, MenuSound
    <2>2. item'[i] = IF i \in v.rows \cup Rows(v.category) THEN NoItem ELSE item[i]
      BY <1>3, <2>v DEF RemoveCategory
    <2>3. i \in Rows(v.category) => ~Live(i)
      BY <2>1 DEF Remaining
    <2>4. QED
      BY <2>1, <2>2, <2>3 DEF Keeps, Live
  <1>4. ASSUME NEW s \in Sessions, InsertItem(s) PROVE Keeps(i)
    <2>v. PICK v : v = menuReq[s]
      OBVIOUS
    <2>1. v.item \in Items /\ item[v.item] = NoItem
      BY <1>4, <2>v, MenuBusy DEF InsertItem, MenuAt, MenuSound
    <2>2. item' = [item EXCEPT ![v.item] = v.row]
      BY <1>4, <2>v DEF InsertItem
    <2>3. item'[i] = item[i] \/ item[i] = NoItem
      BY <1>1, <2>1, <2>2 DEF MenuTypeOK
    <2>4. QED
      BY <2>3 DEF Keeps, Live
  <1>5. ASSUME NEW s \in Sessions, WriteItem(s) PROVE Keeps(i)
    <2>j. PICK j : j = menuReq[s].item
      OBVIOUS
    <2>1. PICK r \in ItemRow : item' = [item EXCEPT ![j] = r]
      BY <1>5, <2>j, WriteItemFacts
    <2>2. j \in Items /\ ~item[j].removed
      BY <1>5, <2>j, WriteItemFacts
    <2>3. r # NoItem
      BY MenuAssumption
    <2>4. item'[i] = item[i] \/ (i = j /\ item'[i] = r)
      BY <1>1, <2>1, <2>2 DEF MenuTypeOK
    <2>5. QED
      BY <2>2, <2>3, <2>4 DEF Keeps, Live
  <1>6. ASSUME NEW is \in SUBSET Items, NEW b \in BOOLEAN, BulkToggle(is, b)
        PROVE  Keeps(i)
    <2>1. item'[i] = IF i \in is /\ item[i] # NoItem
                     THEN [item[i] EXCEPT !.available = b] ELSE item[i]
      BY <1>6 DEF BulkToggle
    <2>2. CASE item[i] = NoItem
      BY <2>2 DEF Keeps, Live
    <2>3. CASE item[i] # NoItem
      <3>1. item[i] \in ItemRow
        BY <1>1, <2>3, ItemFacts
      <3>2. item'[i] \in ItemRow /\ item'[i].removed = item[i].removed
        BY <2>1, <2>3, <3>1 DEF ItemRow
      <3>3. item'[i] # NoItem
        BY <3>2, MenuAssumption
      <3>4. QED
        BY <3>2, <3>3 DEF Keeps
    <2>4. QED
      BY <2>2, <2>3
  <1>7. ASSUME NEW s \in Sessions,
               \/ \E c \in Categories : CreateCategory(s, c)
                     \/ UpdateCategory(s, c) \/ DeleteCategory(s, c)
               \/ WriteCategory(s) \/ CountItems(s) \/ MenuFails(s)
        PROVE  item' = item
    BY <1>7 DEF CreateCategory, UpdateCategory, DeleteCategory, Asking,
       WriteCategory, CountItems, MenuFails
  <1>8. ASSUME NEW s \in Sessions, NEW j \in Items,
               \/ \E c \in Categories, b \in BOOLEAN :
                    \/ CreateItem(s, j, c, b)
                    \/ \E retag \in BOOLEAN : UpdateItem(s, j, c, b, retag)
               \/ \E b \in BOOLEAN : ToggleAvailability(s, j, b)
               \/ DeleteItem(s, j)
        PROVE  item' = item
    BY <1>8 DEF CreateItem, UpdateItem, ToggleAvailability, DeleteItem,
       Changes, Asking
  <1>9. QED
    BY <1>2, <1>3, <1>4, <1>5, <1>6, <1>7, <1>8 DEF MenuNext

\* An owner who waits for each answer never loses an item with its category,
\* and no item that was removed comes back.
THEOREM MenuIsKept == MenuSpec => MenuKept
  <1>. DEFINE A == careful => \A i \in Items : Keeps(i)
  <1>1. MenuInv /\ [MenuNext]_menuVars => [A]_menuVars
    BY MenuStepKeeps
  <1>2. [A]_menuVars =>
          [careful =>
             \A i \in Items :
                /\ Live(i) => item'[i] # NoItem
                /\ item[i] # NoItem /\ item[i].removed
                     => item'[i] = NoItem \/ item'[i].removed]_menuVars
    BY DEF Keeps
  <1>. HIDE DEF A
  <1>3. QED
    BY <1>1, <1>2, MenuInitHolds, MenuNextKeeps, PTL DEF MenuSpec, MenuKept

-----------------------------------------------------------------------------
(* Shopfront: the inductive invariant *)

\* RatingIsMean and StarsAddUp need only that a review is rated once
\* (RatesOnce).  FlagIsRight needs what an owner who waits for each answer may
\* rely on: one request about the offers is under way (OneOwnerRequest), and
\* the mark it is about to write is that of the offers it will leave (MarkRight).

\* What a request may be at each of its steps.
ShopSound(w) ==
    /\ w.at \in {"create", "flush", "mark"} => w.offer \in Offers
    /\ w.at \in {"insert", "rate"} =>
         /\ w.offer = "none" /\ w.order \in Delivered
         /\ w.food \in Ratings /\ w.delivery \in Ratings

RatesOnce ==
    \A s \in Sessions : ShopAt(s, "rate") =>
        /\ review[shopReq[s].order] = NoReview
        /\ \A t \in Sessions \ {s} :
             ShopAt(t, "rate") => shopReq[t].order # shopReq[s].order

OneOwnerRequest ==
    composed => \A s, t \in Sessions :
        /\ shopReq[s] # Idle /\ shopReq[s].offer # "none"
        /\ shopReq[t] # Idle /\ shopReq[t].offer # "none"
        => s = t

MarkRight ==
    composed => \A s \in Sessions :
        ShopAt(s, "mark") => shopReq[s].mark = (ActiveFor(shopReq[s]) # {})

SoundRequests == \A s \in Sessions : shopReq[s] # Idle => ShopSound(shopReq[s])

ShopInv ==
    /\ ShopTypeOK /\ SoundRequests /\ RatesOnce /\ OneOwnerRequest /\ MarkRight
    /\ RatingIsMean /\ FlagIsRight

-----------------------------------------------------------------------------
(* Shopfront: the arithmetic of the mean *)

LEMMA ShopRequestNotIdle ==
    ASSUME NEW w \in ShopRequest
    PROVE  w # Idle
  BY DEF ShopRequest, Idle

\* The quotient of a division by a positive number.
LEMMA Quotient ==
    ASSUME NEW x \in Int, NEW d \in Nat \ {0}
    PROVE  /\ x \div d \in Int
           /\ d * (x \div d) <= x /\ x < d * (x \div d) + d
  OBVIOUS

\* Rounding is off by no more than a half.
LEMMA RoundedIsNear ==
    ASSUME NEW n \in Nat, NEW d \in Nat \ {0}
    PROVE  /\ Rounded(n, d) \in Nat
           /\ 2 * (d * Rounded(n, d) - n) \in (-d)..d
  <1> DEFINE x == 2 * n + d
             q == x \div (2 * d)
  <1>1. x \in Int /\ 2 * d \in Nat \ {0}
    OBVIOUS
  <1>2. q \in Int /\ (2 * d) * q <= x /\ x < (2 * d) * q + 2 * d
    <2> HIDE DEF x
    <2>1. PICK e \in Nat \ {0} : e = 2 * d
      BY <1>1
    <2>2. x \div e \in Int /\ e * (x \div e) <= x /\ x < e * (x \div e) + e
      BY <1>1, Quotient
    <2>3. QED
      BY <2>1, <2>2
  <1>3. q >= 0
    <2>1. SUFFICES ASSUME q <= -1 PROVE FALSE
      BY <1>2
    <2>2. d * q <= d * (-1)
      BY <2>1, <1>2
    <2>3. QED
      BY <1>1, <1>2, <2>2
  <1>4. PICK p : p = d * q
    OBVIOUS
  <1>5. p \in Int /\ 2 * p <= x /\ x < 2 * p + 2 * d
    BY <1>2, <1>4
  <1>6. 2 * (p - n) \in (-d)..d
    BY <1>5
  <1>7. Rounded(n, d) = q
    BY DEF Rounded
  <1>8. QED
    BY <1>2, <1>3, <1>4, <1>6, <1>7

\* One more rating: the mean moves off by half a hundredth at most.
LEMMA OneMoreRating ==
    ASSUME NEW n \in Nat, NEW r \in Nat, NEW sum \in Int, NEW a \in Nat,
           4 * (n * r - sum) \in -(n * (n + 1))..(n * (n + 1))
    PROVE  LET q == Rounded(r * n + a, n + 1)
               m == n + 1
           IN  /\ q \in Nat
               /\ 4 * (m * q - (a + sum)) \in -(m * (m + 1))..(m * (m + 1))
  <1> DEFINE q == Rounded(r * n + a, n + 1)
             m == n + 1
  <1>1. r * n + a \in Nat /\ m \in Nat \ {0}
    OBVIOUS
  <1>2. q \in Nat /\ 2 * (m * q - (r * n + a)) \in (-m)..m
    BY <1>1, RoundedIsNear
  <1>3. PICK p : p = m * q
    OBVIOUS
  <1>4. PICK c : c = n * r
    OBVIOUS
  <1>5. PICK b : b = n * n
    OBVIOUS
  <1>6. p \in Int /\ c \in Int /\ b \in Int
    BY <1>2, <1>3, <1>4, <1>5
  <1>7. r * n = c /\ n * (n + 1) = b + n /\ m * (m + 1) = b + 3 * n + 2
    BY <1>4, <1>5
  <1>8. 2 * (p - (c + a)) \in (-m)..m
    BY <1>2, <1>3, <1>7
  <1>9. 4 * (c - sum) \in -(b + n)..(b + n)
    BY <1>4, <1>7
  <1>10. 4 * (p - (a + sum)) \in -(b + 3 * n + 2)..(b + 3 * n + 2)
    BY <1>6, <1>8, <1>9
  <1>11. QED
    BY <1>2, <1>3, <1>7, <1>10

-----------------------------------------------------------------------------
(* Shopfront: the steps *)

\* The mean and the flag depend on the rows alone.
LEMMA ColumnsStay ==
    ASSUME ShopInv, UNCHANGED <<offer, hasOffers, review, totalReviews, rating, composed>>
    PROVE  RatingIsMean' /\ FlagIsRight'
  <1>1. Reviews' = Reviews
    BY DEF Reviews
  <1>2. RatingIsMean'
    BY <1>1 DEF ShopInv, RatingIsMean, Average
  <1>3. QED
    BY <1>2 DEF ShopInv, FlagIsRight

\* A step that writes no row: a request begins, goes on or ends.
LEMMA ShopGoesOn ==
    ASSUME ShopInv, NEW s \in Sessions, NEW v \in ShopRequest \cup {Idle},
           shopReq' = [shopReq EXCEPT ![s] = v],
           UNCHANGED <<offer, hasOffers, review, totalReviews, rating, composed>>,
           v # Idle => ShopSound(v),
           v.at = "rate" =>
             /\ review[v.order] = NoReview
             /\ \A t \in Sessions \ {s} :
                  ShopAt(t, "rate") => shopReq[t].order # v.order,
           composed /\ v # Idle /\ v.offer # "none" =>
             \A t \in Sessions \ {s} : shopReq[t] # Idle => shopReq[t].offer = "none",
           composed /\ v.at = "mark" => v.mark = (ActiveFor(v) # {})
    PROVE  ShopInv'
  <1>1. /\ shopReq \in [Sessions -> ShopRequest \cup {Idle}]
        /\ shopReq'[s] = v
        /\ \A t \in Sessions \ {s} : shopReq'[t] = shopReq[t]
    BY DEF ShopInv, ShopTypeOK
  <1>2. Idle.at = "idle"
    BY DEF Idle
  <1>3. ShopTypeOK'
    BY <1>1 DEF ShopInv, ShopTypeOK
  <1>4. SoundRequests'
    BY <1>1 DEF ShopInv, SoundRequests, ShopSound
  <1>5. RatesOnce'
    <2>1. SUFFICES ASSUME NEW t \in Sessions, ShopAt(t, "rate")'
                   PROVE  /\ review[shopReq'[t].order] = NoReview
                          /\ \A u \in Sessions \ {t} :
                               ShopAt(u, "rate")' => shopReq'[u].order # shopReq'[t].order
      BY DEF RatesOnce
    <2>2. CASE t = s
      BY <2>1, <2>2, <1>1 DEF ShopAt
    <2>3. CASE t # s
      <3>1. ShopAt(t, "rate") /\ shopReq'[t] = shopReq[t]
        BY <2>1, <2>3, <1>1 DEF ShopAt
      <3>2. ASSUME NEW u \in Sessions \ {t}, ShopAt(u, "rate")'
            PROVE  shopReq'[u].order # shopReq[t].order
        <4>1. CASE u = s
          BY <4>1, <3>1, <3>2, <2>3, <1>1 DEF ShopAt
        <4>2. CASE u # s
          BY <4>2, <3>1, <3>2, <1>1 DEF ShopAt, ShopInv, RatesOnce
        <4>3. QED
          BY <4>1, <4>2
      <3>3. QED
        BY <3>1, <3>2 DEF ShopInv, RatesOnce
    <2>4. QED
      BY <2>2, <2>3
  <1>6. OneOwnerRequest'
    BY <1>1 DEF ShopInv, OneOwnerRequest
  <1>7. MarkRight'
    <2>1. SUFFICES ASSUME composed, NEW t \in Sessions, ShopAt(t, "mark")'
                   PROVE  shopReq'[t].mark = (ActiveFor(shopReq[t])' # {})
      BY DEF MarkRight
    <2>2. CASE t = s
      BY <2>1, <2>2, <1>1 DEF ShopAt, ActiveFor, Written
    <2>3. CASE t # s
      BY <2>1, <2>3, <1>1 DEF ShopAt, ActiveFor, Written, ShopInv, MarkRight
    <2>4. QED
      BY <2>2, <2>3
  <1>8. QED
    BY <1>3, <1>4, <1>5, <1>6, <1>7, ColumnsStay DEF ShopInv

LEMMA OwnerAsksKeeps ==
    ASSUME ShopInv, NEW s \in Sessions, NEW v \in ShopRequest,
           OwnerAsks(s, v), v.at \in {"create", "flush"}, v.offer \in Offers
    PROVE  ShopInv'
  <1>1. v # Idle /\ ShopSound(v)
    BY ShopRequestNotIdle DEF ShopSound
  <1>2. QED
    BY <1>1, ShopGoesOn DEF OwnerAsks, ShopAsks

LEMMA BlankType ==
    /\ Blank \in ShopRequest
    /\ Blank.at = "create" /\ Blank.offer = "none"
  <1>1. 0 \in 0..5
    OBVIOUS
  <1>2. QED
    BY <1>1 DEF Blank, ShopRequest

LEMMA OfferAsksKeep ==
    ASSUME ShopInv, NEW s \in Sessions, NEW o \in Offers,
           \/ CreateOffer(s, o) \/ UpdateOffer(s, o) \/ DeleteOffer(s, o)
           \/ \E b \in {"on", "off"} : ToggleOffer(s, o, b)
    PROVE  ShopInv'
  <1>1. CASE CreateOffer(s, o)
    <2>1. PICK v : v = [Blank EXCEPT !.offer = o]
      OBVIOUS
    <2>2. v \in ShopRequest /\ v.at = "create" /\ v.offer = o
      BY <2>1, BlankType DEF ShopRequest
    <2>3. QED
      BY <1>1, <2>1, <2>2, OwnerAsksKeeps DEF CreateOffer
  <1>2. ASSUME NEW b \in {"on", "off"}, ChangeOffer(s, o, b)
        PROVE  ShopInv'
    <2> PICK v : v = [Blank EXCEPT !.at = "flush", !.offer = o,
                                    !.read = offer[o], !.set = b]
      OBVIOUS
    <2>1. offer[o] \in {"on", "off"}
      BY <1>2 DEF ChangeOffer, ShopInv, ShopTypeOK
    <2>2. v \in ShopRequest /\ v.at = "flush" /\ v.offer = o
      BY <2>1, BlankType DEF ShopRequest
    <2>3. QED
      BY <1>2, <2>2, OwnerAsksKeeps DEF ChangeOffer
  <1>3. offer[o] # "none" => offer[o] \in {"on", "off"}
    BY DEF ShopInv, ShopTypeOK
  <1>4. QED
    BY <1>1, <1>2, <1>3 DEF UpdateOffer, ToggleOffer, DeleteOffer

LEMMA RefreshKeeps ==
    ASSUME ShopInv, NEW s \in Sessions, RefreshHasOffers(s)
    PROVE  ShopInv'
  <1>1. PICK w : w = shopReq[s]
    OBVIOUS
  <1>2. PICK b \in BOOLEAN : b = (ActiveFor(w) # {})
    OBVIOUS
  <1>3. PICK v : v = [w EXCEPT !.at = "mark", !.mark = b]
    OBVIOUS
  <1>4. w \in ShopRequest /\ w.at = "flush" /\ ShopSound(w)
    BY <1>1 DEF RefreshHasOffers, ShopAt, ShopInv, ShopTypeOK, SoundRequests
  <1>5. v \in ShopRequest /\ v.at = "mark" /\ v.mark = b /\ v.offer = w.offer
        /\ v.read = w.read /\ v.set = w.set /\ w.offer \in Offers
    BY <1>3, <1>4 DEF ShopRequest, ShopSound
  <1>6. shopReq' = [shopReq EXCEPT ![s] = v]
    BY <1>1, <1>2, <1>3, <1>4 DEF RefreshHasOffers, ShopInv, ShopTypeOK, ShopRequest
  <1>7. ActiveFor(v) = ActiveFor(w)
    BY <1>5 DEF ActiveFor, Written
  <1>8. composed => \A t \in Sessions \ {s} : shopReq[t] # Idle => shopReq[t].offer = "none"
    BY <1>1, <1>4, <1>5, ShopRequestNotIdle, ShopfrontAssumption DEF ShopInv, OneOwnerRequest
  <1>9. QED
    BY <1>2, <1>5, <1>6, <1>7, <1>8, ShopGoesOn DEF RefreshHasOffers, ShopSound

LEMMA ReviewAsksKeep ==
    ASSUME ShopInv, NEW s \in Sessions, NEW k \in Delivered,
           NEW food \in Ratings, NEW delivery \in Ratings,
           CreateReview(s, k, food, delivery)
    PROVE  ShopInv'
  <1>1. PICK v : v = [Blank EXCEPT !.at = "insert", !.order = k,
                                   !.food = food, !.delivery = delivery]
    OBVIOUS
  <1>2. food \in 0..5 /\ delivery \in 0..5
    BY ShopfrontAssumption
  <1>3. v \in ShopRequest /\ v.at = "insert" /\ v.offer = "none" /\ ShopSound(v)
    BY <1>1, <1>2 DEF Blank, ShopRequest, ShopSound
  <1>4. QED
    BY <1>1, <1>3, ShopGoesOn DEF CreateReview, ShopAsks

LEMMA InsertKeeps ==
    ASSUME ShopInv, NEW s \in Sessions, InsertReview(s)
    PROVE  ShopInv'
  <1>1. PICK w : w = shopReq[s]
    OBVIOUS
  <1>2. w \in ShopRequest /\ w.at = "insert" /\ ShopSound(w)
    BY <1>1 DEF InsertReview, ShopAt, ShopInv, ShopTypeOK, SoundRequests
  <1>3. CASE review[w.order] = NoReview
    <2>1. PICK v : v = [w EXCEPT !.at = "rate"]
      OBVIOUS
    <2>2. v \in ShopRequest /\ v.at = "rate" /\ v.order = w.order /\ v.offer = "none"
          /\ ShopSound(v)
      BY <1>2, <2>1 DEF ShopRequest, ShopSound
    <2>3. shopReq' = [shopReq EXCEPT ![s] = v]
      BY <1>1, <1>2, <1>3, <2>1 DEF InsertReview, Goes, ShopInv, ShopTypeOK, ShopRequest
    <2>4. \A t \in Sessions \ {s} : ShopAt(t, "rate") => shopReq[t].order # v.order
      BY <1>1, <2>2 DEF InsertReview
    <2>5. QED
      BY <1>3, <2>2, <2>3, <2>4, ShopGoesOn DEF InsertReview
  <1>4. CASE review[w.order] # NoReview
    <2>1. shopReq' = [shopReq EXCEPT ![s] = Idle]
      BY <1>1, <1>4 DEF InsertReview, Ends
    <2>2. QED
      BY <2>1, ShopGoesOn DEF InsertReview, Idle
  <1>5. QED
    BY <1>3, <1>4

LEMMA ShopFailsKeeps ==
    ASSUME ShopInv, NEW s \in Sessions, ShopFails(s)
    PROVE  ShopInv'
  BY ShopGoesOn DEF ShopFails, Ends, Idle

\* A commit ends its request; what the others rely on stays, if the offers do or
\* if this request was about them.
LEMMA ShopCommits ==
    ASSUME ShopInv, NEW s \in Sessions, shopReq[s] # Idle,
           shopReq' = Ends(shopReq, s), UNCHANGED composed,
           offer' = offer \/ shopReq[s].offer # "none"
    PROVE  /\ shopReq' \in [Sessions -> ShopRequest \cup {Idle}]
           /\ SoundRequests' /\ OneOwnerRequest' /\ MarkRight'
  <1>1. /\ shopReq \in [Sessions -> ShopRequest \cup {Idle}]
        /\ shopReq'[s] = Idle
        /\ \A t \in Sessions \ {s} : shopReq'[t] = shopReq[t]
        /\ shopReq' \in [Sessions -> ShopRequest \cup {Idle}]
    BY DEF ShopInv, ShopTypeOK, Ends
  <1>2. SoundRequests'
    BY <1>1 DEF ShopInv, SoundRequests, ShopSound
  <1>3. OneOwnerRequest'
    BY <1>1 DEF ShopInv, OneOwnerRequest
  <1>4. MarkRight'
    <2>1. SUFFICES ASSUME composed, NEW t \in Sessions, ShopAt(t, "mark")'
                   PROVE  shopReq'[t].mark = (ActiveFor(shopReq[t])' # {})
      BY DEF MarkRight
    <2>2. t # s /\ shopReq'[t] = shopReq[t] /\ ShopAt(t, "mark")
      BY <2>1, <1>1 DEF ShopAt
    <2>3. shopReq[t].offer # "none" /\ shopReq[t] # Idle
      BY <2>2, ShopfrontAssumption DEF ShopAt, ShopInv, SoundRequests, ShopSound
    <2>4. offer' = offer
      BY <2>1, <2>2, <2>3 DEF ShopInv, OneOwnerRequest
    <2>5. QED
      BY <2>1, <2>2, <2>4 DEF ActiveFor, Written, ShopInv, MarkRight
  <1>5. QED
    BY <1>1, <1>2, <1>3, <1>4

\* The steps of the offers leave the reviews alone.
LEMMA ReviewsStay ==
    ASSUME ShopInv, NEW s \in Sessions, shopReq' = Ends(shopReq, s),
           UNCHANGED <<review, totalReviews, rating>>
    PROVE  RatesOnce' /\ RatingIsMean'
  <1>1. Reviews' = Reviews
    BY DEF Reviews
  <1>2. RatingIsMean'
    BY <1>1 DEF ShopInv, RatingIsMean, Average
  <1>3. \A t \in Sessions : ShopAt(t, "rate")' =>
           ShopAt(t, "rate") /\ shopReq'[t] = shopReq[t]
    BY DEF ShopInv, ShopTypeOK, Ends, ShopAt, Idle
  <1>4. QED
    BY <1>2, <1>3 DEF ShopInv, RatesOnce

LEMMA CommitOfferKeeps ==
    ASSUME ShopInv, NEW s \in Sessions, CommitOffer(s)
    PROVE  ShopInv'
  <1>1. PICK o : o = shopReq[s].offer
    OBVIOUS
  <1>2. o \in Offers /\ o # "none" /\ shopReq[s] # Idle
    BY <1>1, ShopfrontAssumption
    DEF CommitOffer, ShopAt, ShopInv, SoundRequests, ShopSound
  <1>3. offer' = [offer EXCEPT ![o] = "on"] /\ hasOffers' = TRUE
        /\ UNCHANGED <<review, totalReviews, rating, composed>>
        /\ shopReq' = Ends(shopReq, s)
    BY <1>1 DEF CommitOffer
  <1>4. offer'[o] = "on" /\ offer' \in [Offers -> {"none", "on", "off"}]
    BY <1>2, <1>3 DEF ShopInv, ShopTypeOK
  <1>5. FlagIsRight'
    BY <1>2, <1>3, <1>4 DEF FlagIsRight
  <1>6. QED
    BY <1>1, <1>2, <1>3, <1>4, <1>5, ShopCommits, ReviewsStay DEF ShopInv, ShopTypeOK

LEMMA MarkKeeps ==
    ASSUME ShopInv, NEW s \in Sessions, MarkRestaurant(s)
    PROVE  ShopInv'
  <1>1. PICK w : w = shopReq[s]
    OBVIOUS
  <1>2. w \in ShopRequest /\ w # Idle /\ w.offer \in Offers /\ w.offer # "none"
    BY <1>1, ShopfrontAssumption
    DEF MarkRestaurant, ShopAt, ShopInv, ShopTypeOK, SoundRequests, ShopSound
  <1>3. /\ offer' = IF Written(w) THEN [offer EXCEPT ![w.offer] = w.set] ELSE offer
        /\ hasOffers' = w.mark /\ w.mark \in BOOLEAN /\ w.set \in {"on", "off"}
        /\ UNCHANGED <<review, totalReviews, rating, composed>>
        /\ shopReq' = Ends(shopReq, s)
    BY <1>1, <1>2 DEF MarkRestaurant, ShopRequest
  <1>4. offer' \in [Offers -> {"none", "on", "off"}]
    BY <1>2, <1>3 DEF ShopInv, ShopTypeOK
  <1>5. ActiveFor(w) = {o \in Offers : offer'[o] = "on"}
    BY <1>2, <1>3 DEF ActiveFor, ShopInv, ShopTypeOK
  <1>6. composed => w.mark = (ActiveFor(w) # {})
    BY <1>1 DEF MarkRestaurant, ShopInv, MarkRight
  <1>7. FlagIsRight'
    BY <1>3, <1>5, <1>6 DEF FlagIsRight
  <1>8. QED
    BY <1>1, <1>2, <1>3, <1>4, <1>7, ShopCommits, ReviewsStay DEF ShopInv, ShopTypeOK

\* A review is rated: one more row, one more rating in the mean.
LEMMA RateKeeps ==
    ASSUME ShopInv, NEW s \in Sessions, RateRestaurant(s)
    PROVE  ShopInv'
  <1>1. PICK w : w = shopReq[s]
    OBVIOUS
  <1>2. PICK k : k = w.order
    OBVIOUS
  <1>3. PICK r : r = [food |-> w.food, delivery |-> w.delivery]
    OBVIOUS
  <1>4. PICK n : n = totalReviews
    OBVIOUS
  <1>5. PICK f : f = [x \in Reviews |-> Average(review[x])]
    OBVIOUS
  <1>6. w # Idle /\ w.at = "rate" /\ w.offer = "none" /\ k \in Delivered
        /\ w.food \in Ratings /\ w.delivery \in Ratings
        /\ review[k] = NoReview
    BY <1>1, <1>2
    DEF RateRestaurant, ShopAt, ShopInv, SoundRequests, ShopSound, RatesOnce
  <1>7. r \in [food : Ratings, delivery : Ratings] /\ r # NoReview
    BY <1>3, <1>6, ShopfrontAssumption
  <1>8. /\ review' = [review EXCEPT ![k] = r] /\ totalReviews' = n + 1
        /\ rating' = Rounded(rating * n + Average(r), n + 1)
        /\ shopReq' = Ends(shopReq, s)
        /\ UNCHANGED <<offer, hasOffers, composed>>
    BY <1>1, <1>2, <1>3, <1>4 DEF RateRestaurant
  <1>9. n \in Nat /\ rating \in Nat
    BY <1>4 DEF ShopInv, ShopTypeOK
  <1>10. ASSUME NEW q \in [food : Ratings, delivery : Ratings]
         PROVE  Average(q) \in Nat
    <2>1. q.food \in 1..5 /\ q.delivery \in 1..5
      BY ShopfrontAssumption
    <2>2. QED
      BY <2>1 DEF Average
  <1>11. /\ Reviews' = Reviews \cup {k} /\ k \notin Reviews
         /\ IsFiniteSet(Reviews)
         /\ \A x \in Reviews : review'[x] = review[x] /\ Average(review[x]) \in Nat
         /\ review'[k] = r
    <2>1. Reviews' = Reviews \cup {k} /\ k \notin Reviews
      BY <1>6, <1>7, <1>8 DEF Reviews, ShopInv, ShopTypeOK
    <2>2. IsFiniteSet(Reviews)
      BY ShopfrontAssumption, FS_Subset DEF Reviews
    <2>3. \A x \in Reviews : x \in Delivered /\ review[x] \in [food : Ratings, delivery : Ratings]
      BY DEF Reviews, ShopInv, ShopTypeOK
    <2>4. QED
      BY <2>1, <2>2, <2>3, <1>6, <1>8, <1>10 DEF ShopInv, ShopTypeOK
  <1>12. PICK g : g = [x \in Reviews' |-> Average(review'[x])]
    OBVIOUS
  <1>13. SumFunctionOnSet(g, Reviews') = Average(r) + SumFunctionOnSet(f, Reviews)
    <2>1. \A x \in Reviews : g[x] = f[x] /\ f[x] \in Nat
      BY <1>5, <1>11, <1>12 DEF Average
    <2>2. g[k] = Average(r) /\ Average(r) \in Nat
      BY <1>7, <1>10, <1>11, <1>12
    <2>3. SumFunctionOnSet(g, Reviews \cup {k}) = g[k] + SumFunctionOnSet(g, Reviews)
      <3>1. \A x \in Reviews \cup {k} : g[x] \in Int
        BY <2>1, <2>2
      <3>2. QED
        BY <3>1, <1>11, SumAdds
    <2>4. SumFunctionOnSet(g, Reviews) = SumFunctionOnSet(f, Reviews)
      BY <2>1, <1>11, SumSame
    <2>5. QED
      BY <2>2, <2>3, <2>4, <1>11
  <1>14. PICK sum \in Int : sum = SumFunctionOnSet(f, Reviews)
    <2>1. \A x \in Reviews : f[x] \in Int
      BY <1>5, <1>11
    <2>2. QED
      BY <2>1, <1>11, SumType
  <1>15. n = Cardinality(Reviews) /\ 4 * (n * rating - sum) \in -(n * (n + 1))..(n * (n + 1))
    BY <1>4, <1>5, <1>14 DEF ShopInv, RatingIsMean, SumFunction
  <1>16. /\ rating' \in Nat
         /\ 4 * ((n + 1) * rating' - (Average(r) + sum))
              \in -((n + 1) * (n + 1 + 1))..((n + 1) * (n + 1 + 1))
    BY <1>7, <1>8, <1>9, <1>10, <1>15, OneMoreRating
  <1>17. Cardinality(Reviews') = n + 1
    BY <1>11, <1>15, FS_AddElement
  <1>18. SumFunction([x \in Reviews' |-> Average(review'[x])]) = Average(r) + sum
    BY <1>12, <1>13, <1>14 DEF SumFunction
  <1>19. RatingIsMean'
    BY <1>8, <1>16, <1>17, <1>18 DEF RatingIsMean, Average
  <1>20. RatesOnce'
    <2>1. SUFFICES ASSUME NEW t \in Sessions, ShopAt(t, "rate")'
                   PROVE  /\ review'[shopReq'[t].order] = NoReview
                          /\ \A u \in Sessions \ {t} :
                               ShopAt(u, "rate")' => shopReq'[u].order # shopReq'[t].order
      BY DEF RatesOnce
    <2>2. \A u \in Sessions : ShopAt(u, "rate")' =>
             u # s /\ ShopAt(u, "rate") /\ shopReq'[u] = shopReq[u]
      BY <1>8 DEF ShopInv, ShopTypeOK, Ends, ShopAt, Idle
    <2>3. shopReq[t].order # k
      BY <1>1, <1>2, <2>1, <2>2 DEF RateRestaurant, ShopInv, RatesOnce
    <2>4. shopReq[t].order \in Delivered
      BY <2>1, <2>2 DEF ShopInv, SoundRequests, ShopSound, ShopAt
    <2>5. QED
      BY <1>8, <2>1, <2>2, <2>3, <2>4 DEF ShopInv, ShopTypeOK, RatesOnce
  <1>21. FlagIsRight'
    BY <1>8 DEF ShopInv, FlagIsRight
  <1>22. shopReq[s] # Idle
    BY <1>1, <1>6
  <1>23. ShopTypeOK'
    <2>1. review' \in [Delivered -> [food : Ratings, delivery : Ratings] \cup {NoReview}]
      BY <1>6, <1>7, <1>8 DEF ShopInv, ShopTypeOK
    <2>2. totalReviews' \in Nat /\ rating' \in Nat
      BY <1>8, <1>9, <1>16
    <2>3. shopReq' \in [Sessions -> ShopRequest \cup {Idle}]
      BY <1>8, <1>22, ShopCommits
    <2>4. QED
      BY <2>1, <2>2, <2>3, <1>8 DEF ShopInv, ShopTypeOK
  <1>24. QED
    BY <1>8, <1>19, <1>20, <1>21, <1>22, <1>23, ShopCommits DEF ShopInv

LEMMA ShopInitHolds == ShopInit => ShopInv
  <1> SUFFICES ASSUME ShopInit PROVE ShopInv
    OBVIOUS
  <1>1. Reviews = {}
    BY DEF ShopInit, Reviews
  <1>2. SumFunction([k \in Reviews |-> Average(review[k])]) = 0
    BY <1>1, SumEmpty DEF SumFunction
  <1>3. RatingIsMean
    BY <1>1, <1>2, FS_EmptySet DEF ShopInit, RatingIsMean
  <1>4. ShopTypeOK
    BY DEF ShopInit, ShopTypeOK
  <1>5. \A s \in Sessions : shopReq[s] = Idle
    BY DEF ShopInit
  <1>6. QED
    BY <1>3, <1>4, <1>5
    DEF ShopInit, ShopInv, SoundRequests, RatesOnce, OneOwnerRequest, MarkRight,
        FlagIsRight, ShopAt

LEMMA ShopNextKeeps == ShopInv /\ [ShopNext]_shopVars => ShopInv'
  <1> SUFFICES ASSUME ShopInv, [ShopNext]_shopVars PROVE ShopInv'
    OBVIOUS
  <1>1. ASSUME NEW s \in Sessions, NEW o \in Offers,
               \/ CreateOffer(s, o) \/ UpdateOffer(s, o) \/ DeleteOffer(s, o)
               \/ \E b \in {"on", "off"} : ToggleOffer(s, o, b)
        PROVE  ShopInv'
    BY <1>1, OfferAsksKeep
  <1>2. ASSUME NEW s \in Sessions,
               CommitOffer(s) \/ RefreshHasOffers(s) \/ MarkRestaurant(s)
        PROVE  ShopInv'
    BY <1>2, CommitOfferKeeps, RefreshKeeps, MarkKeeps
  <1>3. ASSUME NEW s \in Sessions, NEW k \in Delivered, NEW food \in Ratings,
               NEW delivery \in Ratings, CreateReview(s, k, food, delivery)
        PROVE  ShopInv'
    BY <1>3, ReviewAsksKeep
  <1>4. ASSUME NEW s \in Sessions, InsertReview(s) \/ RateRestaurant(s) \/ ShopFails(s)
        PROVE  ShopInv'
    BY <1>4, InsertKeeps, RateKeeps, ShopFailsKeeps
  <1>5. CASE UNCHANGED shopVars
    <2>1. RatingIsMean' /\ FlagIsRight'
      BY <1>5, ColumnsStay DEF shopVars
    <2>2. QED
      BY <1>5, <2>1 DEF shopVars, ShopInv, ShopTypeOK, SoundRequests, ShopSound,
        RatesOnce, OneOwnerRequest, MarkRight, ShopAt, ActiveFor, Written
  <1>6. QED
    BY <1>1, <1>2, <1>3, <1>4, <1>5 DEF ShopNext

\* Parts of a finite set are as many as its elements, if each is of one part.
LEMMA PartsCount ==
    ASSUME NEW R, IsFiniteSet(R), NEW L, IsFiniteSet(L), NEW b, \A k \in R : b[k] \in L,
           NEW part, \A l \in L : part[l] \in SUBSET R,
           \A k \in R : \A l \in L : k \in part[l] <=> b[k] = l,
           NEW count, \A l \in L : count[l] = Cardinality(part[l])
    PROVE  SumFunctionOnSet(count, L) = Cardinality(R)
  <1>1. PICK one : one = [k \in R |-> 1]
    OBVIOUS
  <1>2. \A k \in R : one[k] = 1 /\ one[k] \in Int
    BY <1>1
  <1>3. SumFunctionOnSet(one, R) = Cardinality(R)
    BY <1>2, SumCardinality
  <1>4. ASSUME NEW l \in L
        PROVE  count[l] = SumFunctionOnSet(one, part[l])
    <2>1. IsFiniteSet(part[l]) /\ \A k \in part[l] : one[k] = 1
      BY <1>2, FS_Subset
    <2>2. QED
      BY <2>1, SumCardinality
  <1>5. SumFunctionOnSet(count, L) = SumFunctionOnSet(one, R)
    BY <1>2, <1>4, SumPartition
  <1>6. QED
    BY <1>3, <1>5

LEMMA StarsFollow == ShopInv => StarsAddUp
  <1> SUFFICES ASSUME ShopInv PROVE StarsAddUp
    OBVIOUS
  <1>1. PICK food : food =
          [n \in 1..5 |-> Cardinality({k \in Reviews : review[k].food = n})]
    OBVIOUS
  <1>2. PICK delivery : delivery =
          [n \in 1..5 |-> Cardinality({k \in Reviews : review[k].delivery = n})]
    OBVIOUS
  <1>3. PICK stars : stars = [n \in 1..5 |-> food[n] + delivery[n]]
    OBVIOUS
  <1>4. IsFiniteSet(Reviews) /\ IsFiniteSet(1..5)
    <2>1. Reviews \subseteq Delivered
      BY DEF Reviews
    <2>2. 1 \in Int /\ 5 \in Int
      OBVIOUS
    <2>3. QED
      BY <2>1, <2>2, ShopfrontAssumption, FS_Subset, FS_Interval, Zenon
  <1>5. \A k \in Reviews : review[k].food \in 1..5 /\ review[k].delivery \in 1..5
    BY ShopfrontAssumption DEF Reviews, ShopInv, ShopTypeOK
  <1>6. SumFunctionOnSet(food, 1..5) = Cardinality(Reviews)
    <2>1. PICK b : b = [k \in Reviews |-> review[k].food]
      OBVIOUS
    <2>2. PICK part : part = [n \in 1..5 |-> {k \in Reviews : review[k].food = n}]
      OBVIOUS
    <2>3. \A k \in Reviews : b[k] \in 1..5
      BY <1>5, <2>1
    <2>4. \A n \in 1..5 : part[n] \in SUBSET Reviews
      BY <2>2
    <2>5. \A k \in Reviews : \A n \in 1..5 : k \in part[n] <=> b[k] = n
      BY <2>1, <2>2
    <2>6. \A n \in 1..5 : food[n] = Cardinality(part[n])
      BY <1>1, <2>2
    <2>7. QED
      BY <1>4, <2>3, <2>4, <2>5, <2>6, PartsCount
  <1>7. SumFunctionOnSet(delivery, 1..5) = Cardinality(Reviews)
    <2>1. PICK b : b = [k \in Reviews |-> review[k].delivery]
      OBVIOUS
    <2>2. PICK part : part = [n \in 1..5 |-> {k \in Reviews : review[k].delivery = n}]
      OBVIOUS
    <2>3. \A k \in Reviews : b[k] \in 1..5
      BY <1>5, <2>1
    <2>4. \A n \in 1..5 : part[n] \in SUBSET Reviews
      BY <2>2
    <2>5. \A k \in Reviews : \A n \in 1..5 : k \in part[n] <=> b[k] = n
      BY <2>1, <2>2
    <2>6. \A n \in 1..5 : delivery[n] = Cardinality(part[n])
      BY <1>2, <2>2
    <2>7. QED
      BY <1>4, <2>3, <2>4, <2>5, <2>6, PartsCount
  <1>8. \A n \in 1..5 : food[n] \in Int /\ delivery[n] \in Int
                         /\ stars[n] = food[n] + delivery[n]
    <2>1. ASSUME NEW n \in 1..5
          PROVE  food[n] \in Nat /\ delivery[n] \in Nat
      BY <1>1, <1>2, <1>4, FS_Subset, FS_CardinalityType
    <2>2. QED
      BY <1>3, <2>1
  <1>9. SumFunctionOnSet(stars, 1..5)
          = SumFunctionOnSet(food, 1..5) + SumFunctionOnSet(delivery, 1..5)
    BY <1>4, <1>8, SumPlus
  <1>10. RatingsSummary.stars = stars
    BY <1>1, <1>2, <1>3 DEF RatingsSummary
  <1>11. SumFunction(stars) = SumFunctionOnSet(stars, 1..5)
    BY <1>3 DEF SumFunction
  <1>12. Cardinality(Reviews) \in Nat
    BY <1>4, FS_CardinalityType
  <1>13. QED
    BY <1>6, <1>7, <1>9, <1>10, <1>11, <1>12 DEF StarsAddUp, ShopInv, RatingIsMean

-----------------------------------------------------------------------------
(* Shopfront: the theorems *)

\* Every reachable state is well typed: the stored rating and the number of
\* reviews are never negative, whatever is rated (review_service.py:77-88).
THEOREM ShopfrontTypeCorrect == ShopSpec => []ShopTypeOK
  <1>1. ShopInv => ShopTypeOK
    BY DEF ShopInv
  <1>2. QED
    BY <1>1, ShopInitHolds, ShopNextKeeps, PTL DEF ShopSpec

\* However reviews overlap, for any set of orders, total_reviews counts each once,
\* the stored rating is off the mean by half a hundredth per review at most, and
\* the summary's stars add up; has_offers tells if an offer is active, as long as
\* the owner waits for each answer (review_service.py:77-88,
\* restaurant_analytics_service.py:331-393, restaurant_offer_service.py:19-30).
THEOREM ColumnsAlwaysAgree == ShopSpec => []ColumnsAgree
  <1>1. ShopInv => ColumnsAgree
    BY StarsFollow DEF ShopInv, ColumnsAgree
  <1>2. QED
    BY <1>1, ShopInitHolds, ShopNextKeeps, PTL DEF ShopSpec

-----------------------------------------------------------------------------
(* Surge *)

\* What a screen has shown is right until a key changes.
SurgeInv ==
    /\ auto \in Levels /\ manual \in BOOLEAN /\ rain \in BOOLEAN
    /\ bonus # -1 => bonus = StatusOfCity

LEMMA LevelType ==
    ASSUME NEW waiting \in 0..MaxWaiting, NEW free \in 0..MaxFree
    PROVE  Level(waiting, free) \in Levels
  <1>1. waiting \in Nat /\ free \in Nat
    BY SurgeAssumption
  <1>2. \/ free = 0 \/ 2 * waiting > 9 * free
        \/ free # 0 /\ 2 * waiting <= 9 * free /\ waiting > 3 * free
        \/ free # 0 /\ waiting <= 3 * free /\ waiting > 2 * free
        \/ free # 0 /\ waiting <= 2 * free
    BY <1>1
  <1>3. QED
    BY <1>2, Zenon DEF Level, Levels

\* A step leaves what has been shown right, or forgets it.
LEMMA SetsKeeps ==
    ASSUME SurgeInv, NEW a \in Levels, NEW r \in BOOLEAN, Sets(a, r)
    PROVE  SurgeInv' /\ earned' = earned
  BY DEF Sets, SurgeInv, StatusOfCity, Larger, LevelPay

\* What the three copies of the computation are worth is a number.
LEMMA SurgePayType ==
    ASSUME SurgeInv
    PROVE  StatusOfCity \in Nat /\ PublicStatus = StatusOfCity /\ SurgePay = StatusOfCity
  <1>1. LevelPay(auto) \in Nat
    BY DEF SurgeInv, Levels, LevelPay
  <1>2. QED
    BY <1>1 DEF StatusOfCity, PublicStatus, SurgePay, Larger

LEMMA SurgeInitHolds == SurgeInit => SurgeInv
  BY DEF SurgeInit, SurgeInv, Levels

LEMMA SurgeNextKeeps ==
    ASSUME SurgeInv, [SurgeNext]_surgeVars
    PROVE  /\ SurgeInv'
           /\ \/ earned' = earned
              \/ FailedPay
              \/ \E km \in Distances, peak \in BOOLEAN : CalculateEarnings(km, peak)
  <1> DEFINE Paid == \/ FailedPay
                     \/ \E km \in Distances, peak \in BOOLEAN : CalculateEarnings(km, peak)
             Goal == SurgeInv' /\ (earned' = earned \/ Paid)
  <1>1. ASSUME NEW waiting \in 0..MaxWaiting, NEW free \in 0..MaxFree,
               AutoSurgeCheck(waiting, free)
        PROVE  Goal
    BY <1>1, LevelType, SetsKeeps DEF AutoSurgeCheck, SurgeInv
  <1>2. CASE AutoExpires \/ EnableRain \/ DisableRain
    <2>1. "NONE" \in Levels
      BY DEF Levels
    <2>2. QED
      BY <1>2, <2>1, SetsKeeps DEF AutoExpires, EnableRain, DisableRain, SurgeInv
  <1>3. ASSUME NEW v \in {StatusOfCity, PublicStatus}, ShowSurge(v)
        PROVE  Goal
    <2>1. bonus' = StatusOfCity /\ StatusOfCity' = StatusOfCity
      BY <1>3, SurgePayType DEF ShowSurge, StatusOfCity, LevelPay
    <2>2. QED
      BY <1>3, <2>1 DEF ShowSurge, SurgeInv
  <1>4. CASE Paid
    BY <1>4 DEF FailedPay, CalculateEarnings, SurgeInv, StatusOfCity, LevelPay
  <1>5. CASE UNCHANGED surgeVars
    BY <1>5 DEF surgeVars, SurgeInv, StatusOfCity, LevelPay
  <1>6. QED
    BY <1>1, <1>2, <1>3, <1>4, <1>5 DEF SurgeNext

\* A delivery's pay adds up, and has the bonus that was last shown.
LEMMA PayAddsUp ==
    ASSUME SurgeInv, NEW km \in Distances, NEW peak \in BOOLEAN,
           CalculateEarnings(km, peak)
    PROVE  /\ bonus # -1 => earned'.surge = bonus + earned'.peak
           /\ Breakdown(earned') = earned'.total
  <1>1. PICK p : p = SurgePay
    OBVIOUS
  <1>2. p \in Nat /\ (bonus # -1 => bonus = p)
    BY <1>1, SurgePayType DEF SurgeInv
  <1>3. DistancePay(km) \in Int /\ PeakBonus(peak) \in Int
    BY SurgeAssumption DEF DistancePay, PeakBonus, Larger
  <1>4. earned' = [kind |-> "delivery", base |-> 2000, distance |-> DistancePay(km),
                   surge |-> p + PeakBonus(peak), tip |-> 0,
                   total |-> 2000 + DistancePay(km) + PeakBonus(peak) + p,
                   peak |-> PeakBonus(peak)]
    BY <1>1 DEF CalculateEarnings
  <1>5. QED
    BY <1>2, <1>3, <1>4 DEF Breakdown

\* For any distances and any load, a delivery pays the bonus that was last shown,
\* if no key has changed since, and the day's breakdown adds up to what was earned
\* (surge_detector.py:63-95, earnings_service.py:74-88).
THEOREM DeliveryPaysWhatWasShown == SurgeSpec => PaidAsShown
  <1> DEFINE PaysRight ==
        earned' # earned =>
          /\ earned'.kind = "delivery" /\ bonus # -1
               => earned'.surge = bonus + earned'.peak
          /\ Breakdown(earned') = earned'.total
  <1>1. SurgeInv /\ [SurgeNext]_surgeVars => SurgeInv'
    BY SurgeNextKeeps
  <1>2. SurgeInv /\ [SurgeNext]_surgeVars => [PaysRight]_surgeVars
    <2> SUFFICES ASSUME SurgeInv, [SurgeNext]_surgeVars, earned' # earned
                 PROVE  PaysRight
      OBVIOUS
    <2>1. CASE FailedPay
      BY <2>1 DEF FailedPay, NoEarnings, Breakdown
    <2>2. CASE \E km \in Distances, peak \in BOOLEAN : CalculateEarnings(km, peak)
      BY <2>2, PayAddsUp
    <2>3. QED
      BY <2>1, <2>2, SurgeNextKeeps
  <1> HIDE DEF PaysRight
  <1>3. SurgeSpec => [][PaysRight]_surgeVars
    BY <1>1, <1>2, SurgeInitHolds, PTL DEF SurgeSpec
  <1>4. QED
    BY <1>3 DEF PaidAsShown, PaysRight

-----------------------------------------------------------------------------
(* Prices: the inductive invariant *)

CataloguePriced ==
    /\ dish \in [Dishes -> DishRow] /\ kitchen \in [Kitchens -> KitchenRow]
    /\ coupon \in CouponRow
    /\ basket \in [Dishes -> Nat]

\* What the customer was shown is right until something changes.
QuoteRight ==
    quote # None =>
      quote = [grand |-> CartTotal, valid |-> CartValid, discount |-> CouponOffer]

PriceInv == CataloguePriced /\ QuoteRight

-----------------------------------------------------------------------------
(* Prices: sums over a cart *)

LEMMA ImageFinite ==
    ASSUME NEW S, IsFiniteSet(S), NEW f, NEW T, \A x \in S : f[x] \in T,
           \A y \in T : \E x \in S : f[x] = y
    PROVE  IsFiniteSet(T)
  <1>1. PICK g : g = [x \in S |-> f[x]]
    OBVIOUS
  <1>2. g \in Surjection(S, T)
    BY <1>1 DEF Surjection
  <1>3. QED
    BY <1>2, FS_Surjection

LEMMA CartFinite ==
    /\ IsFiniteSet(InBasket) /\ IsFiniteSet(Involved)
    /\ \A r \in Involved : IsFiniteSet(DishesOf(r))
    /\ Involved \subseteq Kitchens
  <1>1. InBasket \subseteq Dishes
    BY DEF InBasket
  <1>2. IsFiniteSet(InBasket)
    BY <1>1, PricingAssumption, FS_Subset
  <1>3. IsFiniteSet(Involved)
    <2>1. /\ \A d \in InBasket : KitchenOf[d] \in Involved
          /\ \A r \in Involved : \E d \in InBasket : KitchenOf[d] = r
      BY DEF Involved
    <2>2. QED
      BY <1>2, <2>1, ImageFinite
  <1>4. ASSUME NEW r \in Involved PROVE IsFiniteSet(DishesOf(r))
    BY <1>2, FS_Subset DEF DishesOf
  <1>5. Involved \subseteq Kitchens
    BY <1>1, PricingAssumption DEF Involved
  <1>6. QED
    BY <1>2, <1>3, <1>4, <1>5

LEMMA ItemTotalType ==
    ASSUME CataloguePriced, NEW d \in Dishes
    PROVE  ItemTotal(d) \in Nat
  <1>1. dish[d] \in DishRow /\ basket[d] \in Nat
    BY DEF CataloguePriced
  <1>2. PICK p : p = EffectivePrice(dish[d])
    OBVIOUS
  <1>3. p \in Nat
    BY <1>1, <1>2 DEF DishRow, EffectivePrice
  <1>4. PICK q : q = basket[d]
    OBVIOUS
  <1>5. ItemTotal(d) = p * q /\ q \in Nat
    BY <1>1, <1>2, <1>4 DEF ItemTotal
  <1>6. QED
    BY <1>3, <1>5

\* The total of some dishes, as a sum of one function.
LEMMA TotalIsSum ==
    ASSUME CataloguePriced, NEW ds \in SUBSET InBasket, NEW f,
           f = [d \in InBasket |-> ItemTotal(d)]
    PROVE  /\ Total(ds) = SumFunctionOnSet(f, ds)
           /\ Total(ds) \in Nat
  <1>1. IsFiniteSet(ds) /\ ds \subseteq Dishes
    BY CartFinite, FS_Subset DEF InBasket
  <1>2. PICK g : g = [d \in ds |-> ItemTotal(d)]
    OBVIOUS
  <1>3. \A d \in ds : g[d] = f[d] /\ f[d] \in Nat
    BY <1>1, <1>2, ItemTotalType
  <1>4. Total(ds) = SumFunctionOnSet(g, ds)
    BY <1>2 DEF Total, SumFunction
  <1>5. SumFunctionOnSet(g, ds) = SumFunctionOnSet(f, ds)
    BY <1>1, <1>3, SumSame
  <1>6. SumFunctionOnSet(f, ds) \in Nat
    BY <1>1, <1>3, SumNat
  <1>7. QED
    BY <1>4, <1>5, <1>6

\* The dishes of each restaurant together are those of the cart.
LEMMA CartIsSplit ==
    ASSUME CataloguePriced, NEW g, \A r \in Involved : g[r] = Total(DishesOf(r))
    PROVE  SumFunctionOnSet(g, Involved) = Total(InBasket)
  <1>1. PICK f : f = [d \in InBasket |-> ItemTotal(d)]
    OBVIOUS
  <1>2. PICK part : part = [r \in Involved |-> DishesOf(r)]
    OBVIOUS
  <1>3. \A d \in InBasket : f[d] \in Int /\ KitchenOf[d] \in Involved
    <2>1. \A d \in InBasket : d \in Dishes
      BY DEF InBasket
    <2>2. QED
      BY <1>1, <2>1, ItemTotalType DEF Involved
  <1>4. \A r \in Involved : part[r] \in SUBSET InBasket
    BY <1>2 DEF DishesOf
  <1>5. \A d \in InBasket : \A r \in Involved : d \in part[r] <=> KitchenOf[d] = r
    BY <1>2 DEF DishesOf
  <1>6. ASSUME NEW r \in Involved PROVE g[r] = SumFunctionOnSet(f, part[r])
    <2>1. part[r] = DishesOf(r) /\ part[r] \in SUBSET InBasket
      BY <1>2, <1>4
    <2>2. QED
      BY <1>1, <2>1, TotalIsSum
  <1>7. SumFunctionOnSet(g, Involved) = SumFunctionOnSet(f, InBasket)
    BY <1>3, <1>4, <1>5, <1>6, CartFinite, SumPartition
  <1>8. InBasket \in SUBSET InBasket
    OBVIOUS
  <1>9. QED
    BY <1>1, <1>7, <1>8, TotalIsSum

\* A sum over the orders of a placement, one for each restaurant.
LEMMA SumOverBills ==
    ASSUME NEW L, IsFiniteSet(L), NEW B, NEW bill,
           B = {bill[r] : r \in L}, \A r \in L : bill[r].kitchen = r,
           NEW f, \A r \in L : f[bill[r]] \in Int
    PROVE  SumFunctionOnSet(f, B) = SumFunctionOnSet([r \in L |-> f[bill[r]]], L)
  <1>1. IsFiniteSet(B)
    BY ImageFinite
  <1>2. PICK kitchenOf : kitchenOf = [b \in B |-> b.kitchen]
    OBVIOUS
  <1>3. PICK part : part = [r \in L |-> {bill[r]}]
    OBVIOUS
  <1>4. PICK g : g = [r \in L |-> f[bill[r]]]
    OBVIOUS
  <1>5. \A b \in B : f[b] \in Int /\ kitchenOf[b] \in L
    BY <1>2
  <1>6. \A r \in L : part[r] \in SUBSET B
    BY <1>3
  <1>7. \A b \in B : \A r \in L : b \in part[r] <=> kitchenOf[b] = r
    BY <1>2, <1>3
  <1>8. ASSUME NEW r \in L PROVE g[r] = SumFunctionOnSet(f, part[r])
    <2>1. PICK b : b = bill[r]
      OBVIOUS
    <2>2. part[r] = {} \cup {b} /\ g[r] = f[b] /\ f[b] \in Int
      BY <1>3, <1>4, <2>1
    <2>3. SumFunctionOnSet(f, {} \cup {b}) = f[b] + SumFunctionOnSet(f, {})
      BY <2>2, SumAdds, FS_EmptySet
    <2>4. QED
      BY <2>2, <2>3, SumEmpty
  <1>9. SumFunctionOnSet(g, L) = SumFunctionOnSet(f, B)
    BY <1>1, <1>5, <1>6, <1>7, <1>8, SumPartition
  <1>10. QED
    BY <1>4, <1>9

LEMMA SumOfZeros ==
    ASSUME NEW f, NEW S, IsFiniteSet(S), \A x \in S : f[x] = 0
    PROVE  SumFunctionOnSet(f, S) = 0
  <1>1. \A x \in S : f[x] \in Int /\ f[x] = f[x] + f[x]
    OBVIOUS
  <1>2. SumFunctionOnSet(f, S) = SumFunctionOnSet(f, S) + SumFunctionOnSet(f, S)
    BY <1>1, SumPlus
  <1>3. SumFunctionOnSet(f, S) \in Int
    BY <1>1, SumType
  <1>4. QED
    BY <1>2, <1>3

LEMMA SumOfOne ==
    ASSUME NEW f, NEW b, f[b] \in Int
    PROVE  SumFunctionOnSet(f, {b}) = f[b]
  <1>1. SumFunctionOnSet(f, {} \cup {b}) = f[b] + SumFunctionOnSet(f, {})
    BY SumAdds, FS_EmptySet
  <1>2. {} \cup {b} = {b}
    OBVIOUS
  <1>3. QED
    BY <1>1, <1>2, SumEmpty

-----------------------------------------------------------------------------
(* Prices: the steps *)

LEMMA ShownStays ==
    ASSUME UNCHANGED <<catalogue, basket>>
    PROVE  CartTotal' = CartTotal /\ CartValid' = CartValid /\ CouponOffer' = CouponOffer
  <1>1. InBasket' = InBasket /\ dish' = dish /\ kitchen' = kitchen /\ coupon' = coupon
    BY DEF InBasket, catalogue
  <1>2. Involved' = Involved
    BY <1>1 DEF Involved
  <1>3. Total(InBasket)' = Total(InBasket)
    BY <1>1 DEF Total, ItemTotal
  <1>4. DeliveryFee' = DeliveryFee
    BY <1>1, <1>2 DEF DeliveryFee
  <1>5. QED
    BY <1>1, <1>2, <1>3, <1>4
    DEF CartTotal, CartValid, CouponOffer, CouponApplies, Discount

\* Whoever uses a coupon that has a limit leaves one use less.
LEMMA CouponUsed ==
    ASSUME CataloguePriced, coupon.left \notin {0, None}
    PROVE  [coupon EXCEPT !.left = @ - 1] \in CouponRow
  <1>1. coupon.left \in Nat /\ coupon.left # 0
    BY DEF CataloguePriced, CouponRow
  <1>2. coupon.left - 1 \in Nat \cup {None}
    BY <1>1
  <1>3. QED
    BY <1>2 DEF CataloguePriced, CouponRow

LEMMA PlacedKeeps ==
    ASSUME PriceInv, NEW new, Placed(new), coupon' \in CouponRow
    PROVE  PriceInv'
  BY DEF PriceInv, CataloguePriced, QuoteRight, Placed

LEMMA PriceInitHolds == PriceInit => PriceInv
  BY PricingAssumption DEF PriceInit, PriceInv, CataloguePriced, QuoteRight

LEMMA PriceNextKeeps ==
    ASSUME PriceInv, [PriceNext]_priceVars
    PROVE  /\ PriceInv'
           /\ \/ bills' \in {bills, None}
              \/ \E r \in Kitchens, code \in BOOLEAN : PlaceOrder(r, code)
              \/ PlaceOrdersForCart
  <1> DEFINE Orders == \/ \E r \in Kitchens, code \in BOOLEAN : PlaceOrder(r, code)
                       \/ PlaceOrdersForCart
             Goal == PriceInv' /\ (bills' \in {bills, None} \/ Orders)
  <1>1. CASE ShowCart
    <2>1. UNCHANGED <<catalogue, basket, bills>>
      BY <1>1 DEF ShowCart
    <2>2. QuoteRight'
      BY <1>1, <2>1, ShownStays DEF ShowCart, QuoteRight
    <2>3. QED
      BY <2>1, <2>2 DEF PriceInv, CataloguePriced, catalogue
  <1>2. ASSUME NEW r \in Kitchens, NEW code \in BOOLEAN, PlaceOrder(r, code)
        PROVE  Goal
    <2>1. coupon' \in CouponRow
      <3>1. CASE code /\ coupon.left # None
        BY <1>2, <3>1, CouponUsed DEF PlaceOrder, CouponApplies, PriceInv
      <3>2. CASE ~(code /\ coupon.left # None)
        BY <1>2, <3>2 DEF PlaceOrder, PriceInv, CataloguePriced
      <3>3. QED
        BY <3>1, <3>2
    <2>2. PriceInv'
      BY <1>2, <2>1, PlacedKeeps DEF PlaceOrder
    <2>3. QED
      BY <1>2, <2>2
  <1>3. CASE PlaceOrdersForCart
    <2>1. coupon' \in CouponRow
      BY <1>3 DEF PlaceOrdersForCart, PriceInv, CataloguePriced
    <2>2. PriceInv'
      BY <1>3, <2>1, PlacedKeeps DEF PlaceOrdersForCart
    <2>3. QED
      BY <1>3, <2>2
  <1>4. ASSUME NEW d \in Dishes, NEW row \in DishRows, UpdateDish(d, row)
        PROVE  Goal
    BY <1>4, PricingAssumption DEF UpdateDish, PriceInv, CataloguePriced, QuoteRight
  <1>5. ASSUME NEW r \in Kitchens, NEW row \in KitchenRows, UpdateKitchen(r, row)
        PROVE  Goal
    BY <1>5, PricingAssumption DEF UpdateKitchen, PriceInv, CataloguePriced, QuoteRight
  <1>6. CASE UseCoupon
    BY <1>6, CouponUsed DEF UseCoupon, PriceInv, CataloguePriced, QuoteRight
  <1>7. ASSUME NEW b \in Baskets, FillBasket(b)
        PROVE  Goal
    BY <1>7, PricingAssumption
    DEF FillBasket, catalogue, PriceInv, CataloguePriced, QuoteRight
  <1>8. CASE UNCHANGED priceVars
    <2>1. UNCHANGED <<catalogue, basket, bills, quote>>
      BY <1>8 DEF priceVars
    <2>2. QuoteRight'
      BY <2>1, ShownStays DEF PriceInv, QuoteRight
    <2>3. QED
      BY <2>1, <2>2 DEF PriceInv, CataloguePriced, catalogue
  <1>9. QED
    BY <1>1, <1>2, <1>3, <1>4, <1>5, <1>6, <1>7, <1>8 DEF PriceNext

-----------------------------------------------------------------------------
(* Prices: what the orders charge *)

\* What the property says of a placement that makes the orders new.
ChargedAsShown(new) ==
    LET discount == SumFunction([b \in new |-> b.discount])
    IN  /\ quote.valid
        /\ discount \in {0, quote.discount}
        /\ SumFunction([b \in new |-> b.total]) = quote.grand - discount

LEMMA DiscountType ==
    ASSUME CataloguePriced, NEW amount \in Nat
    PROVE  Discount(amount) \in Int
  <1>1. PICK n : n = amount * coupon.value
    OBVIOUS
  <1>2. coupon.value \in Nat /\ coupon.most \in Nat \cup {None} /\ coupon.percent \in BOOLEAN
    BY DEF CataloguePriced, CouponRow
  <1>3. n \in Nat
    BY <1>1, <1>2
  <1>4. Nearest(n, 100) \in Int
    BY <1>3, Quotient DEF Nearest
  <1>5. PICK share : share = Nearest(n, 100)
    OBVIOUS
  <1>6. QED
    BY <1>1, <1>2, <1>4 DEF Discount, Smaller

LEMMA OneOrderCharges ==
    ASSUME PriceInv, NEW r \in Kitchens, NEW code \in BOOLEAN, PlaceOrder(r, code),
           quote # None, Involved = {r}
    PROVE  ChargedAsShown(bills')
  <1>1. PICK amount : amount = Total(InBasket)
    OBVIOUS
  <1>2. PICK discount : discount = IF code THEN Discount(amount) ELSE 0
    OBVIOUS
  <1>3. PICK b : b = Bill(r, InBasket, discount)
    OBVIOUS
  <1>4. PICK fee : fee = kitchen[r].fee
    OBVIOUS
  <1>5. amount \in Nat /\ fee \in Nat /\ discount \in Int
    <2>1. InBasket \in SUBSET InBasket
      OBVIOUS
    <2>2. amount \in Nat
      BY <1>1, <2>1, TotalIsSum DEF PriceInv
    <2>3. fee \in Nat
      BY <1>4 DEF PriceInv, CataloguePriced, KitchenRow
    <2>4. QED
      BY <1>2, <2>2, <2>3, DiscountType DEF PriceInv
  <1>6. bills' = {b} /\ b.discount = discount /\ b.total = amount + fee - discount
    BY <1>1, <1>2, <1>3, <1>4 DEF PlaceOrder, Placed, Bill
  <1>7. quote.grand = amount + fee /\ quote.valid = CartValid /\ quote.discount = CouponOffer
    <2>1. PICK f : f = [k \in Involved |-> kitchen[k].fee]
      OBVIOUS
    <2>2. f[r] = fee /\ DeliveryFee = SumFunctionOnSet(f, {r})
      BY <1>4, <2>1 DEF DeliveryFee, SumFunction
    <2>3. DeliveryFee = fee
      BY <1>5, <2>2, SumOfOne
    <2>4. QED
      BY <1>1, <2>3 DEF PriceInv, QuoteRight, CartTotal
  <1>8. CartValid
    BY DEF PlaceOrder, CartValid
  <1>9. discount \in {0, CouponOffer}
    BY <1>1, <1>2 DEF PlaceOrder, CouponOffer
  <1>10. SumFunction([x \in bills' |-> x.discount]) = discount
    <2>1. PICK f : f = [x \in {b} |-> x.discount]
      OBVIOUS
    <2>2. f[b] = discount /\ SumFunction(f) = SumFunctionOnSet(f, {b})
      BY <1>6, <2>1 DEF SumFunction
    <2>3. QED
      BY <1>5, <1>6, <2>1, <2>2, SumOfOne
  <1>11. SumFunction([x \in bills' |-> x.total]) = amount + fee - discount
    <2>1. PICK f : f = [x \in {b} |-> x.total]
      OBVIOUS
    <2>2. f[b] = amount + fee - discount /\ SumFunction(f) = SumFunctionOnSet(f, {b})
      BY <1>6, <2>1 DEF SumFunction
    <2>3. f[b] \in Int
      BY <1>5, <2>2
    <2>4. QED
      BY <1>6, <2>1, <2>2, <2>3, SumOfOne
  <1>12. QED
    BY <1>5, <1>7, <1>8, <1>9, <1>10, <1>11 DEF ChargedAsShown

LEMMA OrdersCharge ==
    ASSUME PriceInv, PlaceOrdersForCart, quote # None
    PROVE  ChargedAsShown(bills')
  <1>1. PICK bill : bill = [r \in Involved |-> Bill(r, DishesOf(r), 0)]
    OBVIOUS
  <1>2. PICK items : items = [r \in Involved |-> Total(DishesOf(r))]
    OBVIOUS
  <1>3. PICK fee : fee = [r \in Involved |-> kitchen[r].fee]
    OBVIOUS
  <1>4. PICK B : B = bills'
    OBVIOUS
  <1>5. IsFiniteSet(Involved) /\ Involved \subseteq Kitchens
    BY CartFinite
  <1>6. B = {bill[r] : r \in Involved}
    BY <1>1, <1>4 DEF PlaceOrdersForCart, Placed
  <1>7. ASSUME NEW r \in Involved
        PROVE  /\ items[r] \in Nat /\ fee[r] \in Nat
               /\ bill[r].kitchen = r /\ bill[r].discount = 0
               /\ bill[r].total = items[r] + fee[r]
    <2>1. DishesOf(r) \in SUBSET InBasket
      BY DEF DishesOf
    <2>2. items[r] \in Nat
      BY <1>2, <2>1, TotalIsSum DEF PriceInv
    <2>3. fee[r] \in Nat
      BY <1>3, <1>5 DEF PriceInv, CataloguePriced, KitchenRow
    <2>4. bill[r] = [kitchen |-> r, items |-> items[r], fee |-> fee[r],
                     discount |-> 0, total |-> items[r] + fee[r] - 0]
      BY <1>1, <1>2, <1>3 DEF Bill
    <2>5. QED
      BY <2>2, <2>3, <2>4
  <1>8. SumFunction([x \in bills' |-> x.discount]) = 0
    <2>1. PICK f : f = [x \in B |-> x.discount]
      OBVIOUS
    <2>2. \A x \in B : f[x] = 0
      BY <1>6, <1>7, <2>1
    <2>3. IsFiniteSet(B)
      BY <1>5, <1>6, ImageFinite
    <2>4. SumFunctionOnSet(f, B) = 0
      BY <2>2, <2>3, SumOfZeros
    <2>5. QED
      BY <1>4, <2>1, <2>4 DEF SumFunction
  <1>9. SumFunction([x \in bills' |-> x.total]) = CartTotal
    <2>1. PICK f : f = [x \in B |-> x.total]
      OBVIOUS
    <2>2. PICK g : g = [r \in Involved |-> f[bill[r]]]
      OBVIOUS
    <2>3. \A r \in Involved : /\ items[r] \in Int /\ fee[r] \in Int
                              /\ g[r] = items[r] + fee[r]
                              /\ f[bill[r]] \in Int /\ bill[r].kitchen = r
      BY <1>6, <1>7, <2>1, <2>2
    <2>4. SumFunctionOnSet(f, B) = SumFunctionOnSet(g, Involved)
      BY <1>5, <1>6, <2>2, <2>3, SumOverBills
    <2>5. SumFunctionOnSet(g, Involved)
            = SumFunctionOnSet(items, Involved) + SumFunctionOnSet(fee, Involved)
      BY <1>5, <2>3, SumPlus
    <2>6. SumFunctionOnSet(items, Involved) = Total(InBasket)
      BY <1>2, CartIsSplit DEF PriceInv
    <2>7. SumFunctionOnSet(fee, Involved) = DeliveryFee
      BY <1>3 DEF DeliveryFee, SumFunction
    <2>8. SumFunctionOnSet(f, B) = CartTotal
      BY <2>4, <2>5, <2>6, <2>7 DEF CartTotal
    <2>9. QED
      BY <1>4, <2>1, <2>8 DEF SumFunction
  <1>10. CartValid
    BY DEF PlaceOrdersForCart, CartValid
  <1>11. CartTotal \in Int
    <2>1. InBasket \in SUBSET InBasket
      OBVIOUS
    <2>2. Total(InBasket) \in Nat
      BY <2>1, TotalIsSum DEF PriceInv
    <2>3. \A r \in Involved : fee[r] \in Int
      BY <1>7
    <2>4. SumFunctionOnSet(fee, Involved) \in Int
      BY <1>5, <2>3, SumType
    <2>5. DeliveryFee = SumFunctionOnSet(fee, Involved)
      BY <1>3 DEF DeliveryFee, SumFunction
    <2>6. QED
      BY <2>2, <2>4, <2>5 DEF CartTotal
  <1>12. QED
    BY <1>8, <1>9, <1>10, <1>11 DEF ChargedAsShown, PriceInv, QuoteRight

\* For any menu, any coupons and any cart: if nothing has changed since the customer
\* saw it, the orders together charge the grand total that was shown, less a discount
\* that is the one shown, or none (cart_service.py:280-282, coupons.py:84-93,
\* order_service.py:118-137 and 316-332).
THEOREM CustomerPaysWhatWasShown == PriceSpec => ShownIsCharged
  <1> DEFINE Charges ==
        LET discount == SumFunction([b \in bills' |-> b.discount])
            ordered  == {b.kitchen : b \in bills'}
        IN  quote # None /\ bills' \notin {bills, None} /\ ordered = Involved =>
              /\ quote.valid
              /\ discount \in {0, quote.discount}
              /\ SumFunction([b \in bills' |-> b.total]) = quote.grand - discount
  <1>1. PriceInv /\ [PriceNext]_priceVars => PriceInv'
    BY PriceNextKeeps
  <1>2. PriceInv /\ [PriceNext]_priceVars => [Charges]_priceVars
    <2> SUFFICES ASSUME PriceInv, [PriceNext]_priceVars, quote # None,
                        bills' \notin {bills, None},
                        {b.kitchen : b \in bills'} = Involved
                 PROVE  ChargedAsShown(bills')
      BY DEF ChargedAsShown
    <2>1. ASSUME NEW r \in Kitchens, NEW code \in BOOLEAN, PlaceOrder(r, code)
          PROVE  ChargedAsShown(bills')
      <3>1. PICK b : bills' = {b} /\ b.kitchen = r
        <4>1. PICK b : b = Bill(r, InBasket, IF code THEN Discount(Total(InBasket)) ELSE 0)
          OBVIOUS
        <4>2. QED
          BY <2>1, <4>1 DEF PlaceOrder, Placed, Bill
      <3>2. Involved = {r}
        BY <3>1
      <3>3. QED
        BY <2>1, <3>2, OneOrderCharges
    <2>2. CASE PlaceOrdersForCart
      BY <2>2, OrdersCharge
    <2>3. QED
      BY <2>1, <2>2, PriceNextKeeps
  <1>3. QED
    BY <1>1, <1>2, PriceInitHolds, PTL DEF PriceSpec, ShownIsCharged

-----------------------------------------------------------------------------
(* Reports: largest numbers and the calendar *)

LEMMA MaxIsLargest ==
    ASSUME NEW S, IsFiniteSet(S), S # {}, S \subseteq Int
    PROVE  Max(S) \in S /\ \A x \in S : x <= Max(S)
  <1> DEFINE HasLargest(T) == \E m \in T : \A x \in T : x <= m
             Bad == {T \in SUBSET S : T # {} /\ ~HasLargest(T)}
  <1>1. ASSUME Bad # {} PROVE FALSE
    <2>1. PICK T \in Bad : IsFiniteSet(T) /\ \A U \in Bad : U \subseteq T => U = T
      <3>1. Bad \in SUBSET (SUBSET S) /\ Bad # {} /\ IsFiniteSet(S)
        BY <1>1
      <3> HIDE DEF Bad
      <3>2. QED
        BY ONLY <3>1, SmallestSet
    <2>2. PICK c \in T : TRUE
      BY <2>1
    <2>3. CASE T \ {c} = {}
      <3>1. \A x \in T : x = c
        BY <2>3
      <3>2. QED
        BY <2>1, <2>2, <3>1
    <2>4. CASE T \ {c} # {}
      <3>1. T \ {c} \notin Bad
        BY <2>1, <2>2
      <3>2. PICK m \in T \ {c} : \A x \in T \ {c} : x <= m
        BY <2>1, <2>4, <3>1
      <3>3. m \in Int /\ c \in Int /\ \A x \in T : x \in Int
        BY <2>1, <2>2, <3>2
      <3>4. CASE c <= m
        BY <2>1, <3>2, <3>3, <3>4
      <3>5. CASE m <= c
        BY <2>1, <2>2, <3>2, <3>3, <3>5
      <3>6. QED
        BY <3>3, <3>4, <3>5
    <2>5. QED
      BY <2>3, <2>4
  <1>2. PICK m \in S : \A x \in S : m >= x
    BY <1>1
  <1>3. QED
    BY <1>2 DEF Max

\* A day of the calendar has a first day of its month.
LEMMA FirstOfMonthFacts ==
    ASSUME NEW day \in Int, FirstDays \cap (day - 30..day) # {}
    PROVE  LET m == FirstOfMonth(day)
           IN  /\ m \in FirstDays /\ day - 30 <= m /\ m <= day
               /\ \A a \in FirstDays : a <= day => a <= m
  <1> DEFINE S == FirstDays \cap (day - 30..day)
  <1>1. IsFiniteSet(S) /\ S \subseteq Int /\ S # {}
    <2>1. IsFiniteSet(day - 30..day)
      BY FS_Interval
    <2>2. S \subseteq (day - 30..day)
      OBVIOUS
    <2>3. QED
      BY <2>1, <2>2, FS_Subset
  <1>2. FirstOfMonth(day) = Max(S)
    BY DEF FirstOfMonth
  <1> HIDE DEF S
  <1>3. Max(S) \in S /\ \A x \in S : x <= Max(S)
    BY <1>1, MaxIsLargest
  <1>4. PICK m : m = Max(S)
    OBVIOUS
  <1> USE DEF S
  <1>5. m \in FirstDays /\ m \in day - 30..day
    BY <1>3, <1>4
  <1>6. ASSUME NEW a \in FirstDays, a <= day
        PROVE  a <= m
    <2>1. a \in Int
      BY ReportsAssumption
    <2>2. CASE a < day - 30
      BY <2>1, <2>2, <1>5
    <2>3. CASE a >= day - 30
      <3>1. a \in S
        BY <2>1, <2>3, <1>6
      <3>2. QED
        BY <3>1, <1>3, <1>4
    <2>4. QED
      BY <2>1, <2>2, <2>3
  <1>7. QED
    BY <1>2, <1>4, <1>5, <1>6

LEMMA FirstDaysAreDays == \A a \in FirstDays : a \in Int
  BY ReportsAssumption

\* The year's twelve cursors, one after the other.
LEMMA TwelveSteps ==
    ASSUME NEW Q, 0 \in Q, \A i \in 1..11 : i - 1 \in Q => i \in Q
    PROVE  \A i \in 0..11 : i \in Q
  <1>1. 1 \in Q /\ 2 \in Q /\ 3 \in Q /\ 4 \in Q
    OBVIOUS
  <1>2. 5 \in Q /\ 6 \in Q /\ 7 \in Q /\ 8 \in Q
    BY <1>1
  <1>3. 9 \in Q /\ 10 \in Q /\ 11 \in Q
    BY <1>2
  <1>4. QED
    BY <1>1, <1>2, <1>3

IsCursor(g, n) ==
    g = [i \in 0..n |->
           IF i = 0 THEN FirstOfMonth(Today) ELSE FirstOfMonth(g[i - 1] + 27 - 32)]

\* The function that Cursor is defined by exists.
LEMMA CursorUnfolds == IsCursor(Cursor, 11)
  <1> DEFINE Q == {n \in 0..11 : \E g : IsCursor(g, n)}
  <1>1. 0 \in Q
    <2>1. PICK g : g = [i \in 0..0 |-> FirstOfMonth(Today)]
      OBVIOUS
    <2>2. IsCursor(g, 0)
      BY <2>1 DEF IsCursor
    <2>3. QED
      BY <2>2
  <1>2. ASSUME NEW n \in 1..11, n - 1 \in Q
        PROVE  n \in Q
    <2>1. PICK g : IsCursor(g, n - 1)
      BY <1>2
    <2>2. PICK h : h = [i \in 0..n |-> IF i = n THEN FirstOfMonth(g[n - 1] + 27 - 32)
                                                ELSE g[i]]
      OBVIOUS
    <2>3. \A i \in 0..n - 1 :
             g[i] = IF i = 0 THEN FirstOfMonth(Today) ELSE FirstOfMonth(g[i - 1] + 27 - 32)
      BY <2>1 DEF IsCursor
    <2>4. ASSUME NEW i \in 0..n
          PROVE  h[i] = IF i = 0 THEN FirstOfMonth(Today) ELSE FirstOfMonth(h[i - 1] + 27 - 32)
      <3>1. CASE i = n
        <4>1. h[i] = FirstOfMonth(g[n - 1] + 27 - 32) /\ h[i - 1] = g[n - 1] /\ i # 0
          BY <2>2, <3>1
        <4>2. QED
          BY <4>1, <3>1
      <3>2. CASE i # n
        <4>1. h[i] = g[i] /\ i \in 0..n - 1 /\ (i # 0 => h[i - 1] = g[i - 1])
          BY <2>2, <3>2
        <4>2. QED
          BY <4>1, <2>3
      <3>3. QED
        BY <3>1, <3>2
    <2>5. IsCursor(h, n)
      BY <2>2, <2>4 DEF IsCursor
    <2>6. QED
      BY <2>5
  <1>3. 11 \in Q
    <2> HIDE DEF Q
    <2>1. QED
      BY <1>1, <1>2, TwelveSteps
  <1>4. \E g : IsCursor(g, 11)
    BY <1>3
  <1>5. Cursor = CHOOSE g : IsCursor(g, 11)
    BY DEF Cursor, IsCursor
  <1>6. QED
    BY <1>4, <1>5

\* The months that the calendar has: those of the last thirteen.
Dated ==
    /\ Today \in Int
    /\ \A day \in (Today - 403)..Today : FirstDays \cap (day - 30..day) # {}

LEMMA CursorStep ==
    ASSUME Dated, NEW i \in 1..11, Cursor[i - 1] \in FirstDays,
           Today - 372 <= Cursor[i - 1], Cursor[i - 1] <= Today
    PROVE  /\ Cursor[i] \in FirstDays
           /\ Cursor[i - 1] - 31 <= Cursor[i] /\ Cursor[i] < Cursor[i - 1]
           /\ \A a \in FirstDays : a < Cursor[i - 1] => a <= Cursor[i]
  <1>1. PICK p : p = Cursor[i - 1]
    OBVIOUS
  <1>2. p \in FirstDays /\ p \in Int /\ Today - 372 <= p /\ p <= Today
    BY <1>1, FirstDaysAreDays DEF Dated
  <1>3. Cursor[i] = FirstOfMonth(p + 27 - 32)
    BY <1>1, CursorUnfolds DEF IsCursor
  <1>4. p + 27 - 32 = p - 5
    BY <1>2
  <1>5. p - 1 \in (Today - 403)..Today
    BY <1>2 DEF Dated
  <1>6. PICK q : q = FirstOfMonth(p - 1)
    OBVIOUS
  <1>7. /\ q \in FirstDays /\ p - 31 <= q /\ q <= p - 1
        /\ \A a \in FirstDays : a <= p - 1 => a <= q
    <2>1. FirstDays \cap (p - 1 - 30..p - 1) # {} /\ p - 1 \in Int
      BY <1>2, <1>5 DEF Dated
    <2>2. /\ q \in FirstDays /\ p - 1 - 30 <= q /\ q <= p - 1
          /\ \A a \in FirstDays : a <= p - 1 => a <= q
      BY <1>6, <2>1, FirstOfMonthFacts
    <2>3. QED
      BY <1>2, <2>2, ReportsAssumption
  <1>8. q \in Int /\ q <= p - 28
    BY <1>2, <1>7, ReportsAssumption, CalendarAssumption
  <1>9. PICK c : c = FirstOfMonth(p - 5)
    OBVIOUS
  <1>10. /\ c \in FirstDays /\ c \in Int /\ c <= p - 5
         /\ \A a \in FirstDays : a <= p - 5 => a <= c
    <2>1. q \in FirstDays \cap (p - 5 - 30..p - 5) /\ p - 5 \in Int
      BY <1>2, <1>7, <1>8
    <2>2. FirstDays \cap (p - 5 - 30..p - 5) # {}
      BY <2>1
    <2>3. /\ c \in FirstDays /\ c <= p - 5
          /\ \A a \in FirstDays : a <= p - 5 => a <= c
      BY <1>9, <2>1, <2>2, FirstOfMonthFacts
    <2>4. QED
      BY <2>3, FirstDaysAreDays
  <1>11. c = q
    <2>1. q <= c
      BY <1>2, <1>7, <1>8, <1>10
    <2>2. c <= q
      BY <1>2, <1>7, <1>10
    <2>3. QED
      BY <1>8, <1>10, <2>1, <2>2
  <1>12. \A a \in FirstDays : a < p => a <= q
    BY <1>2, <1>7, ReportsAssumption
  <1>13. QED
    BY <1>1, <1>2, <1>3, <1>4, <1>7, <1>8, <1>9, <1>11, <1>12

\* Every cursor is the first day of a month, each of the month before.
LEMMA CursorFacts ==
    ASSUME Dated
    PROVE  /\ DOMAIN Cursor = 0..11
           /\ \A i \in 0..11 : /\ Cursor[i] \in FirstDays /\ Cursor[i] <= Today
                               /\ Today - 30 - 31 * i <= Cursor[i]
           /\ \A i \in 1..11 :
                /\ Cursor[i] < Cursor[i - 1]
                /\ \A a \in FirstDays : a < Cursor[i - 1] => a <= Cursor[i]
           /\ \A a \in FirstDays : a <= Today => a <= Cursor[0]
  <1> DEFINE Good(i) == /\ Cursor[i] \in FirstDays /\ Cursor[i] <= Today
                        /\ Today - 30 - 31 * i <= Cursor[i]
             Q == {i \in 0..11 : Good(i)}
  <1>1. DOMAIN Cursor = 0..11 /\ Cursor[0] = FirstOfMonth(Today)
    BY CursorUnfolds DEF IsCursor
  <1>2. /\ Cursor[0] \in FirstDays /\ Today - 30 <= Cursor[0] /\ Cursor[0] <= Today
        /\ \A a \in FirstDays : a <= Today => a <= Cursor[0]
    <2>1. Today \in Int /\ FirstDays \cap (Today - 30..Today) # {}
      BY DEF Dated
    <2>2. QED
      BY <1>1, <2>1, FirstOfMonthFacts
  <1>3. 0 \in Q
    BY <1>2 DEF Dated
  <1>4. ASSUME NEW i \in 1..11, Good(i - 1)
        PROVE  /\ Good(i) /\ Cursor[i] < Cursor[i - 1]
               /\ \A a \in FirstDays : a < Cursor[i - 1] => a <= Cursor[i]
    <2>1. PICK t \in Int : t = Today
      BY DEF Dated
    <2>2. PICK p : p = Cursor[i - 1]
      OBVIOUS
    <2>3. p \in FirstDays /\ p \in Int /\ p <= t /\ t - 30 - 31 * (i - 1) <= p
      BY <1>4, <2>1, <2>2, FirstDaysAreDays
    <2>4. t - 372 <= p
      BY <2>3
    <2>5. PICK c : c = Cursor[i]
      OBVIOUS
    <2>6. /\ c \in FirstDays /\ p - 31 <= c /\ c < p
          /\ \A a \in FirstDays : a < p => a <= c
      BY <2>1, <2>2, <2>3, <2>4, <2>5, CursorStep
    <2>7. c \in Int /\ c <= t /\ t - 30 - 31 * i <= c
      BY <2>3, <2>6, ReportsAssumption
    <2>8. QED
      BY <2>1, <2>2, <2>5, <2>6, <2>7
  <1>5. \A i \in 0..11 : i \in Q
    <2>1. \A i \in 1..11 : i - 1 \in Q => i \in Q
      BY <1>4
    <2> HIDE DEF Q
    <2>2. QED
      BY <1>3, <2>1, TwelveSteps
  <1>6. \A i \in 1..11 : Good(i - 1)
    <2>1. \A i \in 1..11 : i - 1 \in 0..11
      OBVIOUS
    <2>2. QED
      BY <1>5, <2>1
  <1>7. QED
    BY <1>1, <1>2, <1>4, <1>5, <1>6

\* No month since the last cursor's is left out, and none before is a label.
LEMMA MonthsAreLabels ==
    ASSUME Dated, NEW a \in FirstDays, a <= Today
    PROVE  a \in Range(Cursor) <=> Cursor[11] <= a
  <1>1. a \in Int /\ \A i \in 0..11 : Cursor[i] \in Int
    BY CursorFacts, FirstDaysAreDays
  <1>2. ASSUME a \notin Range(Cursor) PROVE a < Cursor[11]
    <2> DEFINE Q == {i \in 0..11 : a < Cursor[i]}
    <2>1. \A i \in 0..11 : a # Cursor[i]
      BY <1>2, CursorFacts DEF Range
    <2>2. 0 \in Q
      BY <1>1, <2>1, CursorFacts
    <2>3. \A i \in 1..11 : i - 1 \in Q => i \in Q
      BY <1>1, <2>1, CursorFacts
    <2>4. \A i \in 0..11 : i \in Q
      <3> HIDE DEF Q
      <3>1. QED
        BY <2>2, <2>3, TwelveSteps
    <2>5. QED
      BY <2>4
  <1>3. ASSUME a < Cursor[11] PROVE a \notin Range(Cursor)
    <2> DEFINE Q == {i \in 0..11 : a < Cursor[11 - i]}
    <2>1. 0 \in Q
      BY <1>3
    <2>2. ASSUME NEW i \in 1..11, i - 1 \in Q PROVE i \in Q
      <3>1. PICK j : j = 12 - i
        OBVIOUS
      <3>2. j \in 1..11 /\ j = 11 - (i - 1) /\ j - 1 = 11 - i
        BY <3>1
      <3>3. Cursor[j] < Cursor[j - 1] /\ a < Cursor[j]
        BY <2>2, <3>2, CursorFacts
      <3>4. a < Cursor[11 - i]
        BY <1>1, <3>2, <3>3
      <3>5. QED
        BY <3>4
    <2>3. \A i \in 0..11 : i \in Q
      <3> HIDE DEF Q
      <3>1. QED
        BY <2>1, <2>2, TwelveSteps
    <2>4. \A i \in 0..11 : a < Cursor[i]
      <3>1. SUFFICES ASSUME NEW i \in 0..11 PROVE a < Cursor[i]
        OBVIOUS
      <3>2. 11 - i \in 0..11 /\ 11 - (11 - i) = i
        OBVIOUS
      <3>3. a < Cursor[11 - (11 - i)]
        BY <2>3, <3>2
      <3>4. QED
        BY <3>2, <3>3
    <2>5. QED
      BY <1>1, <2>4, CursorFacts DEF Range
  <1>4. QED
    BY <1>1, <1>2, <1>3, CursorFacts

-----------------------------------------------------------------------------
(* Reports: the inductive invariant *)

SaleRow ==
    [status : {"PLACED", "DELIVERED", "CANCELLED", "FAILED"},
     created : Nat, ended : Int, amount : Nat, earned : Nat]

\* Nothing is dated later than now, and now is a day that the calendar has.
ReportsInv ==
    /\ sale \in [Sales -> SaleRow \cup {NoSale}]
    /\ now \in Nat /\ leaps \in 0..MaxLeaps
    /\ \A o \in Sold : sale[o].created <= now /\ sale[o].ended <= now
    /\ \E e \in Epochs, n \in Leaps \cup {0} : e <= now /\ now <= e + leaps * n

LEMMA RowFacts ==
    ASSUME ReportsInv, NEW o \in Sold
    PROVE  /\ o \in Sales /\ sale[o] \in SaleRow
           /\ sale[o].created \in Nat /\ sale[o].ended \in Int
           /\ sale[o].amount \in Nat /\ sale[o].earned \in Nat
           /\ sale[o].created <= now /\ sale[o].ended <= now
  BY DEF ReportsInv, Sold, SaleRow

LEMMA SoldFinite ==
    ASSUME NEW S \in SUBSET Sold
    PROVE  IsFiniteSet(S) /\ Cardinality(S) \in Nat
  <1>1. S \subseteq Sales
    BY DEF Sold
  <1>2. QED
    BY <1>1, ReportsAssumption, FS_Subset, FS_CardinalityType

LEMMA ReportsInitHolds == ReportsInit => ReportsInv
  <1> SUFFICES ASSUME ReportsInit PROVE ReportsInv
    OBVIOUS
  <1>1. now \in Nat /\ now \in Epochs /\ leaps = 0 /\ leaps \in 0..MaxLeaps
    BY ReportsAssumption DEF ReportsInit
  <1>2. now <= now /\ now <= now + leaps * 0
    BY <1>1
  <1>3. Sold = {}
    BY DEF ReportsInit, Sold
  <1>4. QED
    BY <1>1, <1>2, <1>3 DEF ReportsInit, ReportsInv

LEMMA PlaceSaleKeeps ==
    ASSUME ReportsInv, NEW o \in Sales, NEW amount \in Amounts, PlaceSale(o, amount)
    PROVE  ReportsInv'
  <1>1. PICK r : r = [status |-> "PLACED", created |-> now, ended |-> -1,
                      amount |-> amount, earned |-> 0]
    OBVIOUS
  <1>2. r \in SaleRow /\ r.created <= now /\ r.ended <= now
    BY <1>1, ReportsAssumption DEF ReportsInv, SaleRow
  <1>3. sale' = [sale EXCEPT ![o] = r] /\ now' = now /\ leaps' = leaps
    BY <1>1 DEF PlaceSale
  <1>4. sale' \in [Sales -> SaleRow \cup {NoSale}]
    BY <1>2, <1>3 DEF ReportsInv
  <1>5. ASSUME NEW p \in Sold'
        PROVE  sale'[p].created <= now /\ sale'[p].ended <= now
    <2>1. CASE p = o
      BY <2>1, <1>2, <1>3 DEF ReportsInv
    <2>2. CASE p # o
      BY <2>2, <1>3, <1>5 DEF ReportsInv, Sold
    <2>3. QED
      BY <2>1, <2>2
  <1>6. QED
    BY <1>3, <1>4, <1>5 DEF ReportsInv

LEMMA EndSaleKeeps ==
    ASSUME ReportsInv, NEW o \in Sales, NEW pay \in Pays \cup {0},
           NEW st \in {"DELIVERED", "CANCELLED", "FAILED"}, EndSale(o, st, pay)
    PROVE  ReportsInv'
  <1>1. PICK r : r = [sale[o] EXCEPT !.status = st, !.ended = now, !.earned = pay]
    OBVIOUS
  <1>2. o \in Sold /\ sale[o] \in SaleRow /\ sale[o].created <= now
    BY RowFacts DEF EndSale
  <1>3. r \in SaleRow /\ r.created <= now /\ r.ended <= now
    <2>1. pay \in Nat /\ now \in Int /\ now <= now
      BY ReportsAssumption DEF ReportsInv
    <2>2. QED
      BY <1>1, <1>2, <2>1 DEF SaleRow
  <1>4. sale' = [sale EXCEPT ![o] = r] /\ now' = now /\ leaps' = leaps
    BY <1>1, <1>2 DEF EndSale, ReportsInv, SaleRow
  <1>5. sale' \in [Sales -> SaleRow \cup {NoSale}]
    BY <1>3, <1>4 DEF ReportsInv
  <1>6. ASSUME NEW p \in Sold'
        PROVE  sale'[p].created <= now /\ sale'[p].ended <= now
    <2>1. CASE p = o
      BY <2>1, <1>3, <1>4 DEF ReportsInv
    <2>2. CASE p # o
      BY <2>2, <1>4, <1>6 DEF ReportsInv, Sold
    <2>3. QED
      BY <2>1, <2>2
  <1>7. QED
    BY <1>4, <1>5, <1>6 DEF ReportsInv

\* Two leaps are no longer than twice the longer one.
LEMMA TimePassesKeeps ==
    ASSUME ReportsInv, NEW n \in Leaps, TimePasses(n)
    PROVE  ReportsInv'
  <1>1. now' = now + n /\ leaps' = leaps + 1 /\ leaps < MaxLeaps /\ sale' = sale
    BY DEF TimePasses
  <1>2. n \in Nat /\ now \in Nat /\ leaps \in Nat /\ MaxLeaps \in Nat
    BY ReportsAssumption DEF ReportsInv
  <1>3. PICK e \in Epochs, m \in Leaps \cup {0} : e <= now /\ now <= e + leaps * m
    BY DEF ReportsInv
  <1>4. e \in Nat /\ m \in Nat
    BY ReportsAssumption
  <1>5. PICK k \in Leaps \cup {0} : k \in Nat /\ m <= k /\ n <= k
    <2>1. CASE m <= n
      BY <2>1, <1>2
    <2>2. CASE n <= m
      BY <2>2, <1>4
    <2>3. QED
      BY <2>1, <2>2, <1>2, <1>4
  <1>6. leaps * m <= leaps * k
    BY <1>2, <1>4, <1>5
  <1>7. PICK a, b \in Nat : a = leaps * m /\ b = leaps * k
    BY <1>2, <1>4, <1>5
  <1>8. leaps' * k = b + k
    BY <1>1, <1>2, <1>5, <1>7
  <1>9. now' <= e + leaps' * k /\ e <= now'
    BY <1>1, <1>2, <1>3, <1>4, <1>5, <1>6, <1>7, <1>8
  <1>10. Sold' = Sold
    BY <1>1 DEF Sold
  <1>11. \A o \in Sold' : sale'[o].created <= now' /\ sale'[o].ended <= now'
    <2>1. SUFFICES ASSUME NEW o \in Sold
                   PROVE  sale[o].created <= now + n /\ sale[o].ended <= now + n
      BY <1>1, <1>10
    <2>2. QED
      BY <1>2, RowFacts
  <1>12. now' \in Nat /\ leaps' \in 0..MaxLeaps
    BY <1>1, <1>2
  <1>13. QED
    BY <1>1, <1>5, <1>9, <1>11, <1>12 DEF ReportsInv

LEMMA ReportsNextKeeps == ReportsInv /\ [ReportsNext]_reportVars => ReportsInv'
  <1> SUFFICES ASSUME ReportsInv, [ReportsNext]_reportVars PROVE ReportsInv'
    OBVIOUS
  <1>1. CASE UNCHANGED reportVars
    BY <1>1 DEF reportVars, ReportsInv, Sold
  <1>2. QED
    BY <1>1, PlaceSaleKeeps, EndSaleKeeps, TimePassesKeeps DEF ReportsNext

\* Today and the thirteen months before it are in the calendar.
LEMMA TodayIsDated == ReportsInv => Dated
  <1> SUFFICES ASSUME ReportsInv PROVE Dated
    OBVIOUS
  <1>1. PICK e \in Epochs, n \in Leaps \cup {0} : e <= now /\ now <= e + leaps * n
    BY DEF ReportsInv
  <1>2. e \in Nat /\ n \in Nat /\ now \in Nat /\ leaps \in Nat /\ MaxLeaps \in Nat
        /\ leaps <= MaxLeaps
    BY ReportsAssumption DEF ReportsInv
  <1>3. PICK a, b \in Nat : a = leaps * n /\ b = MaxLeaps * n
    BY <1>2
  <1>4. a <= b
    BY <1>2, <1>3
  <1>5. IstDay(e) <= Today /\ Today <= IstDay(e + b) /\ Today \in Int
        /\ IstDay(e) \in Int /\ IstDay(e + b) \in Int
    BY <1>1, <1>2, <1>3, <1>4 DEF IstDay, Today
  <1>6. \A day \in (IstDay(e) - 403)..IstDay(e + b) : FirstDays \cap (day - 30..day) # {}
    BY <1>3, CalendarAssumption
  <1>7. \A day \in (Today - 403)..Today :
           day \in (IstDay(e) - 403)..IstDay(e + b)
    BY <1>5
  <1>8. QED
    BY <1>5, <1>6, <1>7 DEF Dated

-----------------------------------------------------------------------------
(* Reports: the charts *)

LEMMA RevenueIsSum ==
    ASSUME ReportsInv, NEW f, f = [o \in Sold |-> sale[o].amount],
           NEW S \in SUBSET Sold
    PROVE  Revenue(S) = SumFunctionOnSet(f, S) /\ Revenue(S) \in Nat
  <1>1. PICK g : g = [o \in S |-> sale[o].amount]
    OBVIOUS
  <1>2. \A o \in S : g[o] = f[o] /\ f[o] \in Nat
    BY <1>1, RowFacts
  <1>3. IsFiniteSet(S)
    BY SoldFinite
  <1>4. Revenue(S) = SumFunctionOnSet(g, S)
    BY <1>1 DEF Revenue, SumFunction
  <1>5. SumFunctionOnSet(g, S) = SumFunctionOnSet(f, S)
    BY <1>2, <1>3, SumSame
  <1>6. SumFunctionOnSet(f, S) \in Nat
    BY <1>2, <1>3, SumNat
  <1>7. QED
    BY <1>4, <1>5, <1>6

\* Figures of parts of some orders add up to those of the orders.
LEMMA FiguresAddUp ==
    ASSUME ReportsInv, NEW S \in SUBSET Sold, NEW L, IsFiniteSet(L),
           NEW b, \A o \in S : b[o] \in L,
           NEW part, \A l \in L : part[l] \in SUBSET S,
           \A o \in S : \A l \in L : o \in part[l] <=> b[o] = l,
           NEW count, \A l \in L : count[l] = Cardinality(part[l]),
           NEW money, \A l \in L : money[l] = Revenue(part[l])
    PROVE  /\ SumFunctionOnSet(count, L) = Cardinality(S)
           /\ SumFunctionOnSet(money, L) = Revenue(S)
  <1>1. IsFiniteSet(S)
    BY SoldFinite
  <1>2. SumFunctionOnSet(count, L) = Cardinality(S)
    BY <1>1, PartsCount
  <1>3. PICK f : f = [o \in Sold |-> sale[o].amount]
    OBVIOUS
  <1>4. \A o \in S : f[o] \in Int
    BY <1>3, RowFacts
  <1>5. ASSUME NEW l \in L PROVE money[l] = SumFunctionOnSet(f, part[l])
    <2>1. part[l] \in SUBSET Sold
      OBVIOUS
    <2>2. QED
      BY <1>3, <2>1, RevenueIsSum
  <1>6. SumFunctionOnSet(money, L) = SumFunctionOnSet(f, S)
    BY <1>1, <1>4, <1>5, SumPartition
  <1>7. QED
    BY <1>2, <1>3, <1>6, RevenueIsSum

\* What the property says of a chart and the orders it should show.
ChartShows(chart, S) ==
    /\ SumFunction([l \in DOMAIN chart |-> chart[l].orders]) = Cardinality(S)
    /\ SumFunction([l \in DOMAIN chart |-> chart[l].revenue]) = Revenue(S)

\* A chart shows the orders whose bucket is one of its labels.
LEMMA ChartShowsBuckets ==
    ASSUME ReportsInv, NEW period, IsFiniteSet(Labels(period)),
           NEW S \in SUBSET Charted(period),
           \A o \in Charted(period) :
              Bucket(period, Created(o)) \in Labels(period) <=> o \in S
    PROVE  ChartShows(RevenueChart(period), S)
  <1>1. PICK L : L = Labels(period)
    OBVIOUS
  <1>2. PICK chart : chart = RevenueChart(period)
    OBVIOUS
  <1>3. PICK b : b = [o \in Charted(period) |-> Bucket(period, Created(o))]
    OBVIOUS
  <1>4. PICK part : part = [l \in L |-> {o \in Charted(period) : Bucket(period, Created(o)) = l}]
    OBVIOUS
  <1>5. PICK count : count = [l \in L |-> chart[l].orders]
    OBVIOUS
  <1>6. PICK money : money = [l \in L |-> chart[l].revenue]
    OBVIOUS
  <1>7. chart = [l \in L |-> Figures(part[l])]
    BY <1>1, <1>2, <1>4 DEF RevenueChart
  <1>8. \A l \in L : count[l] = Cardinality(part[l]) /\ money[l] = Revenue(part[l])
    BY <1>5, <1>6, <1>7 DEF Figures
  <1>9. S \in SUBSET Sold
    BY DEF Charted, PlacedSince
  <1>10. \A o \in S : b[o] \in L
    BY <1>1, <1>3
  <1>11. \A l \in L : part[l] \in SUBSET S
    BY <1>1, <1>4
  <1>12. \A o \in S : \A l \in L : o \in part[l] <=> b[o] = l
    BY <1>3, <1>4
  <1>13. /\ SumFunctionOnSet(count, L) = Cardinality(S)
         /\ SumFunctionOnSet(money, L) = Revenue(S)
    BY <1>1, <1>8, <1>9, <1>10, <1>11, <1>12, FiguresAddUp
  <1>14. DOMAIN chart = L
    BY <1>7
  <1>15. QED
    BY <1>2, <1>5, <1>6, <1>13, <1>14 DEF ChartShows, SumFunction

LEMMA PeriodFacts ==
    /\ PeriodStart("7days") = Today - 6 /\ PeriodStart("30days") = Today - 29
    /\ PeriodStart("3months") = Today - 89 /\ PeriodStart("year") = Today - 364
    /\ \A day : /\ Bucket("7days", day) = day /\ Bucket("30days", day) = day
                /\ Bucket("3months", day) = Monday(day)
                /\ Bucket("year", day) = FirstOfMonth(day)
    /\ Labels("7days") = PeriodStart("7days")..Today
    /\ Labels("30days") = PeriodStart("30days")..Today
    /\ Labels("3months") = {d \in Monday(PeriodStart("3months"))..Today : d = Monday(d)}
    /\ Labels("year") = Range(Cursor)
  <1>1. /\ "7days" # "30days" /\ "7days" # "3months" /\ "7days" # "year"
        /\ "30days" # "3months" /\ "30days" # "year" /\ "3months" # "year"
    OBVIOUS
  <1>2. /\ PeriodStart("7days") = Today - 6 /\ PeriodStart("30days") = Today - 29
        /\ PeriodStart("3months") = Today - 89 /\ PeriodStart("year") = Today - 364
    BY <1>1, Zenon DEF PeriodStart
  <1>3. ASSUME NEW day
        PROVE  /\ Bucket("7days", day) = day /\ Bucket("30days", day) = day
               /\ Bucket("3months", day) = Monday(day)
               /\ Bucket("year", day) = FirstOfMonth(day)
    BY <1>1, Zenon DEF Bucket
  <1>4. /\ Labels("7days") = PeriodStart("7days")..Today
        /\ Labels("30days") = PeriodStart("30days")..Today
    BY <1>1, Zenon DEF Labels
  <1>5. /\ Labels("3months") = {d \in Monday(PeriodStart("3months"))..Today : d = Monday(d)}
        /\ Labels("year") = Range(Cursor)
    BY <1>1, Zenon DEF Labels
  <1>6. QED
    BY <1>2, <1>3, <1>4, <1>5

\* Mondays come every seven days.
LEMMA MondayFacts ==
    ASSUME NEW day \in Int
    PROVE  /\ Monday(day) \in Int /\ Monday(day) <= day /\ day - 6 <= Monday(day)
           /\ Monday(Monday(day)) = Monday(day)
           /\ \A e \in Int : e <= day => Monday(e) <= Monday(day)
  BY DEF Monday

\* The day of an order is a day until today.
LEMMA CreatedFacts ==
    ASSUME ReportsInv, NEW o \in Sold
    PROVE  Created(o) \in Int /\ Created(o) <= Today
  <1>1. sale[o].created \in Nat /\ sale[o].created <= now /\ now \in Nat
    BY RowFacts DEF ReportsInv
  <1>2. QED
    BY <1>1 DEF Created, Today, IstDay

LEMMA TodayType == ReportsInv => Today \in Int
  BY DEF ReportsInv, Today, IstDay

LEMMA DaysChart ==
    ASSUME ReportsInv, NEW period \in {"7days", "30days"}
    PROVE  ChartShows(RevenueChart(period), Charted(period))
  <1>1. /\ Labels(period) = PeriodStart(period)..Today
        /\ \A day : Bucket(period, day) = day
        /\ Today \in Int /\ PeriodStart(period) \in Int
    BY PeriodFacts, TodayType
  <1>2. IsFiniteSet(Labels(period))
    BY <1>1, FS_Interval
  <1>3. ASSUME NEW o \in Charted(period)
        PROVE  Bucket(period, Created(o)) \in Labels(period)
    <2>1. o \in Sold /\ Created(o) >= PeriodStart(period)
      BY DEF Charted, PlacedSince
    <2>2. QED
      BY <1>1, <2>1, CreatedFacts
  <1>4. QED
    BY <1>2, <1>3, ChartShowsBuckets

LEMMA WeeksChart ==
    ASSUME ReportsInv
    PROVE  ChartShows(RevenueChart("3months"), Charted("3months"))
  <1>1. PICK start : start = PeriodStart("3months")
    OBVIOUS
  <1>2. Today \in Int /\ start \in Int
    BY <1>1, PeriodFacts, TodayType
  <1>3. Labels("3months") = {d \in Monday(start)..Today : d = Monday(d)}
    BY <1>1, PeriodFacts
  <1>4. IsFiniteSet(Labels("3months"))
    <2>1. Monday(start) \in Int
      BY <1>2, MondayFacts
    <2>2. IsFiniteSet(Monday(start)..Today)
      BY <1>2, <2>1, FS_Interval
    <2>3. Labels("3months") \subseteq Monday(start)..Today
      BY <1>3
    <2>4. QED
      BY <2>2, <2>3, FS_Subset
  <1>5. ASSUME NEW o \in Charted("3months")
        PROVE  Bucket("3months", Created(o)) \in Labels("3months")
    <2>1. PICK day : day = Created(o)
      OBVIOUS
    <2>2. o \in Sold /\ day >= start
      BY <1>1, <2>1 DEF Charted, PlacedSince
    <2>3. day \in Int /\ day <= Today
      BY <2>1, <2>2, CreatedFacts
    <2>4. PICK m : m = Monday(day)
      OBVIOUS
    <2>5. m \in Int /\ m <= Today /\ Monday(start) <= m /\ Monday(m) = m
          /\ Monday(start) \in Int
      BY <1>2, <2>2, <2>3, <2>4, MondayFacts
    <2>6. m \in Labels("3months")
      BY <1>2, <1>3, <2>5
    <2>7. QED
      BY <2>1, <2>4, <2>6, PeriodFacts
  <1>6. QED
    BY <1>4, <1>5, ChartShowsBuckets

\* The year's chart drops the thirteenth month that it begins in, and no more.
LEMMA MonthsChart ==
    ASSUME ReportsInv
    PROVE  ChartShows(RevenueChart("year"),
                      {o \in Charted("year") : Created(o) >= Cursor[11]})
  <1>1. PICK S : S = {o \in Charted("year") : Created(o) >= Cursor[11]}
    OBVIOUS
  <1>2. Dated /\ Today \in Int
    BY TodayIsDated DEF Dated
  <1>3. Labels("year") = Range(Cursor) /\ PeriodStart("year") = Today - 364
    BY PeriodFacts
  <1>4. IsFiniteSet(Labels("year"))
    <2>1. IsFiniteSet(0..11)
      <3>1. 0 \in Int /\ 11 \in Int
        OBVIOUS
      <3>2. QED
        BY <3>1, FS_Interval, Zenon
    <2>2. /\ \A i \in 0..11 : Cursor[i] \in Range(Cursor)
          /\ \A y \in Range(Cursor) : \E i \in 0..11 : Cursor[i] = y
      BY <1>2, CursorFacts DEF Range
    <2>3. QED
      BY <1>3, <2>1, <2>2, ImageFinite
  <1>5. ASSUME NEW o \in Charted("year")
        PROVE  Bucket("year", Created(o)) \in Labels("year") <=> o \in S
    <2>1. PICK day : day = Created(o)
      OBVIOUS
    <2>2. o \in Sold /\ day >= Today - 364
      BY <1>3, <2>1 DEF Charted, PlacedSince
    <2>3. day \in Int /\ day <= Today
      BY <2>1, <2>2, CreatedFacts
    <2>4. FirstDays \cap (day - 30..day) # {}
      BY <1>2, <2>2, <2>3 DEF Dated
    <2>5. PICK m : m = FirstOfMonth(day)
      OBVIOUS
    <2>6. m \in FirstDays /\ m <= day /\ \A a \in FirstDays : a <= day => a <= m
      BY <2>3, <2>4, <2>5, FirstOfMonthFacts
    <2>7. m \in Int /\ m <= Today
      BY <1>2, <2>3, <2>6, FirstDaysAreDays
    <2>8. Cursor[11] \in FirstDays /\ Cursor[11] \in Int
      BY <1>2, CursorFacts, FirstDaysAreDays
    <2>9. Cursor[11] <= m <=> Cursor[11] <= day
      BY <2>3, <2>6, <2>7, <2>8
    <2>10. m \in Labels("year") <=> Cursor[11] <= m
      BY <1>2, <1>3, <2>6, <2>7, MonthsAreLabels
    <2>11. o \in S <=> Cursor[11] <= day
      BY <1>1, <2>1, <2>3, <2>8
    <2>12. QED
      BY <2>1, <2>5, <2>9, <2>10, <2>11, PeriodFacts
  <1>6. S \in SUBSET Charted("year")
    BY <1>1
  <1>7. QED
    BY <1>1, <1>4, <1>5, <1>6, ChartShowsBuckets

LEMMA ChartsFollow == ReportsInv => ChartsAddUp
  <1> SUFFICES ASSUME ReportsInv, NEW period \in Periods
               PROVE  ChartShows(RevenueChart(period),
                        {o \in Charted(period) :
                           period = "year" => Created(o) >= Cursor[11]})
    BY DEF ChartsAddUp, ChartShows
  <1>1. CASE period = "year"
    <2>1. {o \in Charted(period) : period = "year" => Created(o) >= Cursor[11]}
            = {o \in Charted("year") : Created(o) >= Cursor[11]}
      BY <1>1
    <2>2. QED
      BY <1>1, <2>1, MonthsChart
  <1>2. CASE period # "year"
    <2>1. {o \in Charted(period) : period = "year" => Created(o) >= Cursor[11]}
            = Charted(period)
      BY <1>2
    <2>2. period \in {"7days", "30days"} \/ period = "3months"
      BY <1>2 DEF Periods
    <2>3. QED
      BY <2>1, <2>2, DaysChart, WeeksChart
  <1>3. QED
    BY <1>1, <1>2

-----------------------------------------------------------------------------
(* Reports: the partner's week *)

\* A UTC day is the quarters between two midnights.
LEMMA UtcDayFacts ==
    ASSUME NEW t \in Int
    PROVE  /\ UtcDay(t) \in Int
           /\ \A d \in Int : /\ UtcDay(t) = d <=> 4 * d <= t /\ t < 4 * d + 4
                             /\ UtcDay(t) >= d <=> t >= 4 * d
  BY DEF UtcDay

LEMMA WeeksFollow == ReportsInv => WeeksAgree
  <1> SUFFICES ASSUME ReportsInv PROVE WeeksAgree
    OBVIOUS
  <1>1. PICK today \in Int : today = UtcDay(now)
    BY UtcDayFacts DEF ReportsInv
  <1>2. PICK rows : rows = {o \in Earned : UtcDay(sale[o].ended) >= today - 6}
    OBVIOUS
  <1>3. ASSUME NEW o \in Earned
        PROVE  sale[o].ended \in Int /\ sale[o].ended <= now /\ now \in Int
    <2>1. o \in Sold
      BY DEF Earned
    <2>2. QED
      BY <2>1, RowFacts DEF ReportsInv
  <1>4. ASSUME NEW i \in 0..6, NEW from, from = 4 * today - 4 * (6 - i)
        PROVE  {o \in rows : UtcDay(sale[o].ended) = today - 6 + i}
                 = {o \in Earned : from <= sale[o].ended /\ sale[o].ended < from + 4}
    <2>1. PICK d \in Int : d = today - 6 + i
      BY <1>1
    <2>2. from = 4 * d /\ d >= today - 6
      BY <1>1, <1>4, <2>1
    <2>3. ASSUME NEW o \in Earned
          PROVE  /\ UtcDay(sale[o].ended) = d
                      <=> from <= sale[o].ended /\ sale[o].ended < from + 4
                 /\ UtcDay(sale[o].ended) = d => UtcDay(sale[o].ended) >= today - 6
      BY <1>3, <2>2, UtcDayFacts
    <2>4. QED
      BY <1>2, <2>1, <2>3
  <1>5. WeeklyEarnings = [i \in 0..6 |->
           Earnings({o \in rows : UtcDay(sale[o].ended) = today - 6 + i})]
    BY <1>1, <1>2 DEF WeeklyEarnings
  <1>6. AgentEarnings = [i \in 0..6 |->
           Earnings({o \in Earned : /\ 4 * today - 4 * (6 - i) <= sale[o].ended
                                    /\ sale[o].ended < 4 * today - 4 * (6 - i) + 4})]
    BY <1>1 DEF AgentEarnings
  <1>7. WeeklyEarnings = AgentEarnings
    <2>1. \A i \in 0..6 :
            {o \in rows : UtcDay(sale[o].ended) = today - 6 + i}
              = {o \in Earned : /\ 4 * today - 4 * (6 - i) <= sale[o].ended
                                /\ sale[o].ended < 4 * today - 4 * (6 - i) + 4}
      BY <1>4
    <2>2. QED
      BY <1>5, <1>6, <2>1
  <1>8. {o \in rows : UtcDay(sale[o].ended) = today - 6 + 6}
          = {o \in Earned : sale[o].ended >= 4 * today}
    <2>1. today - 6 + 6 = today
      OBVIOUS
    <2>2. ASSUME NEW o \in Earned
          PROVE  /\ UtcDay(sale[o].ended) = today <=> sale[o].ended >= 4 * today
                 /\ UtcDay(sale[o].ended) = today => UtcDay(sale[o].ended) >= today - 6
      <3>1. now < 4 * today + 4
        BY <1>1, UtcDayFacts DEF ReportsInv
      <3>2. QED
        BY <1>3, <3>1, UtcDayFacts
    <2>3. QED
      BY <1>2, <2>1, <2>2
  <1>9. WeeklyEarnings[6] = TodayEarnings
    <2>1. WeeklyEarnings[6] = Earnings({o \in rows : UtcDay(sale[o].ended) = today - 6 + 6})
      BY <1>5
    <2>2. TodayEarnings = Earnings({o \in Earned : sale[o].ended >= 4 * today})
      BY <1>1 DEF TodayEarnings
    <2>3. QED
      BY <1>8, <2>1, <2>2
  <1>10. QED
    BY <1>7, <1>9 DEF WeeksAgree

-----------------------------------------------------------------------------
(* Reports: the overview *)

\* Today's orders are those of the last bar and those that do not count.
LEMMA TodayIsTheLastBar ==
    ASSUME ReportsInv
    PROVE  Overview.today.orders =
             RevenueChart("7days")[Today].orders
               + Cardinality({o \in Sold : Created(o) = Today /\ ~Counts(o)})
  <1>1. PICK A : A = {o \in Sold : Created(o) = Today}
    OBVIOUS
  <1>2. PICK B : B = {o \in Charted("7days") : Created(o) = Today}
    OBVIOUS
  <1>3. PICK C : C = {o \in Sold : Created(o) = Today /\ ~Counts(o)}
    OBVIOUS
  <1>4. Today \in Int
    BY TodayType
  <1>5. A = B \cup C /\ B \cap C = {} /\ B \subseteq Sold /\ C \subseteq Sold
    <2>1. \A o \in Sold : Created(o) = Today => Created(o) >= PeriodStart("7days")
      BY <1>4, PeriodFacts
    <2>2. \A o : o \in B <=> o \in Sold /\ Counts(o) /\ Created(o) = Today
      BY <1>2, <2>1 DEF Charted, PlacedSince
    <2>3. QED
      BY <1>1, <1>3, <2>2
  <1>6. Cardinality(A) = Cardinality(B) + Cardinality(C)
    <2>1. /\ IsFiniteSet(B) /\ IsFiniteSet(C)
          /\ Cardinality(B) \in Nat /\ Cardinality(C) \in Nat
      BY <1>5, SoldFinite
    <2>2. Cardinality(A) = Cardinality(B) + Cardinality(C) - Cardinality(B \cap C)
      BY <1>5, <2>1, FS_Union
    <2>3. Cardinality(B \cap C) = 0
      BY <1>5, FS_EmptySet
    <2>4. QED
      BY <2>1, <2>2, <2>3
  <1>7. Overview.today.orders = Cardinality(A)
    BY <1>1 DEF Overview, Figures
  <1>8. RevenueChart("7days")[Today].orders = Cardinality(B)
    <2>1. Today \in Labels("7days")
      BY <1>4, PeriodFacts
    <2>2. {o \in Charted("7days") : Bucket("7days", Created(o)) = Today} = B
      BY <1>2, PeriodFacts
    <2>3. QED
      BY <2>1, <2>2 DEF RevenueChart, Figures
  <1>9. QED
    BY <1>3, <1>6, <1>7, <1>8

\* No day of the week is better than the week.
LEMMA BestDayIsOfTheWeek ==
    ASSUME ReportsInv
    PROVE  Overview.bestDay <= Overview.week.revenue
  <1>1. PICK since : since = Monday(Today)
    OBVIOUS
  <1>2. since \in Int
    BY <1>1, TodayType, MondayFacts
  <1>3. PICK on : on = [d \in since..since + 6 |->
           Revenue({o \in PlacedSince(since) : Counts(o) /\ Created(o) = d})]
    OBVIOUS
  <1>4. PICK S : S = {on[d] : d \in since..since + 6}
    OBVIOUS
  <1>5. Overview.bestDay = Max(S)
    <2>1. S = {Revenue({o \in PlacedSince(since) : Counts(o) /\ Created(o) = d}) :
                 d \in since..since + 6}
      BY <1>3, <1>4
    <2>2. BestDay(since) = Max(S)
      BY <2>1 DEF BestDay
    <2>3. QED
      BY <1>1, <2>2 DEF Overview
  <1>6. PICK week : week = Revenue(PlacedSince(since))
    OBVIOUS
  <1>7. ASSUME NEW d \in since..since + 6
        PROVE  on[d] \in Nat /\ on[d] <= week
    <2>1. PICK D : D = {o \in PlacedSince(since) : Counts(o) /\ Created(o) = d}
      OBVIOUS
    <2>2. D \subseteq PlacedSince(since) /\ D \subseteq Sold
          /\ PlacedSince(since) \subseteq Sold /\ on[d] = Revenue(D)
      BY <1>3, <2>1 DEF PlacedSince
    <2>3. PICK f : f = [o \in Sold |-> sale[o].amount]
      OBVIOUS
    <2>4. /\ Revenue(D) = SumFunctionOnSet(f, D) /\ Revenue(D) \in Nat
          /\ week = SumFunctionOnSet(f, PlacedSince(since))
      BY <1>6, <2>2, <2>3, RevenueIsSum
    <2>5. IsFiniteSet(PlacedSince(since)) /\ \A o \in PlacedSince(since) : f[o] \in Nat
      BY <2>2, <2>3, SoldFinite, RowFacts
    <2>6. SumFunctionOnSet(f, D) <= SumFunctionOnSet(f, PlacedSince(since))
      BY <2>2, <2>5, SumOfPart
    <2>7. QED
      BY <2>2, <2>4, <2>6
  <1>8. IsFiniteSet(S) /\ S # {} /\ S \subseteq Int
    <2>1. IsFiniteSet(since..since + 6)
      BY <1>2, FS_Interval
    <2>2. IsFiniteSet(S)
      BY <1>4, <2>1, ImageFinite
    <2>3. since \in since..since + 6
      BY <1>2
    <2>4. QED
      BY <1>4, <1>7, <2>2, <2>3
  <1>9. Max(S) \in S
    BY <1>8, MaxIsLargest
  <1>10. Max(S) <= week
    BY <1>4, <1>7, <1>9
  <1>11. Overview.week.revenue = week
    BY <1>1, <1>6 DEF Overview, Figures
  <1>12. QED
    BY <1>5, <1>10, <1>11

\* This month and the last one have no order in common.
LEMMA MonthsApart ==
    ASSUME ReportsInv
    PROVE  Overview.month.orders + Overview.lastMonth.orders <= Overview.allTime.orders
  <1>1. PICK A : A = PlacedSince(FirstOfMonth(Today))
    OBVIOUS
  <1>2. PICK B : B = PlacedSince(FirstOfMonth(FirstOfMonth(Today) - 1)) \ A
    OBVIOUS
  <1>3. A \subseteq Sold /\ B \subseteq Sold /\ A \cap B = {} /\ A \cup B \subseteq Sold
    BY <1>1, <1>2 DEF PlacedSince
  <1>4. /\ IsFiniteSet(A) /\ IsFiniteSet(B) /\ IsFiniteSet(Sold)
        /\ Cardinality(A) \in Nat /\ Cardinality(B) \in Nat /\ Cardinality(Sold) \in Nat
    BY <1>3, SoldFinite
  <1>5. Cardinality(A \cup B) = Cardinality(A) + Cardinality(B)
    <2>1. Cardinality(A \cap B) = 0
      BY <1>3, FS_EmptySet
    <2>2. Cardinality(A \cup B)
            = Cardinality(A) + Cardinality(B) - Cardinality(A \cap B)
      BY <1>4, FS_Union
    <2>3. QED
      BY <1>4, <2>1, <2>2
  <1>6. Cardinality(A \cup B) <= Cardinality(Sold)
    BY <1>3, <1>4, FS_Subset
  <1>7. /\ Overview.month.orders = Cardinality(A)
        /\ Overview.lastMonth.orders = Cardinality(B)
        /\ Overview.allTime.orders = Cardinality(Sold)
    BY <1>1, <1>2 DEF Overview, Figures
  <1>8. QED
    BY <1>5, <1>6, <1>7

\* The thirty days of the chart end after those of the busy hours begin.
LEMMA HoursHoldTheMonth ==
    ASSUME ReportsInv
    PROVE  SumFunction(PeakHours) >= Cardinality(Charted("30days"))
  <1>1. PICK R : R = {o \in Sold : Counts(o) /\ sale[o].created >= now - 30 * 4}
    OBVIOUS
  <1>2. PICK hour : hour = [o \in R |-> (sale[o].created + 1) % 4]
    OBVIOUS
  <1>3. PICK part : part = [h \in 0..3 |-> {o \in Sold :
                              /\ Counts(o) /\ sale[o].created >= now - 30 * 4
                              /\ (sale[o].created + 1) % 4 = h}]
    OBVIOUS
  <1>4. R \subseteq Sold /\ IsFiniteSet(R) /\ IsFiniteSet(0..3)
    <2>1. R \subseteq Sold
      BY <1>1
    <2>2. 0 \in Int /\ 3 \in Int
      OBVIOUS
    <2>3. IsFiniteSet(0..3)
      BY <2>2, FS_Interval, Zenon
    <2>4. QED
      BY <2>1, <2>3, SoldFinite
  <1>5. \A o \in R : hour[o] \in 0..3
    <2>1. SUFFICES ASSUME NEW o \in R PROVE (sale[o].created + 1) % 4 \in 0..3
      BY <1>2
    <2>2. sale[o].created \in Nat
      BY <1>4, RowFacts
    <2>3. QED
      BY <2>2
  <1>6. \A h \in 0..3 : part[h] \in SUBSET R
    BY <1>1, <1>3
  <1>7. \A o \in R : \A h \in 0..3 : o \in part[h] <=> hour[o] = h
    BY <1>1, <1>2, <1>3
  <1>8. DOMAIN PeakHours = 0..3 /\ \A h \in 0..3 : PeakHours[h] = Cardinality(part[h])
    BY <1>3 DEF PeakHours
  <1>9. SumFunction(PeakHours) = Cardinality(R)
    BY <1>4, <1>5, <1>6, <1>7, <1>8, PartsCount DEF SumFunction
  <1>10. Charted("30days") \subseteq R
    <2>1. SUFFICES ASSUME NEW o \in Charted("30days") PROVE o \in R
      OBVIOUS
    <2>2. o \in Sold /\ Counts(o) /\ Created(o) >= Today - 29
      BY PeriodFacts DEF Charted, PlacedSince
    <2>3. sale[o].created \in Nat /\ now \in Nat
      BY <2>2, RowFacts DEF ReportsInv
    <2>4. sale[o].created >= now - 30 * 4
      BY <2>2, <2>3 DEF Created, Today, IstDay
    <2>5. QED
      BY <1>1, <2>2, <2>4
  <1>11. Cardinality(Charted("30days")) <= Cardinality(R)
    BY <1>4, <1>10, FS_Subset
  <1>12. Cardinality(R) \in Nat /\ Cardinality(Charted("30days")) \in Nat
    BY <1>4, <1>10, SoldFinite
  <1>13. QED
    BY <1>9, <1>11, <1>12

LEMMA OverviewFollows == ReportsInv => OverviewAgrees
  BY TodayIsTheLastBar, BestDayIsOfTheWeek, MonthsApart, HoursHoldTheMonth
  DEF OverviewAgrees

-----------------------------------------------------------------------------
(* Reports: the payout *)

\* Ten times one sum is near twice another if it is so for each term.
LEMMA SumsNear ==
    ASSUME NEW f, NEW g, NEW S, IsFiniteSet(S),
           \A x \in S : /\ f[x] \in Int /\ g[x] \in Int
                        /\ -5 <= 10 * f[x] - 2 * g[x] /\ 10 * f[x] - 2 * g[x] <= 5
    PROVE  LET d == 10 * SumFunctionOnSet(f, S) - 2 * SumFunctionOnSet(g, S)
           IN  -5 * Cardinality(S) <= d /\ d <= 5 * Cardinality(S)
  <1> DEFINE F(T) == SumFunctionOnSet(f, T)
             G(T) == SumFunctionOnSet(g, T)
             Near(n, d) == -5 * n <= d /\ d <= 5 * n
             Bad == {T \in SUBSET S : ~Near(Cardinality(T), 10 * F(T) - 2 * G(T))}
  <1>1. SUFFICES ASSUME Bad # {} PROVE FALSE
    OBVIOUS
  <1>2. PICK T \in Bad : IsFiniteSet(T) /\ \A U \in Bad : U \subseteq T => U = T
    <2>1. Bad \in SUBSET (SUBSET S)
      OBVIOUS
    <2> HIDE DEF Bad
    <2>2. QED
      BY <1>1, <2>1, SmallestSet
  <1>3. CASE T = {}
    <2>1. F(T) = 0 /\ G(T) = 0 /\ Cardinality(T) = 0
      BY <1>3, SumEmpty, FS_EmptySet
    <2>2. QED
      BY <1>2, <2>1
  <1>4. CASE T # {}
    <2>1. PICK a : a \in T
      BY <1>4
    <2>2. PICK V : V = T \ {a}
      OBVIOUS
    <2>3. V \notin Bad /\ V \in SUBSET S /\ a \in S
      BY <1>2, <2>1, <2>2
    <2>4. \A x \in T : f[x] \in Int /\ g[x] \in Int
      BY <1>2
    <2>5. F(T) = f[a] + F(V) /\ G(T) = g[a] + G(V)
      BY <1>2, <2>1, <2>2, <2>4, SumRemove
    <2>6. F(V) \in Int /\ G(V) \in Int
      BY <2>3, FS_Subset, SumType
    <2>7. Cardinality(T) = Cardinality(V) + 1 /\ Cardinality(V) \in Nat
      <3>1. IsFiniteSet(T) /\ IsFiniteSet(V)
        BY <1>2, <2>3, FS_Subset
      <3>2. Cardinality(T) \in Nat /\ Cardinality(V) \in Nat
        BY <3>1, FS_CardinalityType
      <3>3. Cardinality(V) = Cardinality(T) - 1
        BY <2>1, <2>2, <3>1, FS_RemoveElement
      <3>4. QED
        BY <3>2, <3>3
    <2>8. Near(Cardinality(V), 10 * F(V) - 2 * G(V))
      BY <2>3
    <2>9. PICK n, p, q : n = Cardinality(V) /\ p = F(V) /\ q = G(V)
      OBVIOUS
    <2>10. Near(n + 1, 10 * (f[a] + p) - 2 * (g[a] + q))
      BY <2>3, <2>6, <2>7, <2>8, <2>9
    <2>11. QED
      BY <1>2, <2>5, <2>7, <2>9, <2>10
  <1>5. QED
    BY <1>3, <1>4

\* The commission is a fifth, to half a paisa.
LEMMA CommissionIsNear ==
    ASSUME NEW gross \in Nat
    PROVE  /\ Commission(gross) \in Int
           /\ -5 <= 10 * Commission(gross) - 2 * gross
           /\ 10 * Commission(gross) - 2 * gross <= 5
  <1>1. PICK x \in Int : x = 2 * gross * 20 + 100 /\ x = 40 * gross + 100
    OBVIOUS
  <1>2. PICK c : c = x \div 200
    OBVIOUS
  <1>3. c \in Int /\ 200 * c <= x /\ x < 200 * c + 200
    BY <1>2, Quotient
  <1>4. Commission(gross) = c
    BY <1>1, <1>2 DEF Commission
  <1>5. QED
    BY <1>1, <1>3, <1>4

LEMMA PayoutFollows == ReportsInv => PayoutAddsUp
  <1> SUFFICES ASSUME ReportsInv PROVE PayoutAddsUp
    OBVIOUS
  <1>1. PICK week : week = {o \in Sold : /\ sale[o].status = "DELIVERED"
                                          /\ IstDay(sale[o].ended) >= Monday(Today)}
    OBVIOUS
  <1>2. PICK day : day = [o \in week |-> IstDay(sale[o].ended)]
    OBVIOUS
  <1>3. PICK days : days = {day[o] : o \in week}
    OBVIOUS
  <1>4. PICK part : part = [d \in days |-> {o \in week : IstDay(sale[o].ended) = d}]
    OBVIOUS
  <1>5. /\ PendingPayout.total = Payable(week)
        /\ PendingPayout.byDay = [d \in days |-> Payable(part[d])]
    <2>1. days = {IstDay(sale[o].ended) : o \in week}
      BY <1>2, <1>3
    <2>2. PendingPayout.byDay =
            [d \in days |-> Payable({o \in week : IstDay(sale[o].ended) = d})]
      BY <1>1, <2>1 DEF PendingPayout
    <2>3. PendingPayout.total = Payable(week)
      BY <1>1 DEF PendingPayout
    <2>4. QED
      BY <1>4, <2>2, <2>3
  <1>6. PICK orders : orders = [d \in days |-> PendingPayout.byDay[d].orders]
    OBVIOUS
  <1>7. PICK gross : gross = [d \in days |-> PendingPayout.byDay[d].gross]
    OBVIOUS
  <1>8. PICK net : net = [d \in days |-> PendingPayout.byDay[d].net]
    OBVIOUS
  <1>9. PICK fee : fee = [d \in days |-> Commission(gross[d])]
    OBVIOUS
  <1>10. \A d \in days : /\ orders[d] = Cardinality(part[d])
                         /\ gross[d] = Revenue(part[d])
                         /\ net[d] = gross[d] - fee[d]
    BY <1>5, <1>6, <1>7, <1>8, <1>9 DEF Payable
  <1>11. week \in SUBSET Sold /\ IsFiniteSet(week) /\ IsFiniteSet(days)
    <2>1. week \in SUBSET Sold
      BY <1>1
    <2>2. IsFiniteSet(week)
      BY <2>1, SoldFinite
    <2>3. IsFiniteSet(days)
      BY <1>3, <2>2, ImageFinite
    <2>4. QED
      BY <2>1, <2>2, <2>3
  <1>12. /\ SumFunctionOnSet(orders, days) = Cardinality(week)
         /\ SumFunctionOnSet(gross, days) = Revenue(week)
    <2>1. /\ \A o \in week : day[o] \in days
          /\ \A d \in days : part[d] \in SUBSET week
          /\ \A o \in week : \A d \in days : o \in part[d] <=> day[o] = d
      BY <1>2, <1>3, <1>4
    <2>2. QED
      BY <1>10, <1>11, <2>1, FiguresAddUp
  <1>13. \A d \in days : gross[d] \in Nat /\ fee[d] \in Int /\ net[d] \in Int
    <2>1. SUFFICES ASSUME NEW d \in days
                   PROVE  gross[d] \in Nat /\ fee[d] \in Int /\ net[d] \in Int
      OBVIOUS
    <2>2. part[d] \in SUBSET Sold
      BY <1>4, <1>11
    <2>3. PICK f : f = [o \in Sold |-> sale[o].amount]
      OBVIOUS
    <2>4. gross[d] \in Nat
      BY <1>10, <2>2, <2>3, RevenueIsSum
    <2>5. fee[d] \in Int
      BY <1>9, <2>4, CommissionIsNear
    <2>6. QED
      BY <1>10, <2>4, <2>5
  <1>14. PICK n, f, g, t : /\ n = Cardinality(days) /\ f = SumFunctionOnSet(fee, days)
                           /\ g = Revenue(week) /\ t = Commission(g)
    OBVIOUS
  <1>15. n \in Nat /\ f \in Int /\ g \in Nat
    <2>1. PICK m : m = [o \in Sold |-> sale[o].amount]
      OBVIOUS
    <2>2. g \in Nat
      BY <1>11, <1>14, <2>1, RevenueIsSum
    <2>3. QED
      BY <1>11, <1>13, <1>14, <2>2, FS_CardinalityType, SumType
  <1>16. t \in Int /\ -5 <= 10 * t - 2 * g /\ 10 * t - 2 * g <= 5
    BY <1>14, <1>15, CommissionIsNear
  <1>17. -5 * n <= 10 * f - 2 * g /\ 10 * f - 2 * g <= 5 * n
    <2>1. \A d \in days : /\ -5 <= 10 * fee[d] - 2 * gross[d]
                          /\ 10 * fee[d] - 2 * gross[d] <= 5
      BY <1>9, <1>13, CommissionIsNear
    <2>2. g = SumFunctionOnSet(gross, days)
      BY <1>12, <1>14
    <2>3. QED
      BY <1>11, <1>13, <1>14, <2>1, <2>2, SumsNear
  <1>18. SumFunctionOnSet(net, days) \in Int /\ g = SumFunctionOnSet(net, days) + f
    <2>1. \A d \in days : net[d] \in Int /\ fee[d] \in Int /\ gross[d] = net[d] + fee[d]
      BY <1>10, <1>13
    <2>2. SumFunctionOnSet(gross, days)
            = SumFunctionOnSet(net, days) + SumFunctionOnSet(fee, days)
      BY <1>11, <2>1, SumPlus
    <2>3. QED
      BY <1>11, <1>12, <1>13, <1>14, <2>2, SumType
  <1>19. PICK off \in Int : off = SumFunctionOnSet(net, days) - (g - t)
    BY <1>15, <1>16, <1>18
  <1>20. 2 * off \in -(n + 1)..n + 1
    BY <1>15, <1>16, <1>17, <1>18, <1>19
  <1>21. /\ PendingPayout.total.orders = Cardinality(week)
         /\ PendingPayout.total.gross = g /\ PendingPayout.total.net = g - t
    BY <1>5, <1>14 DEF Payable
  <1>22. DOMAIN PendingPayout.byDay = days
    BY <1>5
  <1>23. DOMAIN orders = days /\ DOMAIN gross = days /\ DOMAIN net = days
    BY <1>6, <1>7, <1>8
  <1>24. QED
    BY <1>6, <1>7, <1>8, <1>12, <1>14, <1>19, <1>20, <1>21, <1>22, <1>23
    DEF PayoutAddsUp, SumFunction

-----------------------------------------------------------------------------
(* Reports and amounts: the theorems *)

\* Whoever looks at the same orders twice sees the same figures: the charts,
\* the overview, the payout and the partner's week follow from rows that are
\* dated no later than now and from a calendar of months of 28 to 31 days
\* (restaurant_analytics_service.py:201-265, restaurant_payout_service.py:56-117,
\* earnings_service.py:177-213, flutter_api.py:1464-1497).
THEOREM ReportsAlwaysAgree == ReportsSpec => []ReportsAgree
  <1>1. ReportsInv => ReportsAgree
    BY ChartsFollow, OverviewFollows, PayoutFollows, WeeksFollow DEF ReportsAgree
  <1>2. QED
    BY <1>1, ReportsInitHolds, ReportsNextKeeps, PTL DEF ReportsSpec

\* What customers are shown is what they are charged, and what partners are
\* shown is what they are paid (cart_service.py:225, coupons.py:77,
\* order_service.py:118, surge_detector.py:63).
THEOREM AmountsAlwaysAgree == PriceSpec /\ SurgeSpec => AmountsAgree
  BY CustomerPaysWhatWasShown, DeliveryPaysWhatWasShown DEF AmountsAgree
=============================================================================
