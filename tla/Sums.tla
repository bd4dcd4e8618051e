-------------------------------- MODULE Sums --------------------------------
(***************************************************************************)
(* Facts about SumFunction, the sum of a function over its finite domain,  *)
(* with which TopicDecision adds up its ledger: what one changed or added  *)
(* entry does to a sum.                                                    *)
(*                                                                         *)
(* SumFunction walks through the domain in an order of its own choosing;   *)
(* each fact about all sets is shown on a smallest counterexample.         *)
(***************************************************************************)
EXTENDS Functions, FiniteSetTheorems, WellFoundedInduction, TLAPS

\* The element that a sum over s takes out first.
First(s) == CHOOSE x \in s : TRUE

\* The function on the subsets of S that SumFunctionOnSet(f, S) iterates.
Partial(f, S, g) ==
    g = [s \in SUBSET S |-> IF s = {} THEN 0 ELSE f[First(s)] + g[s \ {First(s)}]]

\* Among some subsets of a finite set there is one that includes no other.
LEMMA SmallestSubset ==
  ASSUME NEW S, IsFiniteSet(S), NEW B, B \subseteq SUBSET S, B # {}
  PROVE  \E T \in B : \A U \in B : U \subseteq T => U = T
<1>1. IsWellFoundedOn(StrictSubsetOrdering(S), SUBSET S)
  BY FS_StrictSubsetOrderingWellFounded, FS_FiniteSubsetsOfFinite
<1>2. PICK T \in B : \A U \in B : ~ (<<U, T>> \in StrictSubsetOrdering(S))
  BY <1>1, WFMin
<1>3. QED  BY <1>2 DEF StrictSubsetOrdering

LEMMA FirstIn == ASSUME NEW s, s # {}  PROVE First(s) \in s
  BY DEF First

\* A sum is determined by its partial sums.
LEMMA PartialUnique ==
  ASSUME NEW S, IsFiniteSet(S), NEW f, NEW g, NEW h, Partial(f, S, g), Partial(f, S, h)
  PROVE  g = h
<1> DEFINE bad == {s \in SUBSET S : g[s] # h[s]}
<1>1. SUFFICES ASSUME bad # {} PROVE FALSE
  <2>1. DOMAIN g = SUBSET S /\ DOMAIN h = SUBSET S
    BY DEF Partial
  <2>2. g = [s \in SUBSET S |-> g[s]] /\ h = [s \in SUBSET S |-> h[s]]
    BY DEF Partial
  <2>3. QED  BY <2>1, <2>2
<1>2. PICK T \in bad : \A U \in bad : U \subseteq T => U = T
  <2>1. bad \subseteq SUBSET S
    OBVIOUS
  <2> HIDE DEF bad
  <2>2. QED  BY <1>1, <2>1, SmallestSubset
<1>3. g[T] = (IF T = {} THEN 0 ELSE f[First(T)] + g[T \ {First(T)}])
      /\ h[T] = (IF T = {} THEN 0 ELSE f[First(T)] + h[T \ {First(T)}])
  BY <1>2 DEF Partial
<1>4. T # {} => g[T \ {First(T)}] = h[T \ {First(T)}]
  BY <1>2, FirstIn
<1>5. QED  BY <1>2, <1>3, <1>4

\* The partial sums over the subsets of a smaller set are the same.
LEMMA PartialRestricted ==
  ASSUME NEW S, NEW T \in SUBSET S, NEW f, NEW g, Partial(f, S, g),
         NEW h, h = [s \in SUBSET T |-> g[s]]
  PROVE  Partial(f, T, h)
<1>1. ASSUME NEW s \in SUBSET T
      PROVE  h[s] = (IF s = {} THEN 0 ELSE f[First(s)] + h[s \ {First(s)}])
  <2>1. s \in SUBSET S /\ h[s] = g[s] /\ h[s \ {First(s)}] = g[s \ {First(s)}]
    OBVIOUS
  <2>2. g[s] = (IF s = {} THEN 0 ELSE f[First(s)] + g[s \ {First(s)}])
    BY <2>1 DEF Partial
  <2>3. QED  BY <2>1, <2>2
<1>2. QED  BY <1>1 DEF Partial

LEMMA PartialExists ==
  ASSUME NEW S, IsFiniteSet(S), NEW f
  PROVE  \E g : Partial(f, S, g)
<1> DEFINE bad == {s \in SUBSET S : ~ \E g : Partial(f, s, g)}
<1>1. SUFFICES ASSUME bad # {} PROVE FALSE
  OBVIOUS
<1>2. PICK T \in bad : \A U \in bad : U \subseteq T => U = T
  <2>1. bad \subseteq SUBSET S
    OBVIOUS
  <2> HIDE DEF bad
  <2>2. QED  BY <1>1, <2>1, SmallestSubset
<1>3. ASSUME NEW U \in SUBSET T, U # T
      PROVE  /\ \E g : Partial(f, U, g)
             /\ IsFiniteSet(U)
  BY <1>2, <1>3, FS_Subset
<1> DEFINE of(U) == CHOOSE g : Partial(f, U, g)
           sum(U) == of(U)[U]
           next(U) == IF U = {} THEN 0 ELSE f[First(U)] + sum(U \ {First(U)})
           all == [U \in SUBSET T |-> next(U)]
<1>4. ASSUME NEW U \in SUBSET T, U # T
      PROVE  sum(U) = next(U)
  <2>1. Partial(f, U, of(U))
    BY <1>3, <1>4
  <2>2. sum(U) = (IF U = {} THEN 0 ELSE f[First(U)] + of(U)[U \ {First(U)}])
    BY <2>1 DEF Partial
  <2>3. CASE U = {}
    BY <2>2, <2>3
  <2>4. CASE U # {}
    <3> DEFINE V == U \ {First(U)}
               h == [s \in SUBSET V |-> of(U)[s]]
    <3>1. V \in SUBSET U /\ V \in SUBSET T /\ V # T
      BY <1>4, <2>4, FirstIn
    <3>2. Partial(f, V, h)
      <4>1. h = [s \in SUBSET V |-> of(U)[s]]
        OBVIOUS
      <4> HIDE DEF h, V, of
      <4>2. QED  BY <2>1, <3>1, <4>1, PartialRestricted
    <3>3. Partial(f, V, of(V)) /\ IsFiniteSet(V)
      BY <1>3, <3>1
    <3>4. of(V) = h
      BY <3>2, <3>3, PartialUnique
    <3>5. sum(V) = of(U)[V]
      BY <3>4
    <3>6. QED  BY <2>2, <2>4, <3>5
  <2>5. QED  BY <2>3, <2>4
<1>5. ASSUME NEW U \in SUBSET T
      PROVE  all[U] = (IF U = {} THEN 0 ELSE f[First(U)] + all[U \ {First(U)}])
  <2>1. CASE U = {}
    BY <2>1
  <2>2. CASE U # {}
    <3>1. U \ {First(U)} \in SUBSET T /\ U \ {First(U)} # T
      BY <2>2, FirstIn
    <3>2. all[U \ {First(U)}] = sum(U \ {First(U)})
      BY <1>4, <3>1
    <3>3. QED  BY <2>2, <3>2
  <2>3. QED  BY <2>1, <2>2
<1>6. all = [U \in SUBSET T |-> IF U = {} THEN 0 ELSE f[First(U)] + all[U \ {First(U)}]]
  <2> HIDE DEF next
  <2>1. all = [U \in SUBSET T |-> all[U]]
    OBVIOUS
  <2> HIDE DEF all
  <2>2. QED  BY <1>5, <2>1
<1>7. Partial(f, T, all)
  BY <1>6 DEF Partial
<1>8. QED  BY <1>2, <1>7

\* What a sum is: nothing, or one value more than the sum over the rest.
LEMMA SumUnfolded ==
  ASSUME NEW S, IsFiniteSet(S), NEW f
  PROVE  /\ SumFunctionOnSet(f, {}) = 0
         /\ S # {} => SumFunctionOnSet(f, S) = f[First(S)] + SumFunctionOnSet(f, S \ {First(S)})
<1>1. ASSUME NEW T, IsFiniteSet(T)
      PROVE  \E g : Partial(f, T, g) /\ SumFunctionOnSet(f, T) = g[T]
  <2>1. PICK h : Partial(f, T, h)
    BY <1>1, PartialExists
  <2> DEFINE g == CHOOSE g : Partial(f, T, g)
  <2>2. Partial(f, T, g)
    BY <2>1
  <2>3. SumFunctionOnSet(f, T) = g[T]
    BY DEF SumFunctionOnSet, FoldFunctionOnSet, MapThenFoldSet, Partial, First
  <2>4. QED  BY <2>2, <2>3
<1>2. SumFunctionOnSet(f, {}) = 0
  <2>1. PICK g : Partial(f, {}, g) /\ SumFunctionOnSet(f, {}) = g[{}]
    BY <1>1, FS_EmptySet
  <2>2. QED  BY <2>1 DEF Partial
<1>3. ASSUME S # {}
      PROVE  SumFunctionOnSet(f, S) = f[First(S)] + SumFunctionOnSet(f, S \ {First(S)})
  <2> DEFINE T == S \ {First(S)}
  <2>1. T \in SUBSET S /\ IsFiniteSet(T)
    BY FS_Subset
  <2>2. PICK g : Partial(f, S, g) /\ SumFunctionOnSet(f, S) = g[S]
    BY <1>1
  <2>3. PICK h : Partial(f, T, h) /\ SumFunctionOnSet(f, T) = h[T]
    BY <1>1, <2>1
  <2>4. h = [s \in SUBSET T |-> g[s]]
    <3> DEFINE part == [s \in SUBSET T |-> g[s]]
    <3> HIDE DEF T
    <3>1. Partial(f, T, part)
      <4>1. part = [s \in SUBSET T |-> g[s]]
        OBVIOUS
      <4> HIDE DEF part
      <4>2. QED  BY <2>1, <2>2, <4>1, PartialRestricted
    <3>2. QED  BY <2>1, <2>3, <3>1, PartialUnique
  <2>5. h[T] = g[T]
    BY <2>4
  <2>6. g[S] = f[First(S)] + g[T]
    BY <1>3, <2>2 DEF Partial
  <2>7. QED  BY <2>2, <2>3, <2>5, <2>6
<1>4. QED  BY <1>2, <1>3

LEMMA SumOnSetType ==
  ASSUME NEW S, IsFiniteSet(S), NEW f, \A x \in S : f[x] \in Nat
  PROVE  SumFunctionOnSet(f, S) \in Nat
<1> DEFINE bad == {s \in SUBSET S : SumFunctionOnSet(f, s) \notin Nat}
<1>1. SUFFICES ASSUME bad # {} PROVE FALSE
  OBVIOUS
<1>2. PICK T \in bad : \A U \in bad : U \subseteq T => U = T
  <2>1. bad \subseteq SUBSET S
    OBVIOUS
  <2> HIDE DEF bad
  <2>2. QED  BY <1>1, <2>1, SmallestSubset
<1>3. IsFiniteSet(T) /\ T \in SUBSET S
  BY <1>2, FS_Subset
<1>4. T # {}
  <2>1. SumFunctionOnSet(f, {}) = 0
    BY <1>3, SumUnfolded
  <2>2. 0 \in Nat
    OBVIOUS
  <2>3. QED  BY <1>2, <2>1, <2>2
<1>5. First(T) \in T /\ f[First(T)] \in Nat
  BY <1>3, <1>4, FirstIn
<1>6. SumFunctionOnSet(f, T \ {First(T)}) \in Nat
  BY <1>2, <1>3, <1>5
<1>7. SumFunctionOnSet(f, T) \in Nat
  BY <1>3, <1>4, <1>5, <1>6, SumUnfolded
<1>8. QED  BY <1>2, <1>7

\* Functions with the same values have the same sum.
LEMMA SumOnSetAgrees ==
  ASSUME NEW S, IsFiniteSet(S), NEW f, NEW h, \A x \in S : f[x] = h[x]
  PROVE  SumFunctionOnSet(f, S) = SumFunctionOnSet(h, S)
<1> DEFINE bad == {s \in SUBSET S : SumFunctionOnSet(f, s) # SumFunctionOnSet(h, s)}
<1>1. SUFFICES ASSUME bad # {} PROVE FALSE
  OBVIOUS
<1>2. PICK T \in bad : \A U \in bad : U \subseteq T => U = T
  <2>1. bad \subseteq SUBSET S
    OBVIOUS
  <2> HIDE DEF bad
  <2>2. QED  BY <1>1, <2>1, SmallestSubset
<1>3. IsFiniteSet(T) /\ T \in SUBSET S
  BY <1>2, FS_Subset
<1>4. T # {}
  BY <1>2, <1>3, SumUnfolded
<1>5. First(T) \in T /\ f[First(T)] = h[First(T)]
  BY <1>3, <1>4, FirstIn
<1>6. SumFunctionOnSet(f, T \ {First(T)}) = SumFunctionOnSet(h, T \ {First(T)})
  BY <1>2, <1>3, <1>5
<1>7. SumFunctionOnSet(f, T) = SumFunctionOnSet(h, T)
  BY <1>3, <1>4, <1>5, <1>6, SumUnfolded
<1>8. QED  BY <1>2, <1>7

\* Any element may be taken out first.
LEMMA SumOnSetWithout ==
  ASSUME NEW S, IsFiniteSet(S), NEW f, \A x \in S : f[x] \in Nat, NEW a \in S
  PROVE  SumFunctionOnSet(f, S) = f[a] + SumFunctionOnSet(f, S \ {a})
<1> DEFINE Sum(s) == SumFunctionOnSet(f, s)
           bad == {s \in SUBSET S : \E x \in s : Sum(s) # f[x] + Sum(s \ {x})}
<1>1. SUFFICES ASSUME bad # {} PROVE FALSE
  OBVIOUS
<1>2. PICK T \in bad : \A U \in bad : U \subseteq T => U = T
  <2>1. bad \subseteq SUBSET S
    OBVIOUS
  <2> HIDE DEF bad
  <2>2. QED  BY <1>1, <2>1, SmallestSubset
<1>3. IsFiniteSet(T) /\ T \in SUBSET S
  BY <1>2, FS_Subset
<1>4. PICK x \in T : Sum(T) # f[x] + Sum(T \ {x})
  BY <1>2
<1> DEFINE p == First(T)
<1>5. p \in T /\ Sum(T) = f[p] + Sum(T \ {p})
  BY <1>3, <1>4, FirstIn, SumUnfolded
<1>6. p # x
  BY <1>4, <1>5
<1>7. Sum(T \ {p}) = f[x] + Sum((T \ {p}) \ {x})
  BY <1>2, <1>3, <1>4, <1>5, <1>6
<1>8. Sum(T \ {x}) = f[p] + Sum((T \ {x}) \ {p})
  BY <1>2, <1>3, <1>4, <1>5, <1>6
<1>9. (T \ {p}) \ {x} = (T \ {x}) \ {p} /\ IsFiniteSet((T \ {x}) \ {p})
  BY <1>3, FS_Subset
<1>10. f[p] \in Nat /\ f[x] \in Nat /\ Sum((T \ {x}) \ {p}) \in Nat
  <2>1. \A y \in (T \ {x}) \ {p} : f[y] \in Nat
    BY <1>3
  <2>2. QED  BY <1>3, <1>4, <1>5, <1>9, <2>1, SumOnSetType
<1> DEFINE rest == Sum((T \ {x}) \ {p})
<1>11. \A k, l, m \in Nat : k + (l + m) = l + (k + m)
  OBVIOUS
<1>12. Sum(T) = f[p] + (f[x] + rest) /\ f[x] + Sum(T \ {x}) = f[x] + (f[p] + rest)
  BY <1>5, <1>7, <1>8, <1>9
<1>13. f[p] + (f[x] + rest) = f[x] + (f[p] + rest)
  BY <1>10, <1>11
<1>14. QED  BY <1>4, <1>12, <1>13

-----------------------------------------------------------------------------
(* The facts a ledger needs.                                               *)

LEMMA SumType ==
  ASSUME NEW S, IsFiniteSet(S), NEW f \in [S -> Nat]
  PROVE  SumFunction(f) \in Nat
BY SumOnSetType DEF SumFunction

LEMMA SumEmpty == ASSUME NEW f, DOMAIN f = {}  PROVE SumFunction(f) = 0
BY SumUnfolded, FS_EmptySet DEF SumFunction

\* One value changes: the sum changes by the difference.
LEMMA SumChanged ==
  ASSUME NEW S, IsFiniteSet(S), NEW f \in [S -> Nat], NEW h \in [S -> Nat], NEW a \in S,
         \A x \in S \ {a} : h[x] = f[x]
  PROVE  SumFunction(h) + f[a] = SumFunction(f) + h[a]
<1> DEFINE T == S \ {a}
<1>1. IsFiniteSet(T)
  BY FS_Subset
<1>2. SumFunctionOnSet(h, T) = SumFunctionOnSet(f, T)
  BY <1>1, SumOnSetAgrees
<1>3. SumFunctionOnSet(f, T) \in Nat
  BY <1>1, SumOnSetType
<1>4. SumFunction(f) = f[a] + SumFunctionOnSet(f, T)
  BY SumOnSetWithout DEF SumFunction
<1>5. SumFunction(h) = h[a] + SumFunctionOnSet(h, T)
  BY SumOnSetWithout DEF SumFunction
<1>6. f[a] \in Nat /\ h[a] \in Nat
  OBVIOUS
<1> HIDE DEF T
<1>7. QED  BY <1>2, <1>3, <1>4, <1>5, <1>6

\* One value is added to the domain, and to the sum.
LEMMA SumAdded ==
  ASSUME NEW S, IsFiniteSet(S), NEW a, a \notin S, NEW f \in [S -> Nat],
         NEW h \in [S \cup {a} -> Nat], \A x \in S : h[x] = f[x]
  PROVE  SumFunction(h) = SumFunction(f) + h[a]
<1>1. IsFiniteSet(S \cup {a}) /\ (S \cup {a}) \ {a} = S
  BY FS_AddElement
<1>2. SumFunction(h) = h[a] + SumFunctionOnSet(h, S)
  BY <1>1, SumOnSetWithout DEF SumFunction
<1>3. SumFunctionOnSet(h, S) = SumFunctionOnSet(f, S)
  BY SumOnSetAgrees
<1>4. SumFunctionOnSet(f, S) \in Nat
  BY SumOnSetType
<1>5. SumFunction(f) = SumFunctionOnSet(f, S) /\ h[a] \in Nat
  BY DEF SumFunction
<1>6. QED  BY <1>2, <1>3, <1>4, <1>5

\* A sum of zeros is zero.
LEMMA SumZero ==
  ASSUME NEW S, IsFiniteSet(S), NEW f, DOMAIN f = S, \A x \in S : f[x] = 0
  PROVE  SumFunction(f) = 0
<1> DEFINE bad == {s \in SUBSET S : SumFunctionOnSet(f, s) # 0}
<1>1. SUFFICES ASSUME bad # {} PROVE FALSE
  BY DEF SumFunction
<1>2. PICK T \in bad : \A U \in bad : U \subseteq T => U = T
  <2>1. bad \subseteq SUBSET S
    OBVIOUS
  <2> HIDE DEF bad
  <2>2. QED  BY <1>1, <2>1, SmallestSubset
<1>3. IsFiniteSet(T) /\ T \in SUBSET S
  BY <1>2, FS_Subset
<1>4. T # {}
  BY <1>2, <1>3, SumUnfolded
<1>5. First(T) \in T /\ f[First(T)] = 0
  BY <1>3, <1>4, FirstIn
<1>6. SumFunctionOnSet(f, T \ {First(T)}) = 0
  BY <1>2, <1>3, <1>5
<1>7. SumFunctionOnSet(f, T) = 0
  BY <1>3, <1>4, <1>5, <1>6, SumUnfolded
<1>8. QED  BY <1>2, <1>7

=============================================================================
