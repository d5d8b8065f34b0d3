------------------------------ MODULE SumTheorems ------------------------------
(***************************************************************************)
(* Sums over finite sets, as the code's sum() takes them: what             *)
(* SumFunctionOnSet computes, stated without an operator for a parameter,  *)
(* so that the proofs about the components can use it.                     *)
(***************************************************************************)
EXTENDS Integers, Sequences, FiniteSets, Functions, FiniteSetTheorems, FunctionTheorems,
        WellFoundedInduction, TLAPS

\* A set of subsets that has each whose strict subsets it has, has them all.
LEMMA SubsetInduction ==
    ASSUME NEW S, IsFiniteSet(S), NEW Good,
           \A T \in SUBSET S : (\A U \in SUBSET T : U # T => U \in Good) => T \in Good
    PROVE  \A T \in SUBSET S : T \in Good
<1> DEFINE Bad == (SUBSET S) \ Good
           R == StrictSubsetOrdering(S)
<1> SUFFICES ASSUME Bad # {} PROVE FALSE
  OBVIOUS
<1>1. IsWellFoundedOn(R, FiniteSubsetsOf(S)) /\ FiniteSubsetsOf(S) = SUBSET S
  BY FS_StrictSubsetOrderingWellFounded, FS_FiniteSubsetsOfFinite
<1>2. \E T \in Bad : \A U \in Bad : ~(<<U, T>> \in R)
  <2>1. Bad \subseteq SUBSET S
    OBVIOUS
  <2> HIDE DEF Bad, R
  <2> QED BY <1>1, <2>1, WFMin
<1>3. PICK T \in Bad : \A U \in Bad : ~(<<U, T>> \in R)
  BY <1>2
<1>4. ASSUME NEW U \in SUBSET T, U # T PROVE U \in Good
  <2>1. U \in SUBSET S /\ <<U, T>> \in R
    BY <1>3, <1>4 DEF StrictSubsetOrdering
  <2> HIDE DEF R
  <2> QED BY <1>3, <2>1
<1> QED BY <1>3, <1>4

\* A set of subsets that is closed under adding an element has the whole set.
LEMMA FiniteInduction ==
    ASSUME NEW S, IsFiniteSet(S), NEW Good, {} \in Good,
           \A T \in SUBSET S, x \in S : T \in Good /\ x \notin T => T \cup {x} \in Good
    PROVE  S \in Good
<1>1. ASSUME NEW T \in SUBSET S, \A U \in SUBSET T : U # T => U \in Good PROVE T \in Good
  <2>1. CASE T = {}
    BY <2>1
  <2>2. CASE T # {}
    <3>1. PICK x \in T : TRUE
      BY <2>2
    <3> DEFINE U == T \ {x}
    <3>2. U \in SUBSET T /\ U # T /\ x \in S /\ x \notin U /\ U \in SUBSET S
          /\ T = U \cup {x}
      BY <3>1
    <3> HIDE DEF U
    <3>3. U \in Good
      BY <1>1, <3>2
    <3> QED BY <3>2, <3>3
  <2> QED BY <2>1, <2>2
<1> QED BY <1>1, SubsetInduction

-------------------------------------------------------------------------------
(* The recursion behind SumFunctionOnSet.                                  *)

Member(S) == CHOOSE x \in S : TRUE
Rest(S)   == S \ {Member(S)}
Sums(f, S, iter) ==
    iter = [T \in SUBSET S |-> IF T = {} THEN 0 ELSE f[Member(T)] + iter[Rest(T)]]

\* The sum is what the recursion computes.
LEMMA SumChosen ==
    ASSUME NEW f, NEW S
    PROVE  SumFunctionOnSet(f, S) = (CHOOSE iter : Sums(f, S, iter))[S]
BY DEF SumFunctionOnSet, FoldFunctionOnSet, MapThenFoldSet, Sums, Member, Rest

\* A nonempty set has its member, and is less without it.
LEMMA RestSmaller ==
    ASSUME NEW S, S # {}
    PROVE  /\ Member(S) \in S /\ Rest(S) \in SUBSET S /\ Member(S) \notin Rest(S)
           /\ Rest(S) # S /\ S = Rest(S) \cup {Member(S)}
<1>1. Member(S) \in S
  BY DEF Member
<1> QED BY <1>1 DEF Rest

\* What the recursion says of one set.
LEMMA SumsRead ==
    ASSUME NEW f, NEW S, NEW iter, Sums(f, S, iter), NEW T \in SUBSET S
    PROVE  iter[T] = IF T = {} THEN 0 ELSE f[Member(T)] + iter[Rest(T)]
BY DEF Sums

\* The recursion does not depend on how far it reaches.
LEMMA SumsAgree ==
    ASSUME NEW f, NEW S, NEW T, NEW g, NEW h, Sums(f, S, g), Sums(f, T, h),
           NEW X, IsFiniteSet(X), X \in SUBSET S, X \in SUBSET T
    PROVE  g[X] = h[X]
<1> DEFINE Good == {V \in SUBSET X : g[V] = h[V]}
<1>1. ASSUME NEW V \in SUBSET X, \A U \in SUBSET V : U # V => U \in Good
      PROVE  V \in Good
  <2>1. V \in SUBSET S /\ V \in SUBSET T
    OBVIOUS
  <2>2. /\ g[V] = IF V = {} THEN 0 ELSE f[Member(V)] + g[Rest(V)]
        /\ h[V] = IF V = {} THEN 0 ELSE f[Member(V)] + h[Rest(V)]
    BY <2>1, SumsRead
  <2>3. CASE V = {}
    BY <2>2, <2>3
  <2>4. CASE V # {}
    <3>1. Rest(V) \in Good
      <4> HIDE DEF Good
      <4> QED BY <1>1, <2>4, RestSmaller
    <3> QED BY <2>2, <2>4, <3>1
  <2> QED BY <2>3, <2>4
<1>2. X \in Good
  <2> HIDE DEF Good
  <2> QED BY <1>1, SubsetInduction
<1> QED BY <1>2

\* There is such a recursion over a finite set.
LEMMA SumsExist ==
    ASSUME NEW f, NEW S, IsFiniteSet(S)
    PROVE  \E iter : Sums(f, S, iter)
<1> DEFINE G(U) == CHOOSE iter : Sums(f, U, iter)
           Good == {T \in SUBSET S : Sums(f, T, G(T))}
<1>1. ASSUME NEW T \in SUBSET S, \A U \in SUBSET T : U # T => U \in Good
      PROVE  T \in Good
  <2> DEFINE v(U) == IF U = {} THEN 0 ELSE f[Member(U)] + G(Rest(U))[Rest(U)]
             g == [U \in SUBSET T |-> v(U)]
  <2>1. ASSUME NEW U \in SUBSET T, U # T PROVE G(U)[U] = v(U)
    <3>1. Sums(f, U, G(U))
      BY <1>1, <2>1
    <3>2. G(U)[U] = IF U = {} THEN 0 ELSE f[Member(U)] + G(U)[Rest(U)]
      <4> HIDE DEF G
      <4> QED BY <3>1, SumsRead
    <3>3. CASE U = {}
      BY <3>2, <3>3
    <3>4. CASE U # {}
      <4> DEFINE W == Rest(U)
      <4>1. W \in SUBSET U /\ W \in SUBSET T /\ W # T
        BY <2>1, <3>4, RestSmaller
      <4>2. Sums(f, W, G(W))
        <5> HIDE DEF W
        <5> QED BY <1>1, <4>1
      <4>3. IsFiniteSet(W)
        <5>1. W \in SUBSET S
          BY <4>1
        <5> HIDE DEF W
        <5> QED BY <5>1, FS_Subset
      <4>4. G(U)[W] = G(W)[W]
        <5> HIDE DEF G, W
        <5> QED BY <3>1, <4>1, <4>2, <4>3, SumsAgree
      <4> QED BY <3>2, <3>4, <4>4
    <3> QED BY <3>3, <3>4
  <2>2. ASSUME NEW U \in SUBSET T
        PROVE  v(U) = IF U = {} THEN 0 ELSE f[Member(U)] + g[Rest(U)]
    <3>1. CASE U = {}
      BY <3>1
    <3>2. CASE U # {}
      <4>1. Rest(U) \in SUBSET T /\ Rest(U) # T
        BY <3>2, RestSmaller
      <4>2. g[Rest(U)] = v(Rest(U))
        BY <4>1
      <4>3. G(Rest(U))[Rest(U)] = v(Rest(U))
        <5> HIDE DEF G, v, g
        <5> QED BY <2>1, <4>1
      <4> HIDE DEF G, g
      <4>4. v(U) = f[Member(U)] + G(Rest(U))[Rest(U)]
        BY <3>2
      <4> HIDE DEF v
      <4> QED BY <3>2, <4>2, <4>3, <4>4
    <3> QED BY <3>1, <3>2
  <2>3. g = [U \in SUBSET T |-> IF U = {} THEN 0 ELSE f[Member(U)] + g[Rest(U)]]
    <3>1. g = [U \in SUBSET T |-> v(U)]
      OBVIOUS
    <3> HIDE DEF g, v, G
    <3> QED BY <2>2, <3>1
  <2>4. Sums(f, T, g)
    <3> HIDE DEF g
    <3> QED BY <2>3 DEF Sums
  <2>5. Sums(f, T, G(T))
    <3> HIDE DEF g
    <3> QED BY <2>4
  <2> QED BY <2>5
<1>2. S \in Good
  <2> HIDE DEF Good
  <2> QED BY <1>1, SubsetInduction
<1> QED BY <1>2
-------------------------------------------------------------------------------
(* What a sum is.                                                          *)

\* The sum of nothing is zero; any other is that of the rest and of one more.
LEMMA SumRead ==
    ASSUME NEW f, NEW S, IsFiniteSet(S)
    PROVE  SumFunctionOnSet(f, S)
               = IF S = {} THEN 0 ELSE f[Member(S)] + SumFunctionOnSet(f, Rest(S))
<1> DEFINE G(U) == CHOOSE iter : Sums(f, U, iter)
<1>1. \A U \in SUBSET S : SumFunctionOnSet(f, U) = G(U)[U] /\ Sums(f, U, G(U))
  BY FS_Subset, SumChosen, SumsExist
<1>2. S \in SUBSET S
  OBVIOUS
<1>3. G(S)[S] = IF S = {} THEN 0 ELSE f[Member(S)] + G(S)[Rest(S)]
  <2>1. Sums(f, S, G(S))
    BY <1>1
  <2> HIDE DEF G
  <2> QED BY <1>2, <2>1, SumsRead
<1>4. CASE S # {}
  <2>1. Rest(S) \in SUBSET S /\ IsFiniteSet(Rest(S))
    BY <1>4, RestSmaller, FS_Subset
  <2>2. Sums(f, S, G(S)) /\ Sums(f, Rest(S), G(Rest(S)))
    <3> HIDE DEF G
    <3> QED BY <1>1, <1>2, <2>1
  <2>3. G(S)[Rest(S)] = G(Rest(S))[Rest(S)]
    <3> HIDE DEF G
    <3> QED BY <2>1, <2>2, SumsAgree
  <2> HIDE DEF G
  <2> QED BY <1>1, <1>2, <1>3, <1>4, <2>1, <2>3
<1>5. CASE S = {}
  <2> HIDE DEF G
  <2> QED BY <1>1, <1>2, <1>3, <1>5
<1> QED BY <1>4, <1>5

\* A sum over no index is zero.
LEMMA SumEmpty ==
    ASSUME NEW f
    PROVE  SumFunctionOnSet(f, {}) = 0
BY FS_EmptySet, SumRead

\* A sum of integers is one, and a sum of numbers that are not negative is none either.
LEMMA SumTyped ==
    ASSUME NEW f, NEW S, IsFiniteSet(S), NEW V \in {Int, Nat}, \A x \in S : f[x] \in V
    PROVE  SumFunctionOnSet(f, S) \in V
<1> DEFINE Good == {T \in SUBSET S : SumFunctionOnSet(f, T) \in V}
<1>1. ASSUME NEW T \in SUBSET S, \A U \in SUBSET T : U # T => U \in Good
      PROVE  T \in Good
  <2>1. IsFiniteSet(T)
    BY FS_Subset
  <2>2. CASE T = {}
    BY <2>2, SumEmpty
  <2>3. CASE T # {}
    <3>1. Member(T) \in T /\ Rest(T) \in Good
      <4> HIDE DEF Good
      <4> QED BY <1>1, <2>3, RestSmaller
    <3>2. f[Member(T)] \in V /\ SumFunctionOnSet(f, Rest(T)) \in V
      BY <3>1
    <3>3. SumFunctionOnSet(f, T) = f[Member(T)] + SumFunctionOnSet(f, Rest(T))
      BY <2>1, <2>3, SumRead
    <3> QED BY <3>2, <3>3
  <2> QED BY <2>2, <2>3
<1>2. S \in Good
  <2> HIDE DEF Good
  <2> QED BY <1>1, SubsetInduction
<1> QED BY <1>2

\* Sums agree where the summands do.
LEMMA SumEqual ==
    ASSUME NEW f, NEW g, NEW S, IsFiniteSet(S), \A x \in S : f[x] = g[x]
    PROVE  SumFunctionOnSet(f, S) = SumFunctionOnSet(g, S)
<1> DEFINE Good == {T \in SUBSET S : SumFunctionOnSet(f, T) = SumFunctionOnSet(g, T)}
<1>1. ASSUME NEW T \in SUBSET S, \A U \in SUBSET T : U # T => U \in Good
      PROVE  T \in Good
  <2>1. IsFiniteSet(T)
    BY FS_Subset
  <2>2. CASE T = {}
    BY <2>2, SumEmpty
  <2>3. CASE T # {}
    <3>1. Member(T) \in T /\ Rest(T) \in Good
      <4> HIDE DEF Good
      <4> QED BY <1>1, <2>3, RestSmaller
    <3> QED BY <2>1, <2>3, <3>1, SumRead
  <2> QED BY <2>2, <2>3
<1>2. S \in Good
  <2> HIDE DEF Good
  <2> QED BY <1>1, SubsetInduction
<1> QED BY <1>2

\* It does not matter which summand is taken out.
LEMMA SumRemove ==
    ASSUME NEW f, NEW S, IsFiniteSet(S), \A y \in S : f[y] \in Int, NEW x \in S
    PROVE  SumFunctionOnSet(f, S) = f[x] + SumFunctionOnSet(f, S \ {x})
<1> DEFINE Good == {T \in SUBSET S : \A y \in T : SumFunctionOnSet(f, T)
                                                     = f[y] + SumFunctionOnSet(f, T \ {y})}
<1>1. ASSUME NEW T \in SUBSET S, \A U \in SUBSET T : U # T => U \in Good
      PROVE  T \in Good
  <2> SUFFICES ASSUME NEW y \in T
               PROVE  SumFunctionOnSet(f, T) = f[y] + SumFunctionOnSet(f, T \ {y})
    OBVIOUS
  <2> DEFINE m == Member(T)
  <2>1. /\ IsFiniteSet(T) /\ T # {} /\ m \in T
        /\ SumFunctionOnSet(f, T) = f[m] + SumFunctionOnSet(f, T \ {m})
    BY FS_Subset, RestSmaller, SumRead DEF Rest
  <2> HIDE DEF m
  <2>2. CASE y = m
    BY <2>1, <2>2
  <2>3. CASE y # m
    <3>1. T \ {m} \in Good /\ T \ {y} \in Good
      <4> HIDE DEF Good
      <4>1. T \ {m} \in SUBSET T /\ T \ {m} # T /\ T \ {y} \in SUBSET T /\ T \ {y} # T
        BY <2>1
      <4> QED BY <1>1, <4>1
    <3>2. SumFunctionOnSet(f, T \ {m}) = f[y] + SumFunctionOnSet(f, (T \ {m}) \ {y})
      BY <2>3, <3>1
    <3>3. SumFunctionOnSet(f, T \ {y}) = f[m] + SumFunctionOnSet(f, (T \ {y}) \ {m})
      BY <2>1, <2>3, <3>1
    <3> DEFINE less == (T \ {m}) \ {y}
    <3>4. (T \ {y}) \ {m} = less /\ IsFiniteSet(less) /\ less \subseteq S
      BY FS_Subset
    <3>5. SumFunctionOnSet(f, less) \in Int
      <4> HIDE DEF less
      <4> QED BY <3>4, SumTyped
    <3>6. f[y] \in Int /\ f[m] \in Int
      BY <2>1
    <3> HIDE DEF less
    <3>7. SumFunctionOnSet(f, T) = f[m] + (f[y] + SumFunctionOnSet(f, less))
      BY <2>1, <3>2 DEF less
    <3>8. SumFunctionOnSet(f, T \ {y}) = f[m] + SumFunctionOnSet(f, less)
      BY <3>3, <3>4
    <3>9. \A a, b, c \in Int : a + (b + c) = b + (a + c)
      OBVIOUS
    <3> QED BY <3>5, <3>6, <3>7, <3>8, <3>9
  <2> QED BY <2>2, <2>3
<1>2. S \in Good
  <2> HIDE DEF Good
  <2> QED BY <1>1, SubsetInduction
<1> QED BY <1>2

\* One more summand.
LEMMA SumAdd ==
    ASSUME NEW f, NEW S, IsFiniteSet(S), NEW x, x \notin S,
           \A y \in S \cup {x} : f[y] \in Int
    PROVE  SumFunctionOnSet(f, S \cup {x}) = SumFunctionOnSet(f, S) + f[x]
<1>1. IsFiniteSet(S \cup {x}) /\ (S \cup {x}) \ {x} = S /\ x \in S \cup {x}
  BY FS_AddElement
<1>2. SumFunctionOnSet(f, S \cup {x}) = f[x] + SumFunctionOnSet(f, S)
  <2> DEFINE T == S \cup {x}
  <2>1. IsFiniteSet(T) /\ x \in T /\ T \ {x} = S /\ \A y \in T : f[y] \in Int
    BY <1>1
  <2> HIDE DEF T
  <2>2. SumFunctionOnSet(f, T) = f[x] + SumFunctionOnSet(f, S)
    BY <2>1, SumRemove
  <2> QED BY <2>2 DEF T
<1>3. SumFunctionOnSet(f, S) \in Int /\ f[x] \in Int
  BY SumTyped
<1> QED BY <1>2, <1>3

\* A sum over two sets that have nothing in common.
LEMMA SumUnion ==
    ASSUME NEW f, NEW S, NEW T, IsFiniteSet(S), IsFiniteSet(T), S \cap T = {},
           \A x \in S \cup T : f[x] \in Int
    PROVE  SumFunctionOnSet(f, S \cup T) = SumFunctionOnSet(f, S) + SumFunctionOnSet(f, T)
<1> DEFINE Good == {U \in SUBSET T : SumFunctionOnSet(f, S \cup U)
                                         = SumFunctionOnSet(f, S) + SumFunctionOnSet(f, U)}
<1>1. SumFunctionOnSet(f, S) \in Int
  BY SumTyped
<1>2. {} \in Good
  <2>1. S \cup {} = S
    OBVIOUS
  <2> QED BY <1>1, <2>1, SumEmpty
<1>3. ASSUME NEW U \in SUBSET T, NEW x \in T, U \in Good, x \notin U
      PROVE  U \cup {x} \in Good
  <2>1. IsFiniteSet(U) /\ IsFiniteSet(S \cup U)
    BY FS_Subset, FS_Union
  <2>2. SumFunctionOnSet(f, U \cup {x}) = SumFunctionOnSet(f, U) + f[x]
    BY <1>3, <2>1, SumAdd
  <2>3. SumFunctionOnSet(f, (S \cup U) \cup {x}) = SumFunctionOnSet(f, S \cup U) + f[x]
    <3> DEFINE W == S \cup U
    <3>1. x \notin W /\ IsFiniteSet(W) /\ \A y \in W \cup {x} : f[y] \in Int
      BY <1>3, <2>1
    <3> HIDE DEF W
    <3>2. SumFunctionOnSet(f, W \cup {x}) = SumFunctionOnSet(f, W) + f[x]
      BY <3>1, SumAdd
    <3> QED BY <3>2 DEF W
  <2>4. SumFunctionOnSet(f, U) \in Int /\ f[x] \in Int
    BY <2>1, SumTyped
  <2>5. (S \cup U) \cup {x} = S \cup (U \cup {x})
    OBVIOUS
  <2>6. SumFunctionOnSet(f, S \cup U) = SumFunctionOnSet(f, S) + SumFunctionOnSet(f, U)
    BY <1>3
  <2>7. SumFunctionOnSet(f, S \cup (U \cup {x}))
            = (SumFunctionOnSet(f, S) + SumFunctionOnSet(f, U)) + f[x]
    BY <2>3, <2>5, <2>6
  <2>8. \A a, b, c \in Int : (a + b) + c = a + (b + c)
    OBVIOUS
  <2>9. SumFunctionOnSet(f, S \cup (U \cup {x}))
            = SumFunctionOnSet(f, S) + SumFunctionOnSet(f, U \cup {x})
    BY <1>1, <2>2, <2>4, <2>7, <2>8
  <2> QED BY <2>9
<1>4. T \in Good
  <2> HIDE DEF Good
  <2> QED BY <1>2, <1>3, FiniteInduction
<1> QED BY <1>4

\* A sum of nothing but zeros.
LEMMA SumZero ==
    ASSUME NEW f, NEW S, IsFiniteSet(S), \A x \in S : f[x] = 0
    PROVE  SumFunctionOnSet(f, S) = 0
<1> DEFINE Good == {T \in SUBSET S : SumFunctionOnSet(f, T) = 0}
<1>1. {} \in Good
  BY SumEmpty
<1>2. ASSUME NEW T \in SUBSET S, NEW x \in S, T \in Good, x \notin T
      PROVE  T \cup {x} \in Good
  <2>1. IsFiniteSet(T) /\ \A y \in T \cup {x} : f[y] \in Int
    BY FS_Subset
  <2>2. SumFunctionOnSet(f, T \cup {x}) = SumFunctionOnSet(f, T) + f[x]
    BY <1>2, <2>1, SumAdd
  <2> QED BY <1>2, <2>2
<1>3. S \in Good
  <2> HIDE DEF Good
  <2> QED BY <1>1, <1>2, FiniteInduction
<1> QED BY <1>3

\* A sum changes by what one of its summands does.
LEMMA SumChange ==
    ASSUME NEW f, NEW g, NEW S, IsFiniteSet(S), NEW x \in S,
           \A y \in S : f[y] \in Int /\ g[y] \in Int /\ (y # x => g[y] = f[y])
    PROVE  SumFunctionOnSet(g, S) = SumFunctionOnSet(f, S) + (g[x] - f[x])
<1> DEFINE R == S \ {x}
<1>1. IsFiniteSet(R) /\ \A y \in R : g[y] = f[y] /\ f[y] \in Int
  BY FS_Subset
<1>2. /\ SumFunctionOnSet(f, S) = f[x] + SumFunctionOnSet(f, R)
      /\ SumFunctionOnSet(g, S) = g[x] + SumFunctionOnSet(g, R)
  BY SumRemove
<1> HIDE DEF R
<1>3. SumFunctionOnSet(g, R) = SumFunctionOnSet(f, R) /\ SumFunctionOnSet(f, R) \in Int
  BY <1>1, SumEqual, SumTyped
<1> QED BY <1>2, <1>3

\* Of numbers that are not negative, fewer come to no more.
LEMMA SumSubset ==
    ASSUME NEW f, NEW S, IsFiniteSet(S), NEW T \in SUBSET S, \A x \in S : f[x] \in Nat
    PROVE  SumFunctionOnSet(f, T) <= SumFunctionOnSet(f, S)
<1>1. IsFiniteSet(T) /\ IsFiniteSet(S \ T) /\ T \cap (S \ T) = {} /\ T \cup (S \ T) = S
  BY FS_Subset
<1>2. SumFunctionOnSet(f, S) = SumFunctionOnSet(f, T) + SumFunctionOnSet(f, S \ T)
  <2> DEFINE R == S \ T
  <2>1. IsFiniteSet(R) /\ T \cap R = {} /\ T \cup R = S /\ \A x \in T \cup R : f[x] \in Int
    BY <1>1
  <2> HIDE DEF R
  <2>2. SumFunctionOnSet(f, T \cup R) = SumFunctionOnSet(f, T) + SumFunctionOnSet(f, R)
    BY <1>1, <2>1, SumUnion
  <2> QED BY <2>1, <2>2 DEF R
<1>3. SumFunctionOnSet(f, T) \in Nat /\ SumFunctionOnSet(f, S \ T) \in Nat
  BY <1>1, SumTyped
<1> QED BY <1>2, <1>3

\* Renaming the indices, no two of them alike, does not change a sum.
LEMMA SumImage ==
    ASSUME NEW f, NEW g, NEW h, NEW S, IsFiniteSet(S),
           \A x, y \in S : h[x] = h[y] => x = y,
           \A x \in S : f[x] = g[h[x]] /\ f[x] \in Int
    PROVE  SumFunctionOnSet(f, S) = SumFunctionOnSet(g, {h[x] : x \in S})
<1> DEFINE image(U) == {h[x] : x \in U}
           Good == {U \in SUBSET S : IsFiniteSet(image(U))
                                     /\ SumFunctionOnSet(f, U) = SumFunctionOnSet(g, image(U))}
<1>1. {} \in Good
  <2>1. image({}) = {}
    OBVIOUS
  <2> QED BY <2>1, SumEmpty, FS_EmptySet
<1>2. ASSUME NEW U \in SUBSET S, NEW x \in S, U \in Good, x \notin U
      PROVE  U \cup {x} \in Good
  <2>1. IsFiniteSet(U) /\ IsFiniteSet(image(U))
    BY <1>2, FS_Subset
  <2>2. SumFunctionOnSet(f, U \cup {x}) = SumFunctionOnSet(f, U) + f[x]
    BY <1>2, <2>1, SumAdd
  <2>3. image(U \cup {x}) = image(U) \cup {h[x]} /\ h[x] \notin image(U)
    BY <1>2
  <2>4. \A y \in image(U) \cup {h[x]} : g[y] \in Int
    OBVIOUS
  <2>5. SumFunctionOnSet(g, image(U) \cup {h[x]}) = SumFunctionOnSet(g, image(U)) + g[h[x]]
    <3> HIDE DEF image
    <3> QED BY <2>1, <2>3, <2>4, SumAdd
  <2>6. IsFiniteSet(image(U \cup {x}))
    <3>1. IsFiniteSet(image(U) \cup {h[x]})
      <4> HIDE DEF image
      <4> QED BY <2>1, FS_AddElement
    <3> QED BY <2>3, <3>1
  <2> HIDE DEF image
  <2> QED BY <1>2, <2>2, <2>3, <2>5, <2>6
<1>3. S \in Good
  <2> HIDE DEF Good
  <2> QED BY <1>1, <1>2, FiniteInduction
<1> QED BY <1>3
-------------------------------------------------------------------------------
(* Sums over sequences.                                                    *)

\* The same numbers further along an index come to the same.
LEMMA SumShift ==
    ASSUME NEW f, NEW g, NEW k \in Int, NEW n \in Nat,
           \A i \in 1..n : f[i] = g[k + i] /\ f[i] \in Int
    PROVE  SumFunctionOnSet(f, 1..n) = SumFunctionOnSet(g, (k + 1)..(k + n))
<1> DEFINE h == [i \in 1..n |-> k + i]
<1>1. IsFiniteSet(1..n)
  BY FS_Interval
<1>2. \A i \in 1..n : h[i] = k + i
  OBVIOUS
<1>3. {h[i] : i \in 1..n} = (k + 1)..(k + n)
  <2>1. ASSUME NEW j \in (k + 1)..(k + n) PROVE \E i \in 1..n : h[i] = j
    <3>1. j - k \in 1..n /\ k + (j - k) = j
      OBVIOUS
    <3> HIDE DEF h
    <3> QED BY <1>2, <3>1
  <2>2. ASSUME NEW i \in 1..n PROVE h[i] \in (k + 1)..(k + n)
    OBVIOUS
  <2> HIDE DEF h
  <2> QED BY <2>1, <2>2
<1>4. \A x, y \in 1..n : h[x] = h[y] => x = y
  OBVIOUS
<1>5. \A i \in 1..n : f[i] = g[h[i]] /\ f[i] \in Int
  BY <1>2
<1> HIDE DEF h
<1>6. SumFunctionOnSet(f, 1..n) = SumFunctionOnSet(g, {h[i] : i \in 1..n})
  <2> DEFINE S == 1..n
  <2>1. IsFiniteSet(S) /\ (\A x, y \in S : h[x] = h[y] => x = y)
        /\ \A i \in S : f[i] = g[h[i]] /\ f[i] \in Int
    BY <1>1, <1>4, <1>5
  <2> HIDE DEF S
  <2>2. SumFunctionOnSet(f, S) = SumFunctionOnSet(g, {h[i] : i \in S})
    BY <2>1, SumImage
  <2> QED BY <2>2 DEF S
<1> QED BY <1>3, <1>6

\* The sum over an index and the next one.
LEMMA SumIntervals ==
    ASSUME NEW f, NEW m \in Int, NEW n \in Int, NEW k \in Int, m <= n + 1, n <= k,
           \A i \in m..k : f[i] \in Int
    PROVE  SumFunctionOnSet(f, m..k)
               = SumFunctionOnSet(f, m..n) + SumFunctionOnSet(f, (n + 1)..k)
<1> DEFINE S == m..n
           T == (n + 1)..k
<1>1. S \cap T = {} /\ S \cup T = m..k /\ IsFiniteSet(S) /\ IsFiniteSet(T)
  BY FS_Interval
<1>2. \A i \in S \cup T : f[i] \in Int
  BY <1>1
<1> HIDE DEF S, T
<1>3. SumFunctionOnSet(f, S \cup T) = SumFunctionOnSet(f, S) + SumFunctionOnSet(f, T)
  BY <1>1, <1>2, SumUnion
<1> QED BY <1>1, <1>3 DEF S, T

\* A sequence of two parts.
LEMMA SumConcat ==
    ASSUME NEW s \in Seq(Int), NEW t \in Seq(Int)
    PROVE  SumFunctionOnSet(s \o t, 1..Len(s \o t))
               = SumFunctionOnSet(s, 1..Len(s)) + SumFunctionOnSet(t, 1..Len(t))
<1> DEFINE m == Len(s)
           n == Len(t)
           c == s \o t
<1>1. /\ m \in Nat /\ n \in Nat /\ Len(c) = m + n
      /\ \A i \in 1..m : s[i] \in Int /\ c[i] = s[i]
      /\ \A i \in 1..n : t[i] \in Int /\ t[i] = c[m + i]
      /\ \A i \in 1..(m + n) : c[i] \in Int
  <2>1. m \in Nat /\ n \in Nat /\ Len(c) = m + n
    OBVIOUS
  <2>2. \A i \in 1..(m + n) : c[i] = IF i <= m THEN s[i] ELSE t[i - m]
    OBVIOUS
  <2>3. \A i \in 1..m : s[i] \in Int
    OBVIOUS
  <2>4. \A i \in 1..n : t[i] \in Int
    OBVIOUS
  <2>5. ASSUME NEW i \in 1..m PROVE i \in 1..(m + n) /\ i <= m
    BY <2>1
  <2>6. ASSUME NEW i \in 1..n PROVE m + i \in 1..(m + n) /\ ~(m + i <= m) /\ (m + i) - m = i
    BY <2>1
  <2>7. ASSUME NEW i \in 1..(m + n), ~(i <= m) PROVE i - m \in 1..n
    BY <2>1, <2>7
  <2> HIDE DEF m, n, c
  <2>8. \A i \in 1..m : c[i] = s[i]
    BY <2>2, <2>5
  <2>9. \A i \in 1..n : c[m + i] = t[i]
    BY <2>2, <2>6
  <2>10. ASSUME NEW i \in 1..(m + n) PROVE c[i] \in Int
    <3>1. CASE i <= m
      <4>1. i \in 1..m
        BY <2>1, <3>1
      <4> QED BY <2>3, <2>8, <4>1
    <3>2. CASE ~(i <= m)
      BY <2>2, <2>4, <2>7, <3>2
    <3> QED BY <3>1, <3>2
  <2> QED BY <2>1, <2>3, <2>4, <2>8, <2>9, <2>10
<1> HIDE DEF m, n, c
<1>2. SumFunctionOnSet(c, 1..(m + n))
          = SumFunctionOnSet(c, 1..m) + SumFunctionOnSet(c, (m + 1)..(m + n))
  BY <1>1, SumIntervals
<1>3. SumFunctionOnSet(c, 1..m) = SumFunctionOnSet(s, 1..m)
  <2> DEFINE S == 1..m
  <2>1. IsFiniteSet(S) /\ \A i \in S : c[i] = s[i]
    BY <1>1, FS_Interval
  <2> HIDE DEF S
  <2>2. SumFunctionOnSet(c, S) = SumFunctionOnSet(s, S)
    BY <2>1, SumEqual
  <2> QED BY <2>2 DEF S
<1>4. SumFunctionOnSet(t, 1..n) = SumFunctionOnSet(c, (m + 1)..(m + n))
  <2>1. m \in Int /\ n \in Nat
    BY <1>1
  <2>2. \A i \in 1..n : t[i] = c[m + i] /\ t[i] \in Int
    BY <1>1
  <2> QED BY ONLY <2>1, <2>2, SumShift
<1>5. Len(c) = m + n
  BY <1>1
<1> QED BY <1>2, <1>3, <1>4, <1>5 DEF m, n, c

\* A sequence of one, and of none.
LEMMA SumOne ==
    ASSUME NEW c \in Int
    PROVE  SumFunctionOnSet(<<c>>, 1..Len(<<c>>)) = c
<1>1. 1..Len(<<c>>) = {} \cup {1} /\ <<c>>[1] = c
  OBVIOUS
<1>2. SumFunctionOnSet(<<c>>, {} \cup {1}) = SumFunctionOnSet(<<c>>, {}) + <<c>>[1]
  <2> DEFINE f == <<c>>
  <2>1. f[1] \in Int
    OBVIOUS
  <2> HIDE DEF f
  <2>2. SumFunctionOnSet(f, {} \cup {1}) = SumFunctionOnSet(f, {}) + f[1]
    BY <2>1, SumAdd, FS_EmptySet
  <2> QED BY <2>2 DEF f
<1>3. SumFunctionOnSet(<<c>>, {}) = 0
  BY SumEmpty
<1> QED BY <1>1, <1>2, <1>3
================================================================================
