--------------------------- MODULE FiniteSetFacts ---------------------------
(***************************************************************************)
(* Facts about finite sets that the other proofs need: of                  *)
(* SumFunctionOnSet, the sum of a function's values over a finite set,     *)
(* what it is over the empty set, what taking an element out changes, that *)
(* it depends on the values alone and grows with them; and that a finite   *)
(* set with a strict total order can be sorted.                            *)
(*                                                                         *)
(* Each proof by induction takes a smallest subset that would not have the *)
(* property, which MinimalSubset provides.                                 *)
(***************************************************************************)
EXTENDS Integers, Functions, FiniteSetTheorems, WellFoundedInduction, TLAPS

SumStep(f, it, s) ==
  IF s = {} THEN 0
  ELSE f[CHOOSE x \in s : TRUE] + it[s \ {CHOOSE x \in s : TRUE}]

\* it gives the sum of f over every subset of S.
IsSum(f, S, it) == it = [s \in SUBSET S |-> SumStep(f, it, s)]

\* One step of the recursion.
LEMMA SumUnfolds ==
  ASSUME NEW f, NEW S, NEW it, IsSum(f, S, it), NEW s \in SUBSET S
  PROVE  it[s] = SumStep(f, it, s)
BY DEF IsSum

SumOver(f, S) == CHOOSE it : IsSum(f, S, it)

\* The sum of the library is this one.
LEMMA SumByRecursion ==
  ASSUME NEW f, NEW S
  PROVE  SumFunctionOnSet(f, S) = SumOver(f, S)[S]
BY DEF SumFunctionOnSet, FoldFunctionOnSet, MapThenFoldSet, SumOver, IsSum, SumStep

-----------------------------------------------------------------------------
(* Strict inclusion is well founded on the subsets of a finite set.        *)
LEMMA MinimalSubset ==
  ASSUME NEW S, IsFiniteSet(S), NEW T, T \subseteq SUBSET S, T # {}
  PROVE  \E U \in T : \A V \in T : V \subseteq U => V = U
<1>1. FiniteSubsetsOf(S) = SUBSET S
  BY FS_FiniteSubsetsOfFinite
<1>2. IsWellFoundedOn(StrictSubsetOrdering(S), SUBSET S)
  BY <1>1, FS_StrictSubsetOrderingWellFounded
<1>3. PICK U \in T : \A V \in T : ~ (<<V, U>> \in StrictSubsetOrdering(S))
  BY <1>2, WFMin
<1>4. ASSUME NEW V \in T, V \subseteq U, V # U
      PROVE  FALSE
  <2>1. <<V, U>> \in (SUBSET S) \X (SUBSET S)
    OBVIOUS
  <2>2. <<V, U>> \in StrictSubsetOrdering(S)
    BY <1>4, <2>1 DEF StrictSubsetOrdering
  <2> QED BY <1>3, <2>2
<1> QED BY <1>4

-----------------------------------------------------------------------------
(* Two functions that sum f over the subsets of T and of U agree on the    *)
(* subsets of both.                                                        *)
LEMMA SumIsUnique ==
  ASSUME NEW f, NEW T, NEW U, IsFiniteSet(T),
         NEW g, IsSum(f, T, g), NEW h, IsSum(f, U, h)
  PROVE  \A s \in SUBSET (T \cap U) : g[s] = h[s]
<1> DEFINE Bad == {s \in SUBSET (T \cap U) : g[s] # h[s]}
<1>1. SUFFICES ASSUME Bad # {} PROVE FALSE
  OBVIOUS
<1>2. IsFiniteSet(T \cap U)
  BY FS_Intersection
<1>3. PICK s \in Bad : \A t \in Bad : t \subseteq s => t = s
  <2>1. Bad \subseteq SUBSET (T \cap U)
    OBVIOUS
  <2> HIDE DEF Bad
  <2> QED BY <1>1, <1>2, <2>1, MinimalSubset
<1>4. g[s] = SumStep(f, g, s) /\ h[s] = SumStep(f, h, s)
  BY <1>3 DEF IsSum
<1>5. CASE s = {}
  BY <1>3, <1>4, <1>5 DEF SumStep
<1>6. CASE s # {}
  <2> DEFINE x == CHOOSE e \in s : TRUE
  <2>1. x \in s
    BY <1>6
  <2>2. s \ {x} \in SUBSET (T \cap U) /\ s \ {x} \subseteq s /\ s \ {x} # s
    BY <2>1, <1>3
  <2>3. g[s \ {x}] = h[s \ {x}]
    BY <2>2, <1>3
  <2>4. SumStep(f, g, s) = SumStep(f, h, s)
    BY <2>3 DEF SumStep
  <2> QED BY <2>4, <1>3, <1>4
<1> QED BY <1>5, <1>6

(* A function that sums f over the subsets of a finite set exists.         *)
LEMMA SumExists ==
  ASSUME NEW f, NEW S, IsFiniteSet(S)
  PROVE  \E it : IsSum(f, S, it)
<1> DEFINE Bad == {T \in SUBSET S : ~ \E it : IsSum(f, T, it)}
<1>1. SUFFICES ASSUME Bad # {} PROVE FALSE
  BY <1>1
<1>2. PICK T \in Bad : \A U \in Bad : U \subseteq T => U = T
  <2>1. Bad \subseteq SUBSET S
    OBVIOUS
  <2> HIDE DEF Bad
  <2> QED BY <1>1, <2>1, MinimalSubset
<1>3. T \in SUBSET S /\ ~ \E it : IsSum(f, T, it)
  BY <1>2
<1>4. ASSUME NEW U \in SUBSET T, U # T
      PROVE  IsSum(f, U, SumOver(f, U)) /\ IsFiniteSet(U)
  <2>1. U \in SUBSET S /\ U \notin Bad
    BY <1>2, <1>3, <1>4
  <2>2. \E it : IsSum(f, U, it)
    BY <2>1
  <2>3. IsFiniteSet(U)
    BY <2>1, FS_Subset
  <2> QED BY <2>2, <2>3 DEF SumOver
<1> DEFINE Below == [U \in SUBSET T |-> SumOver(f, U)[U]]
           it == [U \in SUBSET T |-> SumStep(f, Below, U)]
<1>5. ASSUME NEW U \in SUBSET T, U # T
      PROVE  it[U] = Below[U]
  <2>1. CASE U = {}
    <3>1. SumOver(f, U)[U] = SumStep(f, SumOver(f, U), U)
      BY <1>4, <1>5, SumUnfolds
    <3> QED BY <3>1, <2>1 DEF SumStep
  <2>2. CASE U # {}
    <3> DEFINE x == CHOOSE e \in U : TRUE
           V == U \ {x}
    <3>x. x \in U
      BY <2>2
    <3>1. V \in SUBSET T /\ V # T /\ V \in SUBSET (U \cap V)
      BY <3>x
    <3>2. SumOver(f, U)[V] = SumOver(f, V)[V]
      BY <1>4, <1>5, <3>1, SumIsUnique
    <3>3. SumOver(f, U)[U] = SumStep(f, SumOver(f, U), U)
      BY <1>4, <1>5, SumUnfolds
    <3>4. Below[V] = SumOver(f, V)[V]
      BY <3>1
    <3>5. SumStep(f, Below, U) = SumStep(f, SumOver(f, U), U)
      BY <3>2, <3>4 DEF SumStep
    <3> QED BY <3>3, <3>5
  <2> QED BY <2>1, <2>2
<1>6. ASSUME NEW U \in SUBSET T
      PROVE  SumStep(f, it, U) = SumStep(f, Below, U)
  <2>1. CASE U = {}
    BY <2>1 DEF SumStep
  <2>2. CASE U # {}
    <3> DEFINE x == CHOOSE e \in U : TRUE
           V == U \ {x}
    <3>x. x \in U
      BY <2>2
    <3>1. V \in SUBSET T /\ V # T
      BY <3>x
    <3>2. it[V] = Below[V]
      BY <3>1, <1>5
    <3> HIDE DEF it, Below
    <3> QED BY <3>2 DEF SumStep
  <2> QED BY <2>1, <2>2
<1>7. IsSum(f, T, it)
  <2> HIDE DEF Below
  <2> QED BY <1>6 DEF IsSum
<1> QED BY <1>3, <1>7

-----------------------------------------------------------------------------
\* Nothing adds up to zero.
LEMMA SumEmpty ==
  ASSUME NEW f
  PROVE  SumFunctionOnSet(f, {}) = 0
<1>1. IsFiniteSet({})
  BY FS_EmptySet
<1>2. IsSum(f, {}, SumOver(f, {}))
  BY <1>1, SumExists DEF SumOver
<1>3. SumOver(f, {})[{}] = SumStep(f, SumOver(f, {}), {})
  BY <1>2, SumUnfolds
<1> QED BY <1>3, SumByRecursion DEF SumStep

\* The element CHOOSE takes is taken out first.
LEMMA SumChosen ==
  ASSUME NEW f, NEW S, IsFiniteSet(S), S # {}
  PROVE  \E x \in S : SumFunctionOnSet(f, S) = f[x] + SumFunctionOnSet(f, S \ {x})
<1> DEFINE x == CHOOSE e \in S : TRUE
<1>1. x \in S
  OBVIOUS
<1>2. IsSum(f, S, SumOver(f, S))
  BY SumExists DEF SumOver
<1>3. IsFiniteSet(S \ {x})
  BY FS_RemoveElement
<1>4. IsSum(f, S \ {x}, SumOver(f, S \ {x}))
  BY <1>3, SumExists DEF SumOver
<1>5. SumOver(f, S)[S] = f[x] + SumOver(f, S)[S \ {x}]
  <2>1. SumOver(f, S)[S] = SumStep(f, SumOver(f, S), S)
    BY <1>2, SumUnfolds
  <2> QED BY <2>1 DEF SumStep
<1>6. S \ {x} \in SUBSET (S \cap (S \ {x}))
  OBVIOUS
<1>7. SumOver(f, S)[S \ {x}] = SumOver(f, S \ {x})[S \ {x}]
  BY <1>2, <1>4, <1>6, SumIsUnique
<1> QED BY <1>1, <1>5, <1>7, SumByRecursion

\* A sum of integers is one.
LEMMA SumType ==
  ASSUME NEW f, NEW S, IsFiniteSet(S), \A x \in S : f[x] \in Int
  PROVE  SumFunctionOnSet(f, S) \in Int
<1> DEFINE Bad == {T \in SUBSET S : SumFunctionOnSet(f, T) \notin Int}
<1>1. SUFFICES ASSUME Bad # {} PROVE FALSE
  BY <1>1
<1>2. PICK T \in Bad : \A U \in Bad : U \subseteq T => U = T
  <2>1. Bad \subseteq SUBSET S
    OBVIOUS
  <2> HIDE DEF Bad
  <2> QED BY <1>1, <2>1, MinimalSubset
<1>3. IsFiniteSet(T)
  BY FS_Subset
<1>4. T # {}
  BY SumEmpty
<1>5. PICK x \in T : SumFunctionOnSet(f, T) = f[x] + SumFunctionOnSet(f, T \ {x})
  BY <1>3, <1>4, SumChosen
<1>6. SumFunctionOnSet(f, T \ {x}) \in Int
  BY <1>2, <1>5
<1> QED BY <1>2, <1>5, <1>6

\* Any element may be taken out first.
LEMMA SumTakeOut ==
  ASSUME NEW f, NEW S, IsFiniteSet(S), \A x \in S : f[x] \in Int, NEW y \in S
  PROVE  SumFunctionOnSet(f, S) = f[y] + SumFunctionOnSet(f, S \ {y})
<1> DEFINE Good(T) == \A z \in T : SumFunctionOnSet(f, T) = f[z] + SumFunctionOnSet(f, T \ {z})
           Bad == {T \in SUBSET S : ~Good(T)}
<1>1. SUFFICES ASSUME Bad # {} PROVE FALSE
  <2>1. S \in SUBSET S
    OBVIOUS
  <2> QED BY <1>1, <2>1
<1>2. PICK T \in Bad : \A U \in Bad : U \subseteq T => U = T
  <2>1. Bad \subseteq SUBSET S
    OBVIOUS
  <2> HIDE DEF Bad
  <2> QED BY <1>1, <2>1, MinimalSubset
<1>3. PICK z \in T : SumFunctionOnSet(f, T) # f[z] + SumFunctionOnSet(f, T \ {z})
  BY <1>2
<1>4. IsFiniteSet(T) /\ T # {}
  BY <1>3, FS_Subset
<1>5. PICK x \in T : SumFunctionOnSet(f, T) = f[x] + SumFunctionOnSet(f, T \ {x})
  BY <1>4, SumChosen
<1>6. x # z
  BY <1>3, <1>5
<1> DEFINE Rest == (T \ {x}) \ {z}
<1>7. Good(T \ {x}) /\ Good(T \ {z})
  BY <1>2, <1>3, <1>5
<1>8. SumFunctionOnSet(f, T \ {x}) = f[z] + SumFunctionOnSet(f, Rest)
  BY <1>3, <1>6, <1>7
<1>9. SumFunctionOnSet(f, T \ {z}) = f[x] + SumFunctionOnSet(f, Rest)
  <2>1. (T \ {z}) \ {x} = Rest
    OBVIOUS
  <2>2. SumFunctionOnSet(f, T \ {z}) = f[x] + SumFunctionOnSet(f, (T \ {z}) \ {x})
    BY <1>5, <1>6, <1>7
  <2> QED BY <2>1, <2>2
<1>10. f[x] \in Int /\ f[z] \in Int
  BY <1>3, <1>5
<1>11. SumFunctionOnSet(f, Rest) \in Int
  <2>1. Rest \subseteq S /\ IsFiniteSet(Rest)
    BY <1>4, FS_RemoveElement
  <2> HIDE DEF Rest
  <2> QED BY <2>1, SumType
<1> HIDE DEF Rest
<1> QED BY <1>3, <1>5, <1>8, <1>9, <1>10, <1>11

\* A sum of one.
LEMMA SumOfOne ==
  ASSUME NEW f, NEW x, f[x] \in Int
  PROVE  SumFunctionOnSet(f, {x}) = f[x]
<1>1. IsFiniteSet({x})
  BY FS_Singleton
<1>2. SumFunctionOnSet(f, {x}) = f[x] + SumFunctionOnSet(f, {x} \ {x})
  BY <1>1, SumTakeOut
<1>3. SumFunctionOnSet(f, {x} \ {x}) = 0
  BY SumEmpty
<1> QED BY <1>2, <1>3

\* A sum depends on the values it adds only, and grows with them.
LEMMA SumMonotone ==
  ASSUME NEW f, NEW g, NEW S, IsFiniteSet(S),
         \A x \in S : f[x] \in Int /\ g[x] \in Int /\ f[x] <= g[x]
  PROVE  SumFunctionOnSet(f, S) <= SumFunctionOnSet(g, S)
<1> DEFINE Bad == {T \in SUBSET S : ~(SumFunctionOnSet(f, T) <= SumFunctionOnSet(g, T))}
<1>1. SUFFICES ASSUME Bad # {} PROVE FALSE
  BY <1>1
<1>2. PICK T \in Bad : \A U \in Bad : U \subseteq T => U = T
  <2>1. Bad \subseteq SUBSET S
    OBVIOUS
  <2> HIDE DEF Bad
  <2> QED BY <1>1, <2>1, MinimalSubset
<1>3. IsFiniteSet(T) /\ T # {}
  <2>1. IsFiniteSet(T)
    BY <1>2, FS_Subset
  <2>2. T # {}
    <3>1. SumFunctionOnSet(f, {}) <= SumFunctionOnSet(g, {})
      BY SumEmpty, SumFunctionOnSet(f, {}) = 0, SumFunctionOnSet(g, {}) = 0
    <3> QED BY <3>1, <1>2
  <2> QED BY <2>1, <2>2
<1>4. PICK x \in T : TRUE
  BY <1>3
<1>5. /\ SumFunctionOnSet(f, T) = f[x] + SumFunctionOnSet(f, T \ {x})
      /\ SumFunctionOnSet(g, T) = g[x] + SumFunctionOnSet(g, T \ {x})
  BY <1>3, <1>4, SumTakeOut
<1>6. SumFunctionOnSet(f, T \ {x}) <= SumFunctionOnSet(g, T \ {x})
  BY <1>2, <1>4
<1>7. SumFunctionOnSet(f, T \ {x}) \in Int /\ SumFunctionOnSet(g, T \ {x}) \in Int
  BY <1>2, <1>3, FS_RemoveElement, SumType
<1> QED BY <1>2, <1>4, <1>5, <1>6, <1>7

\* Functions that agree on a set have the same sum over it.
LEMMA SumEqual ==
  ASSUME NEW f, NEW g, NEW S, IsFiniteSet(S),
         \A x \in S : f[x] \in Int /\ f[x] = g[x]
  PROVE  SumFunctionOnSet(f, S) = SumFunctionOnSet(g, S)
<1>1. SumFunctionOnSet(f, S) <= SumFunctionOnSet(g, S) /\ SumFunctionOnSet(g, S) <= SumFunctionOnSet(f, S)
  BY SumMonotone
<1>2. SumFunctionOnSet(f, S) \in Int /\ SumFunctionOnSet(g, S) \in Int
  BY SumType
<1> QED BY <1>1, <1>2

\* A sum of naturals is one.
LEMMA SumNat ==
  ASSUME NEW f, NEW S, IsFiniteSet(S), \A x \in S : f[x] \in Nat
  PROVE  SumFunctionOnSet(f, S) \in Nat
<1> DEFINE Bad == {T \in SUBSET S : SumFunctionOnSet(f, T) \notin Nat}
<1>1. SUFFICES ASSUME Bad # {} PROVE FALSE
  BY <1>1
<1>2. PICK T \in Bad : \A U \in Bad : U \subseteq T => U = T
  <2>1. Bad \subseteq SUBSET S
    OBVIOUS
  <2> HIDE DEF Bad
  <2> QED BY <1>1, <2>1, MinimalSubset
<1>3. IsFiniteSet(T) /\ T # {}
  <2>1. IsFiniteSet(T)
    BY <1>2, FS_Subset
  <2>2. T # {}
    <3>1. SumFunctionOnSet(f, {}) \in Nat
      BY SumEmpty, SumFunctionOnSet(f, {}) = 0
    <3> QED BY <3>1, <1>2
  <2> QED BY <2>1, <2>2
<1>4. PICK x \in T : SumFunctionOnSet(f, T) = f[x] + SumFunctionOnSet(f, T \ {x})
  BY <1>3, SumChosen
<1>5. SumFunctionOnSet(f, T \ {x}) \in Nat
  BY <1>2, <1>4
<1> QED BY <1>2, <1>4, <1>5

\* Adding summands that are naturals makes a sum no smaller.
LEMMA SumOfMore ==
  ASSUME NEW f, NEW S, IsFiniteSet(S), \A x \in S : f[x] \in Nat, NEW T \in SUBSET S
  PROVE  SumFunctionOnSet(f, T) <= SumFunctionOnSet(f, S)
<1> DEFINE Bad == {U \in SUBSET S : T \subseteq U /\ ~(SumFunctionOnSet(f, T) <= SumFunctionOnSet(f, U))}
<1>1. SUFFICES ASSUME Bad # {} PROVE FALSE
  BY <1>1
<1>2. PICK U \in Bad : \A V \in Bad : V \subseteq U => V = U
  <2>1. Bad \subseteq SUBSET S
    OBVIOUS
  <2> HIDE DEF Bad
  <2> QED BY <1>1, <2>1, MinimalSubset
<1>3. IsFiniteSet(U) /\ IsFiniteSet(T)
  BY <1>2, FS_Subset
<1>4. SumFunctionOnSet(f, T) \in Int
  BY <1>3, SumType
<1>5. PICK x \in U : x \notin T
  <2>1. T \subseteq U /\ U # T
    BY <1>2, <1>4
  <2> QED BY <2>1
<1>6. SumFunctionOnSet(f, U) = f[x] + SumFunctionOnSet(f, U \ {x})
  BY <1>2, <1>3, SumTakeOut
<1>7. SumFunctionOnSet(f, T) <= SumFunctionOnSet(f, U \ {x})
  BY <1>2, <1>5
<1>8. SumFunctionOnSet(f, U \ {x}) \in Int
  BY <1>2, <1>3, FS_RemoveElement, SumType
<1> QED BY <1>2, <1>4, <1>5, <1>6, <1>7, <1>8

\* What an element adds to a sum is the difference it makes.
LEMMA SumWithout ==
  ASSUME NEW f, NEW S, IsFiniteSet(S), \A x \in S : f[x] \in Int, NEW y
  PROVE  SumFunctionOnSet(f, S) =
           SumFunctionOnSet(f, S \ {y}) + (IF y \in S THEN f[y] ELSE 0)
<1>1. SumFunctionOnSet(f, S \ {y}) \in Int
  BY FS_RemoveElement, SumType
<1>2. CASE y \in S
  BY <1>1, <1>2, SumTakeOut
<1>3. CASE y \notin S
  <2>1. S \ {y} = S
    BY <1>3
  <2>2. SumFunctionOnSet(f, S \ {y}) = SumFunctionOnSet(f, S)
    BY <2>1
  <2>3. SumFunctionOnSet(f, S \ {y}) + 0 = SumFunctionOnSet(f, S \ {y})
    BY <1>1
  <2> QED BY <1>3, <2>2, <2>3
<1> QED BY <1>2, <1>3

\* Two sums that differ in one summand only differ by what it adds to each.
LEMMA SumOneChange ==
  ASSUME NEW f, NEW S, IsFiniteSet(S), \A x \in S : f[x] \in Int,
         NEW g, NEW T, IsFiniteSet(T), \A x \in T : g[x] \in Int,
         NEW y, S \ {y} = T \ {y}, \A x \in S \ {y} : f[x] = g[x]
  PROVE  SumFunctionOnSet(g, T) =
           SumFunctionOnSet(f, S) - (IF y \in S THEN f[y] ELSE 0)
                                  + (IF y \in T THEN g[y] ELSE 0)
<1>1. IsFiniteSet(S \ {y})
  BY FS_RemoveElement
<1>2. /\ SumFunctionOnSet(f, S \ {y}) = SumFunctionOnSet(g, S \ {y})
      /\ SumFunctionOnSet(f, S \ {y}) \in Int
  BY <1>1, SumEqual, SumType
<1>3. /\ SumFunctionOnSet(f, S) =
           SumFunctionOnSet(f, S \ {y}) + (IF y \in S THEN f[y] ELSE 0)
      /\ SumFunctionOnSet(g, T) =
           SumFunctionOnSet(g, S \ {y}) + (IF y \in T THEN g[y] ELSE 0)
  <2>1. SumFunctionOnSet(f, S) =
          SumFunctionOnSet(f, S \ {y}) + (IF y \in S THEN f[y] ELSE 0)
    BY SumWithout, ZenonT(30)
  <2>2. SumFunctionOnSet(g, T) =
          SumFunctionOnSet(g, T \ {y}) + (IF y \in T THEN g[y] ELSE 0)
    BY SumWithout, ZenonT(30)
  <2> QED BY <2>1, <2>2
<1>4. (IF y \in S THEN f[y] ELSE 0) \in Int /\ (IF y \in T THEN g[y] ELSE 0) \in Int
  OBVIOUS
<1> QED BY <1>2, <1>3, <1>4

\* A sum is the sum over a part of its set plus the sum over the rest.
LEMMA SumSplit ==
  ASSUME NEW f, NEW S, IsFiniteSet(S), \A x \in S : f[x] \in Int, NEW T \in SUBSET S
  PROVE  SumFunctionOnSet(f, S) =
           SumFunctionOnSet(f, T) + SumFunctionOnSet(f, S \ T)
<1> DEFINE Bad == {U \in SUBSET S :
                     SumFunctionOnSet(f, U) #
                       SumFunctionOnSet(f, T \cap U) + SumFunctionOnSet(f, U \ T)}
<1>1. SUFFICES ASSUME Bad # {} PROVE FALSE
  <2>1. S \in SUBSET S /\ T \cap S = T
    OBVIOUS
  <2> QED BY <1>1, <2>1
<1>2. PICK U \in Bad : \A V \in Bad : V \subseteq U => V = U
  <2>1. Bad \subseteq SUBSET S
    OBVIOUS
  <2> HIDE DEF Bad
  <2> QED BY <1>1, <2>1, MinimalSubset
<1>3. /\ U \subseteq S /\ IsFiniteSet(U)
      /\ IsFiniteSet(T \cap U) /\ IsFiniteSet(U \ T)
  BY <1>2, FS_Subset
<1>a. SumFunctionOnSet(f, U) #
        SumFunctionOnSet(f, T \cap U) + SumFunctionOnSet(f, U \ T)
  BY <1>2
<1>4. U # {}
  <2>1. SUFFICES ASSUME U = {} PROVE FALSE
    OBVIOUS
  <2>2. T \cap U = {} /\ U \ T = {}
    BY <2>1
  <2>3. /\ SumFunctionOnSet(f, U) = 0 /\ SumFunctionOnSet(f, T \cap U) = 0
        /\ SumFunctionOnSet(f, U \ T) = 0
    BY <2>1, <2>2, SumEmpty
  <2> QED BY <1>2, <2>3
<1>5. PICK x \in U : TRUE
  BY <1>4
<1> DEFINE V == U \ {x}
<1>6. SumFunctionOnSet(f, U) = f[x] + SumFunctionOnSet(f, V)
  BY <1>3, SumTakeOut
<1>7. SumFunctionOnSet(f, V) =
        SumFunctionOnSet(f, T \cap V) + SumFunctionOnSet(f, V \ T)
  BY <1>2, <1>3
<1>8. /\ f[x] \in Int
      /\ SumFunctionOnSet(f, T \cap V) \in Int /\ SumFunctionOnSet(f, V \ T) \in Int
  <2>1. IsFiniteSet(T \cap V) /\ IsFiniteSet(V \ T)
    BY <1>3, FS_Subset
  <2>2. T \cap V \subseteq S /\ V \ T \subseteq S
    BY <1>3
  <2> HIDE DEF V
  <2> QED BY <1>3, <2>1, <2>2, SumType
<1>9. CASE x \in T
  <2>1. (T \cap U) \ {x} = T \cap V /\ U \ T = V \ T
    BY <1>9
  <2>2. SumFunctionOnSet(f, T \cap U) = f[x] + SumFunctionOnSet(f, (T \cap U) \ {x})
    BY <1>3, <1>9, SumTakeOut
  <2>3. /\ SumFunctionOnSet(f, T \cap U) = f[x] + SumFunctionOnSet(f, T \cap V)
        /\ SumFunctionOnSet(f, U \ T) = SumFunctionOnSet(f, V \ T)
    BY <2>1, <2>2
  <2> HIDE DEF V
  <2> QED BY <1>a, <1>6, <1>7, <1>8, <2>3
<1>10. CASE x \notin T
  <2>1. (U \ T) \ {x} = V \ T /\ T \cap U = T \cap V
    BY <1>10
  <2>2. SumFunctionOnSet(f, U \ T) = f[x] + SumFunctionOnSet(f, (U \ T) \ {x})
    BY <1>3, <1>10, SumTakeOut
  <2>3. /\ SumFunctionOnSet(f, U \ T) = f[x] + SumFunctionOnSet(f, V \ T)
        /\ SumFunctionOnSet(f, T \cap U) = SumFunctionOnSet(f, T \cap V)
    BY <2>1, <2>2
  <2> HIDE DEF V
  <2> QED BY <1>a, <1>6, <1>7, <1>8, <2>3
<1> QED BY <1>9, <1>10

\* Summands that are zero add nothing.
LEMMA SumOfZeros ==
  ASSUME NEW f, NEW S, IsFiniteSet(S), \A x \in S : f[x] = 0
  PROVE  SumFunctionOnSet(f, S) = 0
<1> DEFINE Bad == {T \in SUBSET S : SumFunctionOnSet(f, T) # 0}
<1>1. SUFFICES ASSUME Bad # {} PROVE FALSE
  BY <1>1
<1>2. PICK T \in Bad : \A U \in Bad : U \subseteq T => U = T
  <2>1. Bad \subseteq SUBSET S
    OBVIOUS
  <2> HIDE DEF Bad
  <2> QED BY <1>1, <2>1, MinimalSubset
<1>3. IsFiniteSet(T) /\ T # {}
  BY <1>2, FS_Subset, SumEmpty
<1>4. PICK x \in T : SumFunctionOnSet(f, T) = f[x] + SumFunctionOnSet(f, T \ {x})
  BY <1>3, SumChosen
<1>5. SumFunctionOnSet(f, T \ {x}) = 0 /\ f[x] = 0
  BY <1>2, <1>4
<1> QED BY <1>2, <1>4, <1>5

\* They may be left out.
LEMMA SumOfSome ==
  ASSUME NEW f, NEW S, IsFiniteSet(S), \A x \in S : f[x] \in Int, NEW T \in SUBSET S,
         \A x \in S \ T : f[x] = 0
  PROVE  SumFunctionOnSet(f, S) = SumFunctionOnSet(f, T)
<1>1. IsFiniteSet(S \ T) /\ IsFiniteSet(T)
  BY FS_Subset
<1>2. SumFunctionOnSet(f, S \ T) = 0
  BY <1>1, SumOfZeros
<1>3. SumFunctionOnSet(f, T) \in Int
  BY <1>1, SumType
<1> QED BY <1>2, <1>3, SumSplit

-----------------------------------------------------------------------------
(***************************************************************************)
(* Sorting.  A finite set with a strict total order on it, given as a set  *)
(* of pairs, has its elements in this order in exactly one list; what is   *)
(* needed is that there is one, and that a list of as many elements, each  *)
(* before the next, has them all.                                          *)
(***************************************************************************)
InOrder(R, f) == \A i, j \in DOMAIN f : i < j => <<f[i], f[j]>> \in R

StrictlyOrdered(R, S) ==
  /\ \A x \in S : <<x, x>> \notin R
  /\ \A x, y \in S : x # y => <<x, y>> \in R \/ <<y, x>> \in R
  /\ \A x, y, z \in S : <<x, y>> \in R /\ <<y, z>> \in R => <<x, z>> \in R

\* Of finitely many elements one is last.
LEMMA LastOne ==
  ASSUME NEW R, NEW S, IsFiniteSet(S), StrictlyOrdered(R, S), NEW T \in SUBSET S, T # {}
  PROVE  \E m \in T : \A x \in T \ {m} : <<x, m>> \in R
<1> DEFINE Bad == {U \in SUBSET S : U # {} /\ ~ \E m \in U : \A x \in U \ {m} : <<x, m>> \in R}
<1>1. SUFFICES ASSUME Bad # {} PROVE FALSE
  BY <1>1
<1>2. PICK U \in Bad : \A V \in Bad : V \subseteq U => V = U
  <2>1. Bad \subseteq SUBSET S
    OBVIOUS
  <2> HIDE DEF Bad
  <2> QED BY <1>1, <2>1, MinimalSubset
<1>3. U \subseteq S /\ U # {} /\ ~ \E m \in U : \A x \in U \ {m} : <<x, m>> \in R
  BY <1>2
<1>4. PICK y \in U : TRUE
  BY <1>3
<1>5. U \ {y} # {}
  BY <1>3, <1>4
<1>6. PICK m \in U \ {y} : \A x \in (U \ {y}) \ {m} : <<x, m>> \in R
  <2>1. U \ {y} \in SUBSET S /\ U \ {y} \subseteq U /\ U \ {y} # U
    BY <1>3, <1>4
  <2>2. U \ {y} \notin Bad
    <3> HIDE DEF Bad
    <3> QED BY <1>2, <2>1
  <2> QED BY <1>5, <2>1, <2>2
<1>7. CASE <<y, m>> \in R
  <2>1. \A x \in U \ {m} : <<x, m>> \in R
    BY <1>6, <1>7
  <2> QED BY <1>3, <1>6, <2>1
<1>8. CASE <<m, y>> \in R
  <2>1. \A x \in U \ {y} : <<x, y>> \in R
    BY <1>3, <1>4, <1>6, <1>8 DEF StrictlyOrdered
  <2> QED BY <1>3, <1>4, <2>1
<1> QED BY <1>3, <1>4, <1>6, <1>7, <1>8 DEF StrictlyOrdered

Sortable(R, S) == \E f \in [1 .. Cardinality(S) -> S] : InOrder(R, f)

\* What can be sorted still can with an element that comes last.
LEMMA SortedWithLast ==
  ASSUME NEW R, NEW S, IsFiniteSet(S), NEW m \in S, \A x \in S \ {m} : <<x, m>> \in R,
         Sortable(R, S \ {m})
  PROVE  Sortable(R, S)
<1> DEFINE n == Cardinality(S)
           V == S \ {m}
<1>1. n \in Nat \ {0} /\ Cardinality(V) = n - 1
  <2>1. Cardinality(V) = n - 1 /\ n \in Nat
    BY FS_RemoveElement, FS_CardinalityType
  <2>2. n # 0
    BY FS_EmptySet
  <2> QED BY <2>1, <2>2
<1>2. PICK f \in [1 .. n - 1 -> V] : InOrder(R, f)
  BY <1>1 DEF Sortable
<1>3. \A x \in V : x \in S /\ <<x, m>> \in R
  OBVIOUS
<1> HIDE DEF n, V
<1>4. \A i \in 1 .. n - 1 : f[i] \in S /\ <<f[i], m>> \in R
  BY <1>2, <1>3
<1> DEFINE g == [i \in 1 .. n |-> IF i < n THEN f[i] ELSE m]
<1>5. g \in [1 .. n -> S]
  <2>1. ASSUME NEW i \in 1 .. n
        PROVE  (IF i < n THEN f[i] ELSE m) \in S
    <3>1. CASE i < n
      <4>1. i \in 1 .. n - 1
        BY <1>1, <3>1
      <4> QED BY <1>4, <3>1, <4>1
    <3>2. CASE ~(i < n)
      BY <3>2
    <3> QED BY <3>1, <3>2
  <2> QED BY <2>1
<1>6. InOrder(R, g)
  BY <1>1, <1>2, <1>4 DEF InOrder
<1> QED BY <1>5, <1>6 DEF Sortable, n

\* A finite set can be sorted.
LEMMA SortExists ==
  ASSUME NEW R, NEW S, IsFiniteSet(S), StrictlyOrdered(R, S)
  PROVE  Sortable(R, S)
<1> DEFINE Bad == {T \in SUBSET S : ~Sortable(R, T)}
<1>1. SUFFICES ASSUME Bad # {} PROVE FALSE
  BY <1>1
<1>2. PICK T \in Bad : \A U \in Bad : U \subseteq T => U = T
  <2>1. Bad \subseteq SUBSET S
    OBVIOUS
  <2> HIDE DEF Bad
  <2> QED BY <1>1, <2>1, MinimalSubset
<1>3. IsFiniteSet(T) /\ T \in SUBSET S /\ ~Sortable(R, T)
  BY <1>2, FS_Subset
<1>4. T # {}
  <2>1. Cardinality({}) = 0
    BY FS_EmptySet
  <2>2. [i \in 1 .. 0 |-> i] \in [1 .. 0 -> {}] /\ InOrder(R, [i \in 1 .. 0 |-> i])
    BY DEF InOrder
  <2>3. Sortable(R, {})
    BY <2>1, <2>2 DEF Sortable
  <2> QED BY <1>3, <2>3
<1>5. PICK m \in T : \A x \in T \ {m} : <<x, m>> \in R
  BY <1>3, <1>4, LastOne
<1>6. Sortable(R, T \ {m})
  BY <1>2, <1>5
<1> QED BY <1>3, <1>5, <1>6, SortedWithLast

\* A list in order of as many elements of a set as it has has them all.
LEMMA SortHasAll ==
  ASSUME NEW R, NEW S, IsFiniteSet(S), StrictlyOrdered(R, S),
         NEW f \in [1 .. Cardinality(S) -> S], InOrder(R, f)
  PROVE  f \in Surjection(1 .. Cardinality(S), S)
<1> DEFINE n == Cardinality(S)
<1>1. n \in Nat
  BY FS_CardinalityType
<1>2. f \in Injection(1 .. n, S)
  <2>1. ASSUME NEW i \in 1 .. n, NEW j \in 1 .. n, i < j
        PROVE  f[i] # f[j]
    BY <2>1 DEF InOrder, StrictlyOrdered
  <2>2. \A i, j \in 1 .. n : f[i] = f[j] => i = j
    <3> HIDE DEF n
    <3> QED BY <1>1, <2>1
  <2> QED BY <2>2 DEF Injection, IsInjective
<1>3. IsFiniteSet(1 .. n) /\ Cardinality(1 .. n) = n
  BY <1>1, FS_Interval
<1> QED BY <1>2, <1>3, FS_Injection
=============================================================================
