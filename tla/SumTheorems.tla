----------------------------- MODULE SumTheorems -----------------------------
(***************************************************************************)
(* What the sum of a function over a finite set does when one value of the *)
(* function changes, when indices are left out and when no value is        *)
(* negative.  SumFunctionOnSet is the operator of the community modules,   *)
(* with which the ledgers add up what the accounts hold and what is in     *)
(* flight.  It is defined by a recursive function over subsets, so that    *)
(* these facts are proved by induction over the subsets of a finite set,   *)
(* and that from the well-founded ordering of its subsets: an induction    *)
(* over a SET of good subsets, where a theorem with an operator as its     *)
(* parameter could not be used.  ListInduction is the same for the numbers *)
(* up to N, as the sets 1..i.                                              *)
(***************************************************************************)
EXTENDS Integers, Functions, FiniteSetTheorems, WellFoundedInduction, TLAPS

\* If a subset of S is good whenever all its proper subsets are, all are good.
LEMMA SubsetInduction ==
    ASSUME NEW S, IsFiniteSet(S), NEW G,
           \A T \in SUBSET S : (\A U \in SUBSET T : U # T => U \in G) => T \in G
    PROVE  \A T \in SUBSET S : T \in G
<1> DEFINE Bad == {T \in SUBSET S : T \notin G}
<1> SUFFICES ASSUME Bad # {} PROVE FALSE
  OBVIOUS
<1>0. FiniteSubsetsOf(S) = SUBSET S
  BY FS_FiniteSubsetsOfFinite
<1>1. IsWellFoundedOn(StrictSubsetOrdering(S), SUBSET S)
  <2>1. IsWellFoundedOn(StrictSubsetOrdering(S), FiniteSubsetsOf(S))
    BY FS_StrictSubsetOrderingWellFounded
  <2> QED BY <1>0, <2>1
<1>2. \E T \in Bad : \A U \in Bad : ~ (<<U, T>> \in StrictSubsetOrdering(S))
  <2>1. Bad \subseteq SUBSET S
    OBVIOUS
  <2> HIDE DEF Bad
  <2> QED BY <1>1, <2>1, WFMin
<1>3. PICK T \in Bad : \A U \in Bad : <<U, T>> \notin StrictSubsetOrdering(S)
  BY <1>2
<1>4. \A U \in SUBSET T : U # T => U \in G
  BY <1>3 DEF StrictSubsetOrdering
<1> QED
  BY <1>3, <1>4

\* What holds at the start and goes from each number to the next holds up to N.
LEMMA ListInduction ==
    ASSUME NEW N \in Nat, NEW T, 0 \in T, \A i \in 1..N : i - 1 \in T => i \in T
    PROVE  \A i \in 0..N : i \in T
<1> DEFINE S == 1..N
           G == {U \in SUBSET S : \A i \in 0..N : U = 1..i => i \in T}
<1>1. IsFiniteSet(S)
  BY FS_Interval
<1>2. ASSUME NEW U \in SUBSET S, \A V \in SUBSET U : V # U => V \in G
      PROVE  U \in G
  <2> SUFFICES ASSUME NEW i \in 0..N, U = 1..i PROVE i \in T
    OBVIOUS
  <2>1. CASE i = 0
    BY <2>1
  <2>2. CASE i # 0
    <3>1. 1..(i - 1) \in SUBSET U /\ i \in U /\ i \notin 1..(i - 1) /\ i - 1 \in 0..N
      BY <2>2
    <3>2. 1..(i - 1) \in G
      BY <1>2, <3>1
    <3>3. i - 1 \in T
      BY <3>1, <3>2
    <3> QED
      BY <2>2, <3>3
  <2> QED
    BY <2>1, <2>2
<1>3. \A U \in SUBSET S : U \in G
  <2> HIDE DEF G, S
  <2> QED
    BY <1>1, <1>2, SubsetInduction
<1>4. \A i \in 0..N : 1..i \in SUBSET S
  OBVIOUS
<1> QED
  BY <1>3, <1>4

\* g is the recursive function that FoldFunctionOnSet chooses for f and S.
SumRec(f, S, g) ==
  g = [T \in SUBSET S |-> IF T = {} THEN 0
         ELSE f[CHOOSE x \in T : TRUE] + g[T \ {CHOOSE x \in T : TRUE}]]

\* The sum over S is the value of that function at S.
LEMMA SumIs == ASSUME NEW f, NEW S PROVE SumFunctionOnSet(f, S) = (CHOOSE g : SumRec(f, S, g))[S]
  BY DEF SumFunctionOnSet, FoldFunctionOnSet, MapThenFoldSet, SumRec

\* Two such functions agree where both are defined.
LEMMA SumRecUnique ==
    ASSUME NEW f, NEW S, IsFiniteSet(S), NEW S2, NEW g, NEW h, SumRec(f, S, g), SumRec(f, S2, h), S2 \subseteq S
    PROVE  \A T \in SUBSET S2 : g[T] = h[T]
<1> DEFINE G == {T \in SUBSET S2 : g[T] = h[T]}
<1>1. IsFiniteSet(S2)
  BY FS_Subset
<1>2. ASSUME NEW T \in SUBSET S2, \A U \in SUBSET T : U # T => U \in G
      PROVE  T \in G
  <2>1. CASE T = {}
    BY <2>1 DEF SumRec
  <2>2. CASE T # {}
    <3> DEFINE x == CHOOSE x \in T : TRUE
    <3>1. x \in T
      BY <2>2
    <3>2. T \ {x} \in G
      BY <1>2, <3>1
    <3>3. g[T] = f[x] + g[T \ {x}] /\ h[T] = f[x] + h[T \ {x}]
      BY <2>2 DEF SumRec
    <3> QED
      BY <3>2, <3>3
  <2> QED
    BY <2>1, <2>2
<1>3. \A T \in SUBSET S2 : T \in G
  <2> HIDE DEF G
  <2> QED BY <1>1, <1>2, SubsetInduction
<1> QED
  BY <1>3

\* There is one: it is put together from those of the proper subsets.
LEMMA SumRecExists ==
    ASSUME NEW f, NEW S, IsFiniteSet(S)
    PROVE  \E g : SumRec(f, S, g)
<1> DEFINE G == {T \in SUBSET S : \E g : SumRec(f, T, g)}
<1>0. \A U \in SUBSET S : IsFiniteSet(U)
  BY FS_Subset
<1>1. ASSUME NEW T \in SUBSET S, \A U \in SUBSET T : U # T => U \in G
      PROVE  T \in G
  <2> DEFINE g(U) == CHOOSE g : SumRec(f, U, g)
             x == CHOOSE x \in T : TRUE
             h == [U \in SUBSET T |-> IF U = T THEN IF T = {} THEN 0 ELSE f[x] + g(T \ {x})[T \ {x}]
                                      ELSE g(U)[U]]
  <2>1. \A U \in SUBSET T : U # T => SumRec(f, U, g(U))
    BY <1>1
  <2>2. ASSUME NEW U \in SUBSET T, U # {}, NEW y, y = CHOOSE z \in U : TRUE
        PROVE  h[U] = f[y] + h[U \ {y}]
    <3>1. y \in U
      BY <2>2
    <3>2. U \ {y} \in SUBSET T /\ U \ {y} # T /\ h[U \ {y}] = g(U \ {y})[U \ {y}]
      BY <3>1
    <3>3. CASE U = T
      BY <3>2, <3>3, <2>2
    <3>4. CASE U # T
      <4>1. SumRec(f, U, g(U)) /\ SumRec(f, U \ {y}, g(U \ {y}))
        BY <2>1, <3>2, <3>4
      <4>2. IsFiniteSet(U)
        <5>1. U \in SUBSET S
          OBVIOUS
        <5> QED BY <5>1, <1>0
      <4>3. g(U)[U \ {y}] = g(U \ {y})[U \ {y}]
        <5>1. U \ {y} \subseteq U
          OBVIOUS
        <5>2. \A V \in SUBSET (U \ {y}) : g(U)[V] = g(U \ {y})[V]
          <6> HIDE DEF g, h
          <6> QED BY <4>1, <4>2, <5>1, SumRecUnique
        <5> QED BY <5>2
      <4>4. g(U)[U] = f[y] + g(U)[U \ {y}]
        <5> HIDE DEF g
        <5> QED BY <4>1, <2>2 DEF SumRec
      <4>5. h[U] = g(U)[U]
        BY <3>4
      <4> HIDE DEF h, g
      <4> QED BY <3>2, <4>3, <4>4, <4>5
    <3> QED
      BY <3>3, <3>4
  <2>3. ASSUME {} \in SUBSET T PROVE h[{}] = 0
    <3>1. CASE T = {}
      BY <3>1
    <3>2. CASE T # {}
      <4>1. SumRec(f, {}, g({}))
        BY <2>1, <3>2
      <4>2. h[{}] = g({})[{}]
        BY <3>2
      <4> HIDE DEF h, g
      <4> QED BY <4>1, <4>2 DEF SumRec
    <3> QED
      BY <3>1, <3>2
  <2>4. SumRec(f, T, h)
    <3>1. h = [U \in SUBSET T |-> h[U]]
      OBVIOUS
    <3> HIDE DEF h
    <3> QED BY <3>1, <2>2, <2>3 DEF SumRec
  <2> HIDE DEF h
  <2> QED BY <2>4
<1>2. \A T \in SUBSET S : T \in G
  <2> HIDE DEF G
  <2> QED BY <1>1, SubsetInduction
<1> QED
  BY <1>2

\* The sum over no index is zero, over others one of them is added to the rest.
LEMMA SumUnfolds ==
    ASSUME NEW f, NEW S, IsFiniteSet(S)
    PROVE  SumFunctionOnSet(f, S) = IF S = {} THEN 0
                         ELSE f[CHOOSE x \in S : TRUE] + SumFunctionOnSet(f, S \ {CHOOSE x \in S : TRUE})
<1> DEFINE g(T) == CHOOSE g : SumRec(f, T, g)
           x == CHOOSE x \in S : TRUE
<1>1. IsFiniteSet(S \ {x})
  BY FS_Subset
<1>2. SumRec(f, S, g(S)) /\ SumRec(f, S \ {x}, g(S \ {x}))
  BY <1>1, SumRecExists
<1>3. SumFunctionOnSet(f, S) = g(S)[S] /\ SumFunctionOnSet(f, S \ {x}) = g(S \ {x})[S \ {x}]
  BY SumIs
<1>4. S # {} => g(S)[S \ {x}] = g(S \ {x})[S \ {x}]
  <2> HIDE DEF g, x
  <2> QED BY <1>2, SumRecUnique
<1>5. g(S)[S] = IF S = {} THEN 0 ELSE f[x] + g(S)[S \ {x}]
  <2> HIDE DEF g
  <2> QED BY <1>2 DEF SumRec
<1> HIDE DEF g
<1> QED BY <1>3, <1>4, <1>5

\* A sum of integers is one, and any of the indices can be the one added last.
LEMMA SumAdds ==
    ASSUME NEW S, IsFiniteSet(S), NEW f, \A x \in S : f[x] \in Int
    PROVE  \A T \in SUBSET S : /\ SumFunctionOnSet(f, T) \in Int
                               /\ \A x \in T : SumFunctionOnSet(f, T) = f[x] + SumFunctionOnSet(f, T \ {x})
<1> DEFINE P(T) == /\ SumFunctionOnSet(f, T) \in Int
                   /\ \A x \in T : SumFunctionOnSet(f, T) = f[x] + SumFunctionOnSet(f, T \ {x})
           G == {T \in SUBSET S : P(T)}
<1>1. ASSUME NEW T \in SUBSET S, \A U \in SUBSET T : U # T => U \in G
      PROVE  T \in G
  <2>0. \A U \in SUBSET S : IsFiniteSet(U)
    BY FS_Subset
  <2>1. CASE T = {}
    <3>1. SumFunctionOnSet(f, {}) = 0
      BY <2>0, SumUnfolds
    <3> QED BY <2>1, <3>1
  <2>2. CASE T # {}
    <3> DEFINE y == CHOOSE y \in T : TRUE
    <3>1. y \in T
      BY <2>2
    <3>2. SumFunctionOnSet(f, T) = f[y] + SumFunctionOnSet(f, T \ {y})
      BY <2>0, <2>2, SumUnfolds
    <3>3. P(T \ {y})
      BY <1>1, <3>1
    <3>4. SumFunctionOnSet(f, T) \in Int
      BY <3>1, <3>2, <3>3
    <3>5. ASSUME NEW x \in T, x # y PROVE SumFunctionOnSet(f, T) = f[x] + SumFunctionOnSet(f, T \ {x})
      <4>1. P(T \ {x}) /\ P((T \ {y}) \ {x})
        BY <1>1, <3>1
      <4>2. SumFunctionOnSet(f, T \ {y}) = f[x] + SumFunctionOnSet(f, (T \ {y}) \ {x})
        BY <3>3, <3>5
      <4>3. SumFunctionOnSet(f, T \ {x}) = f[y] + SumFunctionOnSet(f, (T \ {x}) \ {y})
        BY <4>1, <3>5, <3>1
      <4>4. (T \ {x}) \ {y} = (T \ {y}) \ {x}
        OBVIOUS
      <4> DEFINE rest == SumFunctionOnSet(f, (T \ {y}) \ {x})
      <4>5. f[x] \in Int /\ f[y] \in Int /\ rest \in Int
        BY <4>1, <3>1
      <4>6. SumFunctionOnSet(f, T) = f[y] + (f[x] + rest) /\ SumFunctionOnSet(f, T \ {x}) = f[y] + rest
        BY <3>2, <4>2, <4>3, <4>4
      <4>7. f[y] + (f[x] + rest) = f[x] + (f[y] + rest)
        <5> HIDE DEF rest, y
        <5> QED BY <4>5
      <4> QED BY <4>6, <4>7
    <3> HIDE DEF y
    <3> QED BY <3>2, <3>4, <3>5
  <2> QED
    BY <2>1, <2>2
<1>2. \A T \in SUBSET S : T \in G
  <2> HIDE DEF G
  <2> QED BY <1>1, SubsetInduction
<1> QED
  BY <1>2

\* Functions that agree on the indices have the same sum.
LEMMA SumSame ==
    ASSUME NEW S, IsFiniteSet(S), NEW f, NEW g, \A x \in S : f[x] = g[x]
    PROVE  SumFunctionOnSet(f, S) = SumFunctionOnSet(g, S)
<1> DEFINE G == {T \in SUBSET S : SumFunctionOnSet(f, T) = SumFunctionOnSet(g, T)}
<1>0. \A U \in SUBSET S : IsFiniteSet(U)
  BY FS_Subset
<1>1. ASSUME NEW T \in SUBSET S, \A U \in SUBSET T : U # T => U \in G
      PROVE  T \in G
  <2> DEFINE x == CHOOSE x \in T : TRUE
  <2>1. CASE T = {}
    <3>1. SumFunctionOnSet(f, T) = 0 /\ SumFunctionOnSet(g, T) = 0
      BY <1>0, <2>1, SumUnfolds
    <3> QED BY <3>1
  <2>2. CASE T # {}
    <3>1. x \in T
      BY <2>2
    <3>2. /\ SumFunctionOnSet(f, T) = f[x] + SumFunctionOnSet(f, T \ {x})
          /\ SumFunctionOnSet(g, T) = g[x] + SumFunctionOnSet(g, T \ {x})
      BY <1>0, <2>2, SumUnfolds
    <3>3. T \ {x} \in G
      BY <1>1, <3>1
    <3> HIDE DEF x
    <3> QED BY <3>1, <3>2, <3>3
  <2> QED
    BY <2>1, <2>2
<1>2. \A T \in SUBSET S : T \in G
  <2> HIDE DEF G
  <2> QED BY <1>1, SubsetInduction
<1> QED
  BY <1>2

\* One value changes, and the sum by as much.
LEMMA SumChanges ==
    ASSUME NEW S, IsFiniteSet(S), NEW x \in S,
           NEW f, \A y \in S : f[y] \in Int,
           NEW g, \A y \in S : g[y] \in Int,
           \A y \in S \ {x} : f[y] = g[y]
    PROVE  /\ SumFunctionOnSet(f, S) \in Int
           /\ SumFunctionOnSet(g, S) = SumFunctionOnSet(f, S) - f[x] + g[x]
<1> DEFINE rest == SumFunctionOnSet(f, S \ {x})
<1>1. SumFunctionOnSet(f, S) = f[x] + rest /\ SumFunctionOnSet(g, S) = g[x] + SumFunctionOnSet(g, S \ {x})
  BY SumAdds
<1>2. rest \in Int /\ SumFunctionOnSet(f, S) \in Int
  BY SumAdds
<1>3. IsFiniteSet(S \ {x})
  BY FS_Subset
<1>4. SumFunctionOnSet(g, S \ {x}) = rest
  BY <1>3, SumSame
<1> HIDE DEF rest
<1> QED
  BY <1>1, <1>2, <1>4

\* A sum of natural numbers is one, and none of them is larger.
LEMMA SumIsNat ==
    ASSUME NEW S, IsFiniteSet(S), NEW f, \A x \in S : f[x] \in Nat
    PROVE  /\ SumFunctionOnSet(f, S) \in Nat
           /\ \A x \in S : f[x] <= SumFunctionOnSet(f, S)
<1> DEFINE G == {T \in SUBSET S : SumFunctionOnSet(f, T) \in Nat}
<1>0. \A U \in SUBSET S : /\ IsFiniteSet(U)
                          /\ \A x \in U : SumFunctionOnSet(f, U) = f[x] + SumFunctionOnSet(f, U \ {x})
  BY FS_Subset, SumAdds
<1>1. ASSUME NEW T \in SUBSET S, \A U \in SUBSET T : U # T => U \in G
      PROVE  T \in G
  <2>1. CASE T = {}
    <3>1. SumFunctionOnSet(f, T) = 0
      BY <1>0, <2>1, SumUnfolds
    <3> QED BY <3>1
  <2>2. CASE T # {}
    <3>1. PICK x \in T : TRUE
      BY <2>2
    <3>2. T \ {x} \in G /\ f[x] \in Nat
      BY <1>1
    <3> QED BY <1>0, <3>2
  <2> QED
    BY <2>1, <2>2
<1>2. \A T \in SUBSET S : T \in G
  <2> HIDE DEF G
  <2> QED BY <1>1, SubsetInduction
<1>3. ASSUME NEW x \in S PROVE f[x] <= SumFunctionOnSet(f, S)
  <2>1. SumFunctionOnSet(f, S \ {x}) \in Nat /\ f[x] \in Nat
    BY <1>2
  <2>2. SumFunctionOnSet(f, S) = f[x] + SumFunctionOnSet(f, S \ {x})
    BY <1>0
  <2> QED BY <2>1, <2>2
<1> QED
  BY <1>2, <1>3

\* Indices whose value is zero may be left out.
LEMMA SumRestricts ==
    ASSUME NEW S, IsFiniteSet(S), NEW T \in SUBSET S,
           NEW f, \A x \in S : f[x] \in Int, \A x \in S \ T : f[x] = 0
    PROVE  SumFunctionOnSet(f, T) = SumFunctionOnSet(f, S)
<1> DEFINE G == {U \in SUBSET S : T \subseteq U => SumFunctionOnSet(f, U) = SumFunctionOnSet(f, T)}
<1>1. ASSUME NEW U \in SUBSET S, \A V \in SUBSET U : V # U => V \in G
      PROVE  U \in G
  <2> SUFFICES ASSUME T \subseteq U, U # T
               PROVE  SumFunctionOnSet(f, U) = SumFunctionOnSet(f, T)
    OBVIOUS
  <2>1. PICK x \in U : x \notin T
    OBVIOUS
  <2>2. U \ {x} \in G /\ T \subseteq U \ {x} /\ f[x] = 0
    BY <1>1, <2>1
  <2>3. SumFunctionOnSet(f, U) = f[x] + SumFunctionOnSet(f, U \ {x}) /\ SumFunctionOnSet(f, U \ {x}) \in Int
    BY SumAdds
  <2> QED
    BY <2>2, <2>3
<1>2. \A U \in SUBSET S : U \in G
  <2> HIDE DEF G
  <2> QED BY <1>1, SubsetInduction
<1> QED
  BY <1>2
=============================================================================
