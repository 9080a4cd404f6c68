----------------------------- MODULE FiniteSums -----------------------------
(***************************************************************************)
(* Facts about the sum of a function over a finite set, and about          *)
(* functions defined by recursion.                                         *)
(***************************************************************************)
EXTENDS Integers, FiniteSets, Functions, FiniteSetTheorems, WellFoundedInduction, TLAPS

\* The equation by which a sum over the subsets of S is defined.
Sums(g, f, S) ==
  g = [T \in SUBSET S |-> IF T = {} THEN 0
                          ELSE LET x == CHOOSE x \in T : TRUE IN f[x] + g[T \ {x}]]

\* Of the subsets of a finite set that have a property, one is smallest.
LEMMA SmallestSubset ==
  ASSUME NEW S, IsFiniteSet(S), NEW Q, Q \subseteq SUBSET S, Q # {}
  PROVE  \E T \in Q : \A U \in Q : U \subseteq T => U = T
<1>1. FiniteSubsetsOf(S) = SUBSET S
  BY FS_FiniteSubsetsOfFinite
<1>2. IsWellFoundedOn(StrictSubsetOrdering(S), SUBSET S)
  BY <1>1, FS_StrictSubsetOrderingWellFounded
<1>3. PICK T \in Q : \A U \in Q : ~(<<U, T>> \in StrictSubsetOrdering(S))
  BY <1>2, WFMin
<1> QED BY <1>3 DEF StrictSubsetOrdering

\* One step of a recursive sum.
LEMMA SumsValue ==
  ASSUME NEW g, NEW f, NEW S, Sums(g, f, S), NEW T \in SUBSET S
  PROVE  /\ T = {} => g[T] = 0
         /\ T # {} => (CHOOSE x \in T : TRUE) \in T
                      /\ g[T] = f[CHOOSE x \in T : TRUE] + g[T \ {CHOOSE x \in T : TRUE}]
<1> DEFINE G == [V \in SUBSET S |-> IF V = {} THEN 0
                          ELSE LET x == CHOOSE x \in V : TRUE IN f[x] + g[V \ {x}]]
<1>1. g = G
  BY DEF Sums
<1>2. G[T] = IF T = {} THEN 0 ELSE LET x == CHOOSE x \in T : TRUE IN f[x] + g[T \ {x}]
  OBVIOUS
<1> QED BY <1>1, <1>2

\* Two recursive sums of the same terms agree, whatever sets they go up to.
LEMMA SumsUnique ==
  ASSUME NEW f, NEW S, IsFiniteSet(S), NEW R, S \subseteq R,
         NEW g, Sums(g, f, S), NEW h, Sums(h, f, R)
  PROVE  g[S] = h[S]
<1> DEFINE Q == {T \in SUBSET S : g[T] # h[T]}
<1>1. SUFFICES ASSUME Q # {} PROVE FALSE
  OBVIOUS
<1>2. PICK T \in Q : \A U \in Q : U \subseteq T => U = T
  <2>1. Q \subseteq SUBSET S
    OBVIOUS
  <2> HIDE DEF Q
  <2> QED BY <1>1, <2>1, SmallestSubset
<1> DEFINE x == CHOOSE y \in T : TRUE
<1>3. T \in SUBSET S /\ T \in SUBSET R /\ g[T] # h[T]
  BY <1>2
<1>4. T # {}
  BY <1>3, SumsValue
<1>5. x \in T
  BY <1>4
<1>6. g[T \ {x}] = h[T \ {x}]
  BY <1>2, <1>3, <1>5
<1>7. g[T] = f[x] + g[T \ {x}]
  BY <1>3, <1>4, SumsValue
<1>8. h[T] = f[x] + h[T \ {x}]
  BY <1>3, <1>4, SumsValue
<1> QED BY <1>3, <1>6, <1>7, <1>8

\* There is one over every finite set.
LEMMA SumsExist ==
  ASSUME NEW f, NEW S, IsFiniteSet(S)
  PROVE  \E g : Sums(g, f, S)
<1> DEFINE Q == {T \in SUBSET S : ~ \E g : Sums(g, f, T)}
<1>1. SUFFICES ASSUME Q # {} PROVE FALSE
  OBVIOUS
<1>2. PICK T \in Q : \A U \in Q : U \subseteq T => U = T
  <2>1. Q \subseteq SUBSET S
    OBVIOUS
  <2> HIDE DEF Q
  <2> QED BY <1>1, <2>1, SmallestSubset
<1> DEFINE at(U) == CHOOSE g : Sums(g, f, U)
           x == CHOOSE y \in T : TRUE
           all == [U \in SUBSET T |-> IF U = {} THEN 0
                      ELSE LET y == CHOOSE y \in U : TRUE IN f[y] + at(U \ {y})[U \ {y}]]
<1>3. \A U \in SUBSET T : U # T => Sums(at(U), f, U)
  BY <1>2
<1>4. ASSUME NEW U \in SUBSET T, U # T PROVE all[U] = at(U)[U]
  <2>1. Sums(at(U), f, U) /\ U \in SUBSET U /\ IsFiniteSet(S) /\ U \in SUBSET S
    BY <1>3, <1>4
  <2> HIDE DEF at
  <2>2. CASE U = {}
    BY <2>1, <2>2, SumsValue
  <2>3. CASE U # {}
    <3> DEFINE y == CHOOSE y \in U : TRUE
               V == U \ {y}
    <3>1. y \in U
      BY <2>3
    <3>2. V \in SUBSET T /\ V # T /\ V \subseteq U /\ IsFiniteSet(V)
      BY <2>1, <3>1, FS_Subset
    <3>3. at(V)[V] = at(U)[V]
      BY <1>3, <2>1, <3>2, SumsUnique
    <3>4. at(U)[U] = f[y] + at(U)[V]
      BY <2>1, <2>3, SumsValue
    <3> QED BY <2>3, <3>3, <3>4
  <2> QED BY <2>2, <2>3
<1>5. Sums(all, f, T)
  <2>1. ASSUME NEW U \in SUBSET T, U # {}
        PROVE  LET y == CHOOSE y \in U : TRUE IN at(U \ {y})[U \ {y}] = all[U \ {y}]
    <3> DEFINE y == CHOOSE y \in U : TRUE
    <3>1. y \in U
      BY <2>1
    <3>2. U \ {y} \in SUBSET T /\ U \ {y} # T
      BY <3>1
    <3> HIDE DEF all, at
    <3> QED BY <1>4, <3>2
  <2>2. all = [U \in SUBSET T |-> IF U = {} THEN 0
                  ELSE LET y == CHOOSE y \in U : TRUE IN f[y] + all[U \ {y}]]
    <3>1. all = [U \in SUBSET T |-> all[U]]
      OBVIOUS
    <3>2. ASSUME NEW U \in SUBSET T
          PROVE  all[U] = IF U = {} THEN 0
                  ELSE LET y == CHOOSE y \in U : TRUE IN f[y] + all[U \ {y}]
      <4> DEFINE z == CHOOSE y \in U : TRUE
      <4>1. all[U] = IF U = {} THEN 0 ELSE f[z] + at(U \ {z})[U \ {z}]
        OBVIOUS
      <4> HIDE DEF at, all
      <4>2. U # {} => at(U \ {z})[U \ {z}] = all[U \ {z}]
        BY <2>1
      <4> QED BY <4>1, <4>2
    <3> HIDE DEF all
    <3> QED BY <3>1, <3>2
  <2> HIDE DEF all
  <2> QED BY <2>2 DEF Sums
<1> QED BY <1>2, <1>5

\* SumFunctionOnSet() is a sum.
LEMMA SumIsSum ==
  ASSUME NEW f, NEW S, IsFiniteSet(S)
  PROVE  \E g : Sums(g, f, S) /\ SumFunctionOnSet(f, S) = g[S]
<1> DEFINE g == CHOOSE g : Sums(g, f, S)
<1>1. Sums(g, f, S)
  BY SumsExist
<1>2. SumFunctionOnSet(f, S) = g[S]
  BY DEF SumFunctionOnSet, FoldFunctionOnSet, MapThenFoldSet, Sums
<1> QED BY <1>1, <1>2

-----------------------------------------------------------------------------
(* Sums over finite sets.                                                  *)

\* Nothing sums to 0.
LEMMA SumEmpty ==
  ASSUME NEW f
  PROVE  SumFunctionOnSet(f, {}) = 0
BY SumIsSum, SumsValue, FS_EmptySet

\* The element CHOOSE takes.
LEMMA SumChosen ==
  ASSUME NEW f, NEW S, IsFiniteSet(S), S # {}
  PROVE  \E x \in S : SumFunctionOnSet(f, S) = f[x] + SumFunctionOnSet(f, S \ {x})
<1> DEFINE x == CHOOSE x \in S : TRUE
<1>1. PICK g : Sums(g, f, S) /\ SumFunctionOnSet(f, S) = g[S]
  BY SumIsSum
<1>2. x \in S /\ g[S] = f[x] + g[S \ {x}]
  BY <1>1, SumsValue
<1>3. IsFiniteSet(S \ {x}) /\ S \ {x} \subseteq S
  BY FS_RemoveElement
<1>4. PICK h : Sums(h, f, S \ {x}) /\ SumFunctionOnSet(f, S \ {x}) = h[S \ {x}]
  BY <1>3, SumIsSum
<1>5. h[S \ {x}] = g[S \ {x}]
  BY <1>1, <1>3, <1>4, SumsUnique
<1> QED BY <1>1, <1>2, <1>4, <1>5

\* Natural numbers sum to one.
LEMMA SumType ==
  ASSUME NEW f, NEW S, IsFiniteSet(S), \A x \in S : f[x] \in Nat
  PROVE  SumFunctionOnSet(f, S) \in Nat
<1> DEFINE Q == {T \in SUBSET S : SumFunctionOnSet(f, T) \notin Nat}
<1>1. SUFFICES ASSUME Q # {} PROVE FALSE
  OBVIOUS
<1>2. PICK T \in Q : \A U \in Q : U \subseteq T => U = T
  <2>1. Q \subseteq SUBSET S
    OBVIOUS
  <2> HIDE DEF Q
  <2> QED BY <1>1, <2>1, SmallestSubset
<1>3. T \in SUBSET S /\ SumFunctionOnSet(f, T) \notin Nat /\ IsFiniteSet(T)
  BY FS_Subset
<1>4. T # {}
  BY <1>3, SumEmpty
<1>5. PICK x \in T : SumFunctionOnSet(f, T) = f[x] + SumFunctionOnSet(f, T \ {x})
  BY <1>3, <1>4, SumChosen
<1>6. SumFunctionOnSet(f, T \ {x}) \in Nat
  BY <1>2, <1>3
<1> QED BY <1>3, <1>5, <1>6

\* Any element may be taken out first.
LEMMA SumRemove ==
  ASSUME NEW f, NEW S, IsFiniteSet(S), \A x \in S : f[x] \in Nat, NEW e \in S
  PROVE  SumFunctionOnSet(f, S) = f[e] + SumFunctionOnSet(f, S \ {e})
<1> DEFINE Total(T) == SumFunctionOnSet(f, T)
           Q == {T \in SUBSET S : \E y \in T : Total(T) # f[y] + Total(T \ {y})}
<1>1. SUFFICES ASSUME Q # {} PROVE FALSE
  OBVIOUS
<1>2. PICK T \in Q : \A U \in Q : U \subseteq T => U = T
  <2>1. Q \subseteq SUBSET S
    OBVIOUS
  <2> HIDE DEF Q
  <2> QED BY <1>1, <2>1, SmallestSubset
<1>3. T \in SUBSET S /\ IsFiniteSet(T)
  BY FS_Subset
<1>4. PICK y \in T : Total(T) # f[y] + Total(T \ {y})
  OBVIOUS
<1>5. PICK x \in T : Total(T) = f[x] + Total(T \ {x})
  BY <1>3, <1>4, SumChosen
<1>6. x # y
  BY <1>4, <1>5
<1>7. /\ T \ {x} \notin Q /\ T \ {x} \in SUBSET S /\ y \in T \ {x}
      /\ T \ {y} \notin Q /\ T \ {y} \in SUBSET S /\ x \in T \ {y}
  BY <1>2, <1>3, <1>6
<1>8. Total(T \ {x}) = f[y] + Total((T \ {x}) \ {y})
  BY <1>7
<1>9. Total(T \ {y}) = f[x] + Total((T \ {y}) \ {x})
  BY <1>7
<1>10. (T \ {x}) \ {y} = (T \ {y}) \ {x}
  OBVIOUS
<1>11. f[x] \in Nat /\ f[y] \in Nat /\ Total((T \ {x}) \ {y}) \in Nat
  <2>1. (T \ {x}) \ {y} \in SUBSET S
    BY <1>3
  <2>2. IsFiniteSet((T \ {x}) \ {y})
    BY <2>1, FS_Subset
  <2> QED BY <1>3, <2>1, <2>2, SumType
<1> HIDE DEF Total, Q
<1> QED BY <1>4, <1>5, <1>8, <1>9, <1>10, <1>11

\* One term more.
LEMMA SumAdd ==
  ASSUME NEW f, NEW S, IsFiniteSet(S), NEW e, e \notin S, \A x \in S \cup {e} : f[x] \in Nat
  PROVE  SumFunctionOnSet(f, S \cup {e}) = SumFunctionOnSet(f, S) + f[e]
<1>1. IsFiniteSet(S \cup {e}) /\ (S \cup {e}) \ {e} = S
  BY FS_AddElement
<1>2. SumFunctionOnSet(f, S \cup {e}) = f[e] + SumFunctionOnSet(f, S)
  BY <1>1, SumRemove
<1>3. SumFunctionOnSet(f, S) \in Nat
  BY SumType
<1> QED BY <1>2, <1>3

\* Larger terms make a larger sum.
LEMMA SumMonotonic ==
  ASSUME NEW f, NEW g, NEW S, IsFiniteSet(S),
         \A x \in S : f[x] \in Nat /\ g[x] \in Nat /\ f[x] <= g[x]
  PROVE  SumFunctionOnSet(f, S) <= SumFunctionOnSet(g, S)
<1> DEFINE F(T) == SumFunctionOnSet(f, T)
           G(T) == SumFunctionOnSet(g, T)
           Q == {T \in SUBSET S : ~(F(T) <= G(T))}
<1>1. SUFFICES ASSUME Q # {} PROVE FALSE
  OBVIOUS
<1>2. PICK T \in Q : \A U \in Q : U \subseteq T => U = T
  <2>1. Q \subseteq SUBSET S
    OBVIOUS
  <2> HIDE DEF Q
  <2> QED BY <1>1, <2>1, SmallestSubset
<1>3. T \in SUBSET S /\ IsFiniteSet(T) /\ ~(F(T) <= G(T))
  BY FS_Subset
<1>4. PICK x \in T : TRUE
  BY <1>3, SumEmpty
<1>5. F(T) = f[x] + F(T \ {x}) /\ G(T) = g[x] + G(T \ {x})
  BY <1>3, SumRemove
<1>6. F(T \ {x}) <= G(T \ {x})
  BY <1>2, <1>3
<1>7. F(T \ {x}) \in Nat /\ G(T \ {x}) \in Nat
  <2>1. T \ {x} \in SUBSET S /\ IsFiniteSet(T \ {x})
    BY <1>3, FS_RemoveElement
  <2> QED BY <2>1, SumType
<1> HIDE DEF F, G
<1> QED BY <1>3, <1>5, <1>6, <1>7

\* Equal terms make equal sums.
LEMMA SumSame ==
  ASSUME NEW f, NEW g, NEW S, IsFiniteSet(S), \A x \in S : f[x] \in Nat /\ g[x] = f[x]
  PROVE  SumFunctionOnSet(f, S) = SumFunctionOnSet(g, S)
<1>1. SumFunctionOnSet(f, S) \in Nat /\ SumFunctionOnSet(g, S) \in Nat
  BY SumType
<1>2. SumFunctionOnSet(f, S) <= SumFunctionOnSet(g, S)
  BY SumMonotonic
<1>3. SumFunctionOnSet(g, S) <= SumFunctionOnSet(f, S)
  BY SumMonotonic
<1> QED BY <1>1, <1>2, <1>3

\* A part is at most the whole.
LEMMA SumPart ==
  ASSUME NEW f, NEW S, IsFiniteSet(S), \A x \in S : f[x] \in Nat, NEW T \in SUBSET S
  PROVE  SumFunctionOnSet(f, T) <= SumFunctionOnSet(f, S)
<1> DEFINE Total(U) == SumFunctionOnSet(f, U)
           Q == {U \in SUBSET S : T \subseteq U /\ ~(Total(T) <= Total(U))}
<1>1. SUFFICES ASSUME Q # {} PROVE FALSE
  OBVIOUS
<1>2. PICK U \in Q : \A V \in Q : V \subseteq U => V = U
  <2>1. Q \subseteq SUBSET S
    OBVIOUS
  <2> HIDE DEF Q
  <2> QED BY <1>1, <2>1, SmallestSubset
<1>3. U \in SUBSET S /\ T \subseteq U /\ IsFiniteSet(U) /\ ~(Total(T) <= Total(U))
  BY FS_Subset
<1>4. Total(T) \in Nat /\ IsFiniteSet(T)
  BY FS_Subset, SumType
<1>5. PICK x \in U : x \notin T
  BY <1>3, <1>4
<1>6. Total(U) = f[x] + Total(U \ {x})
  BY <1>3, SumRemove
<1>7. Total(T) <= Total(U \ {x})
  BY <1>2, <1>3, <1>5
<1>8. Total(U \ {x}) \in Nat /\ f[x] \in Nat
  <2>1. U \ {x} \in SUBSET S /\ IsFiniteSet(U \ {x})
    BY <1>3, FS_RemoveElement
  <2> QED BY <1>3, <2>1, SumType
<1> HIDE DEF Total
<1> QED BY <1>3, <1>4, <1>6, <1>7, <1>8

\* Taking a set apart.
LEMMA SumUnion ==
  ASSUME NEW f, NEW S, NEW T, IsFiniteSet(S), IsFiniteSet(T), S \cap T = {},
         \A x \in S \cup T : f[x] \in Nat
  PROVE  SumFunctionOnSet(f, S \cup T) = SumFunctionOnSet(f, S) + SumFunctionOnSet(f, T)
<1> DEFINE Total(U) == SumFunctionOnSet(f, U)
           Q == {U \in SUBSET T : Total(S \cup U) # Total(S) + Total(U)}
<1>1. SUFFICES ASSUME Q # {} PROVE FALSE
  OBVIOUS
<1>2. PICK U \in Q : \A V \in Q : V \subseteq U => V = U
  <2>1. Q \subseteq SUBSET T
    OBVIOUS
  <2> HIDE DEF Q
  <2> QED BY <1>1, <2>1, SmallestSubset
<1>3. U \in SUBSET T /\ IsFiniteSet(U) /\ Total(S \cup U) # Total(S) + Total(U)
  BY FS_Subset
<1>4. Total(S) \in Nat
  BY SumType
<1>5. PICK x \in U : TRUE
  <2>1. Total({}) = 0 /\ S \cup {} = S
    BY SumEmpty
  <2> HIDE DEF Total
  <2> QED BY <1>3, <1>4, <2>1
<1>6. Total(U) = f[x] + Total(U \ {x})
  BY <1>3, SumRemove
<1>7. Total(S \cup U) = f[x] + Total(S \cup (U \ {x}))
  <2>1. IsFiniteSet(S \cup U) /\ (S \cup U) \ {x} = S \cup (U \ {x})
    BY <1>3, FS_Union
  <2>2. Total(S \cup U) = f[x] + Total((S \cup U) \ {x})
    BY <1>3, <2>1, SumRemove
  <2> QED BY <2>1, <2>2
<1>8. Total(S \cup (U \ {x})) = Total(S) + Total(U \ {x})
  BY <1>2, <1>3
<1>9. Total(U \ {x}) \in Nat /\ f[x] \in Nat
  <2>1. U \ {x} \in SUBSET T /\ IsFiniteSet(U \ {x})
    BY <1>3, FS_RemoveElement
  <2> QED BY <1>3, <2>1, SumType
<1> HIDE DEF Total
<1> QED BY <1>3, <1>4, <1>6, <1>7, <1>8, <1>9

\* The terms renamed one to one.
LEMMA SumImage ==
  ASSUME NEW f, NEW S, IsFiniteSet(S), \A x \in S : f[x] \in Nat,
         NEW m, NEW g, \A x \in S : g[m[x]] = f[x],
         \A x, y \in S : m[x] = m[y] => x = y
  PROVE  /\ IsFiniteSet({m[x] : x \in S})
         /\ SumFunctionOnSet(g, {m[x] : x \in S}) = SumFunctionOnSet(f, S)
<1> DEFINE Im(T) == {m[x] : x \in T}
           Fine(T) == IsFiniteSet(Im(T)) /\ SumFunctionOnSet(g, Im(T)) = SumFunctionOnSet(f, T)
           Q == {T \in SUBSET S : ~Fine(T)}
<1>1. SUFFICES ASSUME Q # {} PROVE FALSE
  OBVIOUS
<1>2. PICK T \in Q : \A U \in Q : U \subseteq T => U = T
  <2>1. Q \subseteq SUBSET S
    OBVIOUS
  <2> HIDE DEF Q
  <2> QED BY <1>1, <2>1, SmallestSubset
<1>3. T \in SUBSET S /\ IsFiniteSet(T) /\ ~Fine(T)
  BY FS_Subset
<1>4. Fine({})
  <2>1. Im({}) = {}
    OBVIOUS
  <2>2. IsFiniteSet(Im({}))
    BY <2>1, FS_EmptySet
  <2>3. SumFunctionOnSet(g, Im({})) = SumFunctionOnSet(f, {})
    BY <2>1, SumEmpty
  <2> QED BY <2>2, <2>3
<1>5. PICK x \in T : TRUE
  BY <1>3, <1>4
<1> DEFINE U == T \ {x}
<1>6. U \in SUBSET S /\ IsFiniteSet(U) /\ T = U \cup {x} /\ x \notin U /\ x \in S
  BY <1>3, FS_RemoveElement
<1>7. Fine(U)
  BY <1>2, <1>6
<1>8. Im(T) = Im(U) \cup {m[x]} /\ m[x] \notin Im(U)
  BY <1>6
<1>9. \A e \in Im(T) : g[e] \in Nat
  BY <1>3
<1>10. IsFiniteSet(Im(T)) /\ SumFunctionOnSet(g, Im(T)) = SumFunctionOnSet(g, Im(U)) + g[m[x]]
  <2>1. IsFiniteSet(Im(U)) /\ IsFiniteSet(Im(U) \cup {m[x]})
    BY <1>7, FS_AddElement
  <2>2. \A e \in Im(U) \cup {m[x]} : g[e] \in Nat
    BY <1>8, <1>9
  <2> DEFINE V == Im(U)
             e == m[x]
  <2>3. IsFiniteSet(V) /\ e \notin V /\ \A y \in V \cup {e} : g[y] \in Nat
    BY <1>8, <2>1, <2>2
  <2>4. SumFunctionOnSet(g, V \cup {e}) = SumFunctionOnSet(g, V) + g[e]
    <3> HIDE DEF V, e
    <3> QED BY <2>3, SumAdd
  <2> QED BY <1>8, <2>1, <2>4
<1>11. SumFunctionOnSet(f, T) = SumFunctionOnSet(f, U) + f[x]
  <2> HIDE DEF U
  <2>1. \A y \in U \cup {x} : f[y] \in Nat
    BY <1>6
  <2> QED BY <1>6, <2>1, SumAdd
<1>12. g[m[x]] = f[x]
  BY <1>6
<1> QED BY <1>3, <1>7, <1>10, <1>11, <1>12

-----------------------------------------------------------------------------
(* Least counterexamples.                                                  *)

\* Of the numbers that have a property, one is least.
LEMMA SmallestNumber ==
  ASSUME NEW Q, Q \subseteq Nat, Q # {}
  PROVE  \E n \in Q : \A k \in Q : n <= k
<1>1. PICK m \in Q : TRUE
  OBVIOUS
<1> DEFINE P == {0 .. n : n \in {k \in Q : k <= m}}
<1>2. IsFiniteSet(0 .. m) /\ P \subseteq SUBSET (0 .. m) /\ P # {}
  <2>1. m \in Nat /\ m \in Int /\ 0 \in Int /\ \A k \in Q : k <= m => 0 .. k \subseteq 0 .. m
    OBVIOUS
  <2>2. IsFiniteSet(0 .. m)
    BY <2>1, FS_Interval
  <2>3. P \subseteq SUBSET (0 .. m)
    BY <2>1
  <2>4. m \in {k \in Q : k <= m}
    BY <2>1
  <2>5. 0 .. m \in P
    BY <2>4
  <2> QED BY <2>2, <2>3, <2>5
<1>3. PICK T \in P : \A U \in P : U \subseteq T => U = T
  <2> DEFINE S == 0 .. m
  <2>1. IsFiniteSet(S) /\ P \subseteq SUBSET S /\ P # {}
    BY <1>2
  <2> HIDE DEF P, S
  <2> QED BY <2>1, SmallestSubset
<1>4. PICK n \in Q : n <= m /\ T = 0 .. n
  OBVIOUS
<1>5. \A k \in Q : n <= k
  <2> SUFFICES ASSUME NEW k \in Q, k < n PROVE FALSE
    BY <1>4
  <2>1. 0 .. k \in P /\ 0 .. k \subseteq 0 .. n
    BY <1>4
  <2>2. 0 .. k = 0 .. n
    BY <2>1, <1>3, <1>4
  <2>3. n \in 0 .. n /\ n \notin 0 .. k
    BY <1>4
  <2> QED BY <2>2, <2>3
<1> QED BY <1>5
=============================================================================
