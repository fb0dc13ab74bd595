------------------------------- MODULE FiniteSums ------------------------------
(***************************************************************************)
(* Sums and folds, as the models take them from the community modules:     *)
(* SumFunctionOnSet and FoldLeft take a set in an order that CHOOSE fixes.  *)
(* The sum does not depend on it, and a fold keeps what each of its steps   *)
(* keeps.  All is proved by minimal counterexample, on a set of subsets or *)
(* on the naturals.                                                        *)
(***************************************************************************)
EXTENDS Integers, FiniteSets, Sequences, FiniteSetsExt, Functions, FiniteSetTheorems,
        WellFoundedInduction, TLAPS

Pick(s) == CHOOSE x \in s : TRUE

\* the function that the fold of f over S builds, by subset, and the equation it solves
Unfolded(f, S, g) ==
  [s \in SUBSET S |-> IF s = {} THEN 0 ELSE f[Pick(s)] + g[s \ {Pick(s)}]]
Folded(f, S) == CHOOSE g : g = Unfolded(f, S, g)

LEMMA SumIsFolded ==
  ASSUME NEW f, NEW S
  PROVE  SumFunctionOnSet(f, S) = Folded(f, S)[S]
  BY DEF SumFunctionOnSet, FoldFunctionOnSet, MapThenFoldSet, Folded, Unfolded, Pick

LEMMA LeastNat ==
  ASSUME NEW S, S \subseteq Nat, S # {}
  PROVE  \E n \in S : \A m \in S : n <= m
<1> DEFINE R == {ss \in Nat \X Nat : ss[1] < ss[2]}
<1>1. OpToRel(<, Nat) = R
  BY DEF OpToRel
<1>2. IsWellFoundedOn(R, Nat)
  BY <1>1, NatLessThanWellFounded
<1> HIDE DEF R
<1>3. PICK n \in S : \A m \in S : <<m, n>> \notin R
  BY <1>2, WFMin
<1>4. ASSUME NEW m \in S
      PROVE  n <= m
  <2>1. m < n => <<m, n>> \in R
    BY DEF R
  <2>2. ~(m < n)
    BY <1>3, <2>1
  <2> QED
    BY <2>2
<1> QED
  BY <1>4

LEMMA MinimalSubset ==
  ASSUME NEW S, IsFiniteSet(S), NEW C \in SUBSET SUBSET S, C # {}
  PROVE  \E T \in C : \A U \in C : U \subseteq T => U = T
<1>1. IsWellFoundedOn(StrictSubsetOrdering(S), FiniteSubsetsOf(S))
  BY FS_StrictSubsetOrderingWellFounded
<1>2. FiniteSubsetsOf(S) = SUBSET S
  BY FS_FiniteSubsetsOfFinite
<1>3. PICK T \in C : \A U \in C : <<U, T>> \notin StrictSubsetOrdering(S)
  BY <1>1, <1>2, WFMin
<1>4. ASSUME NEW U \in C, U \subseteq T
      PROVE  U = T
  <2>1. U # T => <<U, T>> \in StrictSubsetOrdering(S)
    BY <1>4 DEF StrictSubsetOrdering
  <2> QED
    BY <1>3, <2>1
<1> QED
  BY <1>4

LEMMA PickIsIn ==
  ASSUME NEW s, s # {}
  PROVE  Pick(s) \in s
  BY DEF Pick
-----------------------------------------------------------------------------
\* solves the equation on the subsets of at most n elements
Solves(f, S, n, g) ==
  g = [s \in SUBSET S |-> IF Cardinality(s) > n THEN 0
                          ELSE IF s = {} THEN 0 ELSE f[Pick(s)] + g[s \ {Pick(s)}]]

LEMMA SolvedStep ==
  ASSUME NEW f, NEW S, IsFiniteSet(S), NEW n \in Nat, NEW h, Solves(f, S, n, h)
  PROVE  \E g : Solves(f, S, n + 1, g)
<1> DEFINE g == [s \in SUBSET S |-> IF Cardinality(s) > n + 1 THEN 0
                          ELSE IF s = {} THEN 0 ELSE f[Pick(s)] + h[s \ {Pick(s)}]]
<1>1. ASSUME NEW s \in SUBSET S, ~(Cardinality(s) > n + 1), s # {}
      PROVE  g[s \ {Pick(s)}] = h[s \ {Pick(s)}]
  <2> DEFINE t == s \ {Pick(s)}
  <2>1. IsFiniteSet(s) /\ Cardinality(s) \in Nat
    BY FS_Subset, FS_CardinalityType
  <2>2. Cardinality(t) = Cardinality(s) - 1 /\ t \in SUBSET S
    BY <1>1, <2>1, PickIsIn, FS_RemoveElement
  <2>3. ~(Cardinality(t) > n) /\ ~(Cardinality(t) > n + 1)
    BY <1>1, <2>1, <2>2
  <2> HIDE DEF t
  <2>4. g[t] = IF t = {} THEN 0 ELSE f[Pick(t)] + h[t \ {Pick(t)}]
    BY <2>2, <2>3
  <2>5. h[t] = IF t = {} THEN 0 ELSE f[Pick(t)] + h[t \ {Pick(t)}]
    BY <2>2, <2>3 DEF Solves
  <2> QED
    BY <2>4, <2>5 DEF t
<1>2. Solves(f, S, n + 1, g)
  <2>1. ASSUME NEW s \in SUBSET S
        PROVE  g[s] = IF Cardinality(s) > n + 1 THEN 0
                      ELSE IF s = {} THEN 0 ELSE f[Pick(s)] + g[s \ {Pick(s)}]
    BY <1>1
  <2>2. g = [s \in SUBSET S |-> g[s]]
    OBVIOUS
  <2> HIDE DEF g
  <2> QED
    BY <2>1, <2>2 DEF Solves
<1> QED
  BY <1>2

LEMMA Solved ==
  ASSUME NEW f, NEW S, IsFiniteSet(S), NEW n \in Nat
  PROVE  \E g : Solves(f, S, n, g)
<1> DEFINE Unsolved == {m \in Nat : ~ \E g : Solves(f, S, m, g)}
<1> SUFFICES ASSUME Unsolved # {}
             PROVE  FALSE
  OBVIOUS
<1>1. PICK m \in Unsolved : \A k \in Unsolved : m <= k
  BY LeastNat
<1>2. m # 0
  <2>1. \A s \in SUBSET S : ~(Cardinality(s) > 0) <=> s = {}
    BY FS_Subset, FS_CardinalityType, FS_EmptySet
  <2>2. Solves(f, S, 0, [s \in SUBSET S |-> 0])
    BY <2>1 DEF Solves
  <2> QED
    BY <2>2
<1>3. m - 1 \in Nat /\ m - 1 \notin Unsolved /\ (m - 1) + 1 = m
  BY <1>1, <1>2
<1>4. PICK h : Solves(f, S, m - 1, h)
  BY <1>3
<1> QED
  BY <1>3, <1>4, SolvedStep

LEMMA FoldedUnfolds ==
  ASSUME NEW f, NEW S, IsFiniteSet(S)
  PROVE  Folded(f, S) = Unfolded(f, S, Folded(f, S))
<1>1. Cardinality(S) \in Nat
  BY FS_CardinalityType
<1>2. PICK g : Solves(f, S, Cardinality(S), g)
  BY <1>1, Solved
<1>3. \A s \in SUBSET S : ~(Cardinality(s) > Cardinality(S))
  BY <1>1, FS_Subset, FS_CardinalityType
<1>4. g = Unfolded(f, S, g)
  BY <1>2, <1>3 DEF Solves, Unfolded
<1> QED
  BY <1>4 DEF Folded

LEMMA FoldedAt ==
  ASSUME NEW f, NEW S, IsFiniteSet(S), NEW s \in SUBSET S
  PROVE  Folded(f, S)[s] =
           IF s = {} THEN 0 ELSE f[Pick(s)] + Folded(f, S)[s \ {Pick(s)}]
<1> DEFINE F == Folded(f, S)
<1>1. F = Unfolded(f, S, F)
  BY FoldedUnfolds
<1> HIDE DEF F
<1>2. F[s] = IF s = {} THEN 0 ELSE f[Pick(s)] + F[s \ {Pick(s)}]
  BY <1>1 DEF Unfolded
<1> QED
  BY <1>2 DEF F

\* the fold of a set has the same value on a subset as the fold of that subset
LEMMA FoldedCoheres ==
  ASSUME NEW f, NEW S, IsFiniteSet(S), NEW T \in SUBSET S
  PROVE  Folded(f, S)[T] = Folded(f, T)[T]
<1> DEFINE Bad == {t \in SUBSET S : \E V \in SUBSET S :
                     t \subseteq V /\ Folded(f, V)[t] # Folded(f, t)[t]}
<1> SUFFICES ASSUME Bad # {}
             PROVE  FALSE
  OBVIOUS
<1>1. PICK t \in Bad : \A u \in Bad : u \subseteq t => u = t
  <2>1. Bad \in SUBSET SUBSET S
    OBVIOUS
  <2> HIDE DEF Bad
  <2> QED
    BY <2>1, MinimalSubset
<1>2. PICK V \in SUBSET S : t \subseteq V /\ Folded(f, V)[t] # Folded(f, t)[t]
  OBVIOUS
<1>3. IsFiniteSet(V) /\ IsFiniteSet(t)
  BY FS_Subset
<1>4. /\ Folded(f, V)[t] = IF t = {} THEN 0 ELSE f[Pick(t)] + Folded(f, V)[t \ {Pick(t)}]
      /\ Folded(f, t)[t] = IF t = {} THEN 0 ELSE f[Pick(t)] + Folded(f, t)[t \ {Pick(t)}]
  BY <1>2, <1>3, FoldedAt
<1>5. t # {}
  BY <1>2, <1>4
<1> DEFINE u == t \ {Pick(t)}
<1>6. u \in SUBSET S /\ u \subseteq t /\ u # t
  BY <1>5, PickIsIn
<1>7. u \notin Bad
  BY <1>1, <1>6
<1>8. \A W \in SUBSET S : u \subseteq W => Folded(f, W)[u] = Folded(f, u)[u]
  BY <1>6, <1>7
<1>9. Folded(f, V)[u] = Folded(f, u)[u] /\ Folded(f, t)[u] = Folded(f, u)[u]
  BY <1>2, <1>6, <1>8
<1> QED
  BY <1>2, <1>4, <1>5, <1>9
-----------------------------------------------------------------------------
LEMMA SumEmpty ==
  ASSUME NEW f
  PROVE  SumFunctionOnSet(f, {}) = 0
  BY SumIsFolded, FoldedAt, FS_EmptySet

LEMMA SumUnfolds ==
  ASSUME NEW f, NEW S, IsFiniteSet(S), S # {}
  PROVE  SumFunctionOnSet(f, S) = f[Pick(S)] + SumFunctionOnSet(f, S \ {Pick(S)})
<1>1. Folded(f, S)[S] = f[Pick(S)] + Folded(f, S)[S \ {Pick(S)}]
  BY FoldedAt
<1>2. Folded(f, S)[S \ {Pick(S)}] = Folded(f, S \ {Pick(S)})[S \ {Pick(S)}]
  BY FoldedCoheres
<1> QED
  BY <1>1, <1>2, SumIsFolded

LEMMA SumType ==
  ASSUME NEW f, NEW S, IsFiniteSet(S), \A s \in S : f[s] \in Int
  PROVE  SumFunctionOnSet(f, S) \in Int
<1> DEFINE Bad == {t \in SUBSET S : SumFunctionOnSet(f, t) \notin Int}
<1> SUFFICES ASSUME Bad # {}
             PROVE  FALSE
  OBVIOUS
<1>1. PICK t \in Bad : \A u \in Bad : u \subseteq t => u = t
  <2>1. Bad \in SUBSET SUBSET S
    OBVIOUS
  <2> HIDE DEF Bad
  <2> QED
    BY <2>1, MinimalSubset
<1>2. IsFiniteSet(t) /\ t # {}
  <2>1. t # {}
    BY SumEmpty
  <2> QED
    BY <2>1, FS_Subset
<1>3. SumFunctionOnSet(f, t) = f[Pick(t)] + SumFunctionOnSet(f, t \ {Pick(t)})
  BY <1>2, SumUnfolds
<1>4. Pick(t) \in S /\ t \ {Pick(t)} \notin Bad /\ t \ {Pick(t)} \in SUBSET S
  BY <1>1, <1>2, PickIsIn
<1> QED
  BY <1>3, <1>4

(* Any element may be taken out first. *)
LEMMA SumRemove ==
  ASSUME NEW f, NEW S, IsFiniteSet(S), \A s \in S : f[s] \in Int, NEW x \in S
  PROVE  SumFunctionOnSet(f, S) = f[x] + SumFunctionOnSet(f, S \ {x})
<1> DEFINE Sum(t) == SumFunctionOnSet(f, t)
           Bad == {t \in SUBSET S : \E y \in t : Sum(t) # f[y] + Sum(t \ {y})}
<1> SUFFICES ASSUME Bad # {}
             PROVE  FALSE
  OBVIOUS
<1>1. PICK t \in Bad : \A u \in Bad : u \subseteq t => u = t
  <2>1. Bad \in SUBSET SUBSET S
    OBVIOUS
  <2> HIDE DEF Bad
  <2> QED
    BY <2>1, MinimalSubset
<1>2. PICK y \in t : Sum(t) # f[y] + Sum(t \ {y})
  OBVIOUS
<1> DEFINE p == Pick(t)
<1>3. p \in t /\ IsFiniteSet(t)
  BY PickIsIn, FS_Subset
<1>4. Sum(t) = f[p] + Sum(t \ {p})
  BY <1>3, SumUnfolds
<1>5. p # y
  BY <1>2, <1>4
<1>6. t \ {p} \notin Bad /\ t \ {y} \notin Bad
  BY <1>1, <1>2, <1>3
<1>7. Sum(t \ {p}) = f[y] + Sum((t \ {p}) \ {y})
  BY <1>2, <1>5, <1>6
<1>8. Sum(t \ {y}) = f[p] + Sum((t \ {y}) \ {p})
  BY <1>3, <1>5, <1>6
<1>9. (t \ {p}) \ {y} = (t \ {y}) \ {p}
  OBVIOUS
<1>10. /\ f[p] \in Int /\ f[y] \in Int
       /\ Sum((t \ {y}) \ {p}) \in Int
  <2>1. IsFiniteSet((t \ {y}) \ {p})
    BY <1>3, FS_RemoveElement
  <2> QED
    BY <1>3, <2>1, SumType
<1> DEFINE rest == Sum((t \ {y}) \ {p})
<1>11. f[p] + (f[y] + rest) = f[y] + (f[p] + rest)
  <2> HIDE DEF rest, p
  <2> QED
    BY <1>10 DEF rest
<1> HIDE DEF Bad, Sum
<1> QED
  BY <1>2, <1>4, <1>7, <1>8, <1>9, <1>11

(* Two functions that agree on the set have the same sum. *)
LEMMA SumAgrees ==
  ASSUME NEW f, NEW g, NEW S, IsFiniteSet(S), \A s \in S : f[s] = g[s]
  PROVE  SumFunctionOnSet(f, S) = SumFunctionOnSet(g, S)
<1> DEFINE Bad == {t \in SUBSET S : SumFunctionOnSet(f, t) # SumFunctionOnSet(g, t)}
<1> SUFFICES ASSUME Bad # {}
             PROVE  FALSE
  OBVIOUS
<1>1. PICK t \in Bad : \A u \in Bad : u \subseteq t => u = t
  <2>1. Bad \in SUBSET SUBSET S
    OBVIOUS
  <2> HIDE DEF Bad
  <2> QED
    BY <2>1, MinimalSubset
<1>2. IsFiniteSet(t) /\ t # {}
  <2>1. t # {}
    BY SumEmpty
  <2> QED
    BY <2>1, FS_Subset
<1>3. /\ SumFunctionOnSet(f, t) = f[Pick(t)] + SumFunctionOnSet(f, t \ {Pick(t)})
      /\ SumFunctionOnSet(g, t) = g[Pick(t)] + SumFunctionOnSet(g, t \ {Pick(t)})
  BY <1>2, SumUnfolds
<1>4. Pick(t) \in S /\ t \ {Pick(t)} \notin Bad /\ t \ {Pick(t)} \in SUBSET S
  BY <1>1, <1>2, PickIsIn
<1> QED
  BY <1>3, <1>4

(* A sum of naturals is one, and a part of it is no more. *)
LEMMA SumIsNat ==
  ASSUME NEW f, NEW S, IsFiniteSet(S), \A s \in S : f[s] \in Nat
  PROVE  SumFunctionOnSet(f, S) \in Nat
<1> DEFINE Bad == {t \in SUBSET S : SumFunctionOnSet(f, t) \notin Nat}
<1> SUFFICES ASSUME Bad # {}
             PROVE  FALSE
  OBVIOUS
<1>1. PICK t \in Bad : \A u \in Bad : u \subseteq t => u = t
  <2>1. Bad \in SUBSET SUBSET S
    OBVIOUS
  <2> HIDE DEF Bad
  <2> QED
    BY <2>1, MinimalSubset
<1>2. IsFiniteSet(t) /\ t # {}
  <2>1. t # {}
    BY SumEmpty
  <2> QED
    BY <2>1, FS_Subset
<1>3. SumFunctionOnSet(f, t) = f[Pick(t)] + SumFunctionOnSet(f, t \ {Pick(t)})
  BY <1>2, SumUnfolds
<1>4. Pick(t) \in S /\ t \ {Pick(t)} \notin Bad /\ t \ {Pick(t)} \in SUBSET S
  BY <1>1, <1>2, PickIsIn
<1> QED
  BY <1>3, <1>4

LEMMA SumOfPart ==
  ASSUME NEW f, NEW S, IsFiniteSet(S), \A s \in S : f[s] \in Nat, NEW T \in SUBSET S
  PROVE  SumFunctionOnSet(f, T) <= SumFunctionOnSet(f, S)
<1> DEFINE Sum(t) == SumFunctionOnSet(f, t)
           Bad == {t \in SUBSET S : T \subseteq t /\ ~(Sum(T) <= Sum(t))}
<1> SUFFICES ASSUME Bad # {}
             PROVE  FALSE
  OBVIOUS
<1>1. PICK t \in Bad : \A u \in Bad : u \subseteq t => u = t
  <2>1. Bad \in SUBSET SUBSET S
    OBVIOUS
  <2> HIDE DEF Bad
  <2> QED
    BY <2>1, MinimalSubset
<1>2. IsFiniteSet(t) /\ IsFiniteSet(T)
  BY FS_Subset
<1>3. Sum(t) \in Nat /\ Sum(T) \in Nat
  BY <1>2, SumIsNat
<1>4. PICK x \in t : x \notin T
  BY <1>3
<1>5. Sum(t) = f[x] + Sum(t \ {x})
  BY <1>2, SumRemove
<1>6. t \ {x} \notin Bad
  BY <1>1
<1>7. Sum(T) <= Sum(t \ {x})
  BY <1>4, <1>6
<1>8. Sum(t \ {x}) \in Nat /\ f[x] \in Nat
  BY <1>2, FS_RemoveElement, SumIsNat
<1>9. ~(Sum(T) <= Sum(t))
  OBVIOUS
<1> HIDE DEF Sum
<1> QED
  BY <1>3, <1>5, <1>7, <1>8, <1>9
(* What is no more at each element is no more in all. *)
LEMMA SumIsLess ==
  ASSUME NEW f, NEW g, NEW S, IsFiniteSet(S),
         \A s \in S : f[s] \in Nat /\ g[s] \in Nat /\ f[s] <= g[s]
  PROVE  SumFunctionOnSet(f, S) <= SumFunctionOnSet(g, S)
<1> DEFINE F(t) == SumFunctionOnSet(f, t)
           G(t) == SumFunctionOnSet(g, t)
           Bad == {t \in SUBSET S : ~(F(t) <= G(t))}
<1> SUFFICES ASSUME Bad # {}
             PROVE  FALSE
  OBVIOUS
<1>1. PICK t \in Bad : \A u \in Bad : u \subseteq t => u = t
  <2>1. Bad \in SUBSET SUBSET S
    OBVIOUS
  <2> HIDE DEF Bad
  <2> QED
    BY <2>1, MinimalSubset
<1>2. IsFiniteSet(t) /\ t \in SUBSET S /\ ~(F(t) <= G(t))
  BY FS_Subset
<1>3. t # {}
  BY <1>2, SumEmpty
<1> DEFINE p == Pick(t)
<1>4. p \in t /\ p \in S
  BY <1>2, <1>3, PickIsIn
<1>5. F(t) = f[p] + F(t \ {p}) /\ G(t) = g[p] + G(t \ {p})
  BY <1>2, <1>3, SumUnfolds
<1>6. F(t \ {p}) <= G(t \ {p})
  BY <1>1, <1>2, <1>4
<1>7. F(t \ {p}) \in Nat /\ G(t \ {p}) \in Nat
  <2>1. IsFiniteSet(t \ {p})
    BY <1>2, FS_RemoveElement
  <2> QED
    BY <1>2, <2>1, SumIsNat
<1>8. f[p] \in Nat /\ g[p] \in Nat /\ f[p] <= g[p]
  BY <1>4
<1> HIDE DEF F, G, p
<1> QED
  BY <1>2, <1>5, <1>6, <1>7, <1>8
-----------------------------------------------------------------------------
(* Any fold whose steps stay in a set of values exists, whatever element it takes out. *)
Picks(pick, S) == \A s \in SUBSET S : s # {} => pick[s] \in s
FoldStep(g, s, base, step, pick) ==
  g[s] = IF s = {} THEN base ELSE step[<<g[s \ {pick[s]}], pick[s]>>]
FoldsAll(g, S, base, step, pick) == \A s \in SUBSET S : FoldStep(g, s, base, step, pick)

LEMMA FoldExists ==
  ASSUME NEW S, IsFiniteSet(S), NEW V, NEW base \in V, NEW pick, Picks(pick, S),
         NEW step \in [V \X S -> V]
  PROVE  \E g \in [SUBSET S -> V] : FoldsAll(g, S, base, step, pick)
<1> USE DEF Picks, FoldStep
<1> DEFINE Eq(g, s) == FoldStep(g, s, base, step, pick)
           Upto(n) == {s \in SUBSET S : Cardinality(s) <= n}
           Unsolved == {n \in Nat : ~ \E g \in [SUBSET S -> V] : \A s \in Upto(n) : Eq(g, s)}
<1>1. \A s \in SUBSET S : IsFiniteSet(s) /\ Cardinality(s) \in Nat
  BY FS_Subset, FS_CardinalityType
<1>2. ASSUME NEW s \in SUBSET S, s # {}
      PROVE  /\ pick[s] \in S /\ s \ {pick[s]} \in SUBSET S
             /\ Cardinality(s \ {pick[s]}) = Cardinality(s) - 1
  BY <1>1, <1>2, FS_RemoveElement
<1>3. 0 \notin Unsolved
  <2> DEFINE g == [s \in SUBSET S |-> base]
  <2>1. g \in [SUBSET S -> V]
    OBVIOUS
  <2>2. \A s \in Upto(0) : s = {}
    BY <1>1, FS_EmptySet
  <2>3. \A s \in Upto(0) : Eq(g, s)
    BY <2>2
  <2> QED
    BY <2>1, <2>3
<1>4. ASSUME NEW n \in Nat, n \notin Unsolved
      PROVE  n + 1 \notin Unsolved
  <2>1. PICK h \in [SUBSET S -> V] : \A s \in Upto(n) : Eq(h, s)
    BY <1>4
  <2> DEFINE g == [s \in SUBSET S |->
                     IF s = {} THEN base ELSE step[<<h[s \ {pick[s]}], pick[s]>>]]
  <2>2. g \in [SUBSET S -> V]
    BY <1>2
  <2>3. \A s \in Upto(n) : g[s] = h[s]
    BY <2>1
  <2>4. ASSUME NEW s \in Upto(n + 1), s # {}
        PROVE  g[s \ {pick[s]}] = h[s \ {pick[s]}]
    <3>1. s \ {pick[s]} \in Upto(n)
      BY <1>1, <1>2, <2>4
    <3> HIDE DEF g, Upto
    <3> QED
      BY <2>3, <3>1
  <2>5. ASSUME NEW s \in Upto(n + 1)
        PROVE  Eq(g, s)
    BY <2>4
  <2> HIDE DEF g, Eq, Upto
  <2> QED
    BY <2>2, <2>5
<1>5. Unsolved = {}
  <2> SUFFICES ASSUME Unsolved # {}
               PROVE  FALSE
    OBVIOUS
  <2>1. Unsolved \subseteq Nat
    OBVIOUS
  <2> HIDE DEF Unsolved
  <2>2. PICK m \in Unsolved : \A k \in Unsolved : m <= k
    BY <2>1, LeastNat
  <2>3. m \in Nat /\ m # 0
    BY <1>3, <2>1
  <2>4. m - 1 \in Nat /\ m - 1 \notin Unsolved /\ (m - 1) + 1 = m
    BY <2>2, <2>3
  <2> QED
    BY <1>4, <2>4
<1>6. Cardinality(S) \in Nat /\ Upto(Cardinality(S)) = SUBSET S
  BY <1>1, FS_Subset
<1>7. PICK g \in [SUBSET S -> V] : \A s \in Upto(Cardinality(S)) : Eq(g, s)
  BY <1>5, <1>6
<1> QED
  BY <1>6, <1>7 DEF FoldsAll

LEMMA GreatestOf ==
  ASSUME NEW n \in Nat, NEW s \in SUBSET (1..n), s # {}
  PROVE  Max(s) \in s /\ \A x \in s : x <= Max(s)
<1> DEFINE R == {n - x : x \in s}
<1>0. \A x \in s : x \in Int /\ n - x \in Nat
  OBVIOUS
<1>1. R \subseteq Nat /\ R # {}
  BY <1>0
<1>2. PICK y \in R : \A z \in R : y <= z
  <2> HIDE DEF R
  <2> QED
    BY <1>1, LeastNat
<1>3. PICK x \in s : y = n - x
  OBVIOUS
<1>4. ASSUME NEW z \in s
      PROVE  x >= z
  <2>1. n - x <= n - z
    BY <1>2, <1>3
  <2> QED
    BY <1>0, <2>1
<1>5. Max(s) \in s /\ \A z \in s : Max(s) >= z
  BY <1>4 DEF Max
<1> QED
  BY <1>5

(* A left fold takes out the greatest index: it runs along the prefixes of its sequence. *)
LEMMA PrefixEnds ==
  ASSUME NEW n \in Nat, n # 0
  PROVE  Max(1..n) = n /\ (1..n) \ {n} = 1..(n - 1)
<1>1. 1..n \in SUBSET (1..n) /\ 1..n # {}
  OBVIOUS
<1>2. Max(1..n) \in 1..n /\ \A x \in 1..n : x <= Max(1..n)
  BY <1>1, GreatestOf
<1> QED
  BY <1>2

RunsBack(g, n, base, step) ==
  \A s \in SUBSET (1..n) : g[s] = IF s = {} THEN base ELSE step[<<g[s \ {Max(s)}], Max(s)>>]

LEMMA FoldAlong ==
  ASSUME NEW n \in Nat, NEW V, NEW base \in V, NEW step \in [V \X (1..n) -> V]
  PROVE  \E g \in [SUBSET (1..n) -> V] : RunsBack(g, n, base, step)
<1> DEFINE greatest == [s \in SUBSET (1..n) |-> Max(s)]
<1>1. \A s \in SUBSET (1..n) : greatest[s] = Max(s)
  OBVIOUS
<1>2. \A s \in SUBSET (1..n) : s # {} => greatest[s] \in s
  BY <1>1, GreatestOf
<1>3. IsFiniteSet(1..n)
  BY FS_Interval
<1> HIDE DEF greatest
<1>4. Picks(greatest, 1..n)
  BY <1>2 DEF Picks
<1>5. PICK g \in [SUBSET (1..n) -> V] : FoldsAll(g, 1..n, base, step, greatest)
  BY <1>3, <1>4, FoldExists
<1> QED
  BY <1>1, <1>5 DEF FoldsAll, FoldStep, RunsBack

(* Where a step keeps to a set of values, so does the fold. *)
LEMMA RunEnds ==
  ASSUME NEW n \in Nat, NEW V, NEW run, run[{}] \in V,
         \A i \in 1..n : run[1..(i - 1)] \in V => run[1..i] \in V
  PROVE  run[1..n] \in V
<1> DEFINE Bad == {i \in 0..n : run[1..i] \notin V}
<1> SUFFICES ASSUME Bad # {}
             PROVE  FALSE
  OBVIOUS
<1>1. PICK i \in Bad : \A j \in Bad : i <= j
  <2>1. Bad \subseteq Nat
    OBVIOUS
  <2> HIDE DEF Bad
  <2> QED
    BY <2>1, LeastNat
<1>2. 1..0 = {}
  OBVIOUS
<1>3. i \in 1..n
  BY <1>2
<1>4. i - 1 \in 0..n /\ i - 1 \notin Bad
  BY <1>1, <1>3
<1> QED
  BY <1>3, <1>4

\* what holds before a loop and is kept by each of its rounds holds after it
LEMMA LoopEnds ==
  ASSUME NEW n \in Nat, NEW good, 0 \in good, \A i \in 1..n : i - 1 \in good => i \in good
  PROVE  \A i \in 0..n : i \in good
<1> DEFINE Bad == {i \in 0..n : i \notin good}
<1> SUFFICES ASSUME Bad # {}
             PROVE  FALSE
  OBVIOUS
<1>1. PICK i \in Bad : \A j \in Bad : i <= j
  <2>1. Bad \subseteq Nat
    OBVIOUS
  <2> HIDE DEF Bad
  <2> QED
    BY <2>1, LeastNat
<1>2. i \in 1..n
  OBVIOUS
<1>3. i - 1 \in 0..n /\ i - 1 \notin Bad
  BY <1>1, <1>2
<1> QED
  BY <1>2, <1>3

\* the sum of the first i numbers of a sequence
LEMMA SumOfPrefix ==
  ASSUME NEW f, NEW n \in Nat, \A i \in 1..n : f[i] \in Int, NEW i \in 1..n
  PROVE  SumFunctionOnSet(f, 1..i) = f[i] + SumFunctionOnSet(f, 1..(i - 1))
<1>1. IsFiniteSet(1..i) /\ \A j \in 1..i : f[j] \in Int
  BY FS_Interval
<1>2. (1..i) \ {i} = 1..(i - 1) /\ i \in 1..i
  OBVIOUS
<1>3. SumFunctionOnSet(f, 1..i) = f[i] + SumFunctionOnSet(f, (1..i) \ {i})
  BY <1>1, <1>2, SumRemove
<1> QED
  BY <1>2, <1>3

\* the sum of two sequences put together
LEMMA SumOfConcat ==
  ASSUME NEW s \in Seq(Nat), NEW t \in Seq(Nat)
  PROVE  SumFunction(s \o t) = SumFunction(s) + SumFunction(t)
<1> DEFINE m == Len(s)
           n == Len(t)
           st == s \o t
           Sum(f, i) == SumFunctionOnSet(f, 1..i)
           good == {i \in 0..n : Sum(st, m + i) = Sum(s, m) + Sum(t, i)}
<1>1. /\ m \in Nat /\ n \in Nat /\ st \in Seq(Nat) /\ Len(st) = m + n
      /\ DOMAIN s = 1..m /\ DOMAIN t = 1..n /\ DOMAIN st = 1..(m + n)
  OBVIOUS
<1>2. /\ \A i \in 1..m : st[i] = s[i] /\ s[i] \in Nat
      /\ \A i \in 1..n : st[m + i] = t[i] /\ t[i] \in Nat
      /\ \A i \in 1..(m + n) : st[i] \in Nat
  OBVIOUS
<1>3. /\ \A i \in 1..m : s[i] \in Int
      /\ \A i \in 1..n : t[i] \in Int
      /\ \A i \in 1..(m + n) : st[i] \in Int
  BY <1>2
<1> HIDE DEF m, n, st
<1>4. 0 \in good
  <2>1. IsFiniteSet(1..m)
    BY <1>1, FS_Interval
  <2>2. Sum(st, m) = Sum(s, m)
    BY <1>2, <2>1, SumAgrees
  <2>3. 1..0 = {} /\ m + 0 = m /\ 0 \in 0..n
    BY <1>1
  <2>4. Sum(t, 0) = 0
    BY <2>3, SumEmpty
  <2>5. Sum(s, m) \in Int
    BY <1>3, <2>1, SumType
  <2> HIDE DEF Sum
  <2>6. Sum(s, m) = Sum(s, m) + 0
    BY <2>5
  <2> QED
    BY <2>2, <2>3, <2>4, <2>6
<1>5. ASSUME NEW i \in 1..n, i - 1 \in good
      PROVE  i \in good
  <2>1. m + i \in 1..(m + n) /\ (m + i) - 1 = m + (i - 1) /\ i \in 0..n /\ i - 1 \in 0..n
    BY <1>1
  <2>2. Sum(st, m + i) = st[m + i] + Sum(st, (m + i) - 1)
    <3> DEFINE k == m + i
               l == m + n
    <3>1. k \in 1..l /\ l \in Nat /\ \A j \in 1..l : st[j] \in Int
      BY <1>1, <1>3, <2>1
    <3> HIDE DEF k, l
    <3>2. SumFunctionOnSet(st, 1..k) = st[k] + SumFunctionOnSet(st, 1..(k - 1))
      BY <3>1, SumOfPrefix
    <3> QED
      BY <3>2 DEF k
  <2>3. Sum(t, i) = t[i] + Sum(t, i - 1)
    BY <1>1, <1>3, SumOfPrefix
  <2>4. Sum(st, m + (i - 1)) = Sum(s, m) + Sum(t, i - 1)
    BY <1>5
  <2>5. /\ Sum(s, m) \in Int /\ Sum(t, i - 1) \in Int
    <3>1. IsFiniteSet(1..m) /\ IsFiniteSet(1..(i - 1)) /\ \A j \in 1..(i - 1) : t[j] \in Int
      <4>1. m \in Int /\ i - 1 \in Int /\ 1..(i - 1) \subseteq 1..n
        BY <1>1, <2>1
      <4> QED
        BY <1>3, <4>1, FS_Interval
    <3> QED
      BY <1>3, <3>1, SumType
  <2>6. st[m + i] = t[i] /\ t[i] \in Int
    BY <1>2
  <2> HIDE DEF Sum
  <2>7. Sum(st, m + i) = t[i] + (Sum(s, m) + Sum(t, i - 1))
    BY <2>1, <2>2, <2>4, <2>6
  <2>8. Sum(s, m) + Sum(t, i) = Sum(s, m) + (t[i] + Sum(t, i - 1))
    BY <2>3
  <2>9. Sum(st, m + i) = Sum(s, m) + Sum(t, i)
    BY <2>5, <2>6, <2>7, <2>8
  <2> QED
    BY <2>1, <2>9
<1> HIDE DEF good
<1>6. n \in good
  <2>1. n \in 0..n
    BY <1>1
  <2> QED
    BY <1>1, <1>4, <1>5, <2>1, LoopEnds
<1> QED
  BY <1>1, <1>6 DEF SumFunction, good, st

\* a set of naturals up to n has a greatest element
LEMMA GreatestUpTo ==
  ASSUME NEW n \in Nat, NEW s \in SUBSET (0..n), s # {}
  PROVE  Max(s) \in s /\ \A x \in s : x <= Max(s)
<1> DEFINE R == {n - x : x \in s}
<1>0. \A x \in s : x \in Int /\ n - x \in Nat
  OBVIOUS
<1>1. R \subseteq Nat /\ R # {}
  BY <1>0
<1>2. PICK y \in R : \A z \in R : y <= z
  <2> HIDE DEF R
  <2> QED
    BY <1>1, LeastNat
<1>3. PICK x \in s : y = n - x
  OBVIOUS
<1>4. ASSUME NEW z \in s
      PROVE  x >= z
  <2>1. n - x <= n - z
    BY <1>2, <1>3
  <2> QED
    BY <1>0, <2>1
<1>5. Max(s) \in s /\ \A z \in s : Max(s) >= z
  BY <1>4 DEF Max
<1> QED
  BY <1>5

\* what a loop builds from its last value, where each of its steps keeps to a set V
Iterated(g, n, base, step) ==
  g[0] = base /\ \A i \in 1..n : g[i] = step[<<g[i - 1], i>>]

LEMMA Iterates ==
  ASSUME NEW n \in Nat, NEW V, NEW base \in V, NEW step \in [V \X (1..n) -> V]
  PROVE  \E g \in [0..n -> V] : Iterated(g, n, base, step)
<1>1. PICK h \in [SUBSET (1..n) -> V] : RunsBack(h, n, base, step)
  BY FoldAlong
<1> DEFINE g == [i \in 0..n |-> h[1..i]]
<1>2. \A i \in 0..n : 1..i \in SUBSET (1..n)
  OBVIOUS
<1>3. g \in [0..n -> V]
  BY <1>2
<1>4. g[0] = base
  <2>1. 1..0 = {} /\ 0 \in 0..n
    OBVIOUS
  <2> QED
    BY <1>1, <2>1 DEF RunsBack
<1>5. ASSUME NEW i \in 1..n
      PROVE  g[i] = step[<<g[i - 1], i>>]
  <2>1. /\ Max(1..i) = i /\ (1..i) \ {i} = 1..(i - 1) /\ 1..i \in SUBSET (1..n) /\ 1..i # {}
        /\ i \in 0..n /\ i - 1 \in 0..n
    BY PrefixEnds
  <2>2. h[1..i] = step[<<h[1..(i - 1)], i>>]
    BY <1>1, <2>1 DEF RunsBack
  <2> QED
    BY <2>1, <2>2
<1> HIDE DEF g
<1> QED
  BY <1>3, <1>4, <1>5 DEF Iterated
=============================================================================
