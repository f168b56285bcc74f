--------------------------- MODULE GridLifeProofs ---------------------------
(***************************************************************************)
(* For any number of players, creatures and grids: nobody vanishes with a  *)
(* grid, the unload lock counts the active creatures, and the grid in      *)
(* which an active creature spawned is not unloaded.                       *)
(*                                                                         *)
(* The operators of GridLife take a map, as a record, to the map after     *)
(* them; a lemma for each of them, named for it, says what they do to the  *)
(* invariant, which is a predicate on maps too: ListsInv is about active   *)
(* objects, locks and cameras, PlacesInv about who is where.  The first    *)
(* part is about folds, as many of the operators fold over a set.          *)
(***************************************************************************)
EXTENDS GridLife, FiniteSetTheorems, WellFoundedInduction, TLAPS

\* A set of natural numbers that is not empty has a least element.
LEMMA LeastNatural ==
  ASSUME NEW T \in SUBSET Nat, T # {}
  PROVE  \E n \in T : \A m \in T : ~(m < n)
<1>1. IsWellFoundedOn(OpToRel(<, Nat), Nat)
  BY NatLessThanWellFounded
<1>2. \E n \in T : \A m \in T : ~(<<m, n>> \in OpToRel(<, Nat))
  BY <1>1, WFMin
<1> QED
  BY <1>2 DEF OpToRel

----------------------------------------------------------------------------
(* Folding a finite set.  G[x] is the step for the element x, and I[s] are *)
(* the values after the elements of s.                                     *)

\* The element of a set that FoldSet takes first.
Picked(s) == CHOOSE x \in s : TRUE

\* What is left of a finite set without that element.
LEMMA PickedLess ==
  ASSUME NEW S, IsFiniteSet(S), NEW s \in SUBSET S, s # {}
  PROVE  /\ Picked(s) \in s
         /\ s \ {Picked(s)} \in SUBSET S
         /\ IsFiniteSet(s) /\ Cardinality(s) \in Nat /\ Cardinality(s) # 0
         /\ Cardinality(s \ {Picked(s)}) = Cardinality(s) - 1
<1>1. Picked(s) \in s
  BY DEF Picked
<1>2. IsFiniteSet(s)
  BY FS_Subset
<1>3. Cardinality(s) \in Nat /\ Cardinality(s) # 0
  BY <1>2, FS_CardinalityType, FS_EmptySet
<1> QED
  BY <1>1, <1>2, <1>3, FS_RemoveElement

\* What the elements keep, one after the other, the fold keeps.
LEMMA FoldKeeps ==
  ASSUME NEW S, IsFiniteSet(S), NEW f, NEW I, f[{}] \in I[{}],
         \A s \in SUBSET S : s # {} /\ f[s \ {Picked(s)}] \in I[s \ {Picked(s)}] => f[s] \in I[s]
  PROVE  \A s \in SUBSET S : f[s] \in I[s]
<1> DEFINE Bad == {s \in SUBSET S : f[s] \notin I[s]}
           T == {Cardinality(s) : s \in Bad}
<1> SUFFICES ASSUME Bad # {} PROVE FALSE
  OBVIOUS
<1>1. T \in SUBSET Nat /\ T # {}
  BY FS_Subset, FS_CardinalityType
<1>2. PICK n \in T : \A k \in T : ~(k < n)
  <2> HIDE DEF T
  <2> QED
    BY <1>1, LeastNatural
<1>3. PICK s \in Bad : n = Cardinality(s)
  BY <1>2
<1>4. s # {}
  BY <1>3
<1>5. s \ {Picked(s)} \in SUBSET S /\ Cardinality(s \ {Picked(s)}) < n
  <2>1. s \in SUBSET S
    BY <1>3
  <2>2. /\ s \ {Picked(s)} \in SUBSET S /\ Cardinality(s) \in Nat
        /\ Cardinality(s \ {Picked(s)}) = Cardinality(s) - 1
    BY <2>1, <1>4, PickedLess
  <2> QED
    BY <2>2, <1>3
<1>6. s \ {Picked(s)} \notin Bad
  BY <1>2, <1>5
<1> QED
  BY <1>3, <1>4, <1>5, <1>6

\* The function that a fold defines exists: its values can be computed for larger
\* and larger sets.
IsFoldOf(f, S, base, G) ==
    f = [s \in SUBSET S |-> IF s = {} THEN base ELSE G[Picked(s)][f[s \ {Picked(s)}]]]

\* The recursion has a solution, a function on the subsets.
LEMMA FoldExists ==
  ASSUME NEW S, IsFiniteSet(S), NEW base, NEW G
  PROVE  \E f : IsFoldOf(f, S, base, G)
<1> DEFINE D(n) == {s \in SUBSET S : Cardinality(s) <= n}
           Folds(n) == \E f : f = [s \in D(n) |-> IF s = {} THEN base
                                                  ELSE G[Picked(s)][f[s \ {Picked(s)}]]]
           Bad == {n \in Nat : ~Folds(n)}
<1>1. Bad = {}
  <2> SUFFICES ASSUME Bad # {} PROVE FALSE
    OBVIOUS
  <2>1. PICK n \in Bad : \A k \in Bad : ~(k < n)
    <3>1. Bad \in SUBSET Nat
      OBVIOUS
    <3> HIDE DEF Bad
    <3> QED
      BY <3>1, LeastNatural
  <2>2. CASE n = 0
    <3>1. \A s \in D(0) : s = {}
      <4> SUFFICES ASSUME NEW s \in D(0), s # {} PROVE FALSE
        OBVIOUS
      <4>1. Cardinality(s) \in Nat /\ Cardinality(s) # 0
        BY PickedLess
      <4> QED
        BY <4>1
    <3> DEFINE f == [s \in D(0) |-> base]
    <3> HIDE DEF D
    <3>2. f = [s \in D(0) |-> IF s = {} THEN base ELSE G[Picked(s)][f[s \ {Picked(s)}]]]
      BY <3>1, Zenon
    <3>3. Folds(0)
      BY <3>2
    <3> QED
      BY <2>1, <2>2, <3>3
  <2>3. CASE n # 0
    <3>1. n \in Nat /\ n - 1 \in Nat /\ n - 1 < n
      BY <2>3, SMT
    <3>2. Folds(n - 1)
      BY <2>1, <3>1
    <3>3. PICK g : g = [s \in D(n - 1) |-> IF s = {} THEN base
                                           ELSE G[Picked(s)][g[s \ {Picked(s)}]]]
      BY <3>2
    <3> DEFINE f == [s \in D(n) |-> IF s = {} THEN base ELSE G[Picked(s)][g[s \ {Picked(s)}]]]
    <3>4. \A s \in D(n - 1) : s \in D(n)
      <4> SUFFICES ASSUME NEW s \in SUBSET S, Cardinality(s) <= n - 1 PROVE Cardinality(s) <= n
        OBVIOUS
      <4>1. Cardinality(s) \in Nat
        BY FS_Subset, FS_CardinalityType
      <4> QED
        BY <3>1, <4>1
    <3>5. \A s \in D(n) : s # {} => s \ {Picked(s)} \in D(n - 1)
      <4> SUFFICES ASSUME NEW s \in SUBSET S, Cardinality(s) <= n, s # {}
                   PROVE  s \ {Picked(s)} \in D(n - 1)
        OBVIOUS
      <4>1. /\ s \ {Picked(s)} \in SUBSET S /\ Cardinality(s) \in Nat
            /\ Cardinality(s \ {Picked(s)}) = Cardinality(s) - 1
        BY PickedLess
      <4> QED
        BY <3>1, <4>1
    <3> HIDE DEF D
    <3>6. ASSUME NEW s \in D(n - 1) PROVE f[s] = g[s]
      <4>1. s \in D(n)
        BY <3>4
      <4>2. g[s] = [t \in D(n - 1) |-> IF t = {} THEN base ELSE G[Picked(t)][g[t \ {Picked(t)}]]][s]
        BY <3>3, Zenon
      <4> QED
        BY <4>1, <4>2, Zenon
    <3>7. f = [s \in D(n) |-> IF s = {} THEN base ELSE G[Picked(s)][f[s \ {Picked(s)}]]]
      <4>1. ASSUME NEW s \in D(n), s # {} PROVE f[s \ {Picked(s)}] = g[s \ {Picked(s)}]
        BY <4>1, <3>5, <3>6, Zenon
      <4> QED
        BY <4>1, Zenon
    <3>8. Folds(n)
      BY <3>7
    <3> QED
      BY <2>1, <3>8
  <2> QED
    BY <2>2, <2>3
<1>2. Cardinality(S) \in Nat
  BY FS_CardinalityType
<1>3. D(Cardinality(S)) = SUBSET S
  BY FS_Subset
<1>4. Folds(Cardinality(S))
  BY <1>1, <1>2
<1>5. \E f : f = [s \in SUBSET S |-> IF s = {} THEN base ELSE G[Picked(s)][f[s \ {Picked(s)}]]]
  BY <1>3, <1>4
<1> QED
  BY <1>5 DEF IsFoldOf

\* A fold of functions exists, and its values are in I.
LEMMA FoldOfFunctions ==
  ASSUME NEW S, IsFiniteSet(S), NEW m, NEW I, NEW G, m \in I[{}],
         \A s \in SUBSET S : \A x \in s : \A n \in I[s \ {x}] : G[x][n] \in I[s]
  PROVE  \E f : IsFoldOf(f, S, m, G) /\ \A s \in SUBSET S : f[s] \in I[s]
<1>1. PICK f : IsFoldOf(f, S, m, G)
  BY FoldExists
<1>2. ASSUME NEW s \in SUBSET S
      PROVE  f[s] = IF s = {} THEN m ELSE G[Picked(s)][f[s \ {Picked(s)}]]
  <2>1. f[s] = [t \in SUBSET S |-> IF t = {} THEN m ELSE G[Picked(t)][f[t \ {Picked(t)}]]][s]
    BY <1>1, Zenon DEF IsFoldOf
  <2> QED
    BY <2>1, Zenon
<1>3. f[{}] \in I[{}]
  BY <1>2
<1>4. ASSUME NEW s \in SUBSET S, s # {}, f[s \ {Picked(s)}] \in I[s \ {Picked(s)}]
      PROVE  f[s] \in I[s]
  <2>1. Picked(s) \in s
    BY <1>4, PickedLess
  <2>2. G[Picked(s)][f[s \ {Picked(s)}]] \in I[s]
    BY <1>4, <2>1, Zenon
  <2> QED
    BY <1>2, <1>4, <2>2, Zenon
<1>5. \A s \in SUBSET S : f[s] \in I[s]
  BY <1>3, <1>4, FoldKeeps
<1> QED
  BY <1>1, <1>5

\* The cameras on an object, one after the other.
LEMMA ResetViewersFold ==
  ASSUME NEW m, NEW o, IsFiniteSet(Watching(m, o)), NEW I, m \in I[{}],
         \A s \in SUBSET Watching(m, o) : \A x \in s : \A n \in I[s \ {x}] :
            SetViewOf(n, x, x) \in I[s]
  PROVE  ResetViewers(m, o) \in I[Watching(m, o)]
<1> DEFINE S == Watching(m, o)
           V == UNION {I[s] : s \in SUBSET S}
           G == [x \in S |-> [n \in V |-> SetViewOf(n, x, x)]]
           Step(x, n) == SetViewOf(n, x, x)
           IsFold(f) == f = [s \in SUBSET S |-> IF s = {} THEN m
                                                 ELSE Step(Picked(s), f[s \ {Picked(s)}])]
           F == CHOOSE f : IsFold(f)
<1>1. ResetViewers(m, o) = F[S]
  BY Zenon DEF ResetViewers, FoldSet, MapThenFoldSet, Picked
<1>2. \A s \in SUBSET S : \A x \in s : \A n \in I[s \ {x}] : Step(x, n) \in I[s]
  OBVIOUS
<1>3. IsFiniteSet(S)
  OBVIOUS
<1>4. \A x \in S : \A n \in V : G[x][n] = Step(x, n)
  BY Zenon
<1>5. \A s \in SUBSET S : \A n \in I[s] : n \in V
  OBVIOUS
<1> HIDE DEF S, V, G, Step
<1>6. \E f : IsFold(f) /\ \A s \in SUBSET S : f[s] \in I[s]
  <2>1. ASSUME NEW s \in SUBSET S, NEW x \in s, NEW n \in I[s \ {x}] PROVE G[x][n] \in I[s]
    <3>1. x \in S /\ s \ {x} \in SUBSET S
      OBVIOUS
    <3>2. G[x][n] = Step(x, n) /\ Step(x, n) \in I[s]
      BY <1>2, <1>4, <1>5, <2>1, <3>1, Zenon
    <3> QED
      BY <3>2
  <2>0. PICK f : IsFoldOf(f, S, m, G) /\ \A s \in SUBSET S : f[s] \in I[s]
    BY <1>3, <2>1, FoldOfFunctions
  <2>2. f = [s \in SUBSET S |-> IF s = {} THEN m ELSE G[Picked(s)][f[s \ {Picked(s)}]]]
    BY <2>0, Zenon DEF IsFoldOf
  <2>3. ASSUME NEW s \in SUBSET S, s # {}
        PROVE  G[Picked(s)][f[s \ {Picked(s)}]] = Step(Picked(s), f[s \ {Picked(s)}])
    <3>1. Picked(s) \in S /\ s \ {Picked(s)} \in SUBSET S
      BY <1>3, <2>3, PickedLess
    <3> QED
      BY <1>4, <1>5, <2>0, <3>1, Zenon
  <2>4. IsFold(f)
    BY <2>2, <2>3, Zenon
  <2> QED
    BY <2>0, <2>4
<1>7. IsFold(F) /\ \A s \in SUBSET S : F[s] \in I[s]
  <2>1. IsFold(F)
    <3> HIDE DEF IsFold
    <3> QED
      BY <1>6, Zenon
  <2>2. ASSUME NEW s \in SUBSET S PROVE F[s] = IF s = {} THEN m ELSE Step(Picked(s), F[s \ {Picked(s)}])
    <3>1. F[s] = [t \in SUBSET S |-> IF t = {} THEN m ELSE Step(Picked(t), F[t \ {Picked(t)}])][s]
      BY <2>1, Zenon
    <3> QED
      BY <3>1, Zenon
  <2> HIDE DEF F
  <2>3. F[{}] \in I[{}]
    BY <2>2
  <2>4. ASSUME NEW s \in SUBSET S, s # {}, F[s \ {Picked(s)}] \in I[s \ {Picked(s)}]
        PROVE  F[s] \in I[s]
    <3>1. Picked(s) \in s
      BY <1>3, <2>4, PickedLess
    <3>2. Step(Picked(s), F[s \ {Picked(s)}]) \in I[s]
      BY <1>2, <2>4, <3>1, Zenon
    <3> QED
      BY <2>2, <2>4, <3>2, Zenon
  <2> QED
    BY <1>3, <2>1, <2>3, <2>4, FoldKeeps
<1> HIDE DEF F
<1>8. F[S] \in I[S]
  BY <1>7
<1> QED
  BY <1>1, <1>8 DEF S

\* The creatures of a grid that is loaded.
LEMMA ObjectsLoadedFold ==
  ASSUME NEW m, NEW g, IsFiniteSet(SpawnedIn(g)), NEW I, m \in I[{}],
         \A s \in SUBSET SpawnedIn(g) : \A x \in s : \A n \in I[s \ {x}] :
            Make(n, x) \in I[s]
  PROVE  ObjectsLoaded(m, g) \in I[SpawnedIn(g)]
<1> DEFINE S == SpawnedIn(g)
           V == UNION {I[s] : s \in SUBSET S}
           G == [x \in S |-> [n \in V |-> Make(n, x)]]
           Step(x, n) == Make(n, x)
           IsFold(f) == f = [s \in SUBSET S |-> IF s = {} THEN m
                                                 ELSE Step(Picked(s), f[s \ {Picked(s)}])]
           F == CHOOSE f : IsFold(f)
<1>1. ObjectsLoaded(m, g) = F[S]
  BY Zenon DEF ObjectsLoaded, FoldSet, MapThenFoldSet, Picked
<1>2. \A s \in SUBSET S : \A x \in s : \A n \in I[s \ {x}] : Step(x, n) \in I[s]
  OBVIOUS
<1>3. IsFiniteSet(S)
  OBVIOUS
<1>4. \A x \in S : \A n \in V : G[x][n] = Step(x, n)
  BY Zenon
<1>5. \A s \in SUBSET S : \A n \in I[s] : n \in V
  OBVIOUS
<1> HIDE DEF S, V, G, Step
<1>6. \E f : IsFold(f) /\ \A s \in SUBSET S : f[s] \in I[s]
  <2>1. ASSUME NEW s \in SUBSET S, NEW x \in s, NEW n \in I[s \ {x}] PROVE G[x][n] \in I[s]
    <3>1. x \in S /\ s \ {x} \in SUBSET S
      OBVIOUS
    <3>2. G[x][n] = Step(x, n) /\ Step(x, n) \in I[s]
      BY <1>2, <1>4, <1>5, <2>1, <3>1, Zenon
    <3> QED
      BY <3>2
  <2>0. PICK f : IsFoldOf(f, S, m, G) /\ \A s \in SUBSET S : f[s] \in I[s]
    BY <1>3, <2>1, FoldOfFunctions
  <2>2. f = [s \in SUBSET S |-> IF s = {} THEN m ELSE G[Picked(s)][f[s \ {Picked(s)}]]]
    BY <2>0, Zenon DEF IsFoldOf
  <2>3. ASSUME NEW s \in SUBSET S, s # {}
        PROVE  G[Picked(s)][f[s \ {Picked(s)}]] = Step(Picked(s), f[s \ {Picked(s)}])
    <3>1. Picked(s) \in S /\ s \ {Picked(s)} \in SUBSET S
      BY <1>3, <2>3, PickedLess
    <3> QED
      BY <1>4, <1>5, <2>0, <3>1, Zenon
  <2>4. IsFold(f)
    BY <2>2, <2>3, Zenon
  <2> QED
    BY <2>0, <2>4
<1>7. IsFold(F) /\ \A s \in SUBSET S : F[s] \in I[s]
  <2>1. IsFold(F)
    <3> HIDE DEF IsFold
    <3> QED
      BY <1>6, Zenon
  <2>2. ASSUME NEW s \in SUBSET S PROVE F[s] = IF s = {} THEN m ELSE Step(Picked(s), F[s \ {Picked(s)}])
    <3>1. F[s] = [t \in SUBSET S |-> IF t = {} THEN m ELSE Step(Picked(t), F[t \ {Picked(t)}])][s]
      BY <2>1, Zenon
    <3> QED
      BY <3>1, Zenon
  <2> HIDE DEF F
  <2>3. F[{}] \in I[{}]
    BY <2>2
  <2>4. ASSUME NEW s \in SUBSET S, s # {}, F[s \ {Picked(s)}] \in I[s \ {Picked(s)}]
        PROVE  F[s] \in I[s]
    <3>1. Picked(s) \in s
      BY <1>3, <2>4, PickedLess
    <3>2. Step(Picked(s), F[s \ {Picked(s)}]) \in I[s]
      BY <1>2, <2>4, <3>1, Zenon
    <3> QED
      BY <2>2, <2>4, <3>2, Zenon
  <2> QED
    BY <1>3, <2>1, <2>3, <2>4, FoldKeeps
<1> HIDE DEF F
<1>8. F[S] \in I[S]
  BY <1>7
<1> QED
  BY <1>1, <1>8 DEF S

\* The objects of the remove list.
LEMMA RemoveListFold ==
  ASSUME NEW m, IsFiniteSet(m.removing), NEW I, m \in I[{}],
         \A s \in SUBSET m.removing : \A x \in s : \A n \in I[s \ {x}] :
            RemoveObject(n, x) \in I[s]
  PROVE  RemoveAllObjectsInRemoveList(m) \in I[m.removing]
<1> DEFINE S == m.removing
           V == UNION {I[s] : s \in SUBSET S}
           G == [x \in S |-> [n \in V |-> RemoveObject(n, x)]]
           Step(x, n) == RemoveObject(n, x)
           IsFold(f) == f = [s \in SUBSET S |-> IF s = {} THEN m
                                                 ELSE Step(Picked(s), f[s \ {Picked(s)}])]
           F == CHOOSE f : IsFold(f)
<1>1. RemoveAllObjectsInRemoveList(m) = F[S]
  BY Zenon DEF RemoveAllObjectsInRemoveList, FoldSet, MapThenFoldSet, Picked
<1>2. \A s \in SUBSET S : \A x \in s : \A n \in I[s \ {x}] : Step(x, n) \in I[s]
  OBVIOUS
<1>3. IsFiniteSet(S)
  OBVIOUS
<1>4. \A x \in S : \A n \in V : G[x][n] = Step(x, n)
  BY Zenon
<1>5. \A s \in SUBSET S : \A n \in I[s] : n \in V
  OBVIOUS
<1> HIDE DEF S, V, G, Step
<1>6. \E f : IsFold(f) /\ \A s \in SUBSET S : f[s] \in I[s]
  <2>1. ASSUME NEW s \in SUBSET S, NEW x \in s, NEW n \in I[s \ {x}] PROVE G[x][n] \in I[s]
    <3>1. x \in S /\ s \ {x} \in SUBSET S
      OBVIOUS
    <3>2. G[x][n] = Step(x, n) /\ Step(x, n) \in I[s]
      BY <1>2, <1>4, <1>5, <2>1, <3>1, Zenon
    <3> QED
      BY <3>2
  <2>0. PICK f : IsFoldOf(f, S, m, G) /\ \A s \in SUBSET S : f[s] \in I[s]
    BY <1>3, <2>1, FoldOfFunctions
  <2>2. f = [s \in SUBSET S |-> IF s = {} THEN m ELSE G[Picked(s)][f[s \ {Picked(s)}]]]
    BY <2>0, Zenon DEF IsFoldOf
  <2>3. ASSUME NEW s \in SUBSET S, s # {}
        PROVE  G[Picked(s)][f[s \ {Picked(s)}]] = Step(Picked(s), f[s \ {Picked(s)}])
    <3>1. Picked(s) \in S /\ s \ {Picked(s)} \in SUBSET S
      BY <1>3, <2>3, PickedLess
    <3> QED
      BY <1>4, <1>5, <2>0, <3>1, Zenon
  <2>4. IsFold(f)
    BY <2>2, <2>3, Zenon
  <2> QED
    BY <2>0, <2>4
<1>7. IsFold(F) /\ \A s \in SUBSET S : F[s] \in I[s]
  <2>1. IsFold(F)
    <3> HIDE DEF IsFold
    <3> QED
      BY <1>6, Zenon
  <2>2. ASSUME NEW s \in SUBSET S PROVE F[s] = IF s = {} THEN m ELSE Step(Picked(s), F[s \ {Picked(s)}])
    <3>1. F[s] = [t \in SUBSET S |-> IF t = {} THEN m ELSE Step(Picked(t), F[t \ {Picked(t)}])][s]
      BY <2>1, Zenon
    <3> QED
      BY <3>1, Zenon
  <2> HIDE DEF F
  <2>3. F[{}] \in I[{}]
    BY <2>2
  <2>4. ASSUME NEW s \in SUBSET S, s # {}, F[s \ {Picked(s)}] \in I[s \ {Picked(s)}]
        PROVE  F[s] \in I[s]
    <3>1. Picked(s) \in s
      BY <1>3, <2>4, PickedLess
    <3>2. Step(Picked(s), F[s \ {Picked(s)}]) \in I[s]
      BY <1>2, <2>4, <3>1, Zenon
    <3> QED
      BY <2>2, <2>4, <3>2, Zenon
  <2> QED
    BY <1>3, <2>1, <2>3, <2>4, FoldKeeps
<1> HIDE DEF F
<1>8. F[S] \in I[S]
  BY <1>7
<1> QED
  BY <1>1, <1>8 DEF S

\* The fights in a grid.
LEMMA FightsStoppedFold ==
  ASSUME NEW m, NEW g, IsFiniteSet(In(m, g)), NEW I, m \in I[{}],
         \A s \in SUBSET In(m, g) : \A x \in s : \A n \in I[s \ {x}] :
            SetActiveBy(n, x, n.by[x] \ {"combat"}) \in I[s]
  PROVE  FightsStopped(m, g) \in I[In(m, g)]
<1> DEFINE S == In(m, g)
           V == UNION {I[s] : s \in SUBSET S}
           G == [x \in S |-> [n \in V |-> SetActiveBy(n, x, n.by[x] \ {"combat"})]]
           Step(x, n) == SetActiveBy(n, x, n.by[x] \ {"combat"})
           IsFold(f) == f = [s \in SUBSET S |-> IF s = {} THEN m
                                                 ELSE Step(Picked(s), f[s \ {Picked(s)}])]
           F == CHOOSE f : IsFold(f)
<1>1. FightsStopped(m, g) = F[S]
  BY Zenon DEF FightsStopped, FoldSet, MapThenFoldSet, Picked
<1>2. \A s \in SUBSET S : \A x \in s : \A n \in I[s \ {x}] : Step(x, n) \in I[s]
  OBVIOUS
<1>3. IsFiniteSet(S)
  OBVIOUS
<1>4. \A x \in S : \A n \in V : G[x][n] = Step(x, n)
  BY Zenon
<1>5. \A s \in SUBSET S : \A n \in I[s] : n \in V
  OBVIOUS
<1> HIDE DEF S, V, G, Step
<1>6. \E f : IsFold(f) /\ \A s \in SUBSET S : f[s] \in I[s]
  <2>1. ASSUME NEW s \in SUBSET S, NEW x \in s, NEW n \in I[s \ {x}] PROVE G[x][n] \in I[s]
    <3>1. x \in S /\ s \ {x} \in SUBSET S
      OBVIOUS
    <3>2. G[x][n] = Step(x, n) /\ Step(x, n) \in I[s]
      BY <1>2, <1>4, <1>5, <2>1, <3>1, Zenon
    <3> QED
      BY <3>2
  <2>0. PICK f : IsFoldOf(f, S, m, G) /\ \A s \in SUBSET S : f[s] \in I[s]
    BY <1>3, <2>1, FoldOfFunctions
  <2>2. f = [s \in SUBSET S |-> IF s = {} THEN m ELSE G[Picked(s)][f[s \ {Picked(s)}]]]
    BY <2>0, Zenon DEF IsFoldOf
  <2>3. ASSUME NEW s \in SUBSET S, s # {}
        PROVE  G[Picked(s)][f[s \ {Picked(s)}]] = Step(Picked(s), f[s \ {Picked(s)}])
    <3>1. Picked(s) \in S /\ s \ {Picked(s)} \in SUBSET S
      BY <1>3, <2>3, PickedLess
    <3> QED
      BY <1>4, <1>5, <2>0, <3>1, Zenon
  <2>4. IsFold(f)
    BY <2>2, <2>3, Zenon
  <2> QED
    BY <2>0, <2>4
<1>7. IsFold(F) /\ \A s \in SUBSET S : F[s] \in I[s]
  <2>1. IsFold(F)
    <3> HIDE DEF IsFold
    <3> QED
      BY <1>6, Zenon
  <2>2. ASSUME NEW s \in SUBSET S PROVE F[s] = IF s = {} THEN m ELSE Step(Picked(s), F[s \ {Picked(s)}])
    <3>1. F[s] = [t \in SUBSET S |-> IF t = {} THEN m ELSE Step(Picked(t), F[t \ {Picked(t)}])][s]
      BY <2>1, Zenon
    <3> QED
      BY <3>1, Zenon
  <2> HIDE DEF F
  <2>3. F[{}] \in I[{}]
    BY <2>2
  <2>4. ASSUME NEW s \in SUBSET S, s # {}, F[s \ {Picked(s)}] \in I[s \ {Picked(s)}]
        PROVE  F[s] \in I[s]
    <3>1. Picked(s) \in s
      BY <1>3, <2>4, PickedLess
    <3>2. Step(Picked(s), F[s \ {Picked(s)}]) \in I[s]
      BY <1>2, <2>4, <3>1, Zenon
    <3> QED
      BY <2>2, <2>4, <3>2, Zenon
  <2> QED
    BY <1>3, <2>1, <2>3, <2>4, FoldKeeps
<1> HIDE DEF F
<1>8. F[S] \in I[S]
  BY <1>7
<1> QED
  BY <1>1, <1>8 DEF S

\* The strangers in a grid.
LEMMA SentHomeFold ==
  ASSUME NEW m, NEW g, IsFiniteSet(Strangers(m, g)), NEW I, m \in I[{}],
         \A s \in SUBSET Strangers(m, g) : \A x \in s : \A n \in I[s \ {x}] :
            CreatureRespawnRelocation(n, x) \in I[s]
  PROVE  SentHome(m, g) \in I[Strangers(m, g)]
<1> DEFINE S == Strangers(m, g)
           V == UNION {I[s] : s \in SUBSET S}
           G == [x \in S |-> [n \in V |-> CreatureRespawnRelocation(n, x)]]
           Step(x, n) == CreatureRespawnRelocation(n, x)
           IsFold(f) == f = [s \in SUBSET S |-> IF s = {} THEN m
                                                 ELSE Step(Picked(s), f[s \ {Picked(s)}])]
           F == CHOOSE f : IsFold(f)
<1>1. SentHome(m, g) = F[S]
  BY Zenon DEF SentHome, FoldSet, MapThenFoldSet, Picked
<1>2. \A s \in SUBSET S : \A x \in s : \A n \in I[s \ {x}] : Step(x, n) \in I[s]
  OBVIOUS
<1>3. IsFiniteSet(S)
  OBVIOUS
<1>4. \A x \in S : \A n \in V : G[x][n] = Step(x, n)
  BY Zenon
<1>5. \A s \in SUBSET S : \A n \in I[s] : n \in V
  OBVIOUS
<1> HIDE DEF S, V, G, Step
<1>6. \E f : IsFold(f) /\ \A s \in SUBSET S : f[s] \in I[s]
  <2>1. ASSUME NEW s \in SUBSET S, NEW x \in s, NEW n \in I[s \ {x}] PROVE G[x][n] \in I[s]
    <3>1. x \in S /\ s \ {x} \in SUBSET S
      OBVIOUS
    <3>2. G[x][n] = Step(x, n) /\ Step(x, n) \in I[s]
      BY <1>2, <1>4, <1>5, <2>1, <3>1, Zenon
    <3> QED
      BY <3>2
  <2>0. PICK f : IsFoldOf(f, S, m, G) /\ \A s \in SUBSET S : f[s] \in I[s]
    BY <1>3, <2>1, FoldOfFunctions
  <2>2. f = [s \in SUBSET S |-> IF s = {} THEN m ELSE G[Picked(s)][f[s \ {Picked(s)}]]]
    BY <2>0, Zenon DEF IsFoldOf
  <2>3. ASSUME NEW s \in SUBSET S, s # {}
        PROVE  G[Picked(s)][f[s \ {Picked(s)}]] = Step(Picked(s), f[s \ {Picked(s)}])
    <3>1. Picked(s) \in S /\ s \ {Picked(s)} \in SUBSET S
      BY <1>3, <2>3, PickedLess
    <3> QED
      BY <1>4, <1>5, <2>0, <3>1, Zenon
  <2>4. IsFold(f)
    BY <2>2, <2>3, Zenon
  <2> QED
    BY <2>0, <2>4
<1>7. IsFold(F) /\ \A s \in SUBSET S : F[s] \in I[s]
  <2>1. IsFold(F)
    <3> HIDE DEF IsFold
    <3> QED
      BY <1>6, Zenon
  <2>2. ASSUME NEW s \in SUBSET S PROVE F[s] = IF s = {} THEN m ELSE Step(Picked(s), F[s \ {Picked(s)}])
    <3>1. F[s] = [t \in SUBSET S |-> IF t = {} THEN m ELSE Step(Picked(t), F[t \ {Picked(t)}])][s]
      BY <2>1, Zenon
    <3> QED
      BY <3>1, Zenon
  <2> HIDE DEF F
  <2>3. F[{}] \in I[{}]
    BY <2>2
  <2>4. ASSUME NEW s \in SUBSET S, s # {}, F[s \ {Picked(s)}] \in I[s \ {Picked(s)}]
        PROVE  F[s] \in I[s]
    <3>1. Picked(s) \in s
      BY <1>3, <2>4, PickedLess
    <3>2. Step(Picked(s), F[s \ {Picked(s)}]) \in I[s]
      BY <1>2, <2>4, <3>1, Zenon
    <3> QED
      BY <2>2, <2>4, <3>2, Zenon
  <2> QED
    BY <1>3, <2>1, <2>3, <2>4, FoldKeeps
<1> HIDE DEF F
<1>8. F[S] \in I[S]
  BY <1>7
<1> QED
  BY <1>1, <1>8 DEF S

\* The objects in a grid that are deleted.
LEMMA EmptiedFold ==
  ASSUME NEW m, NEW g, IsFiniteSet(In(m, g)), NEW I, m \in I[{}],
         \A s \in SUBSET In(m, g) : \A x \in s : \A n \in I[s \ {x}] :
            Delete(CleanupsBeforeDelete(n, x), x) \in I[s]
  PROVE  Emptied(m, g) \in I[In(m, g)]
<1> DEFINE S == In(m, g)
           V == UNION {I[s] : s \in SUBSET S}
           G == [x \in S |-> [n \in V |-> Delete(CleanupsBeforeDelete(n, x), x)]]
           Step(x, n) == Delete(CleanupsBeforeDelete(n, x), x)
           IsFold(f) == f = [s \in SUBSET S |-> IF s = {} THEN m
                                                 ELSE Step(Picked(s), f[s \ {Picked(s)}])]
           F == CHOOSE f : IsFold(f)
<1>1. Emptied(m, g) = F[S]
  BY Zenon DEF Emptied, FoldSet, MapThenFoldSet, Picked
<1>2. \A s \in SUBSET S : \A x \in s : \A n \in I[s \ {x}] : Step(x, n) \in I[s]
  OBVIOUS
<1>3. IsFiniteSet(S)
  OBVIOUS
<1>4. \A x \in S : \A n \in V : G[x][n] = Step(x, n)
  BY Zenon
<1>5. \A s \in SUBSET S : \A n \in I[s] : n \in V
  OBVIOUS
<1> HIDE DEF S, V, G, Step
<1>6. \E f : IsFold(f) /\ \A s \in SUBSET S : f[s] \in I[s]
  <2>1. ASSUME NEW s \in SUBSET S, NEW x \in s, NEW n \in I[s \ {x}] PROVE G[x][n] \in I[s]
    <3>1. x \in S /\ s \ {x} \in SUBSET S
      OBVIOUS
    <3>2. G[x][n] = Step(x, n) /\ Step(x, n) \in I[s]
      BY <1>2, <1>4, <1>5, <2>1, <3>1, Zenon
    <3> QED
      BY <3>2
  <2>0. PICK f : IsFoldOf(f, S, m, G) /\ \A s \in SUBSET S : f[s] \in I[s]
    BY <1>3, <2>1, FoldOfFunctions
  <2>2. f = [s \in SUBSET S |-> IF s = {} THEN m ELSE G[Picked(s)][f[s \ {Picked(s)}]]]
    BY <2>0, Zenon DEF IsFoldOf
  <2>3. ASSUME NEW s \in SUBSET S, s # {}
        PROVE  G[Picked(s)][f[s \ {Picked(s)}]] = Step(Picked(s), f[s \ {Picked(s)}])
    <3>1. Picked(s) \in S /\ s \ {Picked(s)} \in SUBSET S
      BY <1>3, <2>3, PickedLess
    <3> QED
      BY <1>4, <1>5, <2>0, <3>1, Zenon
  <2>4. IsFold(f)
    BY <2>2, <2>3, Zenon
  <2> QED
    BY <2>0, <2>4
<1>7. IsFold(F) /\ \A s \in SUBSET S : F[s] \in I[s]
  <2>1. IsFold(F)
    <3> HIDE DEF IsFold
    <3> QED
      BY <1>6, Zenon
  <2>2. ASSUME NEW s \in SUBSET S PROVE F[s] = IF s = {} THEN m ELSE Step(Picked(s), F[s \ {Picked(s)}])
    <3>1. F[s] = [t \in SUBSET S |-> IF t = {} THEN m ELSE Step(Picked(t), F[t \ {Picked(t)}])][s]
      BY <2>1, Zenon
    <3> QED
      BY <3>1, Zenon
  <2> HIDE DEF F
  <2>3. F[{}] \in I[{}]
    BY <2>2
  <2>4. ASSUME NEW s \in SUBSET S, s # {}, F[s \ {Picked(s)}] \in I[s \ {Picked(s)}]
        PROVE  F[s] \in I[s]
    <3>1. Picked(s) \in s
      BY <1>3, <2>4, PickedLess
    <3>2. Step(Picked(s), F[s \ {Picked(s)}]) \in I[s]
      BY <1>2, <2>4, <3>1, Zenon
    <3> QED
      BY <2>2, <2>4, <3>2, Zenon
  <2> QED
    BY <1>3, <2>1, <2>3, <2>4, FoldKeeps
<1> HIDE DEF F
<1>8. F[S] \in I[S]
  BY <1>7
<1> QED
  BY <1>1, <1>8 DEF S

----------------------------------------------------------------------------
(* The parts of the invariant, of a map as a record.                       *)

Fields == {"st", "data", "timer", "lock", "pos", "by", "view", "active", "removing", "odd"}
IsRecord(m) == m = [f \in Fields |-> m[f]]
IsMap(m) ==
    /\ IsRecord(m) /\ DOMAIN m = Fields
    /\ m.st \in [Grids -> {"none", "idle", "active", "removal"}]
    /\ m.data \in [Grids -> BOOLEAN] /\ m.timer \in [Grids -> 0 .. Expiry]
    /\ m.lock \in [Grids -> Nat]
    /\ m.pos \in [Objects -> Cells \cup {Nowhere}] /\ m.by \in [Copies -> SUBSET Reasons]
    /\ m.view \in [Players -> Objects \cup {Nowhere}] /\ m.active \in SUBSET Objects
    /\ m.removing \in SUBSET Copies /\ m.odd \in SUBSET Grids

\* The maps are a set, over which a fold can range.
Values ==
    [Grids -> {"none", "idle", "active", "removal"}] \cup [Grids -> BOOLEAN]
    \cup [Grids -> 0 .. Expiry] \cup [Grids -> Nat] \cup [Objects -> Cells \cup {Nowhere}]
    \cup [Copies -> SUBSET Reasons] \cup [Players -> Objects \cup {Nowhere}]
    \cup (SUBSET Objects) \cup (SUBSET Grids)
Maps == {m \in [Fields -> Values] : IsMap(m)}

\* The maps are elements of a set, so that a fold can be a function to maps.
LEMMA MapsAreASet == ASSUME NEW m, IsMap(m) PROVE m \in Maps
<1>1. m.st \in Values /\ m.data \in Values
  BY SMTT(30) DEF IsMap, Values
<1>2. m.timer \in Values /\ m.lock \in Values
  BY SMTT(30) DEF IsMap, Values
<1>3. m.pos \in Values /\ m.by \in Values
  BY SMTT(30) DEF IsMap, Values
<1>4. m.view \in Values /\ m.active \in Values
  BY SMTT(30) DEF IsMap, Values
<1>5. m.removing \in Values
  <2>1. m.removing \in SUBSET Objects
    BY DEF IsMap, Objects
  <2> QED
    BY <2>1 DEF Values
<1>9. m.odd \in Values
  <2>1. m.odd \in SUBSET Grids
    BY DEF IsMap
  <2>2. \A x \in SUBSET Grids : x \in Values
    BY Zenon DEF Values
  <2> QED
    BY <2>1, <2>2
<1>6. \A f \in Fields : m[f] \in Values
  BY <1>1, <1>2, <1>3, <1>4, <1>5, <1>9, SMTT(30) DEF Fields
<1>7. m = [f \in Fields |-> m[f]]
  BY Zenon DEF IsMap, IsRecord
<1>8. m \in [Fields -> Values]
  <2> DEFINE F == [f \in Fields |-> m[f]]
  <2>1. F \in [Fields -> Values]
    BY <1>6
  <2> QED
    BY <1>7, <2>1
<1> QED
  BY <1>8 DEF Maps

\* The active creatures that spawned in a grid.
ActiveOf(m, g) == {o \in m.active \cap Copies : HomeGrid(o) = g}

CountInv(m) == \A g \in Grids :
    /\ m.st[g] = "none" => m.lock[g] = 0
    /\ g \notin m.odd => m.lock[g] = Cardinality(ActiveOf(m, g))

\* A creature is in the list of active objects for a reason or a camera.
ActiveInv(m) == \A o \in Copies :
    HomeGrid(o) \notin m.odd => (o \in m.active <=> IsActive(m, o))

OffMapInv(m) == \A o \in Copies : ~OnMap(m, o) => m.by[o] = {} /\ o \notin m.removing

\* A camera is on its player or on a creature in the world.
ViewInv(m) == \A p \in Players :
    m.view[p] # p => OnMap(m, p) /\ m.view[p] \in Copies /\ InWorld(m, m.view[p])

ListsInv(m) == IsMap(m) /\ CountInv(m) /\ ActiveInv(m) /\ OffMapInv(m) /\ ViewInv(m)

\* What the lists of active objects leave alone.
SameGround(m, n) ==
    n.st = m.st /\ n.data = m.data /\ n.timer = m.timer /\ n.pos = m.pos /\ m.odd \subseteq n.odd

\* Where cells, homes and objects belong.
LEMMA Places ==
  /\ \A c \in Cells : GridOf(c) \in Grids
  /\ \A o \in Copies : o[1] \in Creatures /\ Home[o[1]] \in Cells /\ HomeGrid(o) \in Grids
  /\ \A x \in Cells \cup Objects : x # Nowhere
  /\ \A p \in Players : p \in Objects /\ p \notin Copies
  /\ \A o \in Copies : o \in Objects
<1>1. \A c \in Cells : GridOf(c) \in Grids
  BY GridConstants, SMTT(30) DEF GridOf, Cells, Grids
<1>2. \A o \in Copies : o[1] \in Creatures /\ Home[o[1]] \in Cells
  BY GridConstants DEF Copies
<1>3. \A o \in Copies : HomeGrid(o) \in Grids
  BY <1>1, <1>2, Zenon DEF HomeGrid
<1>4. \A x \in Cells \cup Objects : x # Nowhere
  BY GridConstants
<1>5. \A p \in Players : p \in Objects /\ p \notin Copies
  BY GridConstants DEF Objects
<1> QED
  BY <1>1, <1>2, <1>3, <1>4, <1>5 DEF Objects

\* There are finitely many objects.
LEMMA FiniteCopies == IsFiniteSet(Copies)
<1>1. IsFiniteSet(1 .. MaxCopies)
  BY GridConstants, FS_Interval
<1> QED
  BY <1>1, GridConstants, FS_Product DEF Copies

\* The active creatures of a grid can be counted.
LEMMA FiniteActive ==
  ASSUME NEW m, IsMap(m), NEW g
  PROVE  IsFiniteSet(ActiveOf(m, g)) /\ Cardinality(ActiveOf(m, g)) \in Nat
         /\ (Cardinality(ActiveOf(m, g)) = 0 <=> ActiveOf(m, g) = {})
<1>1. ActiveOf(m, g) \subseteq Copies
  BY DEF ActiveOf
<1>2. IsFiniteSet(ActiveOf(m, g))
  BY <1>1, FiniteCopies, FS_Subset
<1> QED
  BY <1>2, FS_CardinalityType, FS_EmptySet

----------------------------------------------------------------------------
(* The list of active objects and the unload locks.                        *)

Added(m, x, n) ==
    /\ IsMap(n) /\ SameGround(m, n)
    /\ n.by = m.by /\ n.view = m.view /\ n.removing = m.removing
    /\ n.active = m.active \cup {x}
    /\ n.lock = IF x \in Copies /\ m.st[HomeGrid(x)] # "none"
                THEN [m.lock EXCEPT ![HomeGrid(x)] = @ + 1] ELSE m.lock
    /\ n.odd = IF x \in Copies /\ m.st[HomeGrid(x)] = "none"
               THEN m.odd \cup {HomeGrid(x)} ELSE m.odd

\* Map::AddToActive, field by field.
LEMMA AddFields ==
  ASSUME NEW m, IsMap(m), NEW x \in Objects
  PROVE  Added(m, x, AddToActive(m, x))
<1>1. x \in Copies => HomeGrid(x) \in Grids
  BY Places
<1>2. IsRecord(AddToActive(m, x))
  BY Zenon DEF IsRecord, IsMap, AddToActive, Log
<1> QED
  BY <1>1, <1>2, SMTT(30) DEF Added, AddToActive, Log, IsMap, Fields, SameGround

Dropped(m, x, n) ==
    /\ IsMap(n) /\ SameGround(m, n)
    /\ n.by = m.by /\ n.view = m.view /\ n.removing = m.removing
    /\ n.active = m.active \ {x}
    /\ n.lock = IF x \in Copies /\ m.st[HomeGrid(x)] # "none" /\ m.lock[HomeGrid(x)] > 0
                THEN [m.lock EXCEPT ![HomeGrid(x)] = @ - 1] ELSE m.lock
    /\ n.odd = IF x \in Copies /\ m.st[HomeGrid(x)] = "none"
               THEN m.odd \cup {HomeGrid(x)} ELSE m.odd

\* Map::RemoveFromActive, field by field.
LEMMA RemoveFields ==
  ASSUME NEW m, IsMap(m), NEW x \in Objects
  PROVE  Dropped(m, x, RemoveFromActive(m, x))
<1>1. x \in Copies => HomeGrid(x) \in Grids
  BY Places
<1>2. IsRecord(RemoveFromActive(m, x))
  BY Zenon DEF IsRecord, IsMap, RemoveFromActive, Log
<1> QED
  BY <1>1, <1>2, SMTT(30) DEF Dropped, RemoveFromActive, Log, IsMap, Fields, SameGround

\* The count stays right, if the object was not yet in the list.
LEMMA AddCounts ==
  ASSUME NEW m, IsMap(m), CountInv(m), NEW x \in Objects, NEW n, Added(m, x, n),
         x \in Copies /\ HomeGrid(x) \notin m.odd => x \notin m.active
  PROVE  CountInv(n)
<1>1. /\ IsMap(n) /\ n.active = m.active \cup {x} /\ n.st = m.st
      /\ n.lock = IF x \in Copies /\ m.st[HomeGrid(x)] # "none"
                  THEN [m.lock EXCEPT ![HomeGrid(x)] = @ + 1] ELSE m.lock
      /\ n.odd = IF x \in Copies /\ m.st[HomeGrid(x)] = "none"
                 THEN m.odd \cup {HomeGrid(x)} ELSE m.odd
  BY DEF Added, SameGround
<1>2. m.lock \in [Grids -> Nat]
  BY DEF IsMap
<1> SUFFICES ASSUME NEW g \in Grids
             PROVE  /\ n.st[g] = "none" => n.lock[g] = 0
                    /\ g \notin n.odd => n.lock[g] = Cardinality(ActiveOf(n, g))
  BY DEF CountInv
<1>3. /\ m.st[g] = "none" => m.lock[g] = 0
      /\ g \notin m.odd => m.lock[g] = Cardinality(ActiveOf(m, g))
  BY DEF CountInv
<1>4. CASE x \in Copies /\ HomeGrid(x) = g
  <2>1. ActiveOf(n, g) = ActiveOf(m, g) \cup {x}
    BY <1>1, <1>4 DEF ActiveOf
  <2>2. g \notin m.odd => Cardinality(ActiveOf(n, g)) = Cardinality(ActiveOf(m, g)) + 1
    <3> SUFFICES ASSUME g \notin m.odd PROVE Cardinality(ActiveOf(n, g)) = Cardinality(ActiveOf(m, g)) + 1
      OBVIOUS
    <3>1. x \notin ActiveOf(m, g)
      BY <1>4 DEF ActiveOf
    <3> QED
      BY <2>1, <3>1, FiniteActive, FS_AddElement
  <2>3. m.st[g] = "none" => g \in n.odd /\ n.lock[g] = m.lock[g]
    BY <1>1, <1>4
  <2>4. m.st[g] # "none" => n.odd = m.odd /\ n.lock[g] = m.lock[g] + 1
    BY <1>1, <1>2, <1>4
  <2> QED
    BY <1>1, <1>3, <2>2, <2>3, <2>4
<1>5. CASE ~(x \in Copies /\ HomeGrid(x) = g)
  <2>1. ActiveOf(n, g) = ActiveOf(m, g)
    BY <1>1, <1>5 DEF ActiveOf
  <2>2. n.lock[g] = m.lock[g] /\ (g \notin n.odd => g \notin m.odd)
    BY <1>1, <1>2, <1>5
  <2> QED
    BY <1>1, <1>3, <2>1, <2>2
<1> QED
  BY <1>4, <1>5

\* The count stays right, if the object was in the list.
LEMMA RemoveCounts ==
  ASSUME NEW m, IsMap(m), CountInv(m), NEW x \in Objects, NEW n, Dropped(m, x, n),
         x \in Copies /\ HomeGrid(x) \notin m.odd => x \in m.active
  PROVE  CountInv(n)
<1>1. /\ IsMap(n) /\ n.active = m.active \ {x} /\ n.st = m.st
      /\ n.lock = IF x \in Copies /\ m.st[HomeGrid(x)] # "none" /\ m.lock[HomeGrid(x)] > 0
                  THEN [m.lock EXCEPT ![HomeGrid(x)] = @ - 1] ELSE m.lock
      /\ n.odd = IF x \in Copies /\ m.st[HomeGrid(x)] = "none"
                 THEN m.odd \cup {HomeGrid(x)} ELSE m.odd
  BY DEF Dropped, SameGround
<1>2. m.lock \in [Grids -> Nat]
  BY DEF IsMap
<1> SUFFICES ASSUME NEW g \in Grids
             PROVE  /\ n.st[g] = "none" => n.lock[g] = 0
                    /\ g \notin n.odd => n.lock[g] = Cardinality(ActiveOf(n, g))
  BY DEF CountInv
<1>3. /\ m.st[g] = "none" => m.lock[g] = 0
      /\ g \notin m.odd => m.lock[g] = Cardinality(ActiveOf(m, g))
  BY DEF CountInv
<1>4. CASE x \in Copies /\ HomeGrid(x) = g
  <2>1. ActiveOf(n, g) = ActiveOf(m, g) \ {x}
    BY <1>1, <1>4 DEF ActiveOf
  <2>2. g \notin m.odd => /\ Cardinality(ActiveOf(n, g)) = Cardinality(ActiveOf(m, g)) - 1
                          /\ Cardinality(ActiveOf(m, g)) \in Nat \ {0}
    <3> SUFFICES ASSUME g \notin m.odd
                 PROVE  /\ Cardinality(ActiveOf(n, g)) = Cardinality(ActiveOf(m, g)) - 1
                        /\ Cardinality(ActiveOf(m, g)) \in Nat \ {0}
      OBVIOUS
    <3>1. x \in ActiveOf(m, g)
      BY <1>4 DEF ActiveOf
    <3>2. IsFiniteSet(ActiveOf(m, g)) /\ Cardinality(ActiveOf(m, g)) \in Nat
      BY FiniteActive
    <3>3. Cardinality(ActiveOf(m, g)) # 0
      BY <3>1, <3>2, FS_EmptySet
    <3> QED
      BY <2>1, <3>1, <3>2, <3>3, FS_RemoveElement
  <2>3. m.st[g] = "none" => g \in n.odd /\ n.lock[g] = m.lock[g]
    BY <1>1, <1>4
  <2>4. m.st[g] # "none" /\ m.lock[g] > 0 => n.odd = m.odd /\ n.lock[g] = m.lock[g] - 1
    BY <1>1, <1>2, <1>4
  <2>5. m.st[g] # "none" /\ ~(m.lock[g] > 0) => n.odd = m.odd /\ m.lock[g] = 0
    BY <1>1, <1>2, <1>4
  <2> QED
    BY <1>1, <1>3, <2>2, <2>3, <2>4, <2>5
<1>5. CASE ~(x \in Copies /\ HomeGrid(x) = g)
  <2>1. ActiveOf(n, g) = ActiveOf(m, g)
    BY <1>1, <1>5 DEF ActiveOf
  <2>2. n.lock[g] = m.lock[g] /\ (g \notin n.odd => g \notin m.odd)
    BY <1>1, <1>2, <1>5
  <2> QED
    BY <1>1, <1>3, <2>1, <2>2
<1> QED
  BY <1>4, <1>5

\* Only the source of one camera is another.
Aimed(m, p, x, n) == n = [m EXCEPT !.view[p] = x]

\* A step of the list and the locks that keeps both in order.
Counted(m, n) ==
    /\ IsMap(n) /\ CountInv(n) /\ ActiveInv(n) /\ SameGround(m, n) /\ n.removing = m.removing

\* A camera leaves its source.
LEMMA CameraLeaves ==
  ASSUME NEW m, IsMap(m), CountInv(m), ActiveInv(m), NEW p \in Players, NEW old \in Objects,
         m.view[p] = old, NEW d, d = [m EXCEPT !.view[p] = Nowhere],
         NEW k, k = IF IsActive(d, old) THEN d ELSE RemoveFromActive(d, old)
  PROVE  Counted(m, k) /\ k.by = m.by /\ k.view = [m.view EXCEPT ![p] = Nowhere]
<1>1. /\ IsMap(d) /\ SameGround(m, d) /\ d.by = m.by /\ d.removing = m.removing /\ d.lock = m.lock
      /\ d.active = m.active /\ d.odd = m.odd /\ d.view = [m.view EXCEPT ![p] = Nowhere]
  <2>1. IsRecord(d)
    BY Zenon DEF IsRecord, IsMap
  <2> QED
    BY <2>1, SMTT(30) DEF IsMap, Fields, SameGround
<1>2. CountInv(d)
  BY <1>1 DEF CountInv, ActiveOf, SameGround
<1>3. \A o \in Copies : o # old => (IsActive(d, o) <=> IsActive(m, o))
  <2> SUFFICES ASSUME NEW o \in Copies, o # old PROVE Watched(d, o) <=> Watched(m, o)
    BY <1>1 DEF IsActive
  <2>1. o # Nowhere
    BY Places
  <2> QED
    BY <1>1, <2>1 DEF Watched, IsMap
<1>4. IsActive(m, old)
  BY DEF IsActive, Watched
<1>5. CASE IsActive(d, old)
  <2>1. k = d
    BY <1>5
  <2>2. ActiveInv(d)
    BY <1>1, <1>3, <1>4, <1>5 DEF ActiveInv
  <2> QED
    BY <1>1, <1>2, <2>1, <2>2 DEF Counted
<1>6. CASE ~IsActive(d, old)
  <2>1. Dropped(d, old, k)
    BY <1>1, <1>6, RemoveFields
  <2>2. old \in Copies /\ HomeGrid(old) \notin d.odd => old \in d.active
    BY <1>1, <1>4 DEF ActiveInv
  <2>3. CountInv(k)
    BY <1>1, <1>2, <2>1, <2>2, RemoveCounts
  <2>4. /\ IsMap(k) /\ SameGround(d, k) /\ k.by = d.by /\ k.view = d.view /\ k.removing = d.removing
        /\ k.active = d.active \ {old} /\ d.odd \subseteq k.odd
    BY <2>1 DEF Dropped, SameGround
  <2>5. \A o \in Copies : IsActive(k, o) <=> IsActive(d, o)
    BY <2>4 DEF IsActive, Watched
  <2>6. ActiveInv(k)
    BY <1>1, <1>3, <1>6, <2>4, <2>5 DEF ActiveInv
  <2>7. SameGround(m, k)
    BY <1>1, <2>4 DEF SameGround
  <2> QED
    BY <1>1, <2>3, <2>4, <2>6, <2>7 DEF Counted
<1> QED
  BY <1>5, <1>6

\* A camera comes to a source.
LEMMA CameraComes ==
  ASSUME NEW m, IsMap(m), CountInv(m), ActiveInv(m), NEW p \in Players, NEW x \in Objects,
         m.view[p] = Nowhere, NEW k, IsActive(m, x) => k = m, ~IsActive(m, x) => Added(m, x, k),
         NEW n, Aimed(k, p, x, n)
  PROVE  Counted(m, n) /\ n.by = m.by /\ n.view = [m.view EXCEPT ![p] = x]
<1>1. x \in Copies /\ HomeGrid(x) \notin m.odd /\ ~IsActive(m, x) => x \notin m.active
  BY DEF ActiveInv
<1>2. /\ IsMap(k) /\ CountInv(k) /\ SameGround(m, k) /\ k.by = m.by /\ k.view = m.view
      /\ k.removing = m.removing /\ m.odd \subseteq k.odd /\ k.active \subseteq m.active \cup {x}
      /\ m.active \subseteq k.active /\ (IsActive(m, x) \/ x \in k.active)
  <2>1. CASE IsActive(m, x)
    BY <2>1 DEF SameGround
  <2>2. CASE ~IsActive(m, x)
    <3>1. Added(m, x, k)
      BY <2>2
    <3>2. CountInv(k)
      BY <1>1, <2>2, <3>1, AddCounts
    <3> QED
      BY <3>1, <3>2 DEF Added, SameGround
  <2> QED
    BY <2>1, <2>2
<1>3. /\ IsMap(n) /\ n.st = k.st /\ n.data = k.data /\ n.timer = k.timer /\ n.pos = k.pos
      /\ n.by = k.by /\ n.removing = k.removing /\ n.lock = k.lock
      /\ n.active = k.active /\ n.odd = k.odd /\ n.view = [k.view EXCEPT ![p] = x]
  <2>1. IsRecord(n)
    BY <1>2, Zenon DEF IsRecord, IsMap, Aimed
  <2> QED
    BY <1>2, <2>1, SMTT(30) DEF IsMap, Fields, Aimed
<1>4. CountInv(n)
  BY <1>2, <1>3 DEF CountInv, ActiveOf
<1>5. \A o \in Copies : o # x => (IsActive(n, o) <=> IsActive(m, o))
  <2> SUFFICES ASSUME NEW o \in Copies, o # x PROVE Watched(n, o) <=> Watched(m, o)
    BY <1>2, <1>3 DEF IsActive
  <2>1. o # Nowhere
    BY Places
  <2> QED
    BY <1>2, <1>3, <2>1 DEF Watched, IsMap
<1>6. IsActive(n, x)
  BY <1>2, <1>3 DEF IsActive, Watched, IsMap
<1>7. ActiveInv(n)
  BY <1>2, <1>3, <1>5, <1>6 DEF ActiveInv
<1>8. SameGround(m, n)
  BY <1>2, <1>3 DEF SameGround
<1> QED
  BY <1>2, <1>3, <1>4, <1>7, <1>8 DEF Counted

\* Camera::SetView.
LEMMA SetViewOfEffect ==
  ASSUME NEW m, ListsInv(m), NEW p \in Players, NEW x \in Objects, x = p \/ (x \in Copies /\ OnMap(m, p)),
         NEW n, n = SetViewOf(m, p, x)
  PROVE  /\ ListsInv(n) /\ SameGround(m, n) /\ n.by = m.by /\ n.removing = m.removing
         /\ n.view = IF InWorld(m, x) THEN [m.view EXCEPT ![p] = x] ELSE m.view
<1>1. IsMap(m) /\ CountInv(m) /\ ActiveInv(m) /\ OffMapInv(m) /\ ViewInv(m)
  BY DEF ListsInv
<1> DEFINE old == m.view[p]
<1>2. CASE old = x \/ ~InWorld(m, x)
  <2>1. n = m
    BY <1>2, Zenon DEF SetViewOf
  <2>2. old = x => m.view = [m.view EXCEPT ![p] = x]
    BY <1>1 DEF IsMap
  <2> QED
    BY <1>2, <2>1, <2>2 DEF SameGround
<1>3. CASE old # x /\ InWorld(m, x)
  <2>1. old \in Objects
    BY <1>1, Places DEF ViewInv
  <2> DEFINE d == [m EXCEPT !.view[p] = Nowhere]
             k == IF IsActive(d, old) THEN d ELSE RemoveFromActive(d, old)
             t == IF IsActive(k, x) THEN k ELSE AddToActive(k, x)
  <2>2. Aimed(t, p, x, n)
    BY <1>3, Zenon DEF SetViewOf, Aimed
  <2>3. Counted(m, k) /\ k.by = m.by /\ k.view = [m.view EXCEPT ![p] = Nowhere]
    <3> HIDE DEF old
    <3>1. m.view[p] = old
      BY DEF old
    <3> HIDE DEF d
    <3>2. d = [m EXCEPT !.view[p] = Nowhere]
      BY DEF d
    <3> HIDE DEF k
    <3>3. k = IF IsActive(d, old) THEN d ELSE RemoveFromActive(d, old)
      BY DEF k
    <3> QED
      BY <1>1, <2>1, <3>1, <3>2, <3>3, CameraLeaves
  <2> HIDE DEF k
  <2>4. IsMap(k) /\ CountInv(k) /\ ActiveInv(k) /\ k.view[p] = Nowhere
    BY <1>1, <2>3 DEF Counted, IsMap
  <2>5. Counted(k, n) /\ n.by = k.by /\ n.view = [k.view EXCEPT ![p] = x]
    <3>1. (IsActive(k, x) => t = k) /\ (~IsActive(k, x) => Added(k, x, t))
      BY <2>4, AddFields
    <3> HIDE DEF t
    <3> QED
      BY <2>2, <2>4, <3>1, CameraComes
  <2> HIDE DEF t
  <2>6. n.view = [m.view EXCEPT ![p] = x]
    BY <1>1, <2>3, <2>5 DEF IsMap
  <2>7. SameGround(m, n) /\ n.by = m.by /\ n.removing = m.removing
    BY <2>3, <2>5 DEF Counted, SameGround
  <2>8. OffMapInv(n)
    BY <1>1, <2>7 DEF OffMapInv, OnMap, SameGround
  <2>9. ViewInv(n)
    BY <1>1, <1>3, <2>6, <2>7 DEF ViewInv, OnMap, InWorld, SameGround, IsMap
  <2> QED
    BY <1>3, <2>5, <2>6, <2>7, <2>8, <2>9 DEF ListsInv, Counted
<1> QED
  BY <1>2, <1>3

----------------------------------------------------------------------------
(* What stops a creature's reasons and cameras.                            *)

\* ResetViewers gives the cameras on the object back to their players.
LEMMA ResetViewersEffect ==
  ASSUME NEW m, ListsInv(m), NEW o \in Copies, NEW n, n = ResetViewers(m, o)
  PROVE  /\ ListsInv(n) /\ SameGround(m, n) /\ n.by = m.by /\ n.removing = m.removing
         /\ \A p \in Players : n.view[p] # o /\ (n.view[p] = m.view[p] \/ n.view[p] = p)
<1> DEFINE S == Watching(m, o)
           Done(s, n1) == /\ ListsInv(n1) /\ SameGround(m, n1)
                          /\ n1.by = m.by /\ n1.removing = m.removing
                          /\ \A p \in Players : n1.view[p] = IF p \in s THEN p ELSE m.view[p]
           I == [s \in SUBSET S |-> {n1 \in Maps : Done(s, n1)}]
<1>1. IsFiniteSet(S)
  BY GridConstants, FS_Subset DEF Watching
<1>2. m \in I[{}]
  <2>1. Done({}, m)
    BY DEF SameGround
  <2>2. m \in Maps
    BY MapsAreASet DEF ListsInv
  <2> HIDE DEF Done
  <2> QED
    BY <2>1, <2>2
<1>3. ASSUME NEW s \in SUBSET S, NEW x \in s, NEW n1 \in I[s \ {x}]
      PROVE  SetViewOf(n1, x, x) \in I[s]
  <2> DEFINE n2 == SetViewOf(n1, x, x)
  <2>1. Done(s \ {x}, n1)
    <3> HIDE DEF Done
    <3> QED
      OBVIOUS
  <2>2. x \in Players /\ x \in Objects /\ x \notin Copies /\ m.view[x] = o /\ x # o
    BY Places DEF Watching
  <2>3. /\ ListsInv(n2) /\ SameGround(n1, n2) /\ n2.by = n1.by /\ n2.removing = n1.removing
        /\ n2.view = IF InWorld(n1, x) THEN [n1.view EXCEPT ![x] = x] ELSE n1.view
    <3> HIDE DEF Done
    <3> QED
      BY <2>1, <2>2, SetViewOfEffect DEF Done
  <2> HIDE DEF n2
  <2>4. InWorld(n1, x)
    <3>1. OnMap(m, x)
      BY <2>2 DEF ListsInv, ViewInv
    <3>2. n1.pos = m.pos /\ n1.removing \in SUBSET Copies
      BY <2>1 DEF SameGround, ListsInv, IsMap
    <3> QED
      BY <2>2, <3>1, <3>2 DEF InWorld, OnMap
  <2>5. n1.view \in [Players -> Objects \cup {Nowhere}]
    BY <2>1 DEF ListsInv, IsMap
  <2>6. \A p \in Players : n2.view[p] = IF p \in s THEN p ELSE m.view[p]
    BY <2>1, <2>2, <2>3, <2>4, <2>5
  <2>7. Done(s, n2)
    BY <2>1, <2>3, <2>6 DEF SameGround
  <2>8. n2 \in Maps
    BY <2>3, MapsAreASet DEF ListsInv
  <2> HIDE DEF Done
  <2>9. n2 \in I[s]
    BY <2>7, <2>8
  <2> QED
    BY <2>9 DEF n2
<1> HIDE DEF I
<1>4. n \in I[S]
  BY <1>1, <1>2, <1>3, ResetViewersFold DEF S
<1>5. Done(S, n)
  <2> HIDE DEF Done
  <2> QED
    BY <1>4 DEF I
<1>6. \A p \in Players : n.view[p] # o /\ (n.view[p] = m.view[p] \/ n.view[p] = p)
  BY <1>5, Places DEF Watching
<1> QED
  BY <1>5, <1>6

\* The reasons of one creature change, and its grid may be known to be wrong.
Reasoned(m, o, R, odd1, a) == a = [m EXCEPT !.by[o] = R, !.odd = odd1]

\* What a change of the reasons of a creature leaves alone.
LEMMA ReasonedFields ==
  ASSUME NEW m, IsMap(m), NEW o \in Copies, NEW R \in SUBSET Reasons, NEW odd1 \in SUBSET Grids,
         m.odd \subseteq odd1, NEW a, Reasoned(m, o, R, odd1, a)
  PROVE  /\ IsMap(a) /\ SameGround(m, a) /\ a.by = [m.by EXCEPT ![o] = R] /\ a.odd = odd1
         /\ a.view = m.view /\ a.active = m.active /\ a.lock = m.lock /\ a.removing = m.removing
<1>1. IsRecord(a)
  BY Zenon DEF IsRecord, IsMap, Reasoned
<1> QED
  BY <1>1, SMTT(30) DEF IsMap, Fields, SameGround, Reasoned

\* The lists stay in order whatever the reasons, if the list of active objects
\* and the lock follow.
LEMMA ReasonedLists ==
  ASSUME NEW m, ListsInv(m), NEW o \in Copies, OnMap(m, o), NEW R \in SUBSET Reasons,
         NEW n, IsMap(n), CountInv(n), SameGround(m, n), n.by = [m.by EXCEPT ![o] = R],
         n.view = m.view, n.removing = m.removing, \A x \in Copies : x # o => (x \in n.active <=> x \in m.active),
         HomeGrid(o) \notin n.odd => (o \in n.active <=> IsActive(n, o))
  PROVE  ListsInv(n)
<1>1. m.by \in [Copies -> SUBSET Reasons]
  BY DEF ListsInv, IsMap
<1>2. \A x \in Copies : x # o => (IsActive(n, x) <=> IsActive(m, x))
  BY <1>1 DEF IsActive, Watched
<1>3. ActiveInv(n)
  BY <1>2 DEF ActiveInv, ListsInv, SameGround
<1>4. OffMapInv(n)
  BY <1>1 DEF OffMapInv, ListsInv, SameGround, OnMap
<1>5. ViewInv(n)
  BY DEF ViewInv, ListsInv, SameGround, OnMap, InWorld
<1> QED
  BY <1>3, <1>4, <1>5 DEF ListsInv

SetTo(m, o, R, n) ==
    /\ ListsInv(n) /\ SameGround(m, n) /\ n.view = m.view /\ n.removing = m.removing
    /\ n.by = [m.by EXCEPT ![o] = R]
    /\ \A x \in Copies : x # o => (x \in n.active <=> x \in m.active)

\* WorldObject::setActive keeps the lists in order.
LEMMA SetActiveByEffect ==
  ASSUME NEW m, ListsInv(m), NEW o \in Copies, OnMap(m, o), NEW R \in SUBSET Reasons,
         NEW n, n = SetActiveBy(m, o, R)
  PROVE  SetTo(m, o, R, n)
<1> USE DEF SetTo
<1> DEFINE odd1 == IF Watched(m, o) THEN m.odd \cup {HomeGrid(o)} ELSE m.odd
           a == [m EXCEPT !.by[o] = R, !.odd = odd1]
<1>0. /\ IsMap(m) /\ CountInv(m) /\ m.by \in [Copies -> SUBSET Reasons] /\ m.odd \in SUBSET Grids
      /\ HomeGrid(o) \in Grids /\ o \in Objects
      /\ (HomeGrid(o) \notin m.odd => (o \in m.active <=> IsActive(m, o)))
  BY Places DEF ListsInv, IsMap, ActiveInv
<1>1. CASE (m.by[o] # {}) = (R # {})
  <2>1. n = [m EXCEPT !.by[o] = R]
    BY <1>1, Zenon DEF SetActiveBy
  <2>2. /\ IsMap(n) /\ SameGround(m, n) /\ n.by = [m.by EXCEPT ![o] = R] /\ n.odd = m.odd
        /\ n.view = m.view /\ n.active = m.active /\ n.lock = m.lock /\ n.removing = m.removing
    <3>1. IsRecord(n)
      BY <1>0, <2>1, Zenon DEF IsRecord, IsMap
    <3> QED
      BY <1>0, <2>1, <3>1, SMTT(30) DEF IsMap, Fields, SameGround
  <2>3. CountInv(n)
    BY <1>0, <2>2 DEF CountInv, ActiveOf, SameGround
  <2>4. IsActive(n, o) <=> IsActive(m, o)
    BY <1>0, <1>1, <2>2 DEF IsActive, Watched
  <2> QED
    BY <1>0, <2>2, <2>3, <2>4, ReasonedLists
<1>2. CASE (m.by[o] # {}) # (R # {}) /\ ~InWorld(m, o)
  <2>1. Reasoned(m, o, R, m.odd \cup {HomeGrid(o)}, n)
    BY <1>2, Zenon DEF SetActiveBy, Reasoned
  <2>2. /\ IsMap(n) /\ SameGround(m, n) /\ n.by = [m.by EXCEPT ![o] = R]
        /\ n.odd = m.odd \cup {HomeGrid(o)} /\ n.view = m.view /\ n.active = m.active
        /\ n.lock = m.lock /\ n.removing = m.removing
    BY <1>0, <2>1, ReasonedFields
  <2>3. CountInv(n)
    BY <1>0, <2>2 DEF CountInv, ActiveOf, SameGround
  <2> QED
    BY <1>0, <2>2, <2>3, ReasonedLists
<1>3. CASE (m.by[o] # {}) # (R # {}) /\ InWorld(m, o)
  <2>1. /\ R # {} => n = AddToActive(a, o)
        /\ R = {} => n = RemoveFromActive(a, o)
    BY <1>3, Zenon DEF SetActiveBy
  <2>2. Reasoned(m, o, R, odd1, a)
    BY Zenon DEF Reasoned
  <2>3. odd1 \in SUBSET Grids /\ m.odd \subseteq odd1 /\ (HomeGrid(o) \notin odd1 => odd1 = m.odd /\ ~Watched(m, o))
    BY <1>0
  <2> HIDE DEF odd1, a
  <2>4. /\ IsMap(a) /\ SameGround(m, a) /\ a.by = [m.by EXCEPT ![o] = R] /\ a.odd = odd1
        /\ a.view = m.view /\ a.active = m.active /\ a.lock = m.lock /\ a.removing = m.removing
    BY <1>0, <2>2, <2>3, ReasonedFields
  <2>5. CountInv(a)
    BY <1>0, <2>3, <2>4 DEF CountInv, ActiveOf, SameGround
  <2>6. HomeGrid(o) \notin a.odd =>
            /\ (o \in a.active <=> R = {}) /\ ~Watched(a, o)
    BY <1>0, <1>3, <2>3, <2>4 DEF IsActive, Watched
  <2>7. CASE R # {}
    <3>1. Added(a, o, n)
      BY <1>0, <2>1, <2>4, <2>7, AddFields
    <3>2. CountInv(n)
      BY <1>0, <2>4, <2>5, <2>6, <2>7, <3>1, AddCounts
    <3>3. /\ IsMap(n) /\ SameGround(a, n) /\ n.by = a.by /\ n.view = a.view
          /\ n.removing = a.removing /\ n.active = a.active \cup {o}
      BY <3>1 DEF Added
    <3>4. SameGround(m, n)
      BY <2>4, <3>3 DEF SameGround
    <3>5. IsActive(n, o)
      BY <1>0, <2>4, <2>7, <3>3 DEF IsActive
    <3> QED
      BY <2>4, <3>2, <3>3, <3>4, <3>5, ReasonedLists
  <2>8. CASE R = {}
    <3>1. Dropped(a, o, n)
      BY <1>0, <2>1, <2>4, <2>8, RemoveFields
    <3>2. CountInv(n)
      BY <1>0, <2>4, <2>5, <2>6, <2>8, <3>1, RemoveCounts
    <3>3. /\ IsMap(n) /\ SameGround(a, n) /\ n.by = a.by /\ n.view = a.view
          /\ n.removing = a.removing /\ n.active = a.active \ {o}
      BY <3>1 DEF Dropped
    <3>4. SameGround(m, n)
      BY <2>4, <3>3 DEF SameGround
    <3>5. HomeGrid(o) \notin n.odd => ~IsActive(n, o)
      BY <1>0, <2>4, <2>6, <2>8, <3>3 DEF IsActive, Watched, SameGround
    <3> QED
      BY <2>4, <3>2, <3>3, <3>4, <3>5, ReasonedLists
  <2> QED
    BY <2>7, <2>8
<1> QED
  BY <1>1, <1>2, <1>3

\* No creature becomes active.
Calmer(m, n) == \A x \in Copies : IsActive(n, x) => IsActive(m, x)

\* CleanupsBeforeDelete takes the creature out of the world.
LEMMA CleanupsEffect ==
  ASSUME NEW m, ListsInv(m), NEW o \in Copies, OnMap(m, o), NEW n, n = CleanupsBeforeDelete(m, o)
  PROVE  /\ ListsInv(n) /\ SameGround(m, n) /\ n.removing = m.removing \cup {o} /\ Calmer(m, n)
         /\ \A p \in Players : n.view[p] # o
<1> DEFINE k == ResetViewers(m, o)
           d == [k EXCEPT !.removing = @ \cup {o}]
<1>1. n = SetActiveBy(d, o, d.by[o] \ {"combat"})
  BY Zenon DEF CleanupsBeforeDelete
<1>2. /\ ListsInv(k) /\ SameGround(m, k) /\ k.by = m.by /\ k.removing = m.removing
      /\ \A p \in Players : k.view[p] # o /\ (k.view[p] = m.view[p] \/ k.view[p] = p)
  BY ResetViewersEffect
<1>3. d = [k EXCEPT !.removing = @ \cup {o}]
  OBVIOUS
<1> HIDE DEF k, d
<1>4. /\ IsMap(d) /\ SameGround(k, d) /\ d.by = k.by /\ d.view = k.view /\ d.lock = k.lock
      /\ d.active = k.active /\ d.odd = k.odd /\ d.removing = k.removing \cup {o}
  <2>1. IsRecord(d)
    BY <1>2, <1>3, Zenon DEF IsRecord, IsMap, ListsInv
  <2> QED
    BY <1>2, <1>3, <2>1, SMTT(30) DEF ListsInv, IsMap, Fields, SameGround
<1>5. ListsInv(d)
  <2>1. CountInv(d)
    BY <1>2, <1>4 DEF ListsInv, CountInv, ActiveOf, SameGround
  <2>2. ActiveInv(d)
    BY <1>2, <1>4 DEF ListsInv, ActiveInv, IsActive, Watched
  <2>3. OffMapInv(d)
    BY <1>2, <1>4 DEF ListsInv, OffMapInv, SameGround, OnMap
  <2>4. ViewInv(d)
    BY <1>2, <1>4 DEF ListsInv, ViewInv, SameGround, OnMap, InWorld
  <2> QED
    BY <1>4, <2>1, <2>2, <2>3, <2>4 DEF ListsInv
<1>6. OnMap(d, o) /\ SameGround(m, d)
  BY <1>2, <1>4 DEF OnMap, SameGround
<1>7. d.by \in [Copies -> SUBSET Reasons] /\ d.by[o] \ {"combat"} \in SUBSET Reasons
  BY <1>4 DEF IsMap
<1>8. /\ ListsInv(n) /\ SameGround(d, n) /\ n.view = d.view /\ n.removing = d.removing
      /\ n.by = [d.by EXCEPT ![o] = d.by[o] \ {"combat"}]
  BY <1>1, <1>5, <1>6, <1>7, SetActiveByEffect DEF SetTo
<1>9. Calmer(m, n)
  <2> SUFFICES ASSUME NEW x \in Copies, IsActive(n, x) PROVE IsActive(m, x)
    BY DEF Calmer
  <2>1. n.by[x] # {} => m.by[x] # {}
    BY <1>2, <1>4, <1>7, <1>8
  <2>2. \A p \in Players : n.view[p] = x => m.view[p] = x
    BY <1>2, <1>4, <1>8, Places
  <2> QED
    BY <2>1, <2>2 DEF IsActive, Watched
<1>10. SameGround(m, n)
  BY <1>6, <1>8 DEF SameGround
<1> QED
  BY <1>2, <1>4, <1>8, <1>9, <1>10

\* The grids stay, the objects may go.
SameGrids(m, n) == n.st = m.st /\ n.data = m.data /\ n.timer = m.timer /\ m.odd \subseteq n.odd

\* A creature that is not listed and not seen is deleted.
LEMMA DeleteEffect ==
  ASSUME NEW m, IsMap(m), CountInv(m), OffMapInv(m), ViewInv(m), NEW o \in Copies,
         \A x \in Copies : x # o /\ HomeGrid(x) \notin m.odd => (x \in m.active <=> IsActive(m, x)),
         HomeGrid(o) \notin m.odd => o \notin m.active,
         \A p \in Players : m.view[p] # o, NEW n, n = Delete(m, o)
  PROVE  /\ ListsInv(n) /\ SameGrids(m, n) /\ n.view = m.view /\ n.pos = [m.pos EXCEPT ![o] = Nowhere]
         /\ n.removing = m.removing \ {o} /\ Calmer(m, n)
<1>1. /\ IsMap(n) /\ SameGrids(m, n) /\ n.view = m.view /\ n.pos = [m.pos EXCEPT ![o] = Nowhere]
      /\ n.removing = m.removing \ {o} /\ n.lock = m.lock /\ n.active = m.active
      /\ n.odd = m.odd /\ n.by = [m.by EXCEPT ![o] = {}]
  <2>1. IsRecord(n)
    BY Zenon DEF IsRecord, IsMap, Delete
  <2>2. o \in Objects
    BY Places
  <2> QED
    BY <2>1, <2>2, SMTT(30) DEF IsMap, Fields, SameGrids, Delete
<1>2. m.by \in [Copies -> SUBSET Reasons] /\ m.pos \in [Objects -> Cells \cup {Nowhere}] /\ o \in Objects
  BY Places DEF IsMap
<1>3. CountInv(n)
  BY <1>1 DEF CountInv, ActiveOf, SameGrids
<1>4. \A x \in Copies : IsActive(n, x) <=> x # o /\ IsActive(m, x)
  BY <1>1, <1>2 DEF IsActive, Watched
<1>5. ActiveInv(n)
  BY <1>1, <1>4 DEF ActiveInv
<1>6. OffMapInv(n)
  BY <1>1, <1>2 DEF OffMapInv, OnMap
<1>7. ViewInv(n)
  <2>1. \A x \in Objects : x # o => (OnMap(n, x) <=> OnMap(m, x)) /\ (x \in n.removing <=> x \in m.removing)
    BY <1>1, <1>2 DEF OnMap
  <2>2. \A p \in Players : p # o /\ p \in Objects /\ m.view[p] # o
    BY Places
  <2>3. \A x \in Copies : x \in Objects
    BY Places
  <2> QED
    BY <1>1, <2>1, <2>2, <2>3 DEF ViewInv, InWorld
<1>8. Calmer(m, n)
  BY <1>4 DEF Calmer
<1> QED
  BY <1>1, <1>3, <1>5, <1>6, <1>7, <1>8 DEF ListsInv

\* Map::Remove deletes an object of a loaded grid.
LEMMA RemoveObjectEffect ==
  ASSUME NEW m, ListsInv(m), NEW o \in m.removing, m.data[GridOf(m.pos[o])],
         NEW n, n = RemoveObject(m, o)
  PROVE  /\ ListsInv(n) /\ SameGrids(m, n) /\ n.view = m.view /\ n.pos = [m.pos EXCEPT ![o] = Nowhere]
         /\ n.removing = m.removing \ {o}
<1> DEFINE k == IF IsActive(m, o) THEN RemoveFromActive(m, o) ELSE m
<1>1. n = Delete(k, o)
  BY Zenon DEF RemoveObject, IsLoaded
<1>2. /\ IsMap(m) /\ CountInv(m) /\ ActiveInv(m) /\ OffMapInv(m) /\ ViewInv(m)
      /\ o \in Copies /\ o \in Objects
  BY Places DEF ListsInv, IsMap
<1>3. /\ IsMap(k) /\ CountInv(k) /\ SameGround(m, k) /\ k.by = m.by /\ k.view = m.view
      /\ k.removing = m.removing /\ \A x \in Copies : x # o => (x \in k.active <=> x \in m.active)
      /\ (HomeGrid(o) \notin k.odd => o \notin k.active)
  <2>1. CASE IsActive(m, o)
    <3>1. k = RemoveFromActive(m, o)
      BY <2>1
    <3> HIDE DEF k
    <3>2. Dropped(m, o, k)
      BY <1>2, <3>1, RemoveFields
    <3>3. CountInv(k)
      BY <1>2, <2>1, <3>2, RemoveCounts DEF ActiveInv
    <3> QED
      BY <3>2, <3>3 DEF Dropped
  <2>2. CASE ~IsActive(m, o)
    BY <1>2, <2>2 DEF SameGround, ActiveInv
  <2> QED
    BY <2>1, <2>2
<1> HIDE DEF k
<1>4. OffMapInv(k) /\ ViewInv(k)
  BY <1>2, <1>3 DEF OffMapInv, ViewInv, InWorld, OnMap, SameGround
<1>5. \A x \in Copies : x # o /\ HomeGrid(x) \notin k.odd => (x \in k.active <=> IsActive(k, x))
  BY <1>2, <1>3 DEF ActiveInv, SameGround, IsActive, Watched
<1>6. \A p \in Players : k.view[p] # o
  BY <1>2, <1>3, Places DEF ViewInv, InWorld
<1>7. /\ ListsInv(n) /\ SameGrids(k, n) /\ n.view = k.view /\ n.pos = [k.pos EXCEPT ![o] = Nowhere]
      /\ n.removing = k.removing \ {o}
  BY <1>1, <1>2, <1>3, <1>4, <1>5, <1>6, DeleteEffect
<1> QED
  BY <1>3, <1>7 DEF SameGrids, SameGround

\* RemoveAllObjectsInRemoveList deletes what was taken out of the world, where the
\* grids are loaded.
LEMMA RemoveListEffect ==
  ASSUME NEW m, ListsInv(m), \A o \in Copies : OnMap(m, o) => m.data[GridOf(m.pos[o])],
         NEW n, n = RemoveAllObjectsInRemoveList(m)
  PROVE  /\ ListsInv(n) /\ SameGrids(m, n) /\ n.view = m.view /\ n.removing = {}
         /\ \A x \in Objects : n.pos[x] = IF x \in m.removing THEN Nowhere ELSE m.pos[x]
<1> DEFINE S == m.removing
           Done(s, n1) == /\ ListsInv(n1) /\ SameGrids(m, n1) /\ n1.view = m.view
                          /\ n1.removing = m.removing \ s
                          /\ \A x \in Objects : n1.pos[x] = IF x \in s THEN Nowhere ELSE m.pos[x]
           I == [s \in SUBSET S |-> {n1 \in Maps : Done(s, n1)}]
<1>0. IsMap(m) /\ m.removing \in SUBSET Copies /\ OffMapInv(m)
  BY DEF ListsInv, IsMap
<1>1. IsFiniteSet(S)
  BY <1>0, FiniteCopies, FS_Subset
<1>2. m \in I[{}]
  <2>1. Done({}, m)
    BY DEF SameGrids
  <2>2. m \in Maps
    BY <1>0, MapsAreASet
  <2> HIDE DEF Done
  <2> QED
    BY <2>1, <2>2
<1>3. ASSUME NEW s \in SUBSET S, NEW x \in s, NEW n1 \in I[s \ {x}]
      PROVE  RemoveObject(n1, x) \in I[s]
  <2>1. Done(s \ {x}, n1)
    <3> HIDE DEF Done
    <3> QED
      OBVIOUS
  <2>2. x \in Copies /\ x \in m.removing /\ x \in n1.removing /\ x \in Objects
    BY <1>0, <2>1, Places
  <2>3. OnMap(m, x) /\ n1.pos[x] = m.pos[x] /\ n1.data = m.data
    BY <1>0, <2>1, <2>2 DEF OffMapInv, SameGrids
  <2>4. n1.data[GridOf(n1.pos[x])] /\ ListsInv(n1)
    BY <2>1, <2>2, <2>3
  <2> DEFINE n2 == RemoveObject(n1, x)
  <2>5. /\ ListsInv(n2) /\ SameGrids(n1, n2) /\ n2.view = n1.view
        /\ n2.pos = [n1.pos EXCEPT ![x] = Nowhere] /\ n2.removing = n1.removing \ {x}
    <3> HIDE DEF Done
    <3> QED
      BY <2>2, <2>4, RemoveObjectEffect
  <2> HIDE DEF n2
  <2>6. n1.pos \in [Objects -> Cells \cup {Nowhere}]
    BY <2>4 DEF ListsInv, IsMap
  <2>7. Done(s, n2)
    <3>1. \A y \in Objects : n2.pos[y] = IF y \in s THEN Nowhere ELSE m.pos[y]
      BY <2>1, <2>5, <2>6
    <3>2. n2.removing = m.removing \ s
      BY <2>1, <2>5
    <3> QED
      BY <2>1, <2>5, <3>1, <3>2 DEF SameGrids
  <2>8. n2 \in Maps
    BY <2>5, MapsAreASet DEF ListsInv
  <2> HIDE DEF Done
  <2>9. n2 \in I[s]
    BY <2>7, <2>8
  <2> QED
    BY <2>9 DEF n2
<1> HIDE DEF I
<1>4. n \in I[S]
  BY <1>1, <1>2, <1>3, RemoveListFold
<1>5. Done(S, n)
  <2> HIDE DEF Done
  <2> QED
    BY <1>4 DEF I
<1> QED
  BY <1>5

\* There are finitely many objects in a grid.
LEMMA InGrid ==
  ASSUME NEW m, NEW g
  PROVE  In(m, g) \in SUBSET Copies /\ IsFiniteSet(In(m, g))
<1>1. In(m, g) \in SUBSET Copies
  BY DEF In
<1> QED
  BY <1>1, FiniteCopies, FS_Subset

\* ObjectGridStoper changes nothing but the lists.
LEMMA FightsStoppedEffect ==
  ASSUME NEW m, ListsInv(m), NEW g, NEW n, n = FightsStopped(m, g)
  PROVE  ListsInv(n) /\ SameGround(m, n) /\ n.view = m.view /\ n.removing = m.removing
<1> DEFINE S == In(m, g)
           Done(n1) == ListsInv(n1) /\ SameGround(m, n1) /\ n1.view = m.view /\ n1.removing = m.removing
           I == [s \in SUBSET S |-> {n1 \in Maps : Done(n1)}]
<1>1. IsFiniteSet(S)
  BY InGrid
<1>2. m \in I[{}]
  <2>1. Done(m)
    BY DEF SameGround
  <2>2. m \in Maps
    BY MapsAreASet DEF ListsInv
  <2> HIDE DEF Done
  <2> QED
    BY <2>1, <2>2
<1>3. ASSUME NEW s \in SUBSET S, NEW x \in s, NEW n1 \in I[s \ {x}]
      PROVE  SetActiveBy(n1, x, n1.by[x] \ {"combat"}) \in I[s]
  <2>1. Done(n1)
    <3> HIDE DEF Done
    <3> QED
      OBVIOUS
  <2>2. x \in Copies /\ OnMap(m, x)
    BY DEF In
  <2>3. ListsInv(n1) /\ OnMap(n1, x) /\ n1.by[x] \ {"combat"} \in SUBSET Reasons
    BY <2>1, <2>2 DEF SameGround, OnMap, ListsInv, IsMap
  <2> DEFINE n2 == SetActiveBy(n1, x, n1.by[x] \ {"combat"})
  <2>4. ListsInv(n2) /\ SameGround(n1, n2) /\ n2.view = n1.view /\ n2.removing = n1.removing
    <3> DEFINE R == n1.by[x] \ {"combat"}
    <3>1. n2 = SetActiveBy(n1, x, R) /\ R \in SUBSET Reasons
      BY <2>3
    <3> HIDE DEF Done, n2, R
    <3>2. SetTo(n1, x, R, n2)
      BY <2>2, <2>3, <3>1, SetActiveByEffect
    <3> QED
      BY <3>2 DEF SetTo
  <2> HIDE DEF n2
  <2>5. Done(n2)
    BY <2>1, <2>4 DEF SameGround
  <2>6. n2 \in Maps
    BY <2>4, MapsAreASet DEF ListsInv
  <2> HIDE DEF Done
  <2>7. n2 \in I[s]
    BY <2>5, <2>6
  <2> QED
    BY <2>7 DEF n2
<1> HIDE DEF I
<1>4. n \in I[S]
  BY <1>1, <1>2, <1>3, FightsStoppedFold DEF S
<1>5. Done(n)
  <2> HIDE DEF Done
  <2> QED
    BY <1>4 DEF I
<1> QED
  BY <1>5

----------------------------------------------------------------------------
(* The loading of a grid.                                                  *)

\* What is on the map stays as it is, and no grid is unloaded.
Grown(m, n) ==
    /\ n.view = m.view /\ n.removing = m.removing /\ m.odd \subseteq n.odd
    /\ \A x \in Objects : OnMap(m, x) => n.pos[x] = m.pos[x]
    /\ \A x \in Copies : OnMap(m, x) => n.by[x] = m.by[x]
    /\ \A p \in Players : n.pos[p] = m.pos[p]
    /\ \A g \in Grids : /\ m.data[g] => n.data[g]
                        /\ m.st[g] = "active" => n.st[g] = "active"
                        /\ m.st[g] # "none" => n.st[g] # "none"

\* Growing is transitive.
LEMMA GrownTwice ==
  ASSUME NEW m, NEW k, NEW n, Grown(m, k), Grown(k, n)
  PROVE  Grown(m, n)
BY Places DEF Grown, OnMap

\* A new object, at home.
MadeAs(m, c, o, n) ==
    /\ ListsInv(n) /\ SameGrids(m, n) /\ n.view = m.view /\ n.removing = m.removing
    /\ n.pos = [m.pos EXCEPT ![o] = Home[c]]
    /\ \A x \in Copies : x # o => n.by[x] = m.by[x] /\ (x \in n.active <=> x \in m.active)

\* An object is put on the map.
LEMMA NewObject ==
  ASSUME NEW m, ListsInv(m), NEW c \in Creatures, NEW o \in FreeCopies(m, c),
         NEW n, n = [m EXCEPT !.pos[o] = Home[c]]
  PROVE  MadeAs(m, c, o, n)
<1>1. o \in Copies /\ o \in Objects /\ ~OnMap(m, o) /\ o \notin m.active /\ Home[c] \in Cells
      /\ Home[c] # Nowhere
  BY Places, GridConstants DEF FreeCopies
<1>2. IsMap(m) /\ CountInv(m) /\ ActiveInv(m) /\ OffMapInv(m) /\ ViewInv(m)
  BY DEF ListsInv
<1>3. /\ IsMap(n) /\ SameGrids(m, n) /\ n.view = m.view /\ n.removing = m.removing
      /\ n.pos = [m.pos EXCEPT ![o] = Home[c]] /\ n.by = m.by /\ n.active = m.active
      /\ n.lock = m.lock /\ n.odd = m.odd
  <2>1. IsRecord(n)
    BY <1>2, Zenon DEF IsRecord, IsMap
  <2> QED
    BY <1>1, <1>2, <2>1, SMTT(30) DEF IsMap, Fields, SameGrids
<1>4. \A x \in Objects : (OnMap(m, x) => OnMap(n, x)) /\ (OnMap(n, x) => OnMap(m, x) \/ x = o)
  BY <1>1, <1>2, <1>3 DEF OnMap, IsMap
<1>5. CountInv(n)
  BY <1>2, <1>3 DEF CountInv, ActiveOf, SameGrids
<1>6. ActiveInv(n)
  BY <1>2, <1>3 DEF ActiveInv, IsActive, Watched
<1>7. OffMapInv(n)
  BY <1>2, <1>3, <1>4, Places DEF OffMapInv
<1>8. ViewInv(n)
  BY <1>2, <1>3, <1>4, Places DEF ViewInv, InWorld
<1> QED
  BY <1>3, <1>5, <1>6, <1>7, <1>8 DEF ListsInv, MadeAs

\* LoadHelper makes one object of the creature.
LEMMA MakeEffect ==
  ASSUME NEW m, ListsInv(m), NEW c \in Creatures, FreeCopies(m, c) # {}, NEW n, n = Make(m, c)
  PROVE  \E o \in FreeCopies(m, c) : MadeAs(m, c, o, n)
<1> DEFINE o == CHOOSE f \in FreeCopies(m, c) : TRUE
           k == [m EXCEPT !.pos[o] = Home[c]]
           a == SetActiveBy(k, o, {"manual"})
           l == AddToActive(a, o)
<1>1. o \in FreeCopies(m, c)
  OBVIOUS
<1>2. IF c \in scripted THEN n = [l EXCEPT !.odd = @ \cup {HomeGrid(o)}] ELSE n = k
  BY Zenon DEF Make
<1>3. k = [m EXCEPT !.pos[o] = Home[c]]
  OBVIOUS
<1>4. a = SetActiveBy(k, o, {"manual"}) /\ l = AddToActive(a, o)
  OBVIOUS
<1> HIDE DEF o, k, a, l
<1>5. MadeAs(m, c, o, k)
  BY <1>1, <1>3, NewObject
<1>6. o \in Copies /\ o \in Objects /\ Home[c] # Nowhere /\ HomeGrid(o) \in Grids /\ OnMap(k, o)
  <2>1. o \in Copies /\ o \in Objects /\ Home[c] # Nowhere /\ HomeGrid(o) \in Grids
    BY <1>1, Places, GridConstants DEF FreeCopies
  <2> QED
    BY <1>5, <2>1 DEF MadeAs, OnMap, ListsInv, IsMap
<1>7. CASE c \notin scripted
  BY <1>1, <1>2, <1>5, <1>7
<1>8. CASE c \in scripted
  <2>1. {"manual"} \in SUBSET Reasons
    BY DEF Reasons
  <2>2. /\ ListsInv(a) /\ SameGround(k, a) /\ a.view = k.view /\ a.removing = k.removing
        /\ a.by = [k.by EXCEPT ![o] = {"manual"}]
        /\ \A x \in Copies : x # o => (x \in a.active <=> x \in k.active)
    <3>1. ListsInv(k)
      BY <1>5 DEF MadeAs
    <3>2. SetTo(k, o, {"manual"}, a)
      BY <1>4, <1>6, <2>1, <3>1, SetActiveByEffect
    <3> QED
      BY <3>2, Zenon DEF SetTo
  <2>3. Added(a, o, l)
    BY <1>4, <1>6, <2>2, AddFields DEF ListsInv
  <2>4. /\ IsMap(n) /\ n.st = a.st /\ n.data = a.data /\ n.timer = a.timer /\ n.pos = a.pos
        /\ n.by = a.by /\ n.view = a.view /\ n.removing = a.removing
        /\ n.active = a.active \cup {o} /\ a.odd \cup {HomeGrid(o)} \subseteq n.odd
        /\ n.lock = IF a.st[HomeGrid(o)] # "none"
                    THEN [a.lock EXCEPT ![HomeGrid(o)] = @ + 1] ELSE a.lock
    <3>1. n = [l EXCEPT !.odd = @ \cup {HomeGrid(o)}]
      BY <1>2, <1>8
    <3>2. IsMap(l)
      BY <2>3 DEF Added
    <3>3. IsRecord(n)
      BY <3>1, <3>2, Zenon DEF IsRecord, IsMap
    <3>4. /\ IsMap(n) /\ n.st = l.st /\ n.data = l.data /\ n.timer = l.timer /\ n.pos = l.pos
          /\ n.by = l.by /\ n.view = l.view /\ n.removing = l.removing
          /\ n.active = l.active /\ n.odd = l.odd \cup {HomeGrid(o)} /\ n.lock = l.lock
      BY <1>6, <3>1, <3>2, <3>3, SMTT(30) DEF IsMap, Fields
    <3> QED
      BY <1>6, <2>3, <3>4 DEF Added, SameGround
  <2>5. CountInv(n)
    <3> SUFFICES ASSUME NEW g \in Grids
                 PROVE  /\ n.st[g] = "none" => n.lock[g] = 0
                        /\ g \notin n.odd => n.lock[g] = Cardinality(ActiveOf(n, g))
      BY DEF CountInv
    <3>1. /\ a.st[g] = "none" => a.lock[g] = 0
          /\ g \notin a.odd => a.lock[g] = Cardinality(ActiveOf(a, g))
      BY <2>2 DEF ListsInv, CountInv
    <3>2. a.lock \in [Grids -> Nat]
      BY <2>2 DEF ListsInv, IsMap
    <3>3. n.st[g] = "none" => n.lock[g] = a.lock[g]
      BY <2>4, <3>2
    <3>4. g \notin n.odd => g \notin a.odd /\ g # HomeGrid(o) /\ n.lock[g] = a.lock[g]
      BY <2>4, <3>2
    <3>5. g # HomeGrid(o) => ActiveOf(n, g) = ActiveOf(a, g)
      BY <2>4 DEF ActiveOf
    <3> QED
      BY <2>4, <3>1, <3>3, <3>4, <3>5
  <2>6. ActiveInv(n)
    BY <2>2, <2>4 DEF ListsInv, ActiveInv, IsActive, Watched
  <2>7. OffMapInv(n) /\ ViewInv(n)
    BY <2>2, <2>4 DEF ListsInv, OffMapInv, ViewInv, InWorld, OnMap
  <2>8. MadeAs(m, c, o, n)
    <3>1. k.by \in [Copies -> SUBSET Reasons]
      BY <1>5 DEF MadeAs, ListsInv, IsMap
    <3>2. \A x \in Copies : x # o => n.by[x] = m.by[x] /\ (x \in n.active <=> x \in m.active)
      BY <1>5, <2>2, <2>4, <3>1 DEF MadeAs
    <3> QED
      BY <1>5, <2>2, <2>4, <2>5, <2>6, <2>7, <3>2 DEF MadeAs, ListsInv, SameGrids, SameGround
  <2> QED
    BY <1>1, <2>8
<1> QED
  BY <1>7, <1>8

\* Finitely many creatures spawn in a grid.
LEMMA SpawnedInGrid ==
  ASSUME NEW g, spawned \subseteq Creatures
  PROVE  SpawnedIn(g) \in SUBSET Creatures /\ IsFiniteSet(SpawnedIn(g))
<1>1. SpawnedIn(g) \in SUBSET Creatures
  BY DEF SpawnedIn
<1> QED
  BY <1>1, GridConstants, FS_Subset

\* A copy of the creature is in the world, at home.
IsHome(m, c) == \E o \in Copies : o[1] = c /\ InWorld(m, o) /\ GridOf(m.pos[o]) = GridOf(Home[c])

\* What is new on the map is in the grid g, where it spawned.
NewIn(m, n, g) == \A x \in Objects :
    OnMap(n, x) /\ ~OnMap(m, x) => x \in Copies /\ HomeGrid(x) = g /\ GridOf(n.pos[x]) = g

\* The objects of a grid are made: those of the creatures in s, so far.
ObjectsMade(m, g, s, n) ==
    /\ ListsInv(n) /\ SameGrids(m, n) /\ Grown(m, n)
    /\ NewIn(m, n, g)
    /\ \A c \in s : IsHome(n, c)
    /\ \A c \in Creatures : c \notin s => FreeCopies(m, c) \subseteq FreeCopies(n, c)

\* One more object is made.
LEMMA NextObjectMade ==
  ASSUME NEW m, ListsInv(m), NEW g, NEW s, NEW c \in Creatures, c \in s, GridOf(Home[c]) = g,
         FreeCopies(m, c) # {}, NEW k, ObjectsMade(m, g, s \ {c}, k), NEW n, n = Make(k, c)
  PROVE  ObjectsMade(m, g, s, n)
<1>1. ListsInv(k) /\ FreeCopies(k, c) # {}
  BY DEF ObjectsMade
<1>2. PICK o \in FreeCopies(k, c) : MadeAs(k, c, o, n)
  BY <1>1, MakeEffect
<1>3. o \in Copies /\ o \in Objects /\ o[1] = c /\ ~OnMap(k, o) /\ o \notin Players
  BY Places DEF FreeCopies
<1>4. /\ ListsInv(n) /\ SameGrids(k, n) /\ n.view = k.view /\ n.removing = k.removing
      /\ n.pos = [k.pos EXCEPT ![o] = Home[c]]
      /\ \A x \in Copies : x # o => n.by[x] = k.by[x] /\ (x \in n.active <=> x \in k.active)
  BY <1>2 DEF MadeAs
<1>5. k.pos \in [Objects -> Cells \cup {Nowhere}] /\ Home[c] # Nowhere
  BY <1>1, GridConstants DEF ListsInv, IsMap
<1>6. Grown(k, n)
  BY <1>3, <1>4, <1>5, Places DEF Grown, SameGrids, OnMap
<1>7. Grown(m, n) /\ SameGrids(m, n)
  BY <1>4, <1>6, GrownTwice DEF ObjectsMade, SameGrids
<1>8. ASSUME NEW x \in Objects, OnMap(n, x), ~OnMap(m, x)
      PROVE  x \in Copies /\ HomeGrid(x) = g /\ GridOf(n.pos[x]) = g
  <2>1. HomeGrid(o) = g
    BY <1>3 DEF HomeGrid
  <2> QED
    BY <1>3, <1>4, <1>5, <1>8, <2>1 DEF ObjectsMade, NewIn, OnMap
<1>9. IsHome(n, c)
  <2>1. n.pos[o] = Home[c]
    BY <1>3, <1>4, <1>5
  <2>2. o \notin k.removing
    BY <1>1, <1>3 DEF ListsInv, OffMapInv
  <2> QED
    BY <1>3, <1>4, <1>5, <2>1, <2>2 DEF IsHome, InWorld, OnMap
<1>10. ASSUME NEW d \in s, d # c PROVE IsHome(n, d)
  <2>1. PICK x \in Copies : x[1] = d /\ InWorld(k, x) /\ GridOf(k.pos[x]) = GridOf(Home[d])
    BY <1>10 DEF ObjectsMade, IsHome
  <2>2. x \in Objects /\ OnMap(k, x)
    BY <2>1, Places DEF InWorld
  <2>3. n.pos[x] = k.pos[x]
    BY <1>3, <1>4, <1>5, <2>2
  <2> QED
    BY <1>4, <2>1, <2>2, <2>3 DEF IsHome, InWorld, OnMap
<1>11. ASSUME NEW d \in Creatures, d \notin s PROVE FreeCopies(m, d) \subseteq FreeCopies(n, d)
  <2>1. FreeCopies(m, d) \subseteq FreeCopies(k, d)
    BY <1>11 DEF ObjectsMade
  <2>2. ASSUME NEW x \in FreeCopies(k, d) PROVE x \in FreeCopies(n, d)
    <3>1. x \in Copies /\ x[1] = d /\ x # o /\ x \in Objects /\ ~OnMap(k, x) /\ x \notin k.active
      BY <1>3, <1>11, Places DEF FreeCopies
    <3>2. ~OnMap(n, x) /\ x \notin n.active
      BY <1>3, <1>4, <1>5, <3>1 DEF OnMap
    <3> QED
      BY <3>1, <3>2 DEF FreeCopies
  <2> QED
    BY <2>1, <2>2
<1> QED
  BY <1>4, <1>7, <1>8, <1>9, <1>10, <1>11 DEF ObjectsMade, NewIn

\* The objects of a grid are made.
LEMMA ObjectsLoadedEffect ==
  ASSUME NEW m, ListsInv(m), NEW g, spawned \subseteq Creatures,
         \A c \in SpawnedIn(g) : FreeCopies(m, c) # {}, NEW n, n = ObjectsLoaded(m, g)
  PROVE  ObjectsMade(m, g, SpawnedIn(g), n)
<1> DEFINE S == SpawnedIn(g)
           I == [s \in SUBSET S |-> {n1 \in Maps : ObjectsMade(m, g, s, n1)}]
<1>1. IsFiniteSet(S) /\ S \in SUBSET Creatures
  BY SpawnedInGrid
<1>2. m \in I[{}]
  <2>1. ObjectsMade(m, g, {}, m)
    BY DEF ObjectsMade, NewIn, SameGrids, Grown
  <2>2. m \in Maps
    BY MapsAreASet DEF ListsInv
  <2> QED
    BY <2>1, <2>2
<1>3. ASSUME NEW s \in SUBSET S, NEW x \in s, NEW n1 \in I[s \ {x}]
      PROVE  Make(n1, x) \in I[s]
  <2>1. ObjectsMade(m, g, s \ {x}, n1)
    OBVIOUS
  <2>2. x \in Creatures /\ GridOf(Home[x]) = g /\ FreeCopies(m, x) # {}
    BY <1>1 DEF SpawnedIn
  <2> DEFINE n2 == Make(n1, x)
  <2>3. n2 = Make(n1, x)
    OBVIOUS
  <2> HIDE DEF n2
  <2>4. ObjectsMade(m, g, s, n2)
    BY <2>1, <2>2, <2>3, NextObjectMade
  <2>5. n2 \in Maps
    BY <2>4, MapsAreASet DEF ObjectsMade, ListsInv
  <2>6. n2 \in I[s]
    BY <2>4, <2>5
  <2> QED
    BY <2>6 DEF n2
<1> HIDE DEF I
<1>4. n \in I[S]
  BY <1>1, <1>2, <1>3, ObjectsLoadedFold DEF S
<1> QED
  BY <1>4 DEF I

\* Map::EnsureGridCreated.
LEMMA CreatedEffect ==
  ASSUME NEW m, ListsInv(m), NEW g \in Grids, NEW n, n = EnsureGridCreated(m, g)
  PROVE  /\ ListsInv(n) /\ Grown(m, n) /\ n.pos = m.pos /\ n.data = m.data /\ n.active = m.active
         /\ n.st[g] # "none" /\ \A h \in Grids : h # g => n.st[h] = m.st[h]
<1>1. IsMap(m) /\ CountInv(m) /\ m.st \in [Grids -> {"none", "idle", "active", "removal"}]
      /\ m.lock \in [Grids -> Nat]
  BY DEF ListsInv, IsMap
<1>2. CASE m.st[g] # "none"
  BY <1>2 DEF EnsureGridCreated, Grown
<1>3. CASE m.st[g] = "none"
  <2>1. n = [m EXCEPT !.st[g] = "idle", !.timer[g] = Expiry, !.lock[g] = 0]
    BY <1>3 DEF EnsureGridCreated
  <2>2. Expiry \in 0 .. Expiry
    BY GridConstants
  <2>3. /\ IsMap(n) /\ n.pos = m.pos /\ n.data = m.data /\ n.active = m.active /\ n.by = m.by
        /\ n.view = m.view /\ n.removing = m.removing /\ n.odd = m.odd
        /\ n.st = [m.st EXCEPT ![g] = "idle"] /\ n.lock = [m.lock EXCEPT ![g] = 0]
    <3>1. IsRecord(n)
      BY <1>1, <2>1, Zenon DEF IsRecord, IsMap
    <3> QED
      BY <1>1, <2>1, <2>2, <3>1, SMTT(30) DEF IsMap, Fields
  <2>4. n.lock = m.lock
    BY <1>1, <1>3, <2>3 DEF CountInv
  <2>5. CountInv(n)
    BY <1>1, <2>3, <2>4 DEF CountInv, ActiveOf
  <2>6. ActiveInv(n) /\ OffMapInv(n) /\ ViewInv(n)
    BY <2>3 DEF ListsInv, ActiveInv, OffMapInv, ViewInv, IsActive, Watched, InWorld, OnMap
  <2>7. Grown(m, n)
    BY <1>1, <1>3, <2>3 DEF Grown
  <2> QED
    BY <1>1, <2>3, <2>5, <2>6, <2>7 DEF ListsInv
<1> QED
  BY <1>2, <1>3

\* The grid g is loaded.
LoadedAs(m, g, n) ==
    /\ ListsInv(n) /\ Grown(m, n) /\ n.data = [m.data EXCEPT ![g] = TRUE] /\ n.st[g] # "none"
    /\ \A h \in Grids : h # g => n.st[h] = m.st[h]
    /\ NewIn(m, n, g)
    /\ ~m.data[g] => \A c \in SpawnedIn(g) : IsHome(n, c)
    /\ \A c \in Creatures : c \notin SpawnedIn(g) => FreeCopies(m, c) \subseteq FreeCopies(n, c)

RoomIn(m, g) == ~m.data[g] => \A c \in SpawnedIn(g) : FreeCopies(m, c) # {}

\* Map::EnsureGridLoaded.
LEMMA LoadedEffect ==
  ASSUME NEW m, ListsInv(m), NEW g \in Grids, spawned \subseteq Creatures, RoomIn(m, g),
         NEW n, n = EnsureGridLoaded(m, g)
  PROVE  LoadedAs(m, g, n)
<1> DEFINE k == EnsureGridCreated(m, g)
           l == ObjectsLoaded(k, g)
<1>1. n = IF k.data[g] THEN k ELSE [l EXCEPT !.data[g] = TRUE]
  BY Zenon DEF EnsureGridLoaded
<1>2. k = EnsureGridCreated(m, g) /\ l = ObjectsLoaded(k, g)
  OBVIOUS
<1> HIDE DEF k, l
<1>3. /\ ListsInv(k) /\ Grown(m, k) /\ k.pos = m.pos /\ k.data = m.data /\ k.active = m.active
      /\ k.st[g] # "none" /\ \A h \in Grids : h # g => k.st[h] = m.st[h]
  BY <1>2, CreatedEffect
<1>4. \A c : FreeCopies(k, c) = FreeCopies(m, c)
  BY <1>3 DEF FreeCopies, OnMap
<1>5. m.data \in [Grids -> BOOLEAN]
  BY DEF ListsInv, IsMap
<1>6. CASE m.data[g]
  <2>1. n = k /\ n.data = [m.data EXCEPT ![g] = TRUE]
    BY <1>1, <1>3, <1>5, <1>6
  <2> QED
    BY <1>3, <1>4, <1>6, <2>1 DEF LoadedAs, NewIn, OnMap
<1>7. CASE ~m.data[g]
  <2>1. n = [l EXCEPT !.data[g] = TRUE]
    BY <1>1, <1>3, <1>7
  <2>2. \A c \in SpawnedIn(g) : FreeCopies(k, c) # {}
    BY <1>4, <1>7 DEF RoomIn
  <2>3. ObjectsMade(k, g, SpawnedIn(g), l)
    BY <1>2, <1>3, <2>2, ObjectsLoadedEffect
  <2>4. ListsInv(l) /\ SameGrids(k, l) /\ Grown(k, l)
    BY <2>3 DEF ObjectsMade
  <2>5. /\ IsMap(n) /\ n.st = l.st /\ n.pos = l.pos /\ n.active = l.active /\ n.by = l.by
        /\ n.view = l.view /\ n.removing = l.removing /\ n.odd = l.odd /\ n.lock = l.lock
        /\ n.data = [l.data EXCEPT ![g] = TRUE]
    <3>1. IsMap(l)
      BY <2>4 DEF ListsInv
    <3>2. IsRecord(n)
      BY <2>1, <3>1, Zenon DEF IsRecord, IsMap
    <3> QED
      BY <2>1, <3>1, <3>2, SMTT(30) DEF IsMap, Fields
  <2>6. ListsInv(n)
    <3>1. CountInv(n)
      BY <2>4, <2>5 DEF ListsInv, CountInv, ActiveOf
    <3>2. ActiveInv(n)
      BY <2>4, <2>5 DEF ListsInv, ActiveInv, IsActive, Watched
    <3>3. OffMapInv(n) /\ ViewInv(n)
      BY <2>4, <2>5 DEF ListsInv, OffMapInv, ViewInv, InWorld, OnMap
    <3> QED
      BY <2>5, <3>1, <3>2, <3>3 DEF ListsInv
  <2>7. Grown(l, n)
    <3>1. l.data \in [Grids -> BOOLEAN]
      BY <2>4 DEF ListsInv, IsMap
    <3> QED
      BY <2>5, <3>1 DEF Grown
  <2>8. Grown(m, n)
    BY <1>3, <2>4, <2>7, GrownTwice
  <2>9. n.data = [m.data EXCEPT ![g] = TRUE] /\ n.st[g] # "none"
        /\ \A h \in Grids : h # g => n.st[h] = m.st[h]
    BY <1>3, <2>4, <2>5 DEF SameGrids
  <2>10. /\ NewIn(m, n, g)
         /\ \A c \in Creatures : c \notin SpawnedIn(g) => FreeCopies(m, c) \subseteq FreeCopies(n, c)
    BY <1>3, <1>4, <2>3, <2>5 DEF ObjectsMade, NewIn, OnMap, FreeCopies
  <2>11. \A c \in SpawnedIn(g) : IsHome(n, c)
    BY <2>3, <2>5 DEF ObjectsMade, IsHome, InWorld, OnMap
  <2> QED
    BY <2>6, <2>8, <2>9, <2>10, <2>11 DEF LoadedAs
<1> QED
  BY <1>6, <1>7

\* Map::EnsureGridLoadedAtEnter.
LEMMA EnteredEffect ==
  ASSUME NEW m, ListsInv(m), NEW g \in Grids, spawned \subseteq Creatures, RoomIn(m, g),
         NEW n, n = EnsureGridLoadedAtEnter(m, g)
  PROVE  LoadedAs(m, g, n) /\ n.st[g] = "active"
<1> DEFINE k == EnsureGridLoaded(m, g)
<1>1. n = IF k.st[g] = "active" THEN k ELSE [k EXCEPT !.st[g] = "active", !.timer[g] = Short]
  BY Zenon DEF EnsureGridLoadedAtEnter
<1>2. k = EnsureGridLoaded(m, g)
  OBVIOUS
<1> HIDE DEF k
<1>3. LoadedAs(m, g, k)
  BY <1>2, LoadedEffect
<1>4. CASE k.st[g] = "active"
  BY <1>1, <1>3, <1>4
<1>5. CASE k.st[g] # "active"
  <2>1. ListsInv(k) /\ IsMap(k) /\ k.st \in [Grids -> {"none", "idle", "active", "removal"}]
    BY <1>3 DEF LoadedAs, ListsInv, IsMap
  <2>2. Short \in 0 .. Expiry
    BY GridConstants
  <2>3. /\ IsMap(n) /\ n.pos = k.pos /\ n.data = k.data /\ n.active = k.active /\ n.by = k.by
        /\ n.view = k.view /\ n.removing = k.removing /\ n.odd = k.odd /\ n.lock = k.lock
        /\ n.st = [k.st EXCEPT ![g] = "active"]
    <3>1. n = [k EXCEPT !.st[g] = "active", !.timer[g] = Short]
      BY <1>1, <1>5
    <3>2. IsRecord(n)
      BY <2>1, <3>1, Zenon DEF IsRecord, IsMap
    <3> QED
      BY <2>1, <2>2, <3>1, <3>2, SMTT(30) DEF IsMap, Fields
  <2>4. CountInv(n)
    BY <1>3, <2>1, <2>3 DEF ListsInv, CountInv, ActiveOf, LoadedAs
  <2>5. ActiveInv(n) /\ OffMapInv(n) /\ ViewInv(n)
    BY <2>1, <2>3 DEF ListsInv, ActiveInv, OffMapInv, ViewInv, IsActive, Watched, InWorld, OnMap
  <2>6. Grown(k, n)
    BY <2>1, <2>3 DEF Grown
  <2>7. Grown(m, n)
    BY <1>3, <2>6, GrownTwice DEF LoadedAs
  <2>8. /\ NewIn(m, n, g)
        /\ \A c \in Creatures : c \notin SpawnedIn(g) => FreeCopies(m, c) \subseteq FreeCopies(n, c)
    BY <1>3, <2>3 DEF LoadedAs, NewIn, OnMap, FreeCopies
  <2>9. ~m.data[g] => \A c \in SpawnedIn(g) : IsHome(n, c)
    BY <1>3, <2>3 DEF LoadedAs, IsHome, InWorld, OnMap
  <2>10. /\ n.data = [m.data EXCEPT ![g] = TRUE] /\ n.st[g] = "active"
         /\ \A h \in Grids : h # g => n.st[h] = m.st[h]
    BY <1>3, <2>1, <2>3 DEF LoadedAs
  <2> QED
    BY <2>3, <2>4, <2>5, <2>7, <2>8, <2>9, <2>10 DEF LoadedAs, ListsInv
<1> QED
  BY <1>4, <1>5

----------------------------------------------------------------------------
(* Who is where.                                                           *)

\* Objects are in loaded grids, those of players are active, and the creatures
\* of a loaded grid exist.
PlacesInv(m) ==
    /\ \A p \in Players : OnMap(m, p) => m.st[GridOf(m.pos[p])] = "active"
    /\ \A x \in Objects : OnMap(m, x) => m.data[GridOf(m.pos[x])]
    /\ \A c \in spawned : m.data[GridOf(Home[c])] => \E o \in Copies : o[1] = c /\ InWorld(m, o)

\* Who is on the map is in a grid.
LEMMA WhereItIs ==
  ASSUME NEW m, IsMap(m), NEW x \in Objects, OnMap(m, x)
  PROVE  m.pos[x] \in Cells /\ GridOf(m.pos[x]) \in Grids
BY Places DEF IsMap, OnMap

\* Everybody stays in place when a grid is loaded.
LEMMA LoadedPlaces ==
  ASSUME NEW m, ListsInv(m), PlacesInv(m), spawned \subseteq Creatures, NEW g \in Grids,
         NEW n, LoadedAs(m, g, n)
  PROVE  PlacesInv(n)
<1>1. IsMap(m) /\ Grown(m, n) /\ n.data = [m.data EXCEPT ![g] = TRUE] /\ m.data \in [Grids -> BOOLEAN]
  BY DEF ListsInv, LoadedAs, IsMap
<1>2. ASSUME NEW p \in Players, OnMap(n, p) PROVE n.st[GridOf(n.pos[p])] = "active"
  <2>1. p \in Objects /\ n.pos[p] = m.pos[p] /\ OnMap(m, p)
    BY <1>1, <1>2, Places DEF Grown, OnMap
  <2>2. GridOf(m.pos[p]) \in Grids /\ m.st[GridOf(m.pos[p])] = "active"
    BY <1>1, <2>1, WhereItIs DEF PlacesInv
  <2> QED
    BY <1>1, <2>1, <2>2 DEF Grown
<1>3. ASSUME NEW x \in Objects, OnMap(n, x) PROVE n.data[GridOf(n.pos[x])]
  <2>1. CASE OnMap(m, x)
    <3>1. n.pos[x] = m.pos[x] /\ GridOf(m.pos[x]) \in Grids /\ m.data[GridOf(m.pos[x])]
      BY <1>1, <2>1, WhereItIs DEF PlacesInv, Grown
    <3> QED
      BY <1>1, <3>1
  <2>2. CASE ~OnMap(m, x)
    <3>1. GridOf(n.pos[x]) = g
      BY <1>3, <2>2 DEF LoadedAs, NewIn
    <3> QED
      BY <1>1, <3>1
  <2> QED
    BY <2>1, <2>2
<1>4. ASSUME NEW c \in spawned, n.data[GridOf(Home[c])]
      PROVE  \E o \in Copies : o[1] = c /\ InWorld(n, o)
  <2>1. GridOf(Home[c]) \in Grids
    BY GridConstants, Places
  <2>2. CASE m.data[GridOf(Home[c])]
    <3>1. PICK o \in Copies : o[1] = c /\ InWorld(m, o)
      BY <2>2 DEF PlacesInv
    <3>2. InWorld(n, o)
      BY <1>1, <3>1, Places DEF Grown, InWorld, OnMap
    <3> QED
      BY <3>1, <3>2
  <2>3. CASE ~m.data[GridOf(Home[c])]
    <3>1. GridOf(Home[c]) = g /\ c \in SpawnedIn(g)
      BY <1>1, <1>4, <2>1, <2>3 DEF SpawnedIn
    <3> QED
      BY <2>3, <3>1 DEF LoadedAs, IsHome
  <2> QED
    BY <2>2, <2>3
<1> QED
  BY <1>2, <1>3, <1>4 DEF PlacesInv

\* A step of the lists leaves everybody in place.
LEMMA GroundPlaces ==
  ASSUME NEW m, PlacesInv(m), NEW n, SameGround(m, n), n.removing = m.removing
  PROVE  PlacesInv(n)
BY DEF PlacesInv, SameGround, OnMap, InWorld

----------------------------------------------------------------------------
(* The moves.                                                              *)

\* An object gets another position, or comes to the map.
Repositioned(m, x, cell, n) == n = [m EXCEPT !.pos[x] = cell]

\* What a change of a position leaves alone.
LEMMA PosFields ==
  ASSUME NEW m, IsMap(m), NEW x \in Objects, NEW cell \in Cells \cup {Nowhere},
         NEW n, Repositioned(m, x, cell, n)
  PROVE  /\ IsMap(n) /\ SameGrids(m, n) /\ n.pos = [m.pos EXCEPT ![x] = cell] /\ n.by = m.by
         /\ n.view = m.view /\ n.active = m.active /\ n.lock = m.lock /\ n.removing = m.removing
         /\ n.odd = m.odd
<1>1. n = [m EXCEPT !.pos[x] = cell]
  BY DEF Repositioned
<1>2. IsRecord(n)
  BY <1>1, Zenon DEF IsRecord, IsMap
<1> QED
  BY <1>1, <1>2, SMTT(30) DEF IsMap, Fields, SameGrids

\* The lists do not depend on where the objects are.
LEMMA PosLists ==
  ASSUME NEW m, ListsInv(m), NEW x \in Objects, NEW cell \in Cells, NEW n, Repositioned(m, x, cell, n)
  PROVE  ListsInv(n)
<1>1. IsMap(m) /\ CountInv(m) /\ ActiveInv(m) /\ OffMapInv(m) /\ ViewInv(m)
  BY DEF ListsInv
<1>2. /\ IsMap(n) /\ SameGrids(m, n) /\ n.pos = [m.pos EXCEPT ![x] = cell] /\ n.by = m.by
      /\ n.view = m.view /\ n.active = m.active /\ n.lock = m.lock /\ n.removing = m.removing
      /\ n.odd = m.odd
  BY <1>1, PosFields
<1>3. \A y \in Objects : OnMap(m, y) => OnMap(n, y)
  BY <1>1, <1>2, Places DEF OnMap, IsMap
<1>4. CountInv(n)
  BY <1>1, <1>2 DEF CountInv, ActiveOf, SameGrids
<1>5. ActiveInv(n)
  BY <1>1, <1>2 DEF ActiveInv, IsActive, Watched
<1>6. OffMapInv(n)
  BY <1>1, <1>2, <1>3, Places DEF OffMapInv
<1>7. ViewInv(n)
  BY <1>1, <1>2, <1>3, Places DEF ViewInv, InWorld
<1> QED
  BY <1>2, <1>4, <1>5, <1>6, <1>7 DEF ListsInv

MapInv(m) == ListsInv(m) /\ PlacesInv(m)

\* An object moves to a cell of a loaded grid; a player's is active.
LEMMA PosPlaces ==
  ASSUME NEW m, MapInv(m), spawned \subseteq Creatures, NEW x \in Objects, NEW cell \in Cells,
         m.data[GridOf(cell)], x \in Players => m.st[GridOf(cell)] = "active",
         NEW n, Repositioned(m, x, cell, n)
  PROVE  MapInv(n) /\ n.pos[x] = cell
<1>1. IsMap(m) /\ ListsInv(m) /\ PlacesInv(m)
  BY DEF MapInv, ListsInv
<1>2. /\ IsMap(n) /\ SameGrids(m, n) /\ n.pos = [m.pos EXCEPT ![x] = cell] /\ n.removing = m.removing
  BY <1>1, PosFields
<1>3. \A y \in Objects : n.pos[y] = IF y = x THEN cell ELSE m.pos[y]
  BY <1>1, <1>2 DEF IsMap
<1>4. \A p \in Players : OnMap(n, p) => n.st[GridOf(n.pos[p])] = "active"
  BY <1>1, <1>2, <1>3, Places DEF PlacesInv, OnMap, SameGrids
<1>5. \A y \in Objects : OnMap(n, y) => n.data[GridOf(n.pos[y])]
  BY <1>1, <1>2, <1>3 DEF PlacesInv, OnMap, SameGrids
<1>6. \A o \in Copies : InWorld(m, o) => InWorld(n, o)
  BY <1>2, <1>3, Places DEF InWorld, OnMap
<1>7. \A c \in spawned : n.data[GridOf(Home[c])] => \E o \in Copies : o[1] = c /\ InWorld(n, o)
  BY <1>1, <1>2, <1>6 DEF PlacesInv, SameGrids
<1>8. PlacesInv(n)
  BY <1>4, <1>5, <1>7 DEF PlacesInv
<1> QED
  BY <1>1, <1>3, <1>8, PosLists DEF MapInv

\* A creature moves to a cell, whose grid may be loaded for it.
MovedTo(m, o, cell, n) ==
    /\ MapInv(n) /\ n.pos[o] = cell
    /\ n.view = m.view /\ n.removing = m.removing /\ m.odd \subseteq n.odd
    /\ \A x \in Objects : x # o /\ OnMap(m, x) => n.pos[x] = m.pos[x]
    /\ \A p \in Players : n.pos[p] = m.pos[p]
    /\ \A x \in Copies : OnMap(m, x) => n.by[x] = m.by[x]
    /\ \A h \in Grids : /\ n.data[h] <=> m.data[h] \/ h = GridOf(cell)
                        /\ m.st[h] # "none" => n.st[h] # "none"
    /\ NewIn(m, n, GridOf(cell))
    /\ \A c \in Creatures : c \notin SpawnedIn(GridOf(cell)) => FreeCopies(m, c) \subseteq FreeCopies(n, c)
    /\ ~m.data[GridOf(cell)] => \A c \in SpawnedIn(GridOf(cell)) : IsHome(n, c)

\* Map::CreatureCellRelocation.
LEMMA RelocatedEffect ==
  ASSUME NEW m, MapInv(m), spawned \subseteq Creatures, NEW o \in Copies, OnMap(m, o),
         NEW cell \in Cells, CanRelocate(m, o, cell), RoomIn(m, GridOf(cell)),
         NEW n, n = CreatureCellRelocation(m, o, cell)
  PROVE  MovedTo(m, o, cell, n)
<1> DEFINE g == GridOf(cell)
           k == IF g # GridOf(m.pos[o]) /\ IsActive(m, o) THEN EnsureGridLoadedAtEnter(m, g) ELSE m
<1>1. Repositioned(k, o, cell, n)
  BY Zenon DEF CreatureCellRelocation, Repositioned
<1>2. IsMap(m) /\ ListsInv(m) /\ PlacesInv(m) /\ g \in Grids /\ o \in Objects /\ o \notin Players
  BY Places DEF MapInv, ListsInv
<1>3. m.data \in [Grids -> BOOLEAN]
  BY <1>2 DEF IsMap
<1>4. m.data[GridOf(m.pos[o])]
  BY <1>2 DEF PlacesInv
\* What the loading of the grid does, if it is loaded.
<1> DEFINE Before == /\ MapInv(k) /\ Grown(m, k)
                     /\ \A h \in Grids : k.data[h] <=> m.data[h] \/ h = g
                     /\ NewIn(m, k, g)
                     /\ ~m.data[g] => \A c \in SpawnedIn(g) : IsHome(k, c)
                     /\ \A c \in Creatures : c \notin SpawnedIn(g) => FreeCopies(m, c) \subseteq FreeCopies(k, c)
                     /\ g # GridOf(m.pos[o]) \/ m.data[g]
<1>5. Before
  <2>1. CASE g # GridOf(m.pos[o]) /\ IsActive(m, o)
    <3>1. k = EnsureGridLoadedAtEnter(m, g)
      BY <2>1
    <3> HIDE DEF k, g
    <3>2. LoadedAs(m, g, k)
      BY <1>2, <3>1, EnteredEffect DEF g
    <3>3. PlacesInv(k)
      BY <1>2, <3>2, LoadedPlaces
    <3> QED
      BY <1>3, <2>1, <3>2, <3>3 DEF LoadedAs, MapInv
  <2>2. CASE ~(g # GridOf(m.pos[o]) /\ IsActive(m, o))
    <3>1. k = m
      BY <2>2
    <3>2. m.data[g]
      BY <1>4, <2>2 DEF CanRelocate, IsLoaded
    <3> HIDE DEF k, g
    <3>3. Grown(m, k) /\ NewIn(m, k, g)
      BY <3>1 DEF Grown, NewIn
    <3> QED
      BY <3>1, <3>2, <3>3
  <2> QED
    BY <2>1, <2>2
<1> HIDE DEF k
<1>6. k.data[g]
  BY <1>2, <1>5
<1>7. MapInv(n) /\ n.pos[o] = cell
  BY <1>1, <1>2, <1>5, <1>6, PosPlaces
<1>8. IsMap(k)
  BY <1>5 DEF MapInv, ListsInv
<1>9. /\ SameGrids(k, n) /\ n.pos = [k.pos EXCEPT ![o] = cell] /\ n.by = k.by
      /\ n.view = k.view /\ n.active = k.active /\ n.removing = k.removing /\ n.odd = k.odd
  BY <1>1, <1>2, <1>8, PosFields
<1>10. \A x \in Objects : n.pos[x] = IF x = o THEN cell ELSE k.pos[x]
  BY <1>8, <1>9 DEF IsMap
<1>11. OnMap(k, o) /\ k.pos[o] = m.pos[o]
  BY <1>2, <1>5 DEF Grown, OnMap
<1>12. \A x \in Objects : OnMap(n, x) <=> OnMap(k, x)
  BY <1>10, <1>11, Places DEF OnMap
<1>13. /\ n.view = m.view /\ n.removing = m.removing /\ m.odd \subseteq n.odd
       /\ \A x \in Objects : x # o /\ OnMap(m, x) => n.pos[x] = m.pos[x]
       /\ \A p \in Players : n.pos[p] = m.pos[p]
       /\ \A x \in Copies : OnMap(m, x) => n.by[x] = m.by[x]
       /\ \A h \in Grids : /\ n.data[h] <=> m.data[h] \/ h = g
                           /\ m.st[h] # "none" => n.st[h] # "none"
  BY <1>2, <1>5, <1>9, <1>10, Places DEF Grown, SameGrids
<1>14. NewIn(m, n, g)
  <2> SUFFICES ASSUME NEW x \in Objects, OnMap(n, x), ~OnMap(m, x)
               PROVE  x \in Copies /\ HomeGrid(x) = g /\ GridOf(n.pos[x]) = g
    BY DEF NewIn
  <2>1. x # o /\ OnMap(k, x) /\ n.pos[x] = k.pos[x]
    BY <1>10, <1>12
  <2> QED
    BY <1>5, <2>1 DEF NewIn
<1>15. ASSUME NEW c \in Creatures PROVE FreeCopies(n, c) = FreeCopies(k, c)
  BY <1>9, <1>12, Places DEF FreeCopies
<1>16. ASSUME ~m.data[g], NEW c \in SpawnedIn(g) PROVE IsHome(n, c)
  <2>1. PICK x \in Copies : x[1] = c /\ InWorld(k, x) /\ GridOf(k.pos[x]) = GridOf(Home[c])
    BY <1>5, <1>16 DEF IsHome
  <2>2. GridOf(Home[c]) = g
    BY DEF SpawnedIn
  <2>3. InWorld(n, x) /\ GridOf(n.pos[x]) = g
    BY <1>9, <1>10, <1>12, <2>1, <2>2, Places DEF InWorld
  <2> QED
    BY <2>1, <2>2, <2>3 DEF IsHome
<1> QED
  BY <1>5, <1>7, <1>13, <1>14, <1>15, <1>16 DEF MovedTo

\* A creature is sent home: it is there, or it stays because its grid is not loaded
\* and it is not active, no longer.
RespawnedAs(m, o, n) ==
    /\ MapInv(n)
    /\ n.view = m.view /\ n.removing = m.removing /\ m.odd \subseteq n.odd
    /\ \A x \in Objects : x # o /\ OnMap(m, x) => n.pos[x] = m.pos[x]
    /\ \A p \in Players : n.pos[p] = m.pos[p]
    /\ \A x \in Copies : OnMap(m, x) /\ IsActive(n, x) => IsActive(m, x)
    /\ \A h \in Grids : /\ m.data[h] => n.data[h]
                        /\ n.data[h] => m.data[h] \/ h = HomeGrid(o)
                        /\ m.st[h] # "none" => n.st[h] # "none"
    /\ NewIn(m, n, HomeGrid(o))
    /\ \A c \in Creatures : ~n.data[GridOf(Home[c])] => FreeCopies(m, c) \subseteq FreeCopies(n, c)
    /\ ~m.data[HomeGrid(o)] /\ n.data[HomeGrid(o)] => \A c \in SpawnedIn(HomeGrid(o)) : IsHome(n, c)
    /\ \/ n.pos[o] = Home[o[1]]
       \/ /\ n.pos[o] = m.pos[o] /\ ~IsActive(n, o) /\ ~n.data[HomeGrid(o)]
          /\ GridOf(m.pos[o]) # HomeGrid(o)

\* Map::CreatureRespawnRelocation.
LEMMA RespawnedEffect ==
  ASSUME NEW m, MapInv(m), spawned \subseteq Creatures, NEW o \in Copies, OnMap(m, o),
         IsActive(m, o) => RoomIn(m, HomeGrid(o)), NEW n, n = CreatureRespawnRelocation(m, o)
  PROVE  RespawnedAs(m, o, n)
<1> DEFINE R == m.by[o] \ {"combat"}
           k == SetActiveBy(m, o, R)
           home == Home[o[1]]
           g == HomeGrid(o)
<1>1. n = IF CanRelocate(k, o, home) THEN CreatureCellRelocation(k, o, home) ELSE k
  BY Zenon DEF CreatureRespawnRelocation
<1>2. /\ IsMap(m) /\ ListsInv(m) /\ PlacesInv(m) /\ R \in SUBSET Reasons /\ o \in Objects
      /\ home \in Cells /\ g \in Grids /\ g = GridOf(home) /\ m.by \in [Copies -> SUBSET Reasons]
  BY Places DEF MapInv, ListsInv, IsMap, HomeGrid
<1>3. SetTo(m, o, R, k)
  <2>1. k = SetActiveBy(m, o, R)
    OBVIOUS
  <2> HIDE DEF k, R
  <2> QED
    BY <1>2, <2>1, SetActiveByEffect
<1> HIDE DEF k
<1>4. /\ ListsInv(k) /\ SameGround(m, k) /\ k.view = m.view /\ k.removing = m.removing
      /\ k.by = [m.by EXCEPT ![o] = R] /\ \A x \in Copies : x # o => (x \in k.active <=> x \in m.active)
  BY <1>3 DEF SetTo
<1>5. MapInv(k) /\ OnMap(k, o)
  BY <1>2, <1>4, GroundPlaces DEF MapInv, SameGround, OnMap
<1>6. /\ k.st = m.st /\ k.data = m.data /\ k.pos = m.pos /\ m.odd \subseteq k.odd
      /\ \A x : OnMap(k, x) <=> OnMap(m, x)
  BY <1>4 DEF SameGround, OnMap
<1>7. \A x \in Copies : IsActive(k, x) => IsActive(m, x)
  BY <1>2, <1>4 DEF IsActive, Watched
<1>8. \A c \in Creatures : FreeCopies(k, c) = FreeCopies(m, c)
  BY <1>4, <1>5, <1>6 DEF FreeCopies
<1>9. CASE CanRelocate(k, o, home)
  <2>1. n = CreatureCellRelocation(k, o, home)
    BY <1>1, <1>9
  <2>2. RoomIn(k, GridOf(home))
    <3>1. CASE IsActive(k, o)
      <4>1. RoomIn(m, GridOf(home))
        BY <1>2, <1>7, <3>1
      <4>2. SpawnedIn(GridOf(home)) \subseteq Creatures
        BY DEF SpawnedIn
      <4> QED
        BY <1>6, <1>8, <4>1, <4>2 DEF RoomIn
    <3>2. CASE k.data[GridOf(home)]
      BY <3>2 DEF RoomIn
    <3>3. CASE GridOf(home) = GridOf(k.pos[o])
      <4>1. k.data[GridOf(k.pos[o])]
        BY <1>2, <1>5 DEF MapInv, PlacesInv
      <4> QED
        BY <3>3, <4>1 DEF RoomIn
    <3> QED
      BY <1>9, <3>1, <3>2, <3>3 DEF CanRelocate, IsLoaded
  <2>3. MovedTo(k, o, home, n)
    <3> HIDE DEF home
    <3> QED
      BY <1>2, <1>5, <1>9, <2>1, <2>2, RelocatedEffect
  <2>4. n.data[g] /\ \A h \in Grids : n.data[h] <=> k.data[h] \/ h = g
    BY <1>2, <2>3 DEF MovedTo
  <2>5. \A x \in Copies : OnMap(m, x) /\ IsActive(n, x) => IsActive(m, x)
    <3>1. \A x \in Copies : OnMap(k, x) => n.by[x] = k.by[x]
      BY <2>3 DEF MovedTo
    <3>2. n.view = k.view
      BY <2>3 DEF MovedTo
    <3> QED
      BY <1>6, <1>7, <3>1, <3>2 DEF IsActive, Watched
  <2>6. \A c \in Creatures : ~n.data[GridOf(Home[c])] => FreeCopies(m, c) \subseteq FreeCopies(n, c)
    <3> SUFFICES ASSUME NEW c \in Creatures, ~n.data[GridOf(Home[c])]
                 PROVE  FreeCopies(m, c) \subseteq FreeCopies(n, c)
      OBVIOUS
    <3>1. c \notin SpawnedIn(GridOf(home))
      BY <1>2, <2>4 DEF SpawnedIn
    <3> QED
      BY <1>8, <2>3, <3>1 DEF MovedTo
  <2>7. NewIn(m, n, g)
    BY <1>2, <1>6, <2>3 DEF MovedTo, NewIn
  <2>8. ~m.data[g] => \A c \in SpawnedIn(g) : IsHome(n, c)
    BY <1>2, <1>6, <2>3 DEF MovedTo
  <2>9. /\ MapInv(n) /\ n.pos[o] = home
        /\ n.view = m.view /\ n.removing = m.removing /\ m.odd \subseteq n.odd
        /\ \A x \in Objects : x # o /\ OnMap(m, x) => n.pos[x] = m.pos[x]
        /\ \A p \in Players : n.pos[p] = m.pos[p]
        /\ \A h \in Grids : m.st[h] # "none" => n.st[h] # "none"
    BY <1>4, <1>6, <2>3 DEF MovedTo
  <2> QED
    BY <1>6, <2>4, <2>5, <2>6, <2>7, <2>8, <2>9 DEF RespawnedAs
<1>10. CASE ~CanRelocate(k, o, home)
  <2>1. n = k
    BY <1>1, <1>10
  <2>2. ~IsActive(n, o) /\ ~n.data[g] /\ GridOf(m.pos[o]) # g
    BY <1>2, <1>6, <1>10, <2>1 DEF CanRelocate, IsLoaded
  <2>3. NewIn(m, n, g)
    BY <1>6, <2>1 DEF NewIn
  <2> QED
    BY <1>4, <1>5, <1>6, <1>7, <1>8, <2>1, <2>2, <2>3 DEF RespawnedAs
<1> QED
  BY <1>9, <1>10

----------------------------------------------------------------------------
(* The unloading of a grid.                                                *)

\* There is a free object for each creature of a grid that is not loaded.
Room(m) == \A c \in spawned : ~m.data[GridOf(Home[c])] => FreeCopies(m, c) # {}

\* The strangers in s have been sent home, so far: a creature of another grid has
\* an object outside of g, or one that is still to be sent.
SentSoFar(m, g, s, n) ==
    /\ MapInv(n)
    /\ n.view = m.view /\ n.removing = m.removing /\ m.odd \subseteq n.odd
    /\ \A x \in Objects : OnMap(m, x) /\ x \notin s => n.pos[x] = m.pos[x]
    /\ \A p \in Players : n.pos[p] = m.pos[p]
    /\ \A x \in Copies : OnMap(m, x) /\ IsActive(n, x) => IsActive(m, x)
    /\ \A h \in Grids : (m.data[h] => n.data[h]) /\ (m.st[h] # "none" => n.st[h] # "none")
    /\ \A x \in Copies : OnMap(n, x) /\ ~OnMap(m, x) => GridOf(n.pos[x]) # g /\ HomeGrid(x) # g
    /\ \A x \in s : OnMap(n, x) /\ (GridOf(n.pos[x]) # g \/ ~IsActive(n, x))
    /\ Returning(m, g) # {} => Room(n)
    /\ \A c \in spawned : GridOf(Home[c]) # g /\ n.data[GridOf(Home[c])] =>
          \E x \in Copies : /\ x[1] = c /\ InWorld(n, x)
                            /\ GridOf(n.pos[x]) # g \/ x \in Strangers(m, g) \ s

\* Before anybody is sent home.
LEMMA NobodySentYet ==
  ASSUME NEW m, MapInv(m), NEW g \in Grids, Returning(m, g) # {} => Room(m)
  PROVE  SentSoFar(m, g, {}, m)
<1>1. ASSUME NEW c \in spawned, GridOf(Home[c]) # g, m.data[GridOf(Home[c])]
      PROVE  \E x \in Copies : /\ x[1] = c /\ InWorld(m, x)
                               /\ GridOf(m.pos[x]) # g \/ x \in Strangers(m, g) \ {}
  <2>1. PICK x \in Copies : x[1] = c /\ InWorld(m, x)
    BY <1>1 DEF MapInv, PlacesInv
  <2>2. GridOf(m.pos[x]) = g => x \in Strangers(m, g) \ {}
    BY <1>1, <2>1 DEF Strangers, In, InWorld, HomeGrid
  <2> QED
    BY <2>1, <2>2
<1> QED
  BY <1>1 DEF SentSoFar

\* One more is sent home.
LEMMA NextStrangerSent ==
  ASSUME NEW m, MapInv(m), spawned \subseteq Creatures, NEW g \in Grids, NEW s \in SUBSET Strangers(m, g),
         NEW o \in s, NEW k, SentSoFar(m, g, s \ {o}, k), NEW n, n = CreatureRespawnRelocation(k, o)
  PROVE  SentSoFar(m, g, s, n)
<1> DEFINE h == HomeGrid(o)
<1>1. /\ o \in Copies /\ o \in Objects /\ OnMap(m, o) /\ GridOf(m.pos[o]) = g /\ h # g
      /\ h \in Grids /\ o \in In(m, g) /\ h = GridOf(Home[o[1]])
  BY Places DEF Strangers, In, HomeGrid
<1>2. MapInv(k) /\ IsMap(k) /\ OnMap(k, o) /\ k.pos[o] = m.pos[o]
  BY <1>1 DEF SentSoFar, MapInv, ListsInv, OnMap
<1>3. Returning(m, g) # {} => Room(k)
  BY DEF SentSoFar
<1>4. IsActive(k, o) => RoomIn(k, h)
  <2> SUFFICES ASSUME IsActive(k, o), ~k.data[h] PROVE \A c \in SpawnedIn(h) : FreeCopies(k, c) # {}
    BY DEF RoomIn
  <2>1. IsActive(m, o) /\ ~m.data[h]
    BY <1>1 DEF SentSoFar
  <2>2. o \in Returning(m, g)
    BY <1>1, <2>1 DEF Returning, IsLoaded
  <2> QED
    BY <1>3, <2>2 DEF Room, SpawnedIn
<1>5. RespawnedAs(k, o, n)
  BY <1>1, <1>2, <1>4, RespawnedEffect
<1>6. /\ MapInv(n) /\ n.view = k.view /\ n.removing = k.removing /\ k.odd \subseteq n.odd
      /\ \A x \in Objects : x # o /\ OnMap(k, x) => n.pos[x] = k.pos[x]
      /\ \A p \in Players : n.pos[p] = k.pos[p]
      /\ \A x \in Copies : OnMap(k, x) /\ IsActive(n, x) => IsActive(k, x)
      /\ \A i \in Grids : /\ k.data[i] => n.data[i]
                          /\ n.data[i] => k.data[i] \/ i = h
                          /\ k.st[i] # "none" => n.st[i] # "none"
      /\ \A c \in Creatures : ~n.data[GridOf(Home[c])] => FreeCopies(k, c) \subseteq FreeCopies(n, c)
  BY <1>5 DEF RespawnedAs
<1>7. /\ k.view = m.view /\ k.removing = m.removing /\ m.odd \subseteq k.odd
      /\ \A x \in Objects : OnMap(m, x) /\ x \notin s \ {o} => k.pos[x] = m.pos[x]
      /\ \A p \in Players : k.pos[p] = m.pos[p]
      /\ \A x \in Copies : OnMap(m, x) /\ IsActive(k, x) => IsActive(m, x)
      /\ \A i \in Grids : (m.data[i] => k.data[i]) /\ (m.st[i] # "none" => k.st[i] # "none")
      /\ \A x \in Copies : OnMap(k, x) /\ ~OnMap(m, x) => GridOf(k.pos[x]) # g /\ HomeGrid(x) # g
      /\ \A x \in s \ {o} : OnMap(k, x) /\ (GridOf(k.pos[x]) # g \/ ~IsActive(k, x))
  BY DEF SentSoFar
<1>8. Home[o[1]] \in Cells /\ Home[o[1]] # Nowhere
  BY <1>1, Places
<1>9. \/ n.pos[o] = Home[o[1]] /\ GridOf(n.pos[o]) = h
      \/ n.pos[o] = m.pos[o] /\ ~IsActive(n, o) /\ ~n.data[h]
  BY <1>1, <1>2, <1>5 DEF RespawnedAs
<1>10. OnMap(n, o)
  BY <1>1, <1>8, <1>9 DEF OnMap
<1>11. \A x \in Copies : OnMap(m, x) => OnMap(k, x)
  BY <1>7, Places DEF OnMap
<1>12. \A x \in Objects : OnMap(m, x) /\ x \notin s => n.pos[x] = m.pos[x]
  BY <1>6, <1>7 DEF OnMap
<1>13. \A x \in Copies : OnMap(m, x) /\ IsActive(n, x) => IsActive(m, x)
  BY <1>6, <1>7, <1>11
<1>14. ASSUME NEW x \in Copies, OnMap(n, x), ~OnMap(m, x) PROVE GridOf(n.pos[x]) # g /\ HomeGrid(x) # g
  <2>1. x # o /\ x \in Objects
    BY <1>1, <1>14, Places
  <2>2. CASE OnMap(k, x)
    BY <1>6, <1>7, <1>14, <2>1, <2>2
  <2>3. CASE ~OnMap(k, x)
    BY <1>1, <1>5, <1>14, <2>1, <2>3 DEF RespawnedAs, NewIn
  <2> QED
    BY <2>2, <2>3
<1>15. ASSUME NEW x \in s PROVE OnMap(n, x) /\ (GridOf(n.pos[x]) # g \/ ~IsActive(n, x))
  <2>1. CASE x = o
    BY <1>1, <1>9, <1>10, <2>1
  <2>2. CASE x # o
    <3>1. x \in Copies /\ x \in Objects /\ OnMap(k, x)
      BY <1>7, <2>2, Places DEF Strangers, In
    <3>2. n.pos[x] = k.pos[x]
      BY <1>6, <2>2, <3>1
    <3> QED
      BY <1>6, <1>7, <2>2, <3>1, <3>2 DEF OnMap
  <2> QED
    BY <2>1, <2>2
<1>16. ASSUME Returning(m, g) # {} PROVE Room(n)
  <2> SUFFICES ASSUME NEW c \in spawned, ~n.data[GridOf(Home[c])] PROVE FreeCopies(n, c) # {}
    BY DEF Room
  <2>1. c \in Creatures /\ GridOf(Home[c]) \in Grids
    BY Places, GridConstants
  <2>2. ~k.data[GridOf(Home[c])] /\ FreeCopies(k, c) \subseteq FreeCopies(n, c)
    BY <1>6, <2>1
  <2> QED
    BY <1>3, <1>16, <2>2 DEF Room
<1>17. ASSUME NEW c \in spawned, GridOf(Home[c]) # g, n.data[GridOf(Home[c])]
       PROVE  \E x \in Copies : /\ x[1] = c /\ InWorld(n, x)
                                /\ GridOf(n.pos[x]) # g \/ x \in Strangers(m, g) \ s
  <2>1. c \in Creatures /\ GridOf(Home[c]) \in Grids
    BY Places, GridConstants
  <2>2. CASE k.data[GridOf(Home[c])]
    <3>1. PICK x \in Copies : /\ x[1] = c /\ InWorld(k, x)
                              /\ GridOf(k.pos[x]) # g \/ x \in Strangers(m, g) \ (s \ {o})
      BY <1>17, <2>2 DEF SentSoFar
    <3>2. CASE x # o
      <4>1. n.pos[x] = k.pos[x] /\ InWorld(n, x)
        BY <1>6, <3>1, <3>2, Places DEF InWorld, OnMap
      <4> QED
        BY <3>1, <3>2, <4>1
    <3>3. CASE x = o
      <4>1. n.data[h]
        BY <1>1, <1>17, <3>1, <3>3
      <4>2. GridOf(n.pos[o]) # g
        BY <1>1, <1>9, <4>1
      <4>3. InWorld(n, o)
        BY <1>6, <1>10, <3>1, <3>3 DEF InWorld
      <4> QED
        BY <3>1, <3>3, <4>2, <4>3
    <3> QED
      BY <3>2, <3>3
  <2>3. CASE ~k.data[GridOf(Home[c])]
    <3>1. GridOf(Home[c]) = h /\ c \in SpawnedIn(h)
      BY <1>6, <1>17, <2>1, <2>3 DEF SpawnedIn
    <3>2. IsHome(n, c)
      BY <1>5, <1>17, <2>3, <3>1 DEF RespawnedAs
    <3> QED
      BY <1>17, <3>2 DEF IsHome
  <2> QED
    BY <2>2, <2>3
<1>18. /\ MapInv(n)
       /\ n.view = m.view /\ n.removing = m.removing /\ m.odd \subseteq n.odd
       /\ \A p \in Players : n.pos[p] = m.pos[p]
       /\ \A i \in Grids : (m.data[i] => n.data[i]) /\ (m.st[i] # "none" => n.st[i] # "none")
  BY <1>6, <1>7
<1> QED
  BY <1>12, <1>13, <1>14, <1>15, <1>16, <1>17, <1>18 DEF SentSoFar

\* ObjectGridRespawnMover.
LEMMA SentHomeEffect ==
  ASSUME NEW m, MapInv(m), spawned \subseteq Creatures, NEW g \in Grids,
         Returning(m, g) # {} => Room(m), NEW n, n = SentHome(m, g)
  PROVE  SentSoFar(m, g, Strangers(m, g), n)
<1> DEFINE S == Strangers(m, g)
           I == [s \in SUBSET S |-> {n1 \in Maps : SentSoFar(m, g, s, n1)}]
<1>1. IsFiniteSet(S)
  <2>1. S \subseteq In(m, g)
    BY DEF Strangers
  <2> QED
    BY <2>1, InGrid, FS_Subset
<1>2. m \in I[{}]
  BY NobodySentYet, MapsAreASet DEF MapInv, ListsInv
<1>3. ASSUME NEW s \in SUBSET S, NEW x \in s, NEW n1 \in I[s \ {x}]
      PROVE  CreatureRespawnRelocation(n1, x) \in I[s]
  <2> DEFINE n2 == CreatureRespawnRelocation(n1, x)
  <2>1. SentSoFar(m, g, s \ {x}, n1)
    OBVIOUS
  <2>2. n2 = CreatureRespawnRelocation(n1, x)
    OBVIOUS
  <2> HIDE DEF n2, I
  <2>3. SentSoFar(m, g, s, n2)
    BY <2>1, <2>2, NextStrangerSent
  <2>4. n2 \in Maps
    BY <2>3, MapsAreASet DEF SentSoFar, MapInv, ListsInv
  <2> QED
    BY <2>3, <2>4 DEF n2, I
<1> HIDE DEF I
<1>4. n \in I[S]
  BY <1>1, <1>2, <1>3, SentHomeFold DEF S
<1> QED
  BY <1>4 DEF I

\* The objects in s are deleted, so far.
EmptiedOf(m, s, n) ==
    /\ ListsInv(n) /\ SameGrids(m, n) /\ Calmer(m, n)
    /\ n.removing = m.removing \ s
    /\ \A x \in Objects : n.pos[x] = IF x \in s THEN Nowhere ELSE m.pos[x]

\* One more is deleted.
LEMMA NextDeleted ==
  ASSUME NEW m, ListsInv(m), NEW s \in SUBSET Copies, NEW o \in s, OnMap(m, o),
         HomeGrid(o) \notin m.odd => ~IsActive(m, o),
         NEW k, EmptiedOf(m, s \ {o}, k), NEW n, n = Delete(CleanupsBeforeDelete(k, o), o)
  PROVE  EmptiedOf(m, s, n)
<1> DEFINE a == CleanupsBeforeDelete(k, o)
<1>1. o \in Copies /\ o \in Objects /\ HomeGrid(o) \in Grids
  BY Places
<1>2. ListsInv(k) /\ OnMap(k, o) /\ m.odd \subseteq k.odd
  BY <1>1 DEF EmptiedOf, OnMap, SameGrids
<1>3. a = CleanupsBeforeDelete(k, o) /\ n = Delete(a, o)
  OBVIOUS
<1> HIDE DEF a
<1>4. /\ ListsInv(a) /\ SameGround(k, a) /\ a.removing = k.removing \cup {o} /\ Calmer(k, a)
      /\ \A p \in Players : a.view[p] # o
  BY <1>1, <1>2, <1>3, CleanupsEffect
<1>5. IsMap(a) /\ CountInv(a) /\ ActiveInv(a) /\ OffMapInv(a) /\ ViewInv(a)
  BY <1>4 DEF ListsInv
<1>6. \A x \in Copies : HomeGrid(x) \notin a.odd => (x \in a.active <=> IsActive(a, x))
  BY <1>5 DEF ActiveInv
<1>7. HomeGrid(o) \notin a.odd => o \notin a.active
  <2>1. HomeGrid(o) \notin a.odd => HomeGrid(o) \notin m.odd
    BY <1>2, <1>4 DEF SameGround
  <2>2. IsActive(a, o) => IsActive(m, o)
    BY <1>1, <1>4 DEF Calmer, EmptiedOf
  <2> QED
    BY <1>1, <1>6, <2>1, <2>2
<1>8. /\ ListsInv(n) /\ SameGrids(a, n) /\ n.pos = [a.pos EXCEPT ![o] = Nowhere]
      /\ n.removing = a.removing \ {o} /\ Calmer(a, n)
  BY <1>1, <1>3, <1>4, <1>5, <1>6, <1>7, DeleteEffect
<1>9. SameGrids(m, n)
  BY <1>4, <1>8 DEF EmptiedOf, SameGrids, SameGround
<1>10. Calmer(m, n)
  BY <1>4, <1>8 DEF EmptiedOf, Calmer
<1>11. n.removing = m.removing \ s
  BY <1>4, <1>8 DEF EmptiedOf
<1>12. \A x \in Objects : n.pos[x] = IF x \in s THEN Nowhere ELSE m.pos[x]
  BY <1>4, <1>5, <1>8 DEF EmptiedOf, SameGround, IsMap
<1> QED
  BY <1>8, <1>9, <1>10, <1>11, <1>12 DEF EmptiedOf

\* ObjectGridUnloader.
LEMMA EmptiedEffect ==
  ASSUME NEW m, ListsInv(m), NEW g,
         \A o \in In(m, g) : HomeGrid(o) \notin m.odd => ~IsActive(m, o),
         NEW n, n = Emptied(m, g)
  PROVE  EmptiedOf(m, In(m, g), n)
<1> DEFINE S == In(m, g)
           I == [s \in SUBSET S |-> {n1 \in Maps : EmptiedOf(m, s, n1)}]
<1>1. IsFiniteSet(S) /\ S \in SUBSET Copies
  BY InGrid
<1>2. m \in I[{}]
  <2>1. EmptiedOf(m, {}, m)
    BY DEF EmptiedOf, SameGrids, Calmer
  <2> QED
    BY <2>1, MapsAreASet DEF ListsInv
<1>3. ASSUME NEW s \in SUBSET S, NEW x \in s, NEW n1 \in I[s \ {x}]
      PROVE  Delete(CleanupsBeforeDelete(n1, x), x) \in I[s]
  <2> DEFINE n2 == Delete(CleanupsBeforeDelete(n1, x), x)
  <2>1. EmptiedOf(m, s \ {x}, n1)
    OBVIOUS
  <2>2. n2 = Delete(CleanupsBeforeDelete(n1, x), x)
    OBVIOUS
  <2>3. s \in SUBSET Copies /\ OnMap(m, x) /\ (HomeGrid(x) \notin m.odd => ~IsActive(m, x))
    BY <1>1 DEF In
  <2> HIDE DEF n2, I
  <2>4. EmptiedOf(m, s, n2)
    BY <2>1, <2>2, <2>3, NextDeleted
  <2>5. n2 \in Maps
    BY <2>4, MapsAreASet DEF EmptiedOf, ListsInv
  <2> QED
    BY <2>4, <2>5 DEF n2, I
<1> HIDE DEF I
<1>4. n \in I[S]
  BY <1>1, <1>2, <1>3, EmptiedFold DEF S
<1> QED
  BY <1>4 DEF I

\* The grid is gone: nobody is in it, and unless its lock was wrong none of its
\* creatures is active.
LEMMA GridGoneEffect ==
  ASSUME NEW m, ListsInv(m), NEW g \in Grids,
         \A x \in Objects : OnMap(m, x) => GridOf(m.pos[x]) # g /\ m.data[GridOf(m.pos[x])],
         \A p \in Players : OnMap(m, p) => m.st[GridOf(m.pos[p])] = "active",
         \A c \in spawned : GridOf(Home[c]) # g /\ m.data[GridOf(Home[c])] =>
            \E o \in Copies : o[1] = c /\ InWorld(m, o),
         g \notin m.odd => \A o \in Copies : HomeGrid(o) = g => ~IsActive(m, o),
         NEW n, n = GridGone(m, g)
  PROVE  MapInv(n) /\ \A h \in Grids : h # g => n.st[h] = m.st[h]
<1> DEFINE someone == \E o \in Copies : HomeGrid(o) = g /\ (o \in m.active \/ IsActive(m, o))
           odd1 == IF someone THEN m.odd ELSE m.odd \ {g}
<1>1. /\ IsMap(m) /\ CountInv(m) /\ ActiveInv(m) /\ OffMapInv(m) /\ ViewInv(m)
      /\ m.st \in [Grids -> {"none", "idle", "active", "removal"}] /\ m.data \in [Grids -> BOOLEAN]
      /\ m.lock \in [Grids -> Nat] /\ m.odd \in SUBSET Grids /\ odd1 \in SUBSET Grids
  BY DEF ListsInv, IsMap
<1>2. n = [m EXCEPT !.st[g] = "none", !.data[g] = FALSE, !.timer[g] = 0, !.lock[g] = 0, !.odd = odd1]
  BY Zenon DEF GridGone
<1> HIDE DEF odd1
<1>3. IsRecord(n)
  BY <1>1, <1>2, Zenon DEF IsRecord, IsMap
<1>4. 0 \in 0 .. Expiry
  BY GridConstants
<1>5. /\ IsMap(n) /\ n.st = [m.st EXCEPT ![g] = "none"] /\ n.data = [m.data EXCEPT ![g] = FALSE]
      /\ n.lock = [m.lock EXCEPT ![g] = 0] /\ n.pos = m.pos /\ n.by = m.by /\ n.view = m.view
      /\ n.active = m.active /\ n.removing = m.removing /\ n.odd = odd1
  BY <1>1, <1>2, <1>3, <1>4, SMTT(30) DEF IsMap, Fields
<1>6. /\ \A x : OnMap(n, x) <=> OnMap(m, x)
      /\ \A x : InWorld(n, x) <=> InWorld(m, x)
      /\ \A x : IsActive(n, x) <=> IsActive(m, x)
  BY <1>5 DEF OnMap, InWorld, IsActive, Watched
<1>7. g \notin odd1 => ~someone
  <2> SUFFICES ASSUME g \notin odd1, someone PROVE FALSE
    OBVIOUS
  <2>1. g \notin m.odd
    BY DEF odd1
  <2>2. PICK o \in Copies : HomeGrid(o) = g /\ (o \in m.active \/ IsActive(m, o))
    OBVIOUS
  <2> QED
    BY <1>1, <2>1, <2>2 DEF ActiveInv
<1>8. \A h \in Grids : h # g /\ h \notin odd1 => h \notin m.odd
  BY DEF odd1
<1>9. CountInv(n)
  <2> SUFFICES ASSUME NEW h \in Grids
               PROVE  /\ n.st[h] = "none" => n.lock[h] = 0
                      /\ h \notin n.odd => n.lock[h] = Cardinality(ActiveOf(n, h))
    BY DEF CountInv
  <2>1. ActiveOf(n, h) = ActiveOf(m, h)
    BY <1>5 DEF ActiveOf
  <2>2. CASE h = g
    <3>1. h \notin n.odd => ActiveOf(n, h) = {}
      BY <1>5, <1>7, <2>1, <2>2 DEF ActiveOf
    <3>2. h \notin n.odd => Cardinality(ActiveOf(n, h)) = 0
      BY <1>5, <3>1, FiniteActive
    <3>3. n.lock[h] = 0
      BY <1>1, <1>5, <2>2
    <3> QED
      BY <3>2, <3>3
  <2>3. CASE h # g
    BY <1>1, <1>5, <1>8, <2>1, <2>3 DEF CountInv
  <2> QED
    BY <2>2, <2>3
<1>10. ActiveInv(n)
  <2> SUFFICES ASSUME NEW o \in Copies, HomeGrid(o) \notin n.odd
               PROVE  o \in n.active <=> IsActive(n, o)
    BY DEF ActiveInv
  <2>1. CASE HomeGrid(o) = g
    BY <1>5, <1>6, <1>7, <2>1
  <2>2. CASE HomeGrid(o) # g
    BY <1>1, <1>5, <1>6, <1>8, <2>2, Places DEF ActiveInv
  <2> QED
    BY <2>1, <2>2
<1>11. OffMapInv(n)
  BY <1>1, <1>5, <1>6 DEF OffMapInv
<1>12. ViewInv(n)
  BY <1>1, <1>5, <1>6 DEF ViewInv
<1>13. \A p \in Players : OnMap(n, p) => n.st[GridOf(n.pos[p])] = "active"
  BY <1>1, <1>5, <1>6, WhereItIs, Places
<1>14. \A x \in Objects : OnMap(n, x) => n.data[GridOf(n.pos[x])]
  BY <1>1, <1>5, <1>6, WhereItIs, Places
<1>15. \A c \in spawned : n.data[GridOf(Home[c])] => \E o \in Copies : o[1] = c /\ InWorld(n, o)
  BY <1>1, <1>5, <1>6
<1>16. PlacesInv(n)
  BY <1>13, <1>14, <1>15 DEF PlacesInv
<1> QED
  BY <1>5, <1>9, <1>10, <1>11, <1>12, <1>16 DEF MapInv, ListsInv

\* Map::UnloadGrid of a grid whose lock is free and which has no players in it.
LEMMA UnloadEffect ==
  ASSUME NEW m, MapInv(m), spawned \subseteq Creatures, NEW g \in Grids, m.lock[g] = 0,
         \A p \in Players : OnMap(m, p) => GridOf(m.pos[p]) # g,
         Returning(m, g) # {} => Room(m), NEW n, n = UnloadGrid(m, g)
  PROVE  MapInv(n) /\ \A h \in Grids : h # g /\ m.st[h] # "none" => n.st[h] # "none"
<1> DEFINE r == SentHome(m, g)
           e == Emptied(r, g)
<1>1. n = GridGone(e, g) /\ e = Emptied(r, g) /\ r = SentHome(m, g)
  BY DEF UnloadGrid
<1> HIDE DEF r, e
<1>2. SentSoFar(m, g, Strangers(m, g), r)
  BY <1>1, SentHomeEffect
<1>3. IsMap(m) /\ CountInv(m) /\ ActiveInv(m)
  BY DEF MapInv, ListsInv
<1>4. MapInv(r) /\ ListsInv(r) /\ PlacesInv(r) /\ OffMapInv(r) /\ ViewInv(r) /\ m.odd \subseteq r.odd
  BY <1>2 DEF SentSoFar, MapInv, ListsInv
\* Unless the lock is wrong none of the grid's creatures is active.
<1>5. ASSUME g \notin r.odd, NEW o \in Copies, HomeGrid(o) = g PROVE ~IsActive(r, o)
  <2>1. ActiveOf(m, g) = {}
    BY <1>3, <1>4, <1>5, FiniteActive DEF CountInv
  <2>2. ~IsActive(m, o)
    BY <1>3, <1>4, <1>5, <2>1 DEF ActiveInv, ActiveOf
  <2>3. CASE OnMap(m, o)
    BY <1>2, <2>2, <2>3 DEF SentSoFar
  <2>4. CASE ~OnMap(m, o)
    <3>1. ~OnMap(r, o)
      BY <1>2, <1>5, <2>4 DEF SentSoFar
    <3>2. r.by[o] = {}
      BY <1>4, <3>1 DEF OffMapInv
    <3>3. ~Watched(r, o)
      BY <1>4, <3>1, Places DEF ViewInv, Watched, InWorld
    <3> QED
      BY <3>2, <3>3 DEF IsActive
  <2> QED
    BY <2>3, <2>4
<1>6. ASSUME NEW o \in In(r, g), HomeGrid(o) \notin r.odd PROVE ~IsActive(r, o)
  <2>1. o \in Copies /\ OnMap(r, o) /\ GridOf(r.pos[o]) = g /\ o \in Objects
    BY Places DEF In
  <2>2. CASE HomeGrid(o) = g
    BY <1>5, <1>6, <2>1, <2>2
  <2>3. CASE HomeGrid(o) # g
    <3>1. OnMap(m, o)
      BY <1>2, <2>1 DEF SentSoFar
    <3>2. o \notin Strangers(m, g) => r.pos[o] = m.pos[o]
      BY <1>2, <2>1, <3>1 DEF SentSoFar
    <3>3. o \in Strangers(m, g)
      BY <2>1, <2>3, <3>1, <3>2 DEF Strangers, In
    <3> QED
      BY <1>2, <2>1, <3>3 DEF SentSoFar
  <2> QED
    BY <2>2, <2>3
<1>7. EmptiedOf(r, In(r, g), e)
  BY <1>1, <1>4, <1>6, EmptiedEffect
<1>8. /\ ListsInv(e) /\ e.st = r.st /\ e.data = r.data /\ r.odd \subseteq e.odd
      /\ e.removing = r.removing \ In(r, g) /\ Calmer(r, e)
      /\ \A x \in Objects : e.pos[x] = IF x \in In(r, g) THEN Nowhere ELSE r.pos[x]
  BY <1>7 DEF EmptiedOf, SameGrids
<1>9. \A p \in Players : r.pos[p] = m.pos[p]
  BY <1>2 DEF SentSoFar
<1>10. ASSUME NEW x \in Objects, OnMap(e, x)
       PROVE  GridOf(e.pos[x]) # g /\ e.data[GridOf(e.pos[x])]
  <2>1. x \notin In(r, g) /\ e.pos[x] = r.pos[x] /\ OnMap(r, x)
    BY <1>8, <1>10 DEF OnMap
  <2>2. GridOf(r.pos[x]) # g
    <3>1. CASE x \in Copies
      BY <2>1, <3>1 DEF In
    <3>2. CASE x \in Players
      BY <1>9, <2>1, <3>2 DEF OnMap
    <3> QED
      BY <3>1, <3>2 DEF Objects
  <2> QED
    BY <1>4, <1>8, <2>1, <2>2 DEF PlacesInv
<1>11. \A p \in Players : OnMap(e, p) => e.st[GridOf(e.pos[p])] = "active"
  <2> SUFFICES ASSUME NEW p \in Players, OnMap(e, p) PROVE e.st[GridOf(e.pos[p])] = "active"
    OBVIOUS
  <2>1. p \in Objects /\ p \notin In(r, g)
    BY Places DEF In
  <2>2. e.pos[p] = r.pos[p] /\ OnMap(r, p)
    BY <1>8, <2>1 DEF OnMap
  <2> QED
    BY <1>4, <1>8, <2>2 DEF PlacesInv
<1>12. ASSUME NEW c \in spawned, GridOf(Home[c]) # g, e.data[GridOf(Home[c])]
       PROVE  \E o \in Copies : o[1] = c /\ InWorld(e, o)
  <2>1. PICK x \in Copies : x[1] = c /\ InWorld(r, x) /\ GridOf(r.pos[x]) # g
    BY <1>2, <1>8, <1>12 DEF SentSoFar
  <2>2. InWorld(e, x)
    BY <1>8, <2>1, Places DEF InWorld, OnMap, In
  <2> QED
    BY <2>1, <2>2
<1>13. g \notin e.odd => \A o \in Copies : HomeGrid(o) = g => ~IsActive(e, o)
  BY <1>5, <1>8 DEF Calmer
<1>14. MapInv(n) /\ \A h \in Grids : h # g => n.st[h] = e.st[h]
  BY <1>1, <1>8, <1>10, <1>11, <1>12, <1>13, GridGoneEffect
<1> QED
  BY <1>2, <1>8, <1>14 DEF SentSoFar

----------------------------------------------------------------------------
(* The invariant of the specification.                                     *)

RestOK ==
  /\ scripted \subseteq Creatures /\ spawned \subseteq Creatures /\ todo \subseteq Grids
  /\ explicit \subseteq Grids /\ bg \in BOOLEAN /\ (bg => todo = {})

IInv == MapInv(Now) /\ RestOK

\* What a grid may be unloaded for: its locks are free and the map is no battleground.
Unlocked(h) == lock[h] = 0 /\ h \notin explicit /\ ~bg

\* Only a grid whose locks are free is unloaded.
LocksHold == \A h \in Grids : st[h] # "none" /\ st'[h] = "none" => Unlocked(h)

\* The fields of the map as it is.
LEMMA NowFields ==
  /\ Now.st = st /\ Now.data = data /\ Now.timer = timer /\ Now.lock = lock /\ Now.pos = pos
  /\ Now.by = by /\ Now.view = view /\ Now.active = active /\ Now.removing = removing /\ Now.odd = odd
  /\ IsRecord(Now) /\ DOMAIN Now = Fields
<1>1. IsRecord(Now)
  BY Zenon DEF IsRecord, Now, Fields
<1> QED
  BY <1>1, SMTT(30) DEF Now, Fields

\* The variables become the fields of a map.
LEMMA Became ==
  ASSUME NEW n, Become(n)
  PROVE  /\ st' = n.st /\ data' = n.data /\ timer' = n.timer /\ lock' = n.lock /\ pos' = n.pos
         /\ by' = n.by /\ view' = n.view /\ active' = n.active /\ removing' = n.removing
         /\ odd' = n.odd /\ scripted' = scripted /\ bg' = bg /\ explicit' \subseteq Grids
BY DEF Become, ExplicitLocks

\* The map after a step is the one that the step says.
LEMMA NowIs ==
  ASSUME NEW n, IsMap(n), Become(n)
  PROVE  Now' = n
<1>1. n = [f \in Fields |-> n[f]]
  BY Zenon DEF IsMap, IsRecord
<1>2. Now' = [f \in Fields |-> Now'[f]]
  BY Zenon DEF Now, Fields
<1>3. \A f \in Fields : Now'[f] = n[f]
  BY Became, SMTT(30) DEF Now, Fields
<1> QED
  BY <1>1, <1>2, <1>3

\* What a step becomes keeps the lists if its record does.
LEMMA ListsAfter ==
  ASSUME NEW n, ListsInv(n), Become(n)
  PROVE  ListsInv(Now)'
<1>1. Now' = n
  BY NowIs DEF ListsInv
<1> QED
  BY <1>1

\* Who is where, given what the spawned creatures are after the step.
LEMMA PlacesAfter ==
  ASSUME NEW n, IsMap(n), Become(n),
         \A p \in Players : OnMap(n, p) => n.st[GridOf(n.pos[p])] = "active",
         \A x \in Objects : OnMap(n, x) => n.data[GridOf(n.pos[x])],
         \A c \in spawned' : n.data[GridOf(Home[c])] => \E o \in Copies : o[1] = c /\ InWorld(n, o)
  PROVE  PlacesInv(Now)'
<1>1. Now' = n
  BY NowIs
<1> QED
  BY <1>1 DEF PlacesInv

\* The invariant after a step that spawns nobody.
LEMMA NextMap ==
  ASSUME NEW n, MapInv(n), Become(n), UNCHANGED spawned
  PROVE  MapInv(Now)'
<1>1. IsMap(n) /\ ListsInv(n) /\ PlacesInv(n)
  BY DEF MapInv, ListsInv
<1>2. PlacesInv(Now)'
  BY <1>1, PlacesAfter DEF PlacesInv
<1> QED
  BY <1>1, <1>2, ListsAfter DEF MapInv

\* The map after a step that is one of game code or of the walk.
Good(n) == MapInv(n) /\ \A h \in Grids : st[h] # "none" /\ n.st[h] = "none" => Unlocked(h)

\* A step to a good map keeps the invariant, when it spawns nothing.
LEMMA NextGood ==
  ASSUME IInv, NEW n, Good(n), Become(n), UNCHANGED spawned, todo' \subseteq Grids,
         bg => todo' = {}
  PROVE  IInv' /\ LocksHold
<1>1. MapInv(Now)'
  BY NextMap DEF Good
<1>2. RestOK'
  BY Became DEF IInv, RestOK
<1>3. LocksHold
  BY Became DEF Good, LocksHold
<1> QED
  BY <1>1, <1>2, <1>3 DEF IInv

\* What the invariant says of the map as it is.
LEMMA NowOK ==
  ASSUME IInv
  PROVE  /\ MapInv(Now) /\ ListsInv(Now) /\ PlacesInv(Now) /\ IsMap(Now) /\ spawned \subseteq Creatures
         /\ CountInv(Now) /\ ActiveInv(Now) /\ OffMapInv(Now) /\ ViewInv(Now)
         /\ \A x : OnMap(Now, x) <=> pos[x] # Nowhere
BY NowFields DEF IInv, RestOK, MapInv, ListsInv, OnMap

\* Grids are made, never unloaded.
LEMMA GrownGood ==
  ASSUME NEW n, MapInv(n), \A h \in Grids : st[h] # "none" => n.st[h] # "none"
  PROVE  Good(n)
BY DEF Good

\* The lists may change, in order.
LEMMA GroundGood ==
  ASSUME IInv, NEW n, ListsInv(n), SameGround(Now, n), n.removing = removing
  PROVE  Good(n)
<1>1. PlacesInv(n)
  BY NowOK, NowFields, GroundPlaces
<1>2. n.st = st
  BY NowFields DEF SameGround
<1> QED
  BY <1>1, <1>2, GrownGood DEF MapInv

\* Where there is room for every creature there is room in every grid.
LEMMA RoomForAll == ASSUME IInv, RoomToLoad PROVE \A g : RoomIn(Now, g) /\ Room(Now)
BY DEF RoomToLoad, RoomIn, Room, SpawnedIn, IInv, RestOK

\* A grid is loaded, by Map::EnsureGridLoaded or at an entrance.
LEMMA LoadedGood ==
  ASSUME IInv, NEW g \in Grids, NEW n, LoadedAs(Now, g, n)
  PROVE  /\ Good(n) /\ MapInv(n) /\ n.data[g] /\ n.pos \in [Objects -> Cells \cup {Nowhere}]
         /\ \A h \in Grids : st[h] # "none" => n.st[h] # "none"
<1>1. PlacesInv(n)
  BY NowOK, LoadedPlaces
<1>2. ListsInv(n) /\ IsMap(n) /\ Grown(Now, n) /\ n.data = [Now.data EXCEPT ![g] = TRUE]
  BY DEF LoadedAs, ListsInv
<1>3. n.data[g]
  BY <1>2, NowOK DEF IsMap
<1>4. \A h \in Grids : st[h] # "none" => n.st[h] # "none"
  BY <1>2, NowFields DEF Grown
<1> QED
  BY <1>1, <1>2, <1>3, <1>4, GrownGood DEF MapInv, IsMap

\* A player comes to a cell of a loaded, active grid.
LEMMA PlayerComes ==
  ASSUME IInv, NEW p \in Players, NEW cell \in Cells, NEW k, MapInv(k), k.data[GridOf(cell)],
         k.st[GridOf(cell)] = "active", \A h \in Grids : st[h] # "none" => k.st[h] # "none",
         NEW n, Repositioned(k, p, cell, n)
  PROVE  Good(n)
<1>1. p \in Objects /\ IsMap(k) /\ spawned \subseteq Creatures
  BY Places, NowOK DEF MapInv, ListsInv
<1>2. MapInv(n)
  BY <1>1, PosPlaces
<1>3. SameGrids(k, n)
  BY <1>1, PosFields
<1> QED
  BY <1>2, <1>3, GrownGood DEF SameGrids

\* A player enters a grid.
LEMMA EnterGood ==
  ASSUME IInv, RoomToLoad, NEW p \in Players, NEW cell \in Cells,
         NEW n, Repositioned(EnsureGridLoadedAtEnter(Now, GridOf(cell)), p, cell, n)
  PROVE  Good(n)
<1> DEFINE g == GridOf(cell)
           k == EnsureGridLoadedAtEnter(Now, g)
<1>1. g \in Grids /\ k = EnsureGridLoadedAtEnter(Now, g) /\ Repositioned(k, p, cell, n)
  BY Places
<1> HIDE DEF k
<1>2. LoadedAs(Now, g, k) /\ k.st[g] = "active"
  BY <1>1, NowOK, RoomForAll, EnteredEffect
<1> QED
  BY <1>1, <1>2, LoadedGood, PlayerComes

\* Map::Add(Player*) keeps the invariant.
LEMMA AddPlayerStep ==
  ASSUME IInv, NEW p \in Players, NEW cell \in Cells, AddPlayer(p, cell)
  PROVE  IInv' /\ LocksHold
<1> DEFINE n == [EnsureGridLoadedAtEnter(Now, GridOf(cell)) EXCEPT !.pos[p] = cell]
<1>1. Become(n) /\ RoomToLoad /\ UNCHANGED <<todo, spawned>>
  BY DEF AddPlayer, Calm
<1>2. Repositioned(EnsureGridLoadedAtEnter(Now, GridOf(cell)), p, cell, n)
  BY DEF Repositioned
<1> HIDE DEF n
<1>3. Good(n)
  BY <1>1, <1>2, EnterGood
<1> QED
  BY <1>1, <1>3, NextGood DEF IInv, RestOK

\* Map::PlayerRelocation keeps the invariant.
LEMMA PlayerRelocationStep ==
  ASSUME IInv, NEW p \in Players, NEW cell \in Cells, PlayerRelocation(p, cell)
  PROVE  IInv' /\ LocksHold
<1> DEFINE g == GridOf(cell)
           k == IF GridOf(pos[p]) = g THEN Now ELSE EnsureGridLoadedAtEnter(Now, g)
           n == [k EXCEPT !.pos[p] = cell]
<1>1. Become(n) /\ RoomToLoad /\ UNCHANGED <<todo, spawned>> /\ pos[p] # Nowhere
  BY DEF PlayerRelocation, Calm
<1>2. Repositioned(k, p, cell, n)
  BY DEF Repositioned
<1> HIDE DEF n
<1>3. CASE GridOf(pos[p]) = g
  <2>1. k = Now /\ g \in Grids /\ p \in Objects
    BY <1>3, Places
  <2>2. Now.data[g] /\ Now.st[g] = "active"
    BY <1>1, <1>3, <2>1, NowOK, NowFields DEF PlacesInv
  <2>3. Good(n)
    BY <1>2, <2>1, <2>2, NowOK, NowFields, PlayerComes
  <2> QED
    BY <1>1, <2>3, NextGood DEF IInv, RestOK
<1>4. CASE GridOf(pos[p]) # g
  <2>1. Good(n)
    BY <1>1, <1>2, <1>4, EnterGood
  <2> QED
    BY <1>1, <2>1, NextGood DEF IInv, RestOK
<1> QED
  BY <1>3, <1>4

\* Camera::SetView on a creature.
LEMMA SetViewOfCreature ==
  ASSUME NEW m, ListsInv(m), NEW p \in Players, OnMap(m, p), NEW x \in Copies,
         NEW n, n = SetViewOf(m, p, x)
  PROVE  ListsInv(n) /\ SameGround(m, n) /\ n.removing = m.removing
<1>1. x \in Objects /\ (x = p \/ (x \in Copies /\ OnMap(m, p)))
  BY Places
<1>2. /\ ListsInv(n) /\ SameGround(m, n) /\ n.by = m.by /\ n.removing = m.removing
      /\ n.view = IF InWorld(m, x) THEN [m.view EXCEPT ![p] = x] ELSE m.view
  BY <1>1, SetViewOfEffect
<1> QED
  BY <1>2, Zenon

\* Camera::SetView keeps the invariant.
LEMMA SetViewStep ==
  ASSUME IInv, NEW p \in Players, NEW o \in Copies, SetView(p, o)
  PROVE  IInv' /\ LocksHold
<1> DEFINE n == SetViewOf(Now, p, o)
<1>1. Become(n) /\ n = SetViewOf(Now, p, o) /\ pos[p] # Nowhere /\ UNCHANGED <<todo, spawned>>
  BY DEF SetView, Calm
<1> HIDE DEF n
<1>2. OnMap(Now, p) /\ o \in Objects
  BY <1>1, NowOK, Places
<1>3. ListsInv(n) /\ SameGround(Now, n) /\ n.removing = Now.removing
  BY <1>1, <1>2, NowOK, SetViewOfCreature
<1>4. Good(n)
  BY <1>3, NowFields, GroundGood
<1> QED
  BY <1>1, <1>4, NextGood DEF IInv, RestOK

\* The camera comes back to its player.
LEMMA ViewBack ==
  ASSUME IInv, NEW p \in Players, pos[p] # Nowhere, NEW n, n = SetViewOf(Now, p, p)
  PROVE  ListsInv(n) /\ SameGround(Now, n) /\ n.removing = removing /\ n.view[p] = p
<1>1. p \in Objects /\ p \notin Copies /\ OnMap(Now, p)
  BY NowOK, Places
<1>2. InWorld(Now, p)
  BY <1>1, NowOK DEF InWorld, IsMap
<1>3. /\ ListsInv(n) /\ SameGround(Now, n) /\ n.removing = Now.removing
      /\ n.view = IF InWorld(Now, p) THEN [Now.view EXCEPT ![p] = p] ELSE Now.view
  BY <1>1, NowOK, SetViewOfEffect
<1>4. n.view[p] = p
  BY <1>2, <1>3, NowOK DEF IsMap
<1> QED
  BY <1>3, <1>4, NowFields

\* Camera::ResetView keeps the invariant.
LEMMA ResetViewStep ==
  ASSUME IInv, NEW p \in Players, ResetView(p)
  PROVE  IInv' /\ LocksHold
<1> DEFINE n == SetViewOf(Now, p, p)
<1>1. Become(n) /\ n = SetViewOf(Now, p, p) /\ pos[p] # Nowhere /\ UNCHANGED <<todo, spawned>>
  BY DEF ResetView, Calm
<1> HIDE DEF n
<1>2. Good(n)
  BY <1>1, ViewBack, GroundGood
<1> QED
  BY <1>1, <1>2, NextGood DEF IInv, RestOK

\* A player whose camera is on the player leaves.
LEMMA PlayerLeaves ==
  ASSUME NEW m, MapInv(m), NEW p \in Players, m.view[p] = p, NEW n, Repositioned(m, p, Nowhere, n)
  PROVE  MapInv(n) /\ n.st = m.st
<1>1. IsMap(m) /\ CountInv(m) /\ ActiveInv(m) /\ OffMapInv(m) /\ ViewInv(m) /\ PlacesInv(m)
      /\ p \in Objects /\ p \notin Copies
  BY Places DEF MapInv, ListsInv
<1>2. /\ IsMap(n) /\ SameGrids(m, n) /\ n.pos = [m.pos EXCEPT ![p] = Nowhere] /\ n.by = m.by
      /\ n.view = m.view /\ n.active = m.active /\ n.lock = m.lock /\ n.removing = m.removing
      /\ n.odd = m.odd
  BY <1>1, PosFields
<1>3. \A x \in Objects : n.pos[x] = IF x = p THEN Nowhere ELSE m.pos[x]
  BY <1>1, <1>2 DEF IsMap
<1>4. \A o \in Copies : n.pos[o] = m.pos[o]
  BY <1>1, <1>3, Places
<1>5. CountInv(n)
  BY <1>1, <1>2 DEF CountInv, ActiveOf, SameGrids
<1>6. ActiveInv(n)
  BY <1>1, <1>2 DEF ActiveInv, IsActive, Watched
<1>7. OffMapInv(n)
  BY <1>1, <1>2, <1>4 DEF OffMapInv, OnMap
<1>8. ViewInv(n)
  <2> SUFFICES ASSUME NEW q \in Players, n.view[q] # q
               PROVE  OnMap(n, q) /\ n.view[q] \in Copies /\ InWorld(n, n.view[q])
    BY DEF ViewInv
  <2>1. q # p /\ q \in Objects /\ OnMap(m, q) /\ m.view[q] \in Copies /\ InWorld(m, m.view[q])
    BY <1>1, <1>2, Places DEF ViewInv
  <2> QED
    BY <1>2, <1>3, <1>4, <2>1 DEF OnMap, InWorld
<1>9. PlacesInv(n)
  <2>1. \A x \in Objects : OnMap(n, x) => OnMap(m, x) /\ n.pos[x] = m.pos[x]
    BY <1>3 DEF OnMap
  <2>2. \A o \in Copies : InWorld(m, o) => InWorld(n, o)
    BY <1>2, <1>4 DEF InWorld, OnMap
  <2> QED
    BY <1>1, <1>2, <2>1, <2>2, Places DEF PlacesInv, SameGrids
<1> QED
  BY <1>2, <1>5, <1>6, <1>7, <1>8, <1>9 DEF MapInv, ListsInv, SameGrids

\* Map::Remove(Player*) keeps the invariant: the camera is back before the player goes.
LEMMA RemovePlayerStep ==
  ASSUME IInv, NEW p \in Players, RemovePlayer(p)
  PROVE  IInv' /\ LocksHold
<1> DEFINE k == SetViewOf(Now, p, p)
           n == [k EXCEPT !.pos[p] = Nowhere]
<1>1. Become(n) /\ k = SetViewOf(Now, p, p) /\ pos[p] # Nowhere /\ UNCHANGED <<todo, spawned>>
  BY DEF RemovePlayer, Calm
<1>2. Repositioned(k, p, Nowhere, n)
  BY DEF Repositioned
<1> HIDE DEF n, k
<1>3. ListsInv(k) /\ SameGround(Now, k) /\ k.removing = removing /\ k.view[p] = p
  BY <1>1, ViewBack
<1>4. Good(k) /\ k.st = st
  BY <1>3, NowFields, GroundGood DEF SameGround
<1>5. Good(n)
  BY <1>2, <1>3, <1>4, PlayerLeaves DEF Good
<1> QED
  BY <1>1, <1>5, NextGood DEF IInv, RestOK

\* Loading or creating a grid in sight keeps the invariant.
LEMMA LoadNearGridStep ==
  ASSUME IInv, NEW g \in Grids, LoadNearGrid(g)
  PROVE  IInv' /\ LocksHold
<1>1. RoomToLoad /\ UNCHANGED <<todo, spawned>>
  BY DEF LoadNearGrid, Calm
<1>2. CASE Become(EnsureGridLoaded(Now, g))
  <2> DEFINE n == EnsureGridLoaded(Now, g)
  <2>1. n = EnsureGridLoaded(Now, g) /\ Become(n)
    BY <1>2
  <2> HIDE DEF n
  <2>2. LoadedAs(Now, g, n)
    BY <1>1, <2>1, NowOK, RoomForAll, LoadedEffect
  <2>3. Good(n)
    BY <2>2, LoadedGood
  <2> QED
    BY <1>1, <2>1, <2>3, NextGood DEF IInv, RestOK
<1>3. CASE Become(EnsureGridCreated(Now, g))
  <2> DEFINE n == EnsureGridCreated(Now, g)
  <2>1. n = EnsureGridCreated(Now, g) /\ Become(n)
    BY <1>3
  <2> HIDE DEF n
  <2>2. ListsInv(n) /\ Grown(Now, n) /\ n.pos = Now.pos /\ n.data = Now.data
    BY <2>1, NowOK, CreatedEffect
  <2>3. \A p \in Players : OnMap(n, p) => n.st[GridOf(n.pos[p])] = "active"
    BY <2>2, NowOK, WhereItIs, Places DEF PlacesInv, Grown, OnMap
  <2>4. PlacesInv(n)
    BY <2>2, <2>3, NowOK DEF PlacesInv, Grown, OnMap, InWorld
  <2>5. Good(n)
    BY <2>2, <2>4, NowFields, GrownGood DEF MapInv, Grown
  <2> QED
    BY <1>1, <2>1, <2>5, NextGood DEF IInv, RestOK
<1> QED
  BY <1>2, <1>3 DEF LoadNearGrid

----------------------------------------------------------------------------
(* The creatures.                                                          *)

\* WorldObject::setActive keeps the invariant.
LEMMA SetActiveStep ==
  ASSUME IInv, NEW o \in Copies, NEW R \in SUBSET Reasons, SetActive(o, R)
  PROVE  IInv' /\ LocksHold
<1> DEFINE n == SetActiveBy(Now, o, R)
<1>1. Become(n) /\ n = SetActiveBy(Now, o, R) /\ OnMap(Now, o) /\ UNCHANGED <<todo, spawned>>
  BY DEF SetActive, Calm, InWorld
<1> HIDE DEF n
<1>2. SetTo(Now, o, R, n)
  BY <1>1, NowOK, SetActiveByEffect
<1>3. ListsInv(n) /\ SameGround(Now, n) /\ n.removing = Now.removing
  BY <1>2 DEF SetTo
<1>4. Good(n)
  BY <1>3, NowFields, GroundGood
<1> QED
  BY <1>1, <1>4, NextGood DEF IInv, RestOK

\* A creature that can neither move nor be sent home is taken out of the world; its
\* spawn grid is not loaded.
LEMMA MoveCreatureStep ==
  ASSUME IInv, NEW o \in Copies, NEW cell \in Cells, MoveCreature(o, cell)
  PROVE  IInv' /\ LocksHold
<1>1. RoomToLoad /\ OnMap(Now, o) /\ UNCHANGED <<todo, spawned>>
  BY DEF MoveCreature, Calm, InWorld
<1> DEFINE R == by[o] \ {"combat"}
           home == Home[o[1]]
           k == SetActiveBy(Now, o, R)
           m == CreatureRespawnRelocation(Now, o)
<1>2. CASE CanRelocate(Now, o, cell)
  <2> DEFINE n == CreatureCellRelocation(Now, o, cell)
  <2>1. Become(n) /\ n = CreatureCellRelocation(Now, o, cell)
    BY <1>2 DEF MoveCreature
  <2> HIDE DEF n
  <2>2. MovedTo(Now, o, cell, n)
    BY <1>1, <1>2, <2>1, NowOK, RoomForAll, RelocatedEffect
  <2>3. Good(n)
    BY <2>2, NowFields, GrownGood DEF MovedTo
  <2> QED
    BY <1>1, <2>1, <2>3, NextGood DEF IInv, RestOK
<1>3. CASE ~CanRelocate(Now, o, cell)
  <2>1. Become(IF CanRelocate(k, o, home) THEN m ELSE CleanupsBeforeDelete(m, o))
    BY <1>3, Zenon DEF MoveCreature
  <2>2. CASE CanRelocate(k, o, home)
    <3>1. Become(m) /\ m = CreatureRespawnRelocation(Now, o)
      BY <2>1, <2>2
    <3> HIDE DEF m, k
    <3>2. RespawnedAs(Now, o, m)
      BY <1>1, <3>1, NowOK, RoomForAll, RespawnedEffect
    <3>3. Good(m)
      BY <3>2, NowFields, GrownGood DEF RespawnedAs
    <3> QED
      BY <1>1, <3>1, <3>3, NextGood DEF IInv, RestOK
  <2>3. CASE ~CanRelocate(k, o, home)
    <3> DEFINE n == CleanupsBeforeDelete(k, o)
    <3>1. m = k
      BY <2>3, NowFields, Zenon DEF CreatureRespawnRelocation
    <3>2. Become(n) /\ n = CleanupsBeforeDelete(k, o) /\ k = SetActiveBy(Now, o, R)
      BY <2>1, <2>3, <3>1
    <3>3. R \in SUBSET Reasons
      BY NowOK, NowFields DEF IsMap
    <3>4. ~k.data[GridOf(home)]
      BY <2>3 DEF CanRelocate, IsLoaded
    <3> HIDE DEF m, k, n, R
    <3>5. SetTo(Now, o, R, k)
      BY <1>1, <3>2, <3>3, NowOK, SetActiveByEffect
    <3>6. ListsInv(k) /\ SameGround(Now, k) /\ k.removing = Now.removing /\ OnMap(k, o)
      BY <1>1, <3>5 DEF SetTo, SameGround, OnMap
    <3>7. PlacesInv(k)
      BY <3>6, NowOK, GroundPlaces
    <3>8. ListsInv(n) /\ SameGround(k, n) /\ n.removing = k.removing \cup {o}
      BY <3>2, <3>6, CleanupsEffect
    <3>9. n.st = k.st /\ n.data = k.data /\ n.pos = k.pos /\ n.st = st
      BY <3>6, <3>8, NowFields DEF SameGround
    <3>10. ASSUME NEW c \in spawned, n.data[GridOf(Home[c])]
           PROVE  \E x \in Copies : x[1] = c /\ InWorld(n, x)
      <4>1. PICK x \in Copies : x[1] = c /\ InWorld(k, x)
        BY <3>7, <3>9, <3>10 DEF PlacesInv
      <4>2. x # o
        BY <3>4, <3>9, <3>10, <4>1
      <4> QED
        BY <3>8, <3>9, <4>1, <4>2 DEF InWorld, OnMap
    <3>11. PlacesInv(n)
      BY <3>7, <3>9, <3>10 DEF PlacesInv, OnMap
    <3>12. Good(n)
      BY <3>8, <3>9, <3>11, GrownGood DEF MapInv
    <3> QED
      BY <1>1, <3>2, <3>12, NextGood DEF IInv, RestOK
  <2> QED
    BY <2>2, <2>3
<1> QED
  BY <1>2, <1>3

\* A creature is spawned or not any more: who is where is said of the spawned ones.
LEMMA SpawningNext ==
  ASSUME IInv, NEW n, ListsInv(n), Become(n), spawned' \subseteq Creatures, UNCHANGED todo,
         \A p \in Players : OnMap(n, p) => n.st[GridOf(n.pos[p])] = "active",
         \A x \in Objects : OnMap(n, x) => n.data[GridOf(n.pos[x])],
         \A c \in spawned' : n.data[GridOf(Home[c])] => \E o \in Copies : o[1] = c /\ InWorld(n, o),
         n.st = st
  PROVE  IInv' /\ LocksHold
<1>1. MapInv(Now)'
  BY PlacesAfter, ListsAfter DEF MapInv, ListsInv
<1>2. RestOK'
  BY Became DEF IInv, RestOK
<1>3. LocksHold
  BY Became DEF LocksHold
<1> QED
  BY <1>1, <1>2, <1>3 DEF IInv

\* GameEventUnspawn keeps the invariant: the creature is not asked for any more.
LEMMA UnspawnStep ==
  ASSUME IInv, NEW c \in Creatures, Unspawn(c)
  PROVE  IInv' /\ LocksHold
<1>1. spawned' = spawned \ {c} /\ spawned' \subseteq Creatures /\ UNCHANGED todo
  BY DEF Unspawn, IInv, RestOK
<1>2. CASE Become(Now)
  BY <1>1, <1>2, NowOK, NowFields, SpawningNext DEF PlacesInv
<1>3. ASSUME NEW o \in Copies, o[1] = c, InWorld(Now, o), Become(CleanupsBeforeDelete(Now, o))
      PROVE  IInv' /\ LocksHold
  <2> DEFINE n == CleanupsBeforeDelete(Now, o)
  <2>1. n = CleanupsBeforeDelete(Now, o) /\ Become(n)
    BY <1>3
  <2> HIDE DEF n
  <2>2. ListsInv(n) /\ SameGround(Now, n) /\ n.removing = Now.removing \cup {o}
    BY <1>3, <2>1, NowOK, CleanupsEffect DEF InWorld
  <2>3. n.st = st /\ n.st = Now.st /\ n.data = Now.data /\ n.pos = Now.pos
    BY <2>2, NowFields DEF SameGround
  <2>4. \A x \in Copies : x # o /\ InWorld(Now, x) => InWorld(n, x)
    BY <2>2, <2>3 DEF InWorld, OnMap
  <2>5. ASSUME NEW d \in spawned', n.data[GridOf(Home[d])]
        PROVE  \E x \in Copies : x[1] = d /\ InWorld(n, x)
    <3>1. d \in spawned /\ d # c
      BY <1>1
    <3>2. PICK x \in Copies : x[1] = d /\ InWorld(Now, x)
      BY <2>3, <2>5, <3>1, NowOK DEF PlacesInv
    <3> QED
      BY <1>3, <2>4, <3>1, <3>2
  <2>6. /\ \A p \in Players : OnMap(n, p) => n.st[GridOf(n.pos[p])] = "active"
        /\ \A x \in Objects : OnMap(n, x) => n.data[GridOf(n.pos[x])]
    BY <2>3, NowOK DEF PlacesInv, OnMap
  <2> QED
    BY <1>1, <2>1, <2>2, <2>3, <2>5, <2>6, SpawningNext
<1> QED
  BY <1>2, <1>3 DEF Unspawn

\* GameEventSpawn keeps the invariant: in a loaded grid the creature is made at once.
LEMMA SpawnStep ==
  ASSUME IInv, NEW c \in Creatures, Spawn(c)
  PROVE  IInv' /\ LocksHold
<1>1. spawned' = spawned \cup {c} /\ spawned' \subseteq Creatures /\ UNCHANGED todo
  BY DEF Spawn, IInv, RestOK
<1>2. CASE ~Now.data[GridOf(Home[c])]
  <2>1. Become(Now)
    BY <1>2 DEF Spawn, IsLoaded
  <2> QED
    BY <1>1, <1>2, <2>1, NowOK, NowFields, SpawningNext DEF PlacesInv
<1>3. CASE Now.data[GridOf(Home[c])]
  <2> DEFINE n == Make(Now, c)
  <2>1. n = Make(Now, c) /\ Become(n) /\ FreeCopies(Now, c) # {}
    BY <1>3 DEF Spawn, IsLoaded
  <2> HIDE DEF n
  <2>2. PICK o \in FreeCopies(Now, c) : MadeAs(Now, c, o, n)
    BY <2>1, NowOK, MakeEffect
  <2>3. /\ ListsInv(n) /\ IsMap(n) /\ n.st = Now.st /\ n.data = Now.data /\ n.removing = Now.removing
        /\ n.pos = [Now.pos EXCEPT ![o] = Home[c]]
    BY <2>2 DEF MadeAs, SameGrids, ListsInv
  <2>4. /\ o \in Copies /\ o \in Objects /\ o[1] = c /\ ~OnMap(Now, o) /\ o \notin Now.removing
        /\ Home[c] # Nowhere /\ o \notin Players
    BY NowOK, Places, GridConstants DEF FreeCopies, OffMapInv
  <2>5. \A x \in Objects : n.pos[x] = IF x = o THEN Home[c] ELSE Now.pos[x]
    BY <2>3, NowOK DEF IsMap
  <2>6. InWorld(n, o) /\ \A x \in Copies : InWorld(Now, x) => InWorld(n, x)
    BY <2>3, <2>4, <2>5, Places DEF InWorld, OnMap
  <2>7. \A d \in spawned' : n.data[GridOf(Home[d])] => \E x \in Copies : x[1] = d /\ InWorld(n, x)
    BY <1>1, <2>3, <2>4, <2>6, NowOK DEF PlacesInv
  <2>8. \A p \in Players : OnMap(n, p) => n.st[GridOf(n.pos[p])] = "active"
    BY <2>3, <2>4, <2>5, NowOK, Places DEF PlacesInv, OnMap
  <2>9. \A x \in Objects : OnMap(n, x) => n.data[GridOf(n.pos[x])]
    BY <1>3, <2>3, <2>5, NowOK DEF PlacesInv, OnMap
  <2>10. n.st = st /\ ListsInv(n)
    BY <2>3, NowFields
  <2>11. Become(n) /\ spawned' \subseteq Creatures /\ UNCHANGED todo
    BY <1>1, <2>1
  <2> QED
    BY <2>7, <2>8, <2>9, <2>10, <2>11, SpawningNext
<1> QED
  BY <1>2, <1>3

----------------------------------------------------------------------------
(* The walk over the grids.                                                *)

\* Map::RemoveAllObjectsInRemoveList keeps the invariant.
LEMMA BeginUpdateStep ==
  ASSUME IInv, BeginUpdate
  PROVE  IInv' /\ LocksHold
<1> DEFINE n == RemoveAllObjectsInRemoveList(Now)
<1>1. /\ n = RemoveAllObjectsInRemoveList(Now) /\ Become(n) /\ UNCHANGED spawned
      /\ todo' \subseteq Grids /\ (bg => todo' = {})
  BY DEF BeginUpdate
<1> HIDE DEF n
<1>2. \A o \in Copies : OnMap(Now, o) => Now.data[GridOf(Now.pos[o])]
  BY NowOK, Places DEF PlacesInv
<1>3. /\ ListsInv(n) /\ n.st = Now.st /\ n.data = Now.data /\ n.removing = {}
      /\ \A x \in Objects : n.pos[x] = IF x \in Now.removing THEN Nowhere ELSE Now.pos[x]
  BY <1>1, <1>2, NowOK, RemoveListEffect DEF SameGrids
<1>4. \A x \in Objects : OnMap(n, x) => OnMap(Now, x) /\ n.pos[x] = Now.pos[x]
  BY <1>3 DEF OnMap
<1>5. \A x \in Copies : InWorld(Now, x) => InWorld(n, x)
  BY <1>3, Places DEF InWorld, OnMap
<1>6. PlacesInv(n)
  BY <1>3, <1>4, <1>5, NowOK, Places DEF PlacesInv
<1>7. n.st = st
  BY <1>3, NowFields
<1>8. Good(n)
  BY <1>3, <1>6, <1>7, GrownGood DEF MapInv
<1> QED
  BY <1>1, <1>8, NextGood

\* A timer is set.
LEMMA TimerSet ==
  ASSUME NEW m, MapInv(m), NEW g \in Grids, NEW t \in 0 .. Expiry, NEW n, n = [m EXCEPT !.timer[g] = t]
  PROVE  /\ MapInv(n) /\ n.st = m.st /\ n.data = m.data /\ n.lock = m.lock /\ n.pos = m.pos
         /\ n.by = m.by /\ n.view = m.view /\ n.active = m.active /\ n.removing = m.removing
         /\ n.odd = m.odd
<1>1. IsMap(m) /\ CountInv(m) /\ ActiveInv(m) /\ OffMapInv(m) /\ ViewInv(m) /\ PlacesInv(m)
  BY DEF MapInv, ListsInv
<1>2. IsRecord(n)
  BY <1>1, Zenon DEF IsRecord, IsMap
<1>3. /\ IsMap(n) /\ n.st = m.st /\ n.data = m.data /\ n.lock = m.lock /\ n.pos = m.pos
      /\ n.by = m.by /\ n.view = m.view /\ n.active = m.active /\ n.removing = m.removing
      /\ n.odd = m.odd
  BY <1>1, <1>2, SMTT(30) DEF IsMap, Fields
<1>4. CountInv(n) /\ ActiveInv(n)
  BY <1>1, <1>3 DEF CountInv, ActiveOf, ActiveInv, IsActive, Watched
<1>5. OffMapInv(n) /\ ViewInv(n) /\ PlacesInv(n)
  BY <1>1, <1>3 DEF OffMapInv, ViewInv, PlacesInv, OnMap, InWorld
<1> QED
  BY <1>3, <1>4, <1>5 DEF MapInv, ListsInv

\* A grid without players goes on to the next state.
GoesTo(m, g, s, n) == s \in {"idle", "removal"} /\ n = [m EXCEPT !.st[g] = s]
NoPlayersIn(m, g) == \A p \in Players : OnMap(m, p) => GridOf(m.pos[p]) # g

\* A grid without players may change its state.
LEMMA StateSet ==
  ASSUME NEW m, MapInv(m), NEW g \in Grids, NEW s, m.st[g] # "none",
         NoPlayersIn(m, g), NEW n, GoesTo(m, g, s, n)
  PROVE  MapInv(n) /\ n.st = [m.st EXCEPT ![g] = s]
<1>1. IsMap(m) /\ CountInv(m) /\ ActiveInv(m) /\ OffMapInv(m) /\ ViewInv(m) /\ PlacesInv(m)
      /\ m.st \in [Grids -> {"none", "idle", "active", "removal"}]
      /\ n = [m EXCEPT !.st[g] = s] /\ s \in {"idle", "removal"}
  BY DEF MapInv, ListsInv, IsMap, GoesTo
<1>2. IsRecord(n)
  BY <1>1, Zenon DEF IsRecord, IsMap
<1>3. /\ IsMap(n) /\ n.st = [m.st EXCEPT ![g] = s] /\ n.data = m.data /\ n.lock = m.lock /\ n.pos = m.pos
      /\ n.by = m.by /\ n.view = m.view /\ n.active = m.active /\ n.removing = m.removing
      /\ n.odd = m.odd
  BY <1>1, <1>2, SMTT(30) DEF IsMap, Fields
<1>4. CountInv(n)
  BY <1>1, <1>3 DEF CountInv, ActiveOf
<1>5. ActiveInv(n)
  BY <1>1, <1>3 DEF ActiveInv, IsActive, Watched
<1>6. OffMapInv(n) /\ ViewInv(n)
  BY <1>1, <1>3 DEF OffMapInv, ViewInv, OnMap, InWorld
<1>7. \A p \in Players : OnMap(n, p) => n.st[GridOf(n.pos[p])] = "active"
  BY <1>1, <1>3, WhereItIs, Places DEF PlacesInv, OnMap, NoPlayersIn
<1>8. PlacesInv(n)
  BY <1>1, <1>3, <1>7 DEF PlacesInv, OnMap, InWorld
<1> QED
  BY <1>3, <1>4, <1>5, <1>6, <1>8 DEF MapInv, ListsInv

\* What is in a grid is near to it.
LEMMA InsideIsNear ==
  ASSUME NEW cell \in Cells
  PROVE  Near(GridOf(cell), cell)
<1> DEFINE q == cell \div CellsPerGrid
<1>1. cell \in Nat /\ CellsPerGrid \in Nat \ {0} /\ CellRange \in Nat /\ q \in Int
  BY GridConstants, SMTT(30) DEF Cells
<1>2. q * CellsPerGrid <= cell /\ cell < (q + 1) * CellsPerGrid
  BY <1>1, SMTT(30)
<1> HIDE DEF q
<1>3. q * CellsPerGrid \in Int /\ (q + 1) * CellsPerGrid \in Int
  BY <1>1
<1>4. q * CellsPerGrid - CellRange <= cell /\ cell <= (q + 1) * CellsPerGrid + CellRange
  BY <1>1, <1>2, <1>3
<1> QED
  BY <1>1, <1>3, <1>4 DEF Near, GridOf, q

\* A player in a grid is near to it.
LEMMA NobodyNear ==
  ASSUME NEW m, IsMap(m), NEW g, ~ActiveObjectsNearGrid(m, g), NEW p \in Players, OnMap(m, p)
  PROVE  GridOf(m.pos[p]) # g
<1>1. m.pos[p] \in Cells /\ ~Near(g, m.pos[p])
  BY WhereItIs, Places DEF ActiveObjectsNearGrid
<1> QED
  BY <1>1, InsideIsNear

\* The time tracker of a grid is set, or runs.
TimedNow(m) ==
    /\ MapInv(m) /\ Good(m) /\ m.st = st /\ m.data = data /\ m.lock = lock /\ m.pos = pos
    /\ m.by = by /\ m.view = view /\ m.active = active /\ m.removing = removing /\ m.odd = odd

\* The map with a timer that has ticked is the map of now but for the timer.
LEMMA TickedNow ==
  ASSUME IInv, NEW g \in Grids, NEW m, m = Ticked(Now, g)
  PROVE  TimedNow(m)
<1> DEFINE t == IF Now.timer[g] > 0 THEN Now.timer[g] - 1 ELSE 0
<1>1. m = [Now EXCEPT !.timer[g] = t]
  BY Zenon DEF Ticked
<1>2. Now.timer[g] \in 0 .. Expiry
  BY NowOK DEF IsMap
<1>3. t \in 0 .. Expiry
  BY <1>2, GridConstants
<1> HIDE DEF t
<1>4. MapInv(m) /\ m.st = Now.st /\ m.data = Now.data /\ m.lock = Now.lock /\ m.pos = Now.pos
      /\ m.by = Now.by /\ m.view = Now.view /\ m.active = Now.active /\ m.removing = Now.removing
      /\ m.odd = Now.odd
  BY <1>1, <1>3, NowOK, TimerSet
<1> QED
  BY <1>4, NowFields, GrownGood DEF TimedNow

\* The same for a timer that is reset.
LEMMA ResetNow ==
  ASSUME NEW k, TimedNow(k), NEW g \in Grids, NEW t \in {Short, Expiry}, NEW m, m = Reset(k, g, t)
  PROVE  TimedNow(m)
<1>1. t \in 0 .. Expiry
  BY GridConstants
<1>2. m = [k EXCEPT !.timer[g] = t]
  BY Zenon DEF Reset
<1>3. MapInv(m) /\ m.st = k.st /\ m.data = k.data /\ m.lock = k.lock /\ m.pos = k.pos
      /\ m.by = k.by /\ m.view = k.view /\ m.active = k.active /\ m.removing = k.removing
      /\ m.odd = k.odd
  BY <1>1, <1>2, TimerSet DEF TimedNow
<1> QED
  BY <1>3, GrownGood DEF TimedNow

\* The map of now is itself such a map.
LEMMA NowTimed == ASSUME IInv PROVE TimedNow(Now)
BY NowOK, NowFields, GrownGood DEF TimedNow

\* A grid goes on to the next state, and nothing is unloaded.
LEMMA StateGood ==
  ASSUME NEW k, MapInv(k), k.st = st, NEW g \in Grids, NEW s, st[g] # "none",
         NoPlayersIn(k, g), NEW n, GoesTo(k, g, s, n)
  PROVE  Good(n)
<1>0. k.st[g] # "none"
  OBVIOUS
<1>1. MapInv(n) /\ n.st = [k.st EXCEPT ![g] = s]
  BY <1>0, StateSet
<1>2. k.st \in [Grids -> {"none", "idle", "active", "removal"}]
  BY DEF MapInv, ListsInv, IsMap
<1> QED
  BY <1>1, <1>2, GrownGood DEF GoesTo

\* ActiveState::Update.
LEMMA UpdateActiveGood ==
  ASSUME IInv, NEW g \in Grids, UpdateActive(g)
  PROVE  \E n : Good(n) /\ Become(n)
<1> DEFINE m == Ticked(Now, g)
<1>1. TimedNow(m) /\ st[g] = "active"
  BY TickedNow DEF UpdateActive
<1>2. \/ Become(m)
      \/ Become(Reset(m, g, Short))
      \/ ~ActiveObjectsNearGrid(m, g) /\ Become([FightsStopped(m, g) EXCEPT !.st[g] = "idle"])
  BY Zenon DEF UpdateActive
<1> HIDE DEF m
<1>3. CASE Become(m)
  BY <1>1, <1>3 DEF TimedNow
<1>4. CASE Become(Reset(m, g, Short))
  <2>1. TimedNow(Reset(m, g, Short))
    BY <1>1, ResetNow
  <2> QED
    BY <1>4, <2>1 DEF TimedNow
<1>5. CASE ~ActiveObjectsNearGrid(m, g) /\ Become([FightsStopped(m, g) EXCEPT !.st[g] = "idle"])
  <2> DEFINE k == FightsStopped(m, g)
             n == [k EXCEPT !.st[g] = "idle"]
  <2>1. k = FightsStopped(m, g) /\ Become(n)
    BY <1>5
  <2> HIDE DEF k
  <2>2. ListsInv(m) /\ PlacesInv(m) /\ IsMap(m) /\ m.st = st
    BY <1>1 DEF TimedNow, MapInv, ListsInv
  <2>3. ListsInv(k) /\ SameGround(m, k) /\ k.removing = m.removing
    BY <2>1, <2>2, FightsStoppedEffect
  <2>4. PlacesInv(k)
    BY <2>2, <2>3, GroundPlaces
  <2>5. k.st = st /\ k.pos = m.pos
    BY <2>2, <2>3 DEF SameGround
  <2>6. NoPlayersIn(k, g)
    BY <1>5, <2>2, <2>5, NobodyNear DEF OnMap, NoPlayersIn
  <2>7. GoesTo(k, g, "idle", n)
    BY DEF GoesTo
  <2> HIDE DEF n
  <2>8. Good(n)
    BY <1>1, <2>3, <2>4, <2>5, <2>6, <2>7, StateGood DEF MapInv
  <2> QED
    BY <2>1, <2>8
<1> QED
  BY <1>2, <1>3, <1>4, <1>5

\* IdleState::Update.
LEMMA UpdateIdleGood ==
  ASSUME IInv, NEW g \in Grids, UpdateIdle(g)
  PROVE  \E n : Good(n) /\ Become(n)
<1> DEFINE k == Reset(Now, g, Expiry)
           n == [k EXCEPT !.st[g] = "removal"]
<1>1. Become(n) /\ k = Reset(Now, g, Expiry) /\ st[g] = "idle"
  BY DEF UpdateIdle
<1>2. GoesTo(k, g, "removal", n)
  BY DEF GoesTo
<1> HIDE DEF k, n
<1>3. TimedNow(k)
  BY <1>1, NowTimed, ResetNow
<1>4. MapInv(k) /\ PlacesInv(k) /\ k.st = st
  BY <1>3 DEF TimedNow, MapInv
<1>5. NoPlayersIn(k, g)
  BY <1>1, <1>4 DEF PlacesInv, NoPlayersIn
<1>6. Good(n)
  BY <1>1, <1>2, <1>4, <1>5, StateGood
<1> QED
  BY <1>1, <1>6

\* RemovalState::Update.
LEMMA UpdateRemovalGood ==
  ASSUME IInv, NEW g \in Grids, g \in todo, UpdateRemoval(g)
  PROVE  \E n : Good(n) /\ Become(n)
<1> DEFINE m == Ticked(Now, g)
<1>1. TimedNow(m) /\ st[g] = "removal"
  BY TickedNow DEF UpdateRemoval
<1>2. \/ Become(Now)
      \/ Become(m)
      \/ Become(Reset(m, g, Expiry))
      \/ /\ ~UnloadLock(g) /\ ~ActiveObjectsNearGrid(m, g)
         /\ Returning(m, g) # {} => RoomToLoad
         /\ Become(UnloadGrid(m, g))
  BY Zenon DEF UpdateRemoval
<1> HIDE DEF m
<1>3. CASE Become(Now)
  BY <1>3, NowTimed DEF TimedNow
<1>4. CASE Become(m)
  BY <1>1, <1>4 DEF TimedNow
<1>5. CASE Become(Reset(m, g, Expiry))
  <2>1. TimedNow(Reset(m, g, Expiry))
    BY <1>1, ResetNow
  <2> QED
    BY <1>5, <2>1 DEF TimedNow
<1>6. CASE /\ ~UnloadLock(g) /\ ~ActiveObjectsNearGrid(m, g)
           /\ Returning(m, g) # {} => RoomToLoad
           /\ Become(UnloadGrid(m, g))
  <2> DEFINE n == UnloadGrid(m, g)
  <2>1. n = UnloadGrid(m, g) /\ Become(n)
    BY <1>6
  <2> HIDE DEF n
  <2>2. MapInv(m) /\ IsMap(m) /\ m.st = st /\ spawned \subseteq Creatures
    BY <1>1, NowOK DEF TimedNow, MapInv, ListsInv
  <2>3. m.lock[g] = 0 /\ Unlocked(g)
    <3>1. m.lock[g] \in Nat /\ m.lock = lock
      BY <1>1, <2>2 DEF TimedNow, IsMap
    <3>2. ~bg
      BY DEF IInv, RestOK
    <3> QED
      BY <1>6, <3>1, <3>2 DEF UnloadLock, Unlocked
  <2>4. \A p \in Players : OnMap(m, p) => GridOf(m.pos[p]) # g
    BY <1>6, <2>2, NobodyNear
  <2>5. ASSUME Returning(m, g) # {} PROVE Room(m)
    <3>1. Room(Now)
      BY <1>6, <2>5, RoomForAll
    <3>2. Now.data = m.data /\ \A c : FreeCopies(m, c) = FreeCopies(Now, c)
      BY <1>1, NowFields DEF TimedNow, FreeCopies, OnMap
    <3> QED
      BY <3>1, <3>2 DEF Room
  <2>6. MapInv(n) /\ \A h \in Grids : h # g /\ m.st[h] # "none" => n.st[h] # "none"
    BY <2>1, <2>2, <2>3, <2>4, <2>5, UnloadEffect
  <2>7. Good(n)
    BY <2>2, <2>3, <2>6 DEF Good
  <2> QED
    BY <2>1, <2>7
<1> QED
  BY <1>2, <1>3, <1>4, <1>5, <1>6

\* The update of a grid, by the class of its state, keeps the invariant.
LEMMA UpdateGridStep ==
  ASSUME IInv, NEW g \in Grids, UpdateGrid(g)
  PROVE  IInv' /\ LocksHold
<1>1. todo' \subseteq Grids /\ UNCHANGED spawned /\ (bg => todo' = {}) /\ g \in todo
  BY DEF UpdateGrid, IInv, RestOK
<1>2. \E n : Good(n) /\ Become(n)
  BY <1>1, UpdateActiveGood, UpdateIdleGood, UpdateRemovalGood DEF UpdateGrid
<1> QED
  BY <1>1, <1>2, NextGood

----------------------------------------------------------------------------
(* The theorems.                                                           *)

\* The invariant of the empty map.
LEMMA StartOK == ASSUME Init PROVE IInv
<1> USE DEF Init
<1>1. IsMap(Now)
  <2>1. 0 \in 0 .. Expiry /\ \A p \in Players : p \in Objects \cup {Nowhere}
    BY GridConstants, Places
  <2> QED
    BY <2>1, NowFields DEF IsMap
<1>2. \A g : ActiveOf(Now, g) = {}
  BY NowFields DEF ActiveOf
<1>3. CountInv(Now)
  <2>1. \A g : Cardinality(ActiveOf(Now, g)) = 0
    BY <1>2, FS_EmptySet
  <2> QED
    BY <2>1, NowFields DEF CountInv
<1>4. ActiveInv(Now)
  BY NowFields, Places DEF ActiveInv, IsActive, Watched
<1>5. OffMapInv(Now) /\ ViewInv(Now)
  BY NowFields DEF OffMapInv, ViewInv
<1>6. PlacesInv(Now)
  <2>1. \A x \in Objects : ~OnMap(Now, x)
    BY NowFields DEF OnMap
  <2>2. \A c \in spawned : ~Now.data[GridOf(Home[c])]
    BY NowFields, GridConstants, Places
  <2> QED
    BY <2>1, <2>2, Places DEF PlacesInv
<1>7. RestOK
  BY DEF RestOK
<1> QED
  BY <1>1, <1>3, <1>4, <1>5, <1>6, <1>7 DEF IInv, MapInv, ListsInv

\* What changes nothing keeps the invariant.
LEMMA Stutter == ASSUME IInv, UNCHANGED vars PROVE IInv' /\ LocksHold
<1>1. Now' = Now /\ UNCHANGED <<scripted, spawned, todo, st, explicit, bg>>
  BY DEF vars, Now
<1>2. MapInv(Now)'
  BY <1>1 DEF IInv, MapInv, PlacesInv
<1> QED
  BY <1>1, <1>2 DEF IInv, RestOK, LocksHold

\* Every step keeps the invariant, and unloads only a grid whose lock is free.
LEMMA NextStep == ASSUME IInv, [Next]_vars PROVE IInv' /\ LocksHold
<1>1. ASSUME NEW p \in Players, NEW cell \in Cells, AddPlayer(p, cell) \/ PlayerRelocation(p, cell)
      PROVE  IInv' /\ LocksHold
  BY <1>1, AddPlayerStep, PlayerRelocationStep
<1>2. ASSUME NEW p \in Players, RemovePlayer(p) \/ ResetView(p) PROVE IInv' /\ LocksHold
  BY <1>2, RemovePlayerStep, ResetViewStep
<1>3. ASSUME NEW p \in Players, NEW o \in Copies, SetView(p, o) PROVE IInv' /\ LocksHold
  BY <1>3, SetViewStep
<1>4. ASSUME NEW o \in Copies, NEW reasons \in SUBSET Reasons, SetActive(o, reasons)
      PROVE  IInv' /\ LocksHold
  BY <1>4, SetActiveStep
<1>5. ASSUME NEW o \in Copies, NEW cell \in Cells, MoveCreature(o, cell) PROVE IInv' /\ LocksHold
  BY <1>5, MoveCreatureStep
<1>6. ASSUME NEW c \in Creatures, Spawn(c) \/ Unspawn(c) PROVE IInv' /\ LocksHold
  BY <1>6, SpawnStep, UnspawnStep
<1>7. ASSUME NEW g \in Grids, LoadNearGrid(g) \/ UpdateGrid(g) PROVE IInv' /\ LocksHold
  BY <1>7, LoadNearGridStep, UpdateGridStep
<1> QED
  BY <1>1, <1>2, <1>3, <1>4, <1>5, <1>6, <1>7, BeginUpdateStep, Stutter, Zenon DEF Next

\* The invariant holds in every state.
LEMMA Invariance == Spec => []IInv
<1>1. Init => IInv
  BY StartOK
<1>2. IInv /\ [Next]_vars => IInv'
  BY NextStep
<1> QED
  BY <1>1, <1>2, PTL DEF Spec

\* For any number of players, creatures and grids: the variables have their types,
\* whatever is loaded and unloaded (Map.cpp, GridStates.cpp, Camera.cpp).
THEOREM TypesCorrect == Spec => []TypeOK
<1>1. ASSUME IInv PROVE TypeOK
  <2>1. ViewInv(Now) /\ IsMap(Now) /\ RestOK
    BY <1>1, NowOK DEF IInv
  <2>2. \A p \in Players : view[p] \in Objects
    BY <2>1, NowFields, Places DEF ViewInv
  <2>3. view \in [Players -> Objects]
    BY <2>1, <2>2, NowFields DEF IsMap
  <2> QED
    BY <2>1, <2>3, NowFields DEF TypeOK, IsMap, RestOK
<1> QED
  BY <1>1, Invariance, PTL

\* For any number of players, creatures and grids: a player is in a loaded grid that is
\* ACTIVE, a creature in a loaded one, and a creature whose spawn grid is loaded
\* exists, however it walked and whichever grid was unloaded under it
\* (ObjectGridRespawnMover, Map::CreatureRespawnRelocation, Map::EnsureGridLoadedAtEnter).
THEOREM VanishCorrect == Spec => []NobodyVanishes
<1>1. ASSUME IInv PROVE NobodyVanishes
  <2>1. PlacesInv(Now)
    BY <1>1, NowOK
  <2>2. PlayersGridIsActive
    BY <2>1, NowFields, Places DEF PlacesInv, PlayersGridIsActive, OnMap
  <2>3. NoCreatureIsLost
    BY <2>1, NowFields, Places DEF PlacesInv, NoCreatureIsLost, OnMap, InWorld
  <2> QED
    BY <2>2, <2>3 DEF NobodyVanishes
<1> QED
  BY <1>1, Invariance, PTL

\* For any number of players, creatures and grids: the unload lock of a grid is the number
\* of the active creatures that spawned in it, and the list of active objects has
\* only objects of the map, but where one of the known slips has happened
\* (Map::AddToActive, Map::RemoveFromActive, WorldObject::setActive, Camera::SetView).
THEOREM LockCorrect == Spec => []LockCountsActives
<1>1. ASSUME IInv PROVE LockCountsActives
  <2>1. CountInv(Now) /\ ActiveInv(Now) /\ OffMapInv(Now) /\ ViewInv(Now)
    BY <1>1, NowOK
  <2>2. ASSUME NEW g \in Grids \ odd
        PROVE  lock[g] = Cardinality({o \in active \cap Copies : HomeGrid(o) = g})
    BY <2>1, NowFields DEF CountInv, ActiveOf
  <2>3. ASSUME NEW o \in active \cap Copies, pos[o] = Nowhere PROVE HomeGrid(o) \in odd
    <3> SUFFICES ASSUME HomeGrid(o) \notin odd PROVE FALSE
      OBVIOUS
    <3>1. ~OnMap(Now, o) /\ IsActive(Now, o)
      BY <2>1, <2>3, NowFields DEF ActiveInv, OnMap
    <3>2. Now.by[o] = {}
      BY <2>1, <3>1 DEF OffMapInv
    <3>3. ~Watched(Now, o)
      BY <2>1, <3>1, Places DEF ViewInv, Watched, InWorld
    <3> QED
      BY <3>1, <3>2, <3>3 DEF IsActive
  <2> QED
    BY <2>2, <2>3 DEF LockCountsActives
<1> QED
  BY <1>1, Invariance, PTL

\* For any number of players, creatures and grids: the grid in which an active creature
\* spawned is not unloaded, so that the creature is not made twice, but for the
\* grids where one of the known slips has happened (RemovalState::Update); a grid
\* made while GridUnload was off and a grid of a battleground are never unloaded.
THEOREM StaysCorrect == Spec => LockedGridStays
<1> DEFINE Stays == \A g \in Grids : (st[g] # "none" /\ st'[g] = "none")
                       => /\ g \notin odd => \A o \in active \cap Copies : HomeGrid(o) # g
                          /\ g \notin explicit /\ ~bg
<1>1. ASSUME IInv, [Next]_vars PROVE Stays
  <2> SUFFICES ASSUME NEW g \in Grids, st[g] # "none", st'[g] = "none"
               PROVE  /\ g \notin odd => \A o \in active \cap Copies : HomeGrid(o) # g
                      /\ g \notin explicit /\ ~bg
    OBVIOUS
  <2>1. lock[g] = 0 /\ g \notin explicit /\ ~bg
    BY <1>1, NextStep DEF LocksHold, Unlocked
  <2>2. CountInv(Now) /\ IsMap(Now)
    BY <1>1, NowOK
  <2>3. ASSUME g \notin odd PROVE \A o \in active \cap Copies : HomeGrid(o) # g
    <3>1. Cardinality(ActiveOf(Now, g)) = 0
      BY <2>1, <2>2, <2>3, NowFields DEF CountInv
    <3>2. ActiveOf(Now, g) = {}
      BY <2>2, <3>1, FiniteActive
    <3> QED
      BY <3>2, NowFields DEF ActiveOf
  <2> QED
    BY <2>1, <2>3
<1>2. IInv /\ [Next]_vars => [Stays]_vars
  BY <1>1
<1> QED
  BY <1>2, Invariance, PTL DEF Spec, LockedGridStays

=============================================================================
