-------------------------- MODULE GroupLootProofs --------------------------
(***************************************************************************)
(* Theorems about GroupLoot, for any players, any items and any length of  *)
(* a roll.                                                                 *)
(***************************************************************************)
EXTENDS GroupLoot, FiniteSetTheorems, SequenceTheorems, TLAPS

Totals == [{"rolling", "need", "greed", "pass"} -> Nat]
Results == Players \cup {"free", "kept"}

\* The counters t are no less than the votes v, and the voters are counted.
Counted(v, t) ==
    /\ \A c \in Choices : t[c] >= Cardinality({p \in Players : v[p] = c})
    /\ t.rolling = Cardinality(Players \ {p \in Players : v[p] = "out"})

\* The counters t are those of the votes v.
Exact(v, t) == \A c \in Choices : t[c] = Cardinality({p \in Players : v[p] = c})

\* Before the loot is opened nothing has happened to its items.
FreshInv ==
    loot = "fresh" => \A i \in Items : roll[i] = "none" /\ ~looted[i]

IInv == TypeOK /\ RollIsSound /\ FreshInv

-----------------------------------------------------------------------------
(* Counting the votes.                                                     *)

\* Sets of players are finite.
LEMMA PlayersCounted ==
    ASSUME NEW S \in SUBSET Players
    PROVE  IsFiniteSet(S) /\ Cardinality(S) \in Nat /\ (Cardinality(S) = 0 <=> S = {})
  BY PlayersAreFinite, FS_Subset, FS_CardinalityType, FS_EmptySet

\* The counters of a new roll.
LEMMA NoTotalType == NoTotal \in Totals
  BY SMTT(30) DEF NoTotal, Totals

\* The winner of a counted roll is one who needs the item, or, if nobody does, one
\* who is greedy for it.
LEMMA WinnerType ==
    ASSUME TypeOK, NEW i \in Items, NEW v, NEW t, NEW r \in CountTheRoll(i, v, t)
    PROVE  r \in Results /\ (r \in Players => roll[i] # "invalid")
<1>1. Winners(v, t) \subseteq Players
  BY DEF Winners
<1>2. CASE roll[i] = "invalid"
  BY <1>2, PlayersAreFinite, Zenon DEF CountTheRoll, Results
<1>3. CASE roll[i] # "invalid" /\ t.need = 0 /\ t.greed = 0
  BY <1>3, Zenon DEF CountTheRoll, Results
<1>5. CASE roll[i] # "invalid" /\ ~(t.need = 0 /\ t.greed = 0) /\ Winners(v, t) = {}
  BY <1>5, PlayersAreFinite, Zenon DEF CountTheRoll, Results
<1>4. CASE roll[i] # "invalid" /\ ~(t.need = 0 /\ t.greed = 0) /\ Winners(v, t) # {}
  <2>1. PICK w \in Winners(v, t) : r \in (IF w \in online THEN {w, "free"} ELSE {"kept"})
    BY <1>4, Zenon DEF CountTheRoll
  <2> QED
    BY <1>1, <1>4, <2>1, Zenon DEF Results
<1> QED
  BY <1>2, <1>3, <1>4, <1>5

\* Who wins is a voter, who needs the item if anybody does; with exact counters he
\* needs it or is greedy for it.
LEMMA WinnerVote ==
    ASSUME NEW i \in Items, NEW v \in [Players -> Votes], NEW t \in Totals, Counted(v, t),
           NEW r \in CountTheRoll(i, v, t), r \in Players
    PROVE  /\ v[r] # "out"
           /\ (\E p \in Players : v[p] = "need") => v[r] = "need"
           /\ Exact(v, t) => v[r] \in {"need", "greed"}
<1> DEFINE Need == {p \in Players : v[p] = "need"}
           Greed == {p \in Players : v[p] = "greed"}
<1>1. /\ t.need >= Cardinality(Need) /\ t.greed >= Cardinality(Greed)
      /\ Exact(v, t) => t.need = Cardinality(Need) /\ t.greed = Cardinality(Greed)
  BY Zenon DEF Counted, Exact, Choices
<1>2. t.need \in Nat /\ t.greed \in Nat
  BY SMTT(30) DEF Totals
<1>3. /\ Need # {} => t.need > 0
      /\ Exact(v, t) => (t.need > 0 <=> Need # {}) /\ (t.greed > 0 <=> Greed # {})
  <2>1. Need \in SUBSET Players /\ Greed \in SUBSET Players
    OBVIOUS
  <2>2. /\ (Cardinality(Need) = 0 <=> Need = {}) /\ (Cardinality(Greed) = 0 <=> Greed = {})
        /\ Cardinality(Need) \in Nat /\ Cardinality(Greed) \in Nat
    BY <2>1, PlayersCounted, Zenon
  <2> HIDE DEF Need, Greed
  <2> QED
    BY <1>1, <1>2, <2>2, SMTT(30)
<1>4. ~(t.need = 0 /\ t.greed = 0) /\ r \in Winners(v, t)
  BY PlayersAreFinite, Zenon DEF CountTheRoll
<1>5. v[r] # "out"
  <2>1. "need" # "out" /\ "greed" # "out"
    OBVIOUS
  <2> QED
    BY <1>4, <2>1, Zenon DEF Winners
<1>6. ASSUME Need # {} PROVE v[r] = "need"
  BY <1>3, <1>4, <1>6, Zenon DEF Winners
<1>7. ASSUME Exact(v, t) PROVE v[r] \in {"need", "greed"}
  <2>1. CASE t.need > 0
    BY <1>3, <1>4, <1>7, <2>1, Zenon DEF Winners
  <2>2. CASE ~(t.need > 0)
    <3>1. t.greed > 0
      BY <1>2, <1>4, <2>2, SMTT(30)
    <3> QED
      BY <1>3, <1>4, <1>7, <2>2, <3>1, Zenon DEF Winners
  <2> QED
    BY <2>1, <2>2
<1> QED
  BY <1>5, <1>6, <1>7, Zenon

\* A vote moves its voter to those with the choice.
LEMMA VoteCounted ==
    ASSUME NEW v \in [Players -> Votes], NEW t \in Totals, Counted(v, t),
           NEW p \in Players, v[p] # "out", NEW choice \in Choices
    PROVE  /\ [v EXCEPT ![p] = choice] \in [Players -> Votes]
           /\ [t EXCEPT ![choice] = @ + 1] \in Totals
           /\ Counted([v EXCEPT ![p] = choice], [t EXCEPT ![choice] = @ + 1])
           /\ Exact(v, t) /\ v[p] = "asked"
                => Exact([v EXCEPT ![p] = choice], [t EXCEPT ![choice] = @ + 1])
<1> DEFINE w == [v EXCEPT ![p] = choice]
           u == [t EXCEPT ![choice] = @ + 1]
           Of(f, c) == {q \in Players : f[q] = c}
<1>1. /\ choice # "asked" /\ choice # "out" /\ choice # "rolling" /\ choice \in Votes
      /\ choice \in {"rolling", "need", "greed", "pass"}
  BY SMTT(30) DEF Choices, Votes
<1>2. /\ w \in [Players -> Votes] /\ w[p] = choice
      /\ \A q \in Players : q # p => w[q] = v[q]
  BY <1>1, Zenon
<1>3. u \in Totals /\ u[choice] = t[choice] + 1 /\ \A c \in DOMAIN t : c # choice => u[c] = t[c]
  BY <1>1, SMTT(30) DEF Totals
<1>4. \A c : IsFiniteSet(Of(v, c)) /\ Cardinality(Of(v, c)) \in Nat
  <2>1. TAKE c
  <2>2. Of(v, c) \in SUBSET Players
    OBVIOUS
  <2> QED
    BY <2>2, PlayersCounted, Zenon
<1>5. \A c : Cardinality(Of(w, c)) \in Nat
  <2>1. TAKE c
  <2>2. Of(w, c) \in SUBSET Players
    OBVIOUS
  <2> QED
    BY <2>2, PlayersCounted, Zenon
<1>6. /\ Of(w, choice) = Of(v, choice) \cup {p}
      /\ v[p] = "asked" => p \notin Of(v, choice)
  BY <1>1, <1>2, Zenon
<1>7. /\ Cardinality(Of(w, choice)) <= Cardinality(Of(v, choice)) + 1
      /\ v[p] = "asked" => Cardinality(Of(w, choice)) = Cardinality(Of(v, choice)) + 1
  <2> HIDE DEF Of, w
  <2>1. Cardinality(Of(v, choice) \cup {p}) = IF p \in Of(v, choice) THEN Cardinality(Of(v, choice))
                                              ELSE Cardinality(Of(v, choice)) + 1
    BY <1>4, FS_AddElement, Zenon
  <2> QED
    BY <1>4, <1>6, <2>1, SMTT(30)
<1>8. ASSUME NEW c \in Choices, c # choice
      PROVE  /\ Cardinality(Of(w, c)) <= Cardinality(Of(v, c))
             /\ v[p] = "asked" => Cardinality(Of(w, c)) = Cardinality(Of(v, c))
  <2>1. c # "asked"
    BY SMTT(30) DEF Choices
  <2>2. Of(w, c) \in SUBSET Of(v, c)
    BY <1>2, <1>8, Zenon
  <2>3. Cardinality(Of(w, c)) <= Cardinality(Of(v, c))
    BY <1>4, <2>2, FS_Subset, Zenon
  <2>4. ASSUME v[p] = "asked" PROVE Of(w, c) = Of(v, c)
    BY <1>2, <1>8, <2>1, <2>4, Zenon
  <2> QED
    BY <2>3, <2>4, Zenon
<1>9. Of(w, "out") = Of(v, "out")
  BY <1>1, <1>2, Zenon
<1>10. /\ \A c \in Choices : t[c] >= Cardinality(Of(v, c)) /\ c \in DOMAIN t /\ t[c] \in Nat
       /\ Exact(v, t) => \A c \in Choices : t[c] = Cardinality(Of(v, c))
  BY SMTT(30) DEF Counted, Exact, Totals, Choices
<1>11. u.rolling = Cardinality(Players \ Of(w, "out"))
  <2>1. t.rolling = Cardinality(Players \ Of(v, "out")) /\ "rolling" \in DOMAIN t
    BY SMTT(30) DEF Counted, Totals
  <2> QED
    BY <1>1, <1>3, <1>9, <2>1, Zenon
<1>12. ASSUME NEW c \in Choices
       PROVE  /\ u[c] >= Cardinality(Of(w, c))
              /\ Exact(v, t) /\ v[p] = "asked" => u[c] = Cardinality(Of(w, c))
  <2> HIDE DEF Of, w, u
  <2>1. CASE c = choice
    BY <1>3, <1>4, <1>5, <1>7, <1>10, <2>1, SMTT(30)
  <2>2. CASE c # choice
    <3>1. u[c] = t[c]
      BY <1>3, <1>10, <2>2, Zenon
    <3> QED
      BY <1>4, <1>5, <1>8, <1>10, <2>2, <3>1, SMTT(30)
  <2> QED
    BY <2>1, <2>2
<1> QED
  BY <1>2, <1>3, <1>11, <1>12, Zenon DEF Counted, Exact

\* The counters without the vote of p (Group::_removeRolls).
ErasedFrom(t, v) ==
    [t EXCEPT !.rolling = @ - 1,
              !.need = IF v = "need" THEN @ - 1 ELSE @,
              !.greed = IF v = "greed" THEN @ - 1 ELSE @,
              !.pass = IF v = "pass" THEN @ - 1 ELSE @]

\* What becomes of each counter.
LEMMA ErasedCounters ==
    ASSUME NEW t \in Totals, NEW v
    PROVE  LET u == ErasedFrom(t, v)
           IN  /\ \A c \in Choices : u[c] = IF v = c THEN t[c] - 1 ELSE t[c]
               /\ u.rolling = t.rolling - 1
               /\ u = [x \in {"rolling", "need", "greed", "pass"} |-> u[x]]
<1> DEFINE u == ErasedFrom(t, v)
<1>1. /\ u.need = IF v = "need" THEN t.need - 1 ELSE t.need
      /\ u.pass = IF v = "pass" THEN t.pass - 1 ELSE t.pass
      /\ u.greed = IF v = "greed" THEN t.greed - 1 ELSE t.greed
      /\ u.rolling = t.rolling - 1
  BY SMTT(30) DEF ErasedFrom, Totals
<1>2. ASSUME NEW c \in Choices PROVE u[c] = IF v = c THEN t[c] - 1 ELSE t[c]
  <2> HIDE DEF u
  <2>1. CASE c = "pass"
    BY <1>1, <2>1, Zenon
  <2>2. CASE c = "need"
    BY <1>1, <2>2, Zenon
  <2>3. CASE c = "greed"
    BY <1>1, <2>3, Zenon
  <2> QED
    BY <2>1, <2>2, <2>3 DEF Choices
<1>3. u = [x \in {"rolling", "need", "greed", "pass"} |-> u[x]]
  BY Zenon DEF ErasedFrom, Totals
<1> QED
  BY <1>1, <1>2, <1>3, Zenon

\* Erasing a vote keeps the counters right.
LEMMA VoteErased ==
    ASSUME NEW v \in [Players -> Votes], NEW t \in Totals, Counted(v, t),
           NEW p \in Players, v[p] # "out"
    PROVE  /\ [v EXCEPT ![p] = "out"] \in [Players -> Votes]
           /\ ErasedFrom(t, v[p]) \in Totals
           /\ Counted([v EXCEPT ![p] = "out"], ErasedFrom(t, v[p]))
           /\ Exact(v, t) => Exact([v EXCEPT ![p] = "out"], ErasedFrom(t, v[p]))
<1> DEFINE w == [v EXCEPT ![p] = "out"]
           u == ErasedFrom(t, v[p])
           Of(f, c) == {q \in Players : f[q] = c}
           In(f) == Players \ Of(f, "out")
<1>1. w \in [Players -> Votes] /\ w[p] = "out" /\ \A q \in Players : q # p => w[q] = v[q]
  BY SMTT(30) DEF Votes
<1>2. \A c \in Choices :
        /\ Of(w, c) = Of(v, c) \ {p}
        /\ IsFiniteSet(Of(v, c)) /\ Cardinality(Of(v, c)) \in Nat
        /\ (p \in Of(v, c) <=> v[p] = c)
  <2>1. TAKE c \in Choices
  <2>2. c # "out"
    BY SMTT(30) DEF Choices
  <2>3. Of(w, c) = Of(v, c) \ {p}
    BY <1>1, <2>2, Zenon
  <2>4. Of(v, c) \in SUBSET Players
    OBVIOUS
  <2>5. IsFiniteSet(Of(v, c)) /\ Cardinality(Of(v, c)) \in Nat
    BY <2>4, PlayersCounted, Zenon
  <2> QED
    BY <2>3, <2>5, Zenon
<1>3. \A c \in Choices : Cardinality(Of(w, c)) = IF v[p] = c THEN Cardinality(Of(v, c)) - 1
                                                  ELSE Cardinality(Of(v, c))
  <2> HIDE DEF Of
  <2>1. TAKE c \in Choices
  <2>2. IsFiniteSet(Of(v, c)) /\ Of(w, c) = Of(v, c) \ {p} /\ (p \in Of(v, c) <=> v[p] = c)
    BY <1>2, Zenon
  <2>3. Cardinality(Of(v, c) \ {p}) = IF p \in Of(v, c) THEN Cardinality(Of(v, c)) - 1
                                      ELSE Cardinality(Of(v, c))
    BY <2>2, FS_RemoveElement, Zenon
  <2>4. CASE v[p] = c
    BY <2>2, <2>3, <2>4, Zenon
  <2>5. CASE v[p] # c
    BY <2>2, <2>3, <2>5, Zenon
  <2> QED
    BY <2>4, <2>5
<1>4. Cardinality(In(w)) = Cardinality(In(v)) - 1
  <2>1. In(w) = In(v) \ {p} /\ p \in In(v) /\ In(v) \in SUBSET Players
    BY <1>1, Zenon
  <2>2. IsFiniteSet(In(v))
    BY <2>1, PlayersCounted, Zenon
  <2>3. Cardinality(In(v) \ {p}) = IF p \in In(v) THEN Cardinality(In(v)) - 1
                                   ELSE Cardinality(In(v))
    BY <2>2, FS_RemoveElement, Zenon
  <2> HIDE DEF In
  <2> QED
    BY <2>1, <2>3, Zenon
<1>5. \A c \in Choices : Cardinality(Of(w, c)) \in Nat /\ Cardinality(Of(v, c)) \in Nat
  BY PlayersCounted, Zenon
<1>6. Cardinality(In(w)) \in Nat
  BY PlayersCounted, Zenon
<1>7. /\ \A c \in Choices : t[c] >= Cardinality(Of(v, c)) /\ t[c] \in Nat
      /\ t.rolling = Cardinality(In(v)) /\ t.rolling \in Nat
      /\ Exact(v, t) => \A c \in Choices : t[c] = Cardinality(Of(v, c))
  BY SMTT(30) DEF Counted, Exact, Totals, Choices
<1>8. /\ \A c \in Choices : u[c] = IF v[p] = c THEN t[c] - 1 ELSE t[c]
      /\ u.rolling = t.rolling - 1
      /\ u = [x \in {"rolling", "need", "greed", "pass"} |-> u[x]]
  BY ErasedCounters, Zenon
<1>9. u.rolling = Cardinality(In(w))
  <2> HIDE DEF In, u
  <2> QED
    BY <1>4, <1>7, <1>8, SMTT(30)
<1>10. ASSUME NEW c \in Choices
       PROVE  /\ u[c] >= Cardinality(Of(w, c)) /\ u[c] \in Nat
              /\ Exact(v, t) => u[c] = Cardinality(Of(w, c))
  <2> HIDE DEF Of, u, w
  <2>1. u[c] = IF v[p] = c THEN t[c] - 1 ELSE t[c]
    BY <1>8, Zenon
  <2>2. Cardinality(Of(w, c)) = IF v[p] = c THEN Cardinality(Of(v, c)) - 1
                                ELSE Cardinality(Of(v, c))
    BY <1>3, Zenon
  <2>3. /\ t[c] >= Cardinality(Of(v, c)) /\ t[c] \in Nat
        /\ Exact(v, t) => t[c] = Cardinality(Of(v, c))
    BY <1>7, Zenon
  <2>4. Cardinality(Of(w, c)) \in Nat /\ Cardinality(Of(v, c)) \in Nat
    BY <1>5, Zenon
  <2> QED
    BY <2>1, <2>2, <2>3, <2>4, SMTT(30)
<1>11. u \in Totals
  <2>1. \A x \in {"rolling", "need", "greed", "pass"} : u[x] \in Nat
    <3>1. {"rolling", "need", "greed", "pass"} = Choices \cup {"rolling"}
      BY SMTT(30) DEF Choices
    <3> QED
      BY <1>6, <1>9, <1>10, <3>1, Zenon
  <2> HIDE DEF u
  <2> QED
    BY <1>8, <2>1, Zenon DEF Totals
<1> QED
  BY <1>1, <1>9, <1>10, <1>11, Zenon DEF Counted, Exact

\* When there are as many votes as voters nobody is asked any more.
LEMMA EverybodyVoted ==
    ASSUME NEW v \in [Players -> Votes], NEW t \in Totals, Counted(v, t),
           Exact(v, t), t.pass + t.greed + t.need >= t.rolling
    PROVE  \A p \in Players : v[p] # "asked"
<1> DEFINE Of(c) == {q \in Players : v[q] = c}
           In == Players \ Of("out")
           Voted == (Of("pass") \cup Of("greed")) \cup Of("need")
<1>1. /\ t.pass = Cardinality(Of("pass")) /\ t.greed = Cardinality(Of("greed"))
      /\ t.need = Cardinality(Of("need")) /\ t.rolling = Cardinality(In)
  BY Zenon DEF Counted, Exact, Choices
<1>2. \A c \in Votes : IsFiniteSet(Of(c)) /\ Cardinality(Of(c)) \in Nat
  BY PlayersCounted, Zenon
<1>3. IsFiniteSet(In) /\ Cardinality(In) \in Nat
  BY PlayersCounted, Zenon
<1>4. {"pass", "greed", "need", "out", "asked"} \subseteq Votes
  BY DEF Votes, Choices
<1>5. Of("pass") \cap Of("greed") = {} /\ (Of("pass") \cup Of("greed")) \cap Of("need") = {}
  BY SMTT(30)
<1>6. Cardinality(Voted) = Cardinality(Of("pass")) + Cardinality(Of("greed")) + Cardinality(Of("need"))
  <2> HIDE DEF Of
  <2>1. /\ IsFiniteSet(Of("pass") \cup Of("greed"))
        /\ Cardinality(Of("pass") \cup Of("greed"))
              = Cardinality(Of("pass")) + Cardinality(Of("greed")) - Cardinality({})
    BY <1>2, <1>4, <1>5, FS_Union, Zenon
  <2>2. Cardinality(Voted)
              = Cardinality(Of("pass") \cup Of("greed")) + Cardinality(Of("need")) - Cardinality({})
    <3>1. IsFiniteSet(Of("need"))
      BY <1>2, <1>4, Zenon
    <3>2. Cardinality(Voted)
              = Cardinality(Of("pass") \cup Of("greed")) + Cardinality(Of("need"))
                  - Cardinality((Of("pass") \cup Of("greed")) \cap Of("need"))
      BY <2>1, <3>1, FS_Union, Zenon
    <3> QED
      BY <1>5, <3>2, Zenon
  <2>3. Cardinality({}) = 0
    BY FS_EmptySet
  <2> QED
    BY <1>2, <1>4, <2>1, <2>2, <2>3, SMTT(30)
<1>7. Voted \in SUBSET In
  BY SMTT(30)
<1>8. Cardinality(Voted) <= Cardinality(In)
  BY <1>3, <1>7, FS_Subset, Zenon
<1>9. Cardinality(Voted) = Cardinality(In)
  <2> HIDE DEF Of, In, Voted
  <2> QED
    BY <1>1, <1>2, <1>3, <1>4, <1>6, <1>8, SMTT(30)
<1>10. In = Voted
  BY <1>3, <1>7, <1>9, FS_Subset, Zenon
<1> QED
  BY <1>10, SMTT(30)
-----------------------------------------------------------------------------
(* The steps.                                                              *)

\* A result of every roll that ends: who is given the item had asked for it.
LEMMA EndRollsNext ==
    ASSUME TypeOK, ItemIsGivenOnce, NEW ended \in SUBSET Items, NEW result,
           \A i \in ended : result[i] \in Results /\ (result[i] \in Players => roll[i] = "valid"),
           EndRolls(ended, result)
    PROVE  /\ roll' \in [Items -> {"none", "valid", "invalid"}]
           /\ blocked' \in [Items -> BOOLEAN] /\ looted' \in [Items -> BOOLEAN]
           /\ got' \in [Items -> Seq(Players)]
           /\ ItemIsGivenOnce'
           /\ \A i \in Items : roll'[i] # "none" => roll'[i] = roll[i]
<1>1. /\ roll' \in [Items -> {"none", "valid", "invalid"}]
      /\ \A i \in Items : roll'[i] = IF i \in ended THEN "none" ELSE roll[i]
  BY SMTT(30) DEF TypeOK, EndRolls
<1>2. /\ blocked' \in [Items -> BOOLEAN]
      /\ \A i \in Items : i \notin ended => blocked'[i] = blocked[i]
  BY Zenon DEF TypeOK, EndRolls
<1>3. /\ looted' \in [Items -> BOOLEAN]
      /\ \A i \in Items : looted'[i] = (looted[i] \/ (i \in ended /\ result[i] \in Players))
  BY Zenon DEF TypeOK, EndRolls
<1>4. \A i \in Items :
        /\ i \in ended /\ result[i] \in Players => got'[i] = Append(got[i], result[i])
        /\ ~(i \in ended /\ result[i] \in Players) => got'[i] = got[i]
        /\ got'[i] \in Seq(Players)
  BY SMTT(30) DEF TypeOK, EndRolls
<1>5. got' \in [Items -> Seq(Players)]
  <2>1. got' = [i \in Items |-> got'[i]]
    BY Zenon DEF EndRolls
  <2> QED
    BY <1>4, <2>1, Zenon
<1>6. ItemIsGivenOnce'
  <2> SUFFICES ASSUME NEW i \in Items
               PROVE  /\ Len(got'[i]) = IF looted'[i] THEN 1 ELSE 0
                      /\ roll'[i] = "valid" => blocked'[i] /\ ~looted'[i]
    BY Zenon DEF ItemIsGivenOnce
  <2>1. /\ Len(got[i]) = IF looted[i] THEN 1 ELSE 0
        /\ roll[i] = "valid" => blocked[i] /\ ~looted[i]
        /\ got[i] \in Seq(Players)
    BY Zenon DEF ItemIsGivenOnce, TypeOK
  <2>2. CASE i \in ended /\ result[i] \in Players
    <3>1. ~looted[i] /\ looted'[i] /\ roll'[i] = "none"
      BY <1>1, <1>3, <2>1, <2>2, Zenon
    <3>2. Len(got[i]) = 0 /\ Len(got'[i]) = Len(got[i]) + 1
      <4>1. Len(got[i]) = 0
        BY <2>1, <3>1, Zenon
      <4>2. got'[i] = Append(got[i], result[i])
        BY <1>4, <2>2, Zenon
      <4>3. Len(Append(got[i], result[i])) = Len(got[i]) + 1
        BY <2>1, <2>2, AppendProperties
      <4> QED
        BY <4>1, <4>2, <4>3, Zenon
    <3> QED
      BY <3>1, <3>2, SMTT(30)
  <2>3. CASE ~(i \in ended /\ result[i] \in Players)
    <3>1. got'[i] = got[i] /\ (looted'[i] <=> looted[i])
      BY <1>3, <1>4, <2>3, Zenon
    <3>2. CASE i \in ended
      BY <1>1, <2>1, <3>1, <3>2, Zenon
    <3>3. CASE i \notin ended
      BY <1>1, <1>2, <2>1, <3>1, <3>3, Zenon
    <3> QED
      BY <3>2, <3>3
  <2> QED
    BY <2>2, <2>3
<1> QED
  BY <1>1, <1>2, <1>3, <1>5, <1>6, Zenon

\* Nothing that leaves the votes alone disturbs the counters.
LEMMA TotalsKept ==
    ASSUME TotalsAreOfTheVotes, vote' = vote, total' = total, again' = again, members \subseteq members',
           \A i \in Items : roll'[i] # "none" => roll[i] # "none"
    PROVE  TotalsAreOfTheVotes'
<1> SUFFICES ASSUME NEW i \in Items, roll[i] # "none"
             PROVE  /\ \A c \in Choices : total'[i][c] >= Cardinality(Voters(i, c)')
                    /\ i \notin again' =>
                          \A c \in Choices : total'[i][c] = Cardinality(Voters(i, c)')
                    /\ total'[i].rolling = Cardinality(Players \ Voters(i, "out")')
                    /\ \A p \in Players \ members' : vote'[i][p] = "out"
  BY Zenon DEF TotalsAreOfTheVotes
<1>1. \A c : Voters(i, c)' = Voters(i, c)
  BY Zenon DEF Voters
<1> QED
  BY <1>1, Zenon DEF TotalsAreOfTheVotes

\* What every counted roll may do with its item.
LEMMA ResultsOfRolls ==
    ASSUME TypeOK, NEW ended \in SUBSET {i \in Items : roll[i] # "none"}, NEW v, NEW t, NEW result,
           \A i \in ended : result[i] \in CountTheRoll(i, v[i], t[i])
    PROVE  \A i \in ended : result[i] \in Results /\ (result[i] \in Players => roll[i] = "valid")
<1> TAKE i \in ended
<1>1. result[i] \in Results /\ (result[i] \in Players => roll[i] # "invalid")
  BY WinnerType, Zenon
<1> QED
  BY <1>1, Zenon DEF TypeOK

\* Nothing is rolled for before the loot is opened.
LEMMA InitInv == Init => IInv
<1> SUFFICES ASSUME Init PROVE IInv
  OBVIOUS
<1>1. TypeOK
  <2>1. total \in [Items -> Totals]
    BY NoTotalType, Zenon DEF Init
  <2> QED
    BY <2>1, RollTimeIsPositive, SMTT(30) DEF Init, TypeOK, Votes, Totals
<1>2. RollIsSound /\ FreshInv
  BY SMTT(30) DEF Init, RollIsSound, ItemIsGivenOnce, TotalsAreOfTheVotes, FreshInv
<1> QED
  BY <1>1, <1>2 DEF IInv
\* A new roll counts those it asks.
LEMMA PrepareLootRollsNext ==
    ASSUME IInv, NEW near \in [Items -> SUBSET Players], PrepareLootRolls(near)
    PROVE  IInv'
<1> DEFINE rolled == {i \in Items : Cardinality(near[i]) > 1}
<1> USE DEF IInv
<1>1. \A i \in Items : near[i] \in SUBSET Players /\ Cardinality(near[i]) \in Nat
  BY PlayersCounted, Zenon
<1>2. [i \in Items |-> IF i \in rolled THEN [NoTotal EXCEPT !.rolling = Cardinality(near[i])]
                        ELSE total[i]] \in [Items -> Totals]
  <2>1. \A i \in Items : [NoTotal EXCEPT !.rolling = Cardinality(near[i])] \in Totals
    BY <1>1, NoTotalType, SMTT(30) DEF Totals
  <2>2. \A i \in Items : total[i] \in Totals
    BY Zenon DEF TypeOK, Totals
  <2> QED
    BY <2>1, <2>2, Zenon
<1>3. \A i \in Items : Asked(near[i]) \in [Players -> Votes]
  BY SMTT(30) DEF Asked, Votes
<1>4. TypeOK'
  <2>1. vote' \in [Items -> [Players -> Votes]]
    BY <1>3, Zenon DEF TypeOK, PrepareLootRolls
  <2>2. total' \in [Items -> Totals]
    BY <1>2, Zenon DEF PrepareLootRolls
  <2> QED
    BY <2>1, <2>2, RollTimeIsPositive, SMTT(30) DEF TypeOK, PrepareLootRolls, Totals
<1>5. ItemIsGivenOnce'
  <2> SUFFICES ASSUME NEW i \in Items, roll'[i] = "valid" PROVE blocked'[i] /\ ~looted'[i]
    BY Zenon DEF RollIsSound, ItemIsGivenOnce, PrepareLootRolls
  <2>1. roll[i] = "none" /\ ~looted[i]
    BY Zenon DEF FreshInv, PrepareLootRolls
  <2>2. i \in rolled
    BY <2>1, SMTT(30) DEF PrepareLootRolls
  <2> QED
    BY <2>1, <2>2, Zenon DEF PrepareLootRolls
<1>6. TotalsAreOfTheVotes'
  <2> SUFFICES ASSUME NEW i \in Items, roll'[i] # "none"
               PROVE  /\ \A c \in Choices : total'[i][c] >= Cardinality(Voters(i, c)')
                      /\ i \notin again' =>
                            \A c \in Choices : total'[i][c] = Cardinality(Voters(i, c)')
                      /\ total'[i].rolling = Cardinality(Players \ Voters(i, "out")')
                      /\ \A p \in Players \ members' : vote'[i][p] = "out"
    BY Zenon DEF TotalsAreOfTheVotes
  <2>1. i \in rolled /\ near[i] \subseteq members
    BY SMTT(30) DEF PrepareLootRolls, FreshInv
  <2>2. vote'[i] = Asked(near[i]) /\ total'[i] = [NoTotal EXCEPT !.rolling = Cardinality(near[i])]
    BY <2>1, Zenon DEF PrepareLootRolls
  <2>3. \A c \in Choices : Voters(i, c)' = {}
    BY <2>2, SMTT(30) DEF Voters, Asked, Choices
  <2>4. Players \ Voters(i, "out")' = near[i]
    BY <1>1, <2>2, SMTT(30) DEF Voters, Asked
  <2>5. /\ \A c \in Choices : total'[i][c] = 0
        /\ total'[i].rolling = Cardinality(near[i])
    BY <2>2, SMTT(30) DEF NoTotal, Choices
  <2>6. \A p \in Players \ members' : vote'[i][p] = "out"
    BY <2>1, <2>2, SMTT(30) DEF Asked, PrepareLootRolls
  <2>7. 0 >= 0
    OBVIOUS
  <2> QED
    BY <2>3, <2>4, <2>5, <2>6, <2>7, FS_EmptySet, Zenon
<1>7. FreshInv'
  BY SMTT(30) DEF FreshInv, PrepareLootRolls
<1> QED
  BY <1>4, <1>5, <1>6, <1>7 DEF RollIsSound

\* What the vote makes of the votes and the counters of its roll.
LEMMA VoteOfTheRoll ==
    ASSUME IInv, NEW p \in Players, NEW i \in Items, NEW choice \in Choices \cup {"other"},
           CountRollVote(p, i, choice)
    PROVE  /\ vote' \in [Items -> [Players -> Votes]] /\ total' \in [Items -> Totals]
           /\ again' \subseteq Items /\ again \subseteq again'
           /\ Counted(vote'[i], total'[i])
           /\ i \notin again' => Exact(vote'[i], total'[i])
           /\ \A j \in Items : j # i => vote'[j] = vote[j] /\ total'[j] = total[j]
           /\ \A q \in Players : q # p => vote'[i][q] = vote[i][q]
<1>1. vote[i] \in [Players -> Votes] /\ total[i] \in Totals /\ vote[i][p] # "out"
  BY Zenon DEF IInv, TypeOK, CountRollVote, Totals
<1>2. Counted(vote[i], total[i]) /\ (i \notin again => Exact(vote[i], total[i]))
  BY Zenon DEF IInv, RollIsSound, TotalsAreOfTheVotes, Counted, Exact, Voters, CountRollVote
<1>3. /\ vote \in [Items -> [Players -> Votes]] /\ total \in [Items -> Totals]
      /\ again \subseteq Items
  BY Zenon DEF IInv, TypeOK, Totals
<1>4. CASE choice \notin Choices
  <2>1. UNCHANGED <<vote, total, again>>
    BY <1>4, Zenon DEF CountRollVote
  <2> QED
    BY <1>2, <1>3, <2>1, Zenon
<1>5. CASE choice \in Choices
  <2>1. /\ vote' = [vote EXCEPT ![i] = [vote[i] EXCEPT ![p] = choice]]
        /\ total' = [total EXCEPT ![i] = [total[i] EXCEPT ![choice] = @ + 1]]
        /\ again' = IF vote[i][p] = "asked" THEN again ELSE again \cup {i}
    BY <1>5, Zenon DEF CountRollVote
  <2>2. /\ vote'[i] = [vote[i] EXCEPT ![p] = choice]
        /\ total'[i] = [total[i] EXCEPT ![choice] = @ + 1]
        /\ \A j \in Items : j # i => vote'[j] = vote[j] /\ total'[j] = total[j]
    BY <1>3, <2>1, Zenon
  <2>3. /\ again' \subseteq Items /\ again \subseteq again'
        /\ i \notin again' => i \notin again /\ vote[i][p] = "asked"
    BY <1>3, <2>1, Zenon
  <2>4. /\ vote'[i] \in [Players -> Votes] /\ total'[i] \in Totals
        /\ Counted(vote'[i], total'[i])
        /\ i \notin again' => Exact(vote'[i], total'[i])
    <3>1. /\ [vote[i] EXCEPT ![p] = choice] \in [Players -> Votes]
          /\ [total[i] EXCEPT ![choice] = total[i][choice] + 1] \in Totals
          /\ Counted([vote[i] EXCEPT ![p] = choice],
                     [total[i] EXCEPT ![choice] = total[i][choice] + 1])
          /\ Exact(vote[i], total[i]) /\ vote[i][p] = "asked"
               => Exact([vote[i] EXCEPT ![p] = choice],
                        [total[i] EXCEPT ![choice] = total[i][choice] + 1])
      BY <1>1, <1>2, <1>5, VoteCounted
    <3> QED
      BY <1>2, <2>2, <2>3, <3>1, Zenon
  <2>5. vote' \in [Items -> [Players -> Votes]] /\ total' \in [Items -> Totals]
    BY <1>3, <2>1, <2>2, <2>4, Zenon
  <2>6. \A q \in Players : q # p => vote'[i][q] = vote[i][q]
    BY <1>1, <2>2, Zenon
  <2> QED
    BY <2>2, <2>3, <2>4, <2>5, <2>6
<1> QED
  BY <1>4, <1>5

\* A vote is counted, and the last one ends the roll.
LEMMA CountRollVoteNext ==
    ASSUME IInv, NEW p \in Players, NEW i \in Items, NEW choice \in Choices \cup {"other"},
           CountRollVote(p, i, choice)
    PROVE  IInv'
<1> USE DEF IInv
<1> DEFINE Ends == total'[i].pass + total'[i].greed + total'[i].need >= total'[i].rolling
<1>1. /\ vote' \in [Items -> [Players -> Votes]] /\ total' \in [Items -> Totals]
      /\ again' \subseteq Items /\ again \subseteq again'
      /\ Counted(vote'[i], total'[i])
      /\ i \notin again' => Exact(vote'[i], total'[i])
      /\ \A j \in Items : j # i => vote'[j] = vote[j] /\ total'[j] = total[j]
      /\ \A q \in Players : q # p => vote'[i][q] = vote[i][q]
  BY VoteOfTheRoll, Zenon
<1>2. /\ roll' \in [Items -> {"none", "valid", "invalid"}]
      /\ blocked' \in [Items -> BOOLEAN] /\ looted' \in [Items -> BOOLEAN]
      /\ got' \in [Items -> Seq(Players)]
      /\ ItemIsGivenOnce'
      /\ \A j \in Items : roll'[j] # "none" => roll'[j] = roll[j]
  <2>1. CASE Ends
    <3>1. PICK r \in CountTheRoll(i, vote'[i], total'[i]) : EndRolls({i}, [j \in {i} |-> r])
      BY <2>1, Zenon DEF CountRollVote
    <3>2. r \in Results /\ (r \in Players => roll[i] = "valid")
      <4>1. r \in Results /\ (r \in Players => roll[i] # "invalid")
        BY WinnerType, Zenon
      <4>2. roll[i] \in {"none", "valid", "invalid"} /\ roll[i] # "none"
        BY Zenon DEF TypeOK, CountRollVote
      <4> QED
        BY <4>1, <4>2, Zenon
    <3>3. \A j \in {i} : /\ [k \in {i} |-> r][j] \in Results
                         /\ [k \in {i} |-> r][j] \in Players => roll[j] = "valid"
      BY <3>2, Zenon
    <3>4. {i} \in SUBSET Items
      OBVIOUS
    <3> QED
      BY <3>1, <3>3, <3>4, EndRollsNext, Zenon DEF RollIsSound
  <2>2. CASE ~Ends
    <3>1. UNCHANGED <<roll, blocked, looted, got>>
      BY <2>2, Zenon DEF CountRollVote
    <3> QED
      BY <3>1, Zenon DEF TypeOK, RollIsSound, ItemIsGivenOnce
  <2> QED
    BY <2>1, <2>2
<1>3. UNCHANGED <<members, online, loot, timer>> /\ p \in members /\ roll[i] # "none"
  BY SMTT(30) DEF CountRollVote
<1>4. TypeOK'
  BY <1>1, <1>2, <1>3, Zenon DEF TypeOK, Totals
<1>5. TotalsAreOfTheVotes'
  <2> SUFFICES ASSUME NEW j \in Items, roll'[j] # "none"
               PROVE  /\ Counted(vote'[j], total'[j])
                      /\ j \notin again' => Exact(vote'[j], total'[j])
                      /\ \A q \in Players \ members' : vote'[j][q] = "out"
    BY Zenon DEF TotalsAreOfTheVotes, Counted, Exact, Voters
  <2>1. roll[j] # "none"
    BY <1>2, Zenon
  <2>2. /\ Counted(vote[j], total[j])
        /\ j \notin again => Exact(vote[j], total[j])
        /\ \A q \in Players \ members : vote[j][q] = "out"
    BY <2>1, Zenon DEF RollIsSound, TotalsAreOfTheVotes, Counted, Exact, Voters
  <2>3. CASE j = i
    BY <1>1, <1>3, <2>2, <2>3, Zenon
  <2>4. CASE j # i
    BY <1>1, <1>3, <2>2, <2>4, Zenon
  <2> QED
    BY <2>3, <2>4
<1>6. FreshInv'
  <2>1. loot # "fresh"
    BY <1>3, Zenon DEF FreshInv
  <2> QED
    BY <1>3, <2>1, Zenon DEF FreshInv
<1> QED
  BY <1>2, <1>4, <1>5, <1>6 DEF RollIsSound

\* The end of the time ends a roll.
LEMMA UpdateNext == ASSUME IInv, Update PROVE IInv'
<1> USE DEF IInv
<1> DEFINE running == {i \in Items : roll[i] # "none"}
           ended == {i \in running : timer[i] <= 1}
<1>1. PICK result \in [ended -> Results] :
        /\ \A i \in ended : result[i] \in CountTheRoll(i, vote[i], total[i])
        /\ EndRolls(ended, result)
  BY Zenon DEF Update, Results
<1>2. \A i \in ended : result[i] \in Results /\ (result[i] \in Players => roll[i] = "valid")
  BY <1>1, ResultsOfRolls, Zenon
<1>3. /\ roll' \in [Items -> {"none", "valid", "invalid"}]
      /\ blocked' \in [Items -> BOOLEAN] /\ looted' \in [Items -> BOOLEAN]
      /\ got' \in [Items -> Seq(Players)]
      /\ ItemIsGivenOnce'
      /\ \A i \in Items : roll'[i] # "none" => roll'[i] = roll[i]
  <2>1. ended \in SUBSET Items
    OBVIOUS
  <2> HIDE DEF ended
  <2> QED
    BY <1>1, <1>2, <2>1, EndRollsNext, Zenon DEF RollIsSound
<1>4. timer' \in [Items -> 0 .. RollTime]
  <2>1. timer' = [i \in Items |-> IF i \in running \ ended THEN timer[i] - 1 ELSE timer[i]]
    BY Zenon DEF Update
  <2>2. \A i \in Items : timer[i] \in 0 .. RollTime
    BY Zenon DEF TypeOK
  <2> QED
    BY <2>1, <2>2, RollTimeIsPositive, SMTT(30)
<1>5. UNCHANGED <<members, online, loot, vote, total, again>>
  BY Zenon DEF Update
<1>6. TypeOK'
  BY <1>3, <1>4, <1>5, Zenon DEF TypeOK
<1>7. TotalsAreOfTheVotes'
  BY <1>3, <1>5, TotalsKept, Zenon DEF RollIsSound
<1>8. FreshInv'
  <2>1. running # {}
    BY Zenon DEF Update
  <2>2. loot # "fresh"
    BY <2>1, Zenon DEF FreshInv
  <2> QED
    BY <1>5, <2>2, Zenon DEF FreshInv
<1> QED
  BY <1>3, <1>6, <1>7, <1>8 DEF RollIsSound
\* Who leaves is taken out of the count.
LEMMA RemoveMemberNext == ASSUME IInv, NEW p \in Players, RemoveMember(p) PROVE IInv'
<1> USE DEF IInv
<1>1. \A i \in Items : vote[i] \in [Players -> Votes] /\ total[i] \in Totals
  BY Zenon DEF TypeOK, Totals
<1>2. \A i \in Items :
        /\ roll[i] = "none" => vote'[i] = vote[i]
        /\ roll[i] # "none" => vote'[i] = [vote[i] EXCEPT ![p] = "out"]
        /\ total'[i] = WithoutVote(i, p)
  BY Zenon DEF RemoveMember
<1>3. UNCHANGED <<online, loot, roll, timer, blocked, looted, got, again>> /\ members' = members \ {p}
  BY Zenon DEF RemoveMember
<1>4. ASSUME NEW i \in Items
      PROVE  /\ vote'[i] \in [Players -> Votes] /\ total'[i] \in Totals
             /\ roll[i] # "none" => /\ Counted(vote'[i], total'[i])
                                    /\ i \notin again => Exact(vote'[i], total'[i])
                                    /\ \A q \in Players \ members' : vote'[i][q] = "out"
  <2>1. CASE roll[i] = "none"
    <3>1. vote'[i] = vote[i] /\ total'[i] = total[i]
      BY <1>2, <2>1, Zenon DEF WithoutVote
    <3> QED
      BY <1>1, <2>1, <3>1, Zenon
  <2>2. CASE roll[i] # "none"
    <3>1. /\ Counted(vote[i], total[i])
          /\ i \notin again => Exact(vote[i], total[i])
          /\ \A q \in Players \ members : vote[i][q] = "out"
      BY <2>2, Zenon DEF RollIsSound, TotalsAreOfTheVotes, Counted, Exact, Voters
    <3>2. vote'[i] = [vote[i] EXCEPT ![p] = "out"]
      BY <1>2, <2>2, Zenon
    <3>3. \A q \in Players \ members' : vote'[i][q] = "out"
      BY <1>1, <1>3, <3>1, <3>2, Zenon
    <3>4. CASE vote[i][p] = "out"
      <4>1. vote'[i] = vote[i]
        BY <1>1, <3>2, <3>4, Zenon
      <4>2. total'[i] = total[i]
        BY <1>2, <3>4, Zenon DEF WithoutVote
      <4> QED
        BY <1>1, <3>1, <3>3, <4>1, <4>2, Zenon
    <3>5. CASE vote[i][p] # "out"
      <4>1. total'[i] = ErasedFrom(total[i], vote[i][p])
        <5>1. WithoutVote(i, p) = ErasedFrom(total[i], vote[i][p])
          BY <2>2, <3>5, Zenon DEF WithoutVote, ErasedFrom
        <5> QED
          BY <1>2, <5>1, Zenon
      <4>2. /\ [vote[i] EXCEPT ![p] = "out"] \in [Players -> Votes]
            /\ ErasedFrom(total[i], vote[i][p]) \in Totals
            /\ Counted([vote[i] EXCEPT ![p] = "out"], ErasedFrom(total[i], vote[i][p]))
            /\ Exact(vote[i], total[i])
                 => Exact([vote[i] EXCEPT ![p] = "out"], ErasedFrom(total[i], vote[i][p]))
        BY <1>1, <3>1, <3>5, VoteErased
      <4> QED
        BY <3>1, <3>2, <3>3, <4>1, <4>2, Zenon
    <3> QED
      BY <3>4, <3>5
  <2> QED
    BY <2>1, <2>2
<1>5. TypeOK'
  <2>1. vote' = [i \in Items |-> vote'[i]] /\ total' = [i \in Items |-> total'[i]]
    BY Zenon DEF RemoveMember
  <2>2. vote' \in [Items -> [Players -> Votes]] /\ total' \in [Items -> Totals]
    BY <1>4, <2>1, Zenon
  <2> QED
    BY <1>3, <2>2, Zenon DEF TypeOK, Totals
<1>6. TotalsAreOfTheVotes'
  BY <1>3, <1>4, Zenon DEF TotalsAreOfTheVotes, Counted, Exact, Voters
<1>7. ItemIsGivenOnce' /\ FreshInv'
  BY <1>3, Zenon DEF RollIsSound, ItemIsGivenOnce, FreshInv
<1> QED
  BY <1>5, <1>6, <1>7 DEF RollIsSound

\* A disbanded group forgets its rolls.
LEMMA DisbandNext == ASSUME IInv, Disband PROVE IInv'
<1>1. TypeOK'
  BY Zenon DEF IInv, TypeOK, Disband
<1>2. \A i \in Items : roll'[i] = "none"
  BY Zenon DEF Disband
<1>3. TotalsAreOfTheVotes'
  BY <1>2, Zenon DEF TotalsAreOfTheVotes
<1>4. ItemIsGivenOnce'
  <2>1. "none" # "valid"
    BY SMTT(30)
  <2> QED
    BY <1>2, <2>1, Zenon DEF IInv, RollIsSound, ItemIsGivenOnce, Disband
<1>5. FreshInv'
  BY <1>2, Zenon DEF IInv, FreshInv, Disband
<1> QED
  BY <1>1, <1>3, <1>4, <1>5 DEF IInv, RollIsSound

\* A new member is in no roll.
LEMMA AddMemberNext == ASSUME IInv, NEW p \in Players, AddMember(p) PROVE IInv'
<1> USE DEF IInv
<1>1. members \subseteq members' /\ members' \subseteq Players
  BY Zenon DEF TypeOK, AddMember
<1>2. UNCHANGED <<online, loot, roll, vote, total, timer, blocked, looted, got, again>>
  BY Zenon DEF AddMember
<1>3. TypeOK'
  BY <1>1, <1>2, Zenon DEF TypeOK
<1>4. TotalsAreOfTheVotes'
  BY <1>1, <1>2, TotalsKept, Zenon DEF RollIsSound
<1>5. ItemIsGivenOnce' /\ FreshInv'
  BY <1>2, Zenon DEF RollIsSound, ItemIsGivenOnce, FreshInv
<1> QED
  BY <1>3, <1>4, <1>5 DEF RollIsSound

\* Logging out and in leaves the votes alone.
LEMMA LogNext == ASSUME IInv, NEW p \in Players, Logout(p) \/ Login(p) PROVE IInv'
<1> USE DEF IInv
<1>1. /\ UNCHANGED <<members, loot, roll, vote, total, timer, blocked, looted, got, again>>
      /\ online' \subseteq Players
  BY Zenon DEF TypeOK, Logout, Login
<1>2. TypeOK'
  BY <1>1, Zenon DEF TypeOK
<1>3. TotalsAreOfTheVotes'
  BY <1>1, TotalsKept, Zenon DEF RollIsSound
<1>4. ItemIsGivenOnce' /\ FreshInv'
  BY <1>1, Zenon DEF RollIsSound, ItemIsGivenOnce, FreshInv
<1> QED
  BY <1>2, <1>3, <1>4 DEF RollIsSound

\* What is looted was not blocked.
LEMMA AutostoreLootItemNext ==
    ASSUME IInv, NEW p \in Players, NEW i \in Items, AutostoreLootItem(p, i) PROVE IInv'
<1> USE DEF IInv
<1>1. /\ loot = "open" /\ ~looted[i] /\ ~blocked[i]
      /\ got' = [got EXCEPT ![i] = Append(got[i], p)]
      /\ looted' = [looted EXCEPT ![i] = TRUE]
      /\ UNCHANGED <<members, online, loot, roll, vote, total, timer, blocked, again>>
  BY Zenon DEF AutostoreLootItem
<1>2. got[i] \in Seq(Players) /\ got \in [Items -> Seq(Players)] /\ looted \in [Items -> BOOLEAN]
  BY Zenon DEF TypeOK
<1>3. Append(got[i], p) \in Seq(Players) /\ Len(Append(got[i], p)) = Len(got[i]) + 1
  BY <1>2, AppendProperties
<1>4. TypeOK'
  BY <1>1, <1>2, <1>3, Zenon DEF TypeOK
<1>5. TotalsAreOfTheVotes'
  BY <1>1, TotalsKept, Zenon DEF RollIsSound
<1>6. ItemIsGivenOnce'
  <2> SUFFICES ASSUME NEW j \in Items
               PROVE  /\ Len(got'[j]) = IF looted'[j] THEN 1 ELSE 0
                      /\ roll'[j] = "valid" => blocked'[j] /\ ~looted'[j]
    BY Zenon DEF ItemIsGivenOnce
  <2>1. /\ Len(got[j]) = IF looted[j] THEN 1 ELSE 0
        /\ roll[j] = "valid" => blocked[j] /\ ~looted[j]
    BY Zenon DEF RollIsSound, ItemIsGivenOnce
  <2>2. CASE j = i
    <3>1. Len(got[i]) = 0 /\ roll[i] # "valid"
      BY <1>1, <2>1, <2>2, Zenon
    <3>2. got'[i] = Append(got[i], p) /\ looted'[i]
      BY <1>1, <1>2, Zenon
    <3>3. Len(got'[i]) = 1
      BY <1>3, <3>1, <3>2, SMTT(30)
    <3> QED
      BY <1>1, <2>2, <3>1, <3>2, <3>3, Zenon
  <2>3. CASE j # i
    <3>1. got'[j] = got[j] /\ looted'[j] = looted[j]
      BY <1>1, <1>2, <2>3, Zenon
    <3> QED
      BY <1>1, <2>1, <3>1, Zenon
  <2> QED
    BY <2>2, <2>3
<1>7. FreshInv'
  <2>1. loot' # "fresh"
    BY <1>1, SMTT(30)
  <2> QED
    BY <2>1 DEF FreshInv
<1> QED
  BY <1>4, <1>5, <1>6, <1>7 DEF RollIsSound

\* Loot that is cleared invalidates its rolls.
LEMMA ClearLootNext == ASSUME IInv, ClearLoot PROVE IInv'
<1> USE DEF IInv
<1>1. /\ UNCHANGED <<members, online, vote, total, timer, blocked, looted, got, again>>
      /\ loot' = "gone"
      /\ roll' = [i \in Items |-> IF roll[i] = "valid" THEN "invalid" ELSE roll[i]]
  BY Zenon DEF ClearLoot
<1>2. /\ roll' \in [Items -> {"none", "valid", "invalid"}]
      /\ \A i \in Items : /\ roll'[i] # "none" => roll[i] # "none"
                           /\ roll'[i] # "valid"
  BY <1>1, SMTT(30) DEF TypeOK
<1>3. TypeOK'
  <2>1. loot' \in {"fresh", "open", "gone"}
    BY <1>1, Zenon
  <2> QED
    BY <1>1, <1>2, <2>1, Zenon DEF TypeOK
<1>4. TotalsAreOfTheVotes'
  <2>1. members \subseteq members'
    BY <1>1, Zenon
  <2> QED
    BY <1>1, <1>2, <2>1, TotalsKept, Zenon DEF RollIsSound
<1>5. ItemIsGivenOnce'
  BY <1>1, <1>2, Zenon DEF RollIsSound, ItemIsGivenOnce
<1>6. FreshInv'
  <2>1. loot' # "fresh"
    BY <1>1, SMTT(30)
  <2> QED
    BY <2>1 DEF FreshInv
<1> QED
  BY <1>3, <1>4, <1>5, <1>6 DEF RollIsSound

\* No step disturbs the invariant.
LEMMA NextInv == IInv /\ [Next]_vars => IInv'
<1>1. ASSUME IInv, UNCHANGED vars PROVE IInv'
  <2>1. UNCHANGED <<members, online, loot, roll, vote, total, timer, blocked, looted, got, again>>
    BY <1>1 DEF vars
  <2>2. TypeOK'
    BY <1>1, <2>1, Zenon DEF IInv, TypeOK
  <2>3. TotalsAreOfTheVotes'
    BY <1>1, <2>1, TotalsKept, Zenon DEF IInv, RollIsSound
  <2>4. ItemIsGivenOnce' /\ FreshInv'
    BY <1>1, <2>1, Zenon DEF IInv, RollIsSound, ItemIsGivenOnce, FreshInv
  <2> QED
    BY <2>2, <2>3, <2>4 DEF IInv, RollIsSound
<1> QED
  BY <1>1, PrepareLootRollsNext, AddMemberNext, RemoveMemberNext, LogNext, AutostoreLootItemNext,
     CountRollVoteNext, UpdateNext, DisbandNext, ClearLootNext, Zenon DEF Next

\* The variables keep their types, the counters among them that are decremented.
THEOREM TypeCorrect == Spec => []TypeOK
<1>1. IInv => TypeOK
  BY DEF IInv
<1> QED
  BY <1>1, InitInv, NextInv, PTL DEF Spec

\* An item is given once, and the counters of its roll are those of the votes, or no
\* less where somebody has voted again.
THEOREM RollCorrect == Spec => []RollIsSound
<1>1. IInv => RollIsSound
  BY DEF IInv
<1> QED
  BY <1>1, InitInv, NextInv, PTL DEF Spec
-----------------------------------------------------------------------------
(* Who is given the item.                                                  *)

WonBy(i) == got'[i][Len(got'[i])]
AskedForIt(i) ==
    /\ vote'[i][WonBy(i)] # "out"
    /\ (\E p \in Players : vote'[i][p] = "need") => vote'[i][WonBy(i)] = "need"
    /\ i \notin again' =>
        /\ vote'[i][WonBy(i)] \in {"need", "greed"}
        /\ timer[i] > 1 => \A p \in Players : vote'[i][p] # "asked"

\* An item that is given by the end of a roll goes to the result of the roll.
LEMMA GivenToTheResult ==
    ASSUME TypeOK, NEW ended \in SUBSET Items, NEW result, EndRolls(ended, result),
           NEW i \in Items, got'[i] # got[i]
    PROVE  i \in ended /\ result[i] \in Players /\ WonBy(i) = result[i]
<1>1. got'[i] = IF i \in ended /\ result[i] \in Players THEN Append(got[i], result[i]) ELSE got[i]
  BY Zenon DEF EndRolls
<1>2. i \in ended /\ result[i] \in Players /\ got'[i] = Append(got[i], result[i])
  BY <1>1, Zenon
<1>3. got[i] \in Seq(Players)
  BY Zenon DEF TypeOK
<1>4. /\ Len(Append(got[i], result[i])) = Len(got[i]) + 1
      /\ Append(got[i], result[i])[Len(got[i]) + 1] = result[i]
  BY <1>2, <1>3, AppendProperties
<1> QED
  BY <1>2, <1>4, Zenon DEF WonBy

\* The last vote gives the item to one who asked for it.
LEMMA VoteGivesToWhoAsked ==
    ASSUME IInv, NEW p \in Players, NEW i \in Items, NEW choice \in Choices \cup {"other"},
           CountRollVote(p, i, choice), NEW j \in Items, got'[j] # got[j]
    PROVE  AskedForIt(j)
<1> DEFINE Ends == total'[i].pass + total'[i].greed + total'[i].need >= total'[i].rolling
<1>1. Ends
  BY Zenon DEF CountRollVote
<1>2. PICK r \in CountTheRoll(i, vote'[i], total'[i]) : EndRolls({i}, [k \in {i} |-> r])
  BY <1>1, Zenon DEF CountRollVote
<1>3. j \in {i} /\ [k \in {i} |-> r][j] \in Players /\ WonBy(j) = [k \in {i} |-> r][j]
  <2>1. {i} \in SUBSET Items
    OBVIOUS
  <2> QED
    BY <1>2, <2>1, GivenToTheResult, Zenon DEF IInv
<1>4. j = i /\ r \in Players /\ WonBy(i) = r
  BY <1>3, Zenon
<1>5. /\ vote'[i] \in [Players -> Votes] /\ total'[i] \in Totals /\ Counted(vote'[i], total'[i])
      /\ i \notin again' => Exact(vote'[i], total'[i])
  BY VoteOfTheRoll, Zenon
<1>6. /\ vote'[i][r] # "out"
      /\ (\E q \in Players : vote'[i][q] = "need") => vote'[i][r] = "need"
      /\ Exact(vote'[i], total'[i]) => vote'[i][r] \in {"need", "greed"}
  BY <1>4, <1>5, WinnerVote
<1>7. ASSUME i \notin again' PROVE \A q \in Players : vote'[i][q] # "asked"
  BY <1>1, <1>5, <1>7, EverybodyVoted
<1> QED
  BY <1>4, <1>5, <1>6, <1>7, Zenon DEF AskedForIt

\* So does the end of the time.
LEMMA UpdateGivesToWhoAsked ==
    ASSUME IInv, Update, NEW j \in Items, roll[j] = "valid", got'[j] # got[j]
    PROVE  AskedForIt(j)
<1> DEFINE running == {i \in Items : roll[i] # "none"}
           ended == {i \in running : timer[i] <= 1}
<1>1. PICK result \in [ended -> Results] :
        /\ \A i \in ended : result[i] \in CountTheRoll(i, vote[i], total[i])
        /\ EndRolls(ended, result)
  BY Zenon DEF Update, Results
<1>2. j \in ended /\ result[j] \in Players /\ WonBy(j) = result[j]
  <2>1. ended \in SUBSET Items
    OBVIOUS
  <2> HIDE DEF ended
  <2> QED
    BY <1>1, <2>1, GivenToTheResult, Zenon DEF IInv
<1>3. result[j] \in CountTheRoll(j, vote[j], total[j]) /\ roll[j] # "none" /\ timer[j] <= 1
  BY <1>1, <1>2, Zenon
<1>4. /\ vote[j] \in [Players -> Votes] /\ total[j] \in Totals /\ Counted(vote[j], total[j])
      /\ j \notin again => Exact(vote[j], total[j])
      /\ timer[j] \in Nat
  <2>1. Counted(vote[j], total[j]) /\ (j \notin again => Exact(vote[j], total[j]))
    BY <1>3, Zenon DEF IInv, RollIsSound, TotalsAreOfTheVotes, Counted, Exact, Voters
  <2>2. timer[j] \in Nat
    BY RollTimeIsPositive, SMTT(30) DEF IInv, TypeOK
  <2> QED
    BY <2>1, <2>2, Zenon DEF IInv, TypeOK, Totals
<1>5. /\ vote[j][result[j]] # "out"
      /\ (\E q \in Players : vote[j][q] = "need") => vote[j][result[j]] = "need"
      /\ Exact(vote[j], total[j]) => vote[j][result[j]] \in {"need", "greed"}
  BY <1>2, <1>3, <1>4, WinnerVote
<1>6. vote' = vote /\ again' = again
  BY Zenon DEF Update
<1>7. ~(timer[j] > 1)
  BY <1>3, <1>4, SMTT(30)
<1> QED
  BY <1>2, <1>4, <1>5, <1>6, <1>7, Zenon DEF AskedForIt

\* No other step ends a valid roll with a winner.
LEMMA NextGivesToWhoAsked ==
    IInv /\ [Next]_vars =>
        \A i \in Items : (roll[i] = "valid" /\ roll'[i] = "none" /\ got'[i] # got[i]) => AskedForIt(i)
<1> SUFFICES ASSUME IInv, [Next]_vars, NEW j \in Items,
                    roll[j] = "valid", roll'[j] = "none", got'[j] # got[j]
             PROVE  AskedForIt(j)
  OBVIOUS
<1>1. ASSUME NEW near \in [Items -> SUBSET Players], PrepareLootRolls(near) PROVE FALSE
  BY <1>1, Zenon DEF PrepareLootRolls
<1>2. ASSUME NEW p \in Players, AddMember(p) \/ RemoveMember(p) \/ Logout(p) \/ Login(p) PROVE FALSE
  BY <1>2, Zenon DEF AddMember, RemoveMember, Logout, Login
<1>3. ASSUME NEW p \in Players, NEW i \in Items, AutostoreLootItem(p, i) PROVE FALSE
  <2>1. roll' = roll
    BY <1>3, Zenon DEF AutostoreLootItem
  <2> QED
    BY <2>1, SMTT(30)
<1>4. ASSUME Disband \/ ClearLoot \/ UNCHANGED vars PROVE FALSE
  BY <1>4, Zenon DEF Disband, ClearLoot, vars
<1> QED
  BY <1>1, <1>2, <1>3, <1>4, VoteGivesToWhoAsked, UpdateGivesToWhoAsked, Zenon DEF Next

\* Who wins has voted, and needs the item if anybody does; unless somebody has voted
\* again he has asked for it, and nobody is passed over before the time is up.
THEOREM WinnerCorrect == Spec => WinnerAskedForIt
<1>1. IInv /\ [Next]_vars =>
        [\A i \in Items : (roll[i] = "valid" /\ roll'[i] = "none" /\ got'[i] # got[i]) =>
            LET won == vote'[i][got'[i][Len(got'[i])]]
            IN  /\ won # "out"
                /\ (\E p \in Players : vote'[i][p] = "need") => won = "need"
                /\ i \notin again' =>
                    /\ won \in {"need", "greed"}
                    /\ timer[i] > 1 => \A p \in Players : vote'[i][p] # "asked"]_vars
  BY NextGivesToWhoAsked, Zenon DEF AskedForIt, WonBy
<1> QED
  BY <1>1, InitInv, NextInv, PTL DEF Spec, WinnerAskedForIt
=============================================================================
