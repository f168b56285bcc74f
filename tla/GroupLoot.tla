----------------------------- MODULE GroupLoot -----------------------------
(***************************************************************************)
(* The rolls of a group for the items of one corpse or chest.  A roll      *)
(* blocks its item, asks the members that are near, counts their votes and *)
(* ends with the last vote or with its timer; meanwhile members leave,     *)
(* join, log out and in, loot what is not blocked, the group is disbanded, *)
(* or the loot vanishes with the corpse.                                   *)
(*                                                                         *)
(* All of it runs in the world thread: the packets are PROCESS_THREADUNSAFE *)
(* and World::Update updates the groups after the sessions.                *)
(***************************************************************************)
EXTENDS Integers, Sequences, FiniteSets

CONSTANTS
    Players, Items,     \* the items over the threshold that are not free for all
    RollTime            \* the 60 seconds of a roll, in updates of the group

ASSUME RollTimeIsPositive == RollTime \in Nat \ {0}
ASSUME PlayersAreFinite == IsFiniteSet(Players) /\ {"free", "kept"} \cap Players = {}

VARIABLES
    members,    \* m_memberSlots
    online,
    loot,       \* "fresh", "open" once its rolls were prepared, "gone" when cleared
    roll,       \* of each item: "none", "valid", or "invalid" when its loot is gone
    vote,       \* playerVote; "out" when a player is not in it
    total,      \* totalPlayersRolling, totalNeed, totalGreed and totalPass
    timer,      \* rollTimer
    blocked,    \* is_blocked
    looted,     \* is_looted
    got,        \* who was given the item, in order
    again       \* history: the items for which somebody has voted more than once

vars == <<members, online, loot, roll, vote, total, timer, blocked, looted, got, again>>

Choices == {"pass", "need", "greed"}
Votes == Choices \cup {"out", "asked"}
NoTotal == [rolling |-> 0, need |-> 0, greed |-> 0, pass |-> 0]
Voters(i, v) == {p \in Players : vote[i][p] = v}

----------------------------------------------------------------------------
(* Group::PrepareLootRolls, when the loot is opened for the first time.    *)

\* The members that may have the item; they are online and near the corpse.
Asked(near) == [p \in Players |-> IF p \in near THEN "asked" ELSE "out"]

PrepareLootRolls(near) ==
    /\ loot = "fresh" /\ loot' = "open"
    /\ \A i \in Items : near[i] \subseteq members \cap online
    /\ LET rolled == {i \in Items : Cardinality(near[i]) > 1}
       IN  /\ roll' = [i \in Items |-> IF i \in rolled THEN "valid" ELSE roll[i]]
           /\ vote' = [i \in Items |-> IF i \in rolled THEN Asked(near[i]) ELSE vote[i]]
           /\ total' = [i \in Items |->
                IF i \in rolled THEN [NoTotal EXCEPT !.rolling = Cardinality(near[i])]
                ELSE total[i]]
           /\ timer' = [i \in Items |-> IF i \in rolled THEN RollTime ELSE 0]
           /\ blocked' = [i \in Items |-> i \in rolled]
    /\ UNCHANGED <<members, online, looted, got, again>>

----------------------------------------------------------------------------
(* Group::CountTheRoll.                                                    *)

\* Mutant: the greedy before those who need.
WinnersMutant(votes, t) ==
    LET want  == IF t.greed > 0 THEN "greed" ELSE "need"
        asked == {p \in Players : votes[p] = want}
    IN  IF asked # {} THEN asked ELSE {p \in Players : votes[p] # "out"}

\* The highest number among those who need the item, or else who are greedy for
\* it; anyone of them can have it.  If there are none although the counter says so
\* it is the first voter.
Winners(votes, t) ==
    LET want  == IF t.need > 0 THEN "need" ELSE "greed"
        asked == {p \in Players : votes[p] = want}
    IN  IF asked # {} THEN asked ELSE {p \in Players : votes[p] # "out"}

\* What becomes of the item: a winner gets it, or it is "free" to be looted, or
\* it is "kept" blocked.  A winner who is offline gets nothing and the item stays
\* blocked; one whose bags are full (CanStoreNewItem) gets nothing and it is free.
\* Without any voter nothing is done.
CountTheRoll(i, votes, t) ==
    IF roll[i] = "invalid" THEN {"kept"}
    ELSE IF t.need = 0 /\ t.greed = 0 THEN {"free"}
    ELSE IF Winners(votes, t) = {} THEN {"kept"}
    ELSE UNION {IF w \in online THEN {w, "free"} ELSE {"kept"} : w \in Winners(votes, t)}

\* The rolls of `ended` end with the given results (StoreNewItem, setItemLooted).
EndRolls(ended, result) ==
    /\ roll' = [i \in Items |-> IF i \in ended THEN "none" ELSE roll[i]]
    /\ blocked' = [i \in Items |-> blocked[i] /\ ~(i \in ended /\ result[i] = "free")]
    /\ looted' = [i \in Items |-> looted[i] \/ (i \in ended /\ result[i] \in Players)]
    /\ got' = [i \in Items |-> IF i \in ended /\ result[i] \in Players
                               THEN Append(got[i], result[i]) ELSE got[i]]

\* Group::CountRollVote and HandleLootRoll, which do not look whether the player has
\* voted: another vote takes the place of the first and is counted beside it.  A
\* choice that is none of the three only has the votes counted.
CountRollVote(p, i, choice) ==
    /\ p \in members \cap online
    /\ roll[i] # "none" /\ vote[i][p] # "out"
    /\ IF choice \in Choices
       THEN /\ vote' = [vote EXCEPT ![i][p] = choice]
            /\ total' = [total EXCEPT ![i][choice] = @ + 1]
            /\ again' = IF vote[i][p] = "asked" THEN again ELSE again \cup {i}
       ELSE UNCHANGED <<vote, total, again>>
    /\ IF total'[i].pass + total'[i].greed + total'[i].need >= total'[i].rolling
       THEN \E result \in CountTheRoll(i, vote'[i], total'[i]) : EndRolls({i}, [j \in {i} |-> result])
       ELSE UNCHANGED <<roll, blocked, looted, got>>
    /\ UNCHANGED <<members, online, loot, timer>>

\* Mutant: a roll whose time is up waits for the votes that are missing.
UpdateMutant ==
    LET running == {i \in Items : roll[i] # "none"}
        ended   == {i \in running : timer[i] <= 1 /\ Voters(i, "asked") = {}}
    IN  /\ running # {}
        /\ \E result \in [ended -> Players \cup {"free", "kept"}] :
            /\ \A i \in ended : result[i] \in CountTheRoll(i, vote[i], total[i])
            /\ EndRolls(ended, result)
        /\ timer' = [i \in Items |-> IF timer[i] > 0 THEN timer[i] - 1 ELSE 0]
        /\ UNCHANGED <<members, online, loot, vote, total, again>>

\* Group::Update: the rolls whose time is up are counted.
Update ==
    LET running == {i \in Items : roll[i] # "none"}
        ended   == {i \in running : timer[i] <= 1}
    IN  /\ running # {}
        /\ \E result \in [ended -> Players \cup {"free", "kept"}] :
            /\ \A i \in ended : result[i] \in CountTheRoll(i, vote[i], total[i])
            /\ EndRolls(ended, result)
        /\ timer' = [i \in Items |-> IF i \in running \ ended THEN timer[i] - 1 ELSE timer[i]]
        /\ UNCHANGED <<members, online, loot, vote, total, again>>

----------------------------------------------------------------------------
(* The group.                                                              *)

\* Mutant: a leaver who is not in the roll is taken out of the count.
WithoutVoterMutant(i, p) ==
    IF roll[i] = "none" THEN total[i] ELSE [total[i] EXCEPT !.rolling = @ - 1]

\* Group::_removeRolls.  The vote is erased before CountRollVote is called, so
\* that call returns at once: the roll waits for its timer.
WithoutVote(i, p) ==
    LET v == vote[i][p]
        t == total[i]
    IN  IF roll[i] = "none" \/ v = "out" THEN t
        ELSE [t EXCEPT !.rolling = @ - 1,
                       !.need = IF v = "need" THEN @ - 1 ELSE @,
                       !.greed = IF v = "greed" THEN @ - 1 ELSE @,
                       !.pass = IF v = "pass" THEN @ - 1 ELSE @]

\* Group::RemoveMember of a group of more than two.
RemoveMember(p) ==
    /\ p \in members /\ Cardinality(members) > 2
    /\ members' = members \ {p}
    /\ total' = [i \in Items |-> WithoutVote(i, p)]
    /\ vote' = [i \in Items |->
            IF roll[i] = "none" THEN vote[i] ELSE [vote[i] EXCEPT ![p] = "out"]]
    /\ UNCHANGED <<online, loot, roll, timer, blocked, looted, got, again>>

\* Group::Disband; RollId.clear() forgets the rolls and leaves the items as they are.
Disband ==
    /\ members # {}
    /\ members' = {}
    /\ roll' = [i \in Items |-> "none"]
    /\ UNCHANGED <<online, loot, vote, total, timer, blocked, looted, got, again>>

\* A new member, or a new group of two.
AddMember(p) ==
    /\ p \notin members
    /\ \E others \in SUBSET (Players \ {p}) :
        /\ IF members = {} THEN Cardinality(others) = 1 ELSE others = members
        /\ members' = others \cup {p}
    /\ UNCHANGED <<online, loot, roll, vote, total, timer, blocked, looted, got, again>>

Logout(p) ==
    /\ p \in online /\ online' = online \ {p}
    /\ UNCHANGED <<members, loot, roll, vote, total, timer, blocked, looted, got, again>>

Login(p) ==
    /\ p \notin online /\ online' = online \cup {p}
    /\ UNCHANGED <<members, loot, roll, vote, total, timer, blocked, looted, got, again>>

----------------------------------------------------------------------------
(* The loot.                                                               *)

\* Mutant: an item that is rolled for can be looted.
AutostoreLootItemMutant(p, i) ==
    /\ p \in online
    /\ loot = "open"
    /\ ~looted[i]
    /\ got' = [got EXCEPT ![i] = Append(@, p)]
    /\ looted' = [looted EXCEPT ![i] = TRUE]
    /\ UNCHANGED <<members, online, loot, roll, vote, total, timer, blocked, again>>

\* WorldSession::HandleAutostoreLootItemOpcode, when the player has room for it.
AutostoreLootItem(p, i) ==
    /\ p \in online
    /\ loot = "open"
    /\ ~looted[i]
    /\ ~blocked[i]
    /\ got' = [got EXCEPT ![i] = Append(@, p)]
    /\ looted' = [looted EXCEPT ![i] = TRUE]
    /\ UNCHANGED <<members, online, loot, roll, vote, total, timer, blocked, again>>

\* Loot::clear, when the corpse decays: every roll on the loot is invalidated.
ClearLoot ==
    /\ loot = "open" /\ loot' = "gone"
    /\ roll' = [i \in Items |-> IF roll[i] = "valid" THEN "invalid" ELSE roll[i]]
    /\ UNCHANGED <<members, online, vote, total, timer, blocked, looted, got, again>>

Init ==
    /\ members \in {m \in SUBSET Players : Cardinality(m) > 1}
    /\ online = Players
    /\ loot = "fresh"
    /\ roll = [i \in Items |-> "none"]
    /\ vote = [i \in Items |-> [p \in Players |-> "out"]]
    /\ total = [i \in Items |-> NoTotal]
    /\ timer = [i \in Items |-> 0]
    /\ blocked = [i \in Items |-> FALSE]
    /\ looted = [i \in Items |-> FALSE]
    /\ got = [i \in Items |-> <<>>]
    /\ again = {}

Next ==
    \/ \E near \in [Items -> SUBSET Players] : PrepareLootRolls(near)
    \/ \E p \in Players :
        \/ AddMember(p) \/ RemoveMember(p) \/ Logout(p) \/ Login(p)
        \/ \E i \in Items :
            \/ AutostoreLootItem(p, i)
            \/ \E choice \in Choices \cup {"other"} : CountRollVote(p, i, choice)
    \/ Update
    \/ Disband
    \/ ClearLoot

Spec == Init /\ [][Next]_vars

\* World::Update updates every group.
FairSpec == Spec /\ WF_vars(Update)

----------------------------------------------------------------------------
TypeOK ==
    /\ members \subseteq Players /\ online \subseteq Players
    /\ loot \in {"fresh", "open", "gone"}
    /\ roll \in [Items -> {"none", "valid", "invalid"}]
    /\ vote \in [Items -> [Players -> Votes]]
    /\ total \in [Items -> [{"rolling", "need", "greed", "pass"} -> Nat]]
    /\ timer \in [Items -> 0 .. RollTime]
    /\ blocked \in [Items -> BOOLEAN] /\ looted \in [Items -> BOOLEAN]
    /\ got \in [Items -> Seq(Players)] /\ again \subseteq Items

\* An item is given to one player, by the roll or from the loot window: while it
\* is rolled for it is blocked and still there (CountTheRoll does not ask).
ItemIsGivenOnce ==
    \A i \in Items : /\ Len(got[i]) = IF looted[i] THEN 1 ELSE 0
                     /\ roll[i] = "valid" => blocked[i] /\ ~looted[i]

\* The counters of a roll are those of its votes, whoever has left since
\* (CountRollVote, _removeRolls): a counter that is off ends the roll early, or
\* gives the item to somebody who did not ask for it.  Where somebody has voted
\* again they are no less, so that none falls below zero when a voter leaves.
TotalsAreOfTheVotes ==
    \A i \in Items : roll[i] # "none" =>
        /\ \A c \in Choices : total[i][c] >= Cardinality(Voters(i, c))
        /\ i \notin again => \A c \in Choices : total[i][c] = Cardinality(Voters(i, c))
        /\ total[i].rolling = Cardinality(Players \ Voters(i, "out"))
        /\ \A p \in Players \ members : vote[i][p] = "out"

\* A roll keeps its item and its count (the two above).
RollIsSound == ItemIsGivenOnce /\ TotalsAreOfTheVotes

\* A roll gives the item to one of its voters, who needs it if anybody does; and
\* unless somebody has voted again the winner needs it or is greedy for it, and the
\* roll waits for every voter while it has time (CountTheRoll).
WinnerAskedForIt ==
    [][\A i \in Items : (roll[i] = "valid" /\ roll'[i] = "none" /\ got'[i] # got[i]) =>
        LET won == vote'[i][got'[i][Len(got'[i])]]
        IN  /\ won # "out"
            /\ (\E p \in Players : vote'[i][p] = "need") => won = "need"
            /\ i \notin again' =>
                /\ won \in {"need", "greed"}
                /\ timer[i] > 1 => \A p \in Players : vote'[i][p] # "asked"]_vars

\* Every roll ends, also when voters have left or logged out (Group::Update).
RollEnds == \A i \in Items : roll[i] = "valid" ~> roll[i] = "none"
=============================================================================
