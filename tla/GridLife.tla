------------------------------ MODULE GridLife ------------------------------
(***************************************************************************)
(* How a map loads and unloads its grids, and what becomes of the          *)
(* creatures in them.  A grid is loaded when a player or an active object  *)
(* enters it or sees it; it goes from ACTIVE to IDLE to REMOVAL and is     *)
(* unloaded when nobody is near and no creature that spawned in it is      *)
(* active.  Creatures wander to other grids, become active for a reason or *)
(* because a player's camera is on them, are spawned and unspawned by game *)
(* events, and are made anew each time their spawn grid is loaded.         *)
(*                                                                         *)
(* All of it runs in the thread that updates the map.  The grids lie on a  *)
(* line and a position is a cell.  The steps are the calls that game code  *)
(* makes between two walks of Map::DelayedUpdate, and the walk itself, one *)
(* grid at a time.                                                         *)
(***************************************************************************)
EXTENDS Integers, FiniteSets, FiniteSetsExt

CONSTANTS
    Players, Creatures,
    Viewers,        \* the players with a far sight, mind vision or possession
    Home,           \* the cell a creature spawns in
    GridCount, CellsPerGrid,
    CellRange,      \* how many cells beyond a grid something is still near
    Expiry, Short,  \* GridCleanUpDelay and a tenth of it, in updates
    GridUnload,     \* the values of the option, which can be reloaded, when a grid is made
    MaxCopies,      \* bound: the objects of one creature at a time
    MaxLock,        \* bound: the count of an unload lock that leaks again and again
    Nowhere

Grids == 0 .. GridCount - 1
Cells == 0 .. GridCount * CellsPerGrid - 1
Copies == Creatures \X (1 .. MaxCopies)
Objects == Copies \cup Players
Reasons == {"manual", "combat"}

ASSUME GridConstants ==
    /\ GridCount \in Nat \ {0} /\ CellsPerGrid \in Nat \ {0} /\ CellRange \in Nat
    /\ MaxLock \in Nat /\ Short \in Nat \ {0} /\ Expiry \in Nat /\ Short <= Expiry
    /\ Viewers \subseteq Players /\ MaxCopies \in Nat
    /\ GridUnload \in [Grids -> SUBSET BOOLEAN \ {{}}]
    /\ IsFiniteSet(Players) /\ IsFiniteSet(Creatures) /\ Players \cap Copies = {}
    /\ Home \in [Creatures -> Cells] /\ Nowhere \notin Cells \cup Objects

VARIABLES
    st,         \* the state of each grid; "none" when there is no NGridType
    data,       \* isGridObjectDataLoaded
    timer,      \* the time tracker of a grid
    lock,       \* i_unloadActiveLockCount
    explicit,   \* the grids with i_unloadExplicitLock
    pos,        \* the cell of each object on the map
    by,         \* m_activeBy of each creature object
    view,       \* the source of each player's camera
    active,     \* m_activeNonPlayers
    removing,   \* i_objectsToRemove
    scripted,   \* the creatures whose AI activates them when it is made
    spawned,    \* the creatures that a loaded grid is given
    todo,       \* the grids that the running DelayedUpdate has still to update
    bg,         \* IsBattleGroundOrArena
    odd         \* history: the grids whose unload lock is known to be wrong

vars == <<st, data, timer, lock, explicit, pos, by, view, active, removing, scripted, spawned, todo,
          bg, odd>>

Now == [st |-> st, data |-> data, timer |-> timer, lock |-> lock, pos |-> pos, by |-> by,
        view |-> view, active |-> active, removing |-> removing, odd |-> odd]

\* The explicit lock of a grid is the option at the time when the grid is made.
ExplicitLocks(m) ==
    LET made == {g \in Grids : st[g] = "none" /\ m.st[g] # "none"}
    IN  {e \in SUBSET Grids : \A g \in Grids :
            IF g \in made THEN (g \notin e) \in GridUnload[g]
            ELSE g \in e <=> (g \in explicit /\ m.st[g] # "none")}

Become(after) == \E m \in {after} :
    /\ st' = m.st /\ data' = m.data /\ timer' = m.timer /\ lock' = m.lock /\ pos' = m.pos
    /\ by' = m.by /\ view' = m.view /\ active' = m.active /\ removing' = m.removing
    /\ odd' = m.odd
    /\ explicit' \in ExplicitLocks(m)
    /\ UNCHANGED <<scripted, bg>>
    /\ \A g \in Grids : m.lock[g] <= MaxLock

GridOf(cell) == cell \div CellsPerGrid
HomeGrid(o) == GridOf(Home[o[1]])
OnMap(m, x) == m.pos[x] # Nowhere
InWorld(m, o) == OnMap(m, o) /\ o \notin m.removing
\* Map::loaded: the grid exists and its objects are loaded.
IsLoaded(m, g) == m.data[g]

\* Map::ActiveObjectsNearGrid; the range reaches one cell further above than below.
Near(g, cell) == cell \in g * CellsPerGrid - CellRange .. (g + 1) * CellsPerGrid + CellRange
ActiveObjectsNearGrid(m, g) ==
    \E x \in Players \cup m.active : OnMap(m, x) /\ Near(g, m.pos[x])

\* WorldObject::isActiveObject: a reason, or a camera on it.
Watched(m, x) == \E p \in Players : m.view[p] = x
IsActive(m, x) == (x \in Copies /\ m.by[x] # {}) \/ Watched(m, x)

----------------------------------------------------------------------------
(* The active list and the unload lock of the spawn grid.                  *)

\* The error that both functions log when the spawn grid is not there.
Log(m, o) ==
    IF o \in Copies /\ m.st[HomeGrid(o)] = "none"
    THEN [m EXCEPT !.odd = @ \cup {HomeGrid(o)}] ELSE m

AddToActive(m, x) ==
    LET n == Log([m EXCEPT !.active = @ \cup {x}], x)
    IN  IF x \in Copies /\ m.st[HomeGrid(x)] # "none"
        THEN [n EXCEPT !.lock[HomeGrid(x)] = @ + 1] ELSE n

\* Mutant: the lock is counted down below zero.
RemoveFromActiveMutant(m, x) ==
    LET n == Log([m EXCEPT !.active = @ \ {x}], x)
    IN  IF x \in Copies /\ m.st[HomeGrid(x)] # "none"
        THEN [n EXCEPT !.lock[HomeGrid(x)] = @ - 1] ELSE n

\* decUnloadActiveLock stops at zero.
RemoveFromActive(m, x) ==
    LET n == Log([m EXCEPT !.active = @ \ {x}], x)
    IN  IF x \in Copies /\ m.st[HomeGrid(x)] # "none" /\ m.lock[HomeGrid(x)] > 0
        THEN [n EXCEPT !.lock[HomeGrid(x)] = @ - 1] ELSE n

\* Mutant: every reason adds the object anew.
SetActiveByMutant(m, o, reasons) ==
    LET n == [m EXCEPT !.by[o] = reasons]
    IN  IF ~InWorld(m, o) THEN [n EXCEPT !.odd = @ \cup {HomeGrid(o)}]
        ELSE IF reasons # {} THEN AddToActive(n, o)
        ELSE RemoveFromActive(n, o)

\* WorldObject::setActive, which does not ask whether a camera is on the object.
SetActiveBy(m, o, reasons) ==
    LET n == [m EXCEPT !.by[o] = reasons,
                       !.odd = IF Watched(m, o) THEN @ \cup {HomeGrid(o)} ELSE @]
    IN  IF (m.by[o] # {}) = (reasons # {}) THEN [m EXCEPT !.by[o] = reasons]
        ELSE IF ~InWorld(m, o) THEN [m EXCEPT !.by[o] = reasons, !.odd = @ \cup {HomeGrid(o)}]
        ELSE IF reasons # {} THEN AddToActive(n, o)
        ELSE RemoveFromActive(n, o)

\* Camera::SetView; the source is detached before the new one is attached.
SetViewOf(m, p, x) ==
    LET old      == m.view[p]
        detached == [m EXCEPT !.view[p] = Nowhere]
        dropped  == IF IsActive(detached, old) THEN detached
                    ELSE RemoveFromActive(detached, old)
        taken    == IF IsActive(dropped, x) THEN dropped ELSE AddToActive(dropped, x)
    IN  IF old = x \/ ~InWorld(m, x) THEN m ELSE [taken EXCEPT !.view[p] = x]

\* Camera::Event_RemovedFromWorld of every camera on the object.
Watching(m, o) == {p \in Players : m.view[p] = o}
ResetViewers(m, o) ==
    FoldSet(LAMBDA p, n : SetViewOf(n, p, p), m, Watching(m, o))

----------------------------------------------------------------------------
(* Grids and the objects in them.                                          *)

EnsureGridCreated(m, g) ==
    IF m.st[g] # "none" THEN m
    ELSE [m EXCEPT !.st[g] = "idle", !.timer[g] = Expiry, !.lock[g] = 0]

FreeCopies(m, c) ==
    {o \in Copies : o[1] = c /\ ~OnMap(m, o) /\ o \notin m.active}

\* LoadHelper and Map::Add: the AI is made in AddToWorld, and what it has
\* activated is added to the active objects a second time.
Make(m, c) ==
    LET o == CHOOSE f \in FreeCopies(m, c) : TRUE
        n == [m EXCEPT !.pos[o] = Home[c]]
    IN  IF c \in scripted
        THEN LET l == AddToActive(SetActiveBy(n, o, {"manual"}), o)
             IN  [l EXCEPT !.odd = @ \cup {HomeGrid(o)}]
        ELSE n

SpawnedIn(g) == {c \in spawned : GridOf(Home[c]) = g}
ObjectsLoaded(m, g) == FoldSet(LAMBDA c, n : Make(n, c), m, SpawnedIn(g))

EnsureGridLoaded(m, g) ==
    LET n == EnsureGridCreated(m, g)
    IN  IF n.data[g] THEN n ELSE [ObjectsLoaded(n, g) EXCEPT !.data[g] = TRUE]

EnsureGridLoadedAtEnter(m, g) ==
    LET n == EnsureGridLoaded(m, g)
    IN  IF n.st[g] = "active" THEN n
        ELSE [n EXCEPT !.st[g] = "active", !.timer[g] = Short]

\* Map::CreatureCellRelocation succeeds within the grid, into a loaded grid,
\* and for an active creature into any grid, which it loads.
CanRelocate(m, o, cell) ==
    \/ GridOf(cell) = GridOf(m.pos[o])
    \/ IsActive(m, o)
    \/ IsLoaded(m, GridOf(cell))

CreatureCellRelocation(m, o, cell) ==
    LET g == GridOf(cell)
        n == IF g # GridOf(m.pos[o]) /\ IsActive(m, o) THEN EnsureGridLoadedAtEnter(m, g) ELSE m
    IN  [n EXCEPT !.pos[o] = cell]

\* Map::CreatureRespawnRelocation: the fight is stopped, then the creature moved.
CreatureRespawnRelocation(m, o) ==
    LET n == SetActiveBy(m, o, m.by[o] \ {"combat"})
    IN  IF CanRelocate(n, o, Home[o[1]])
        THEN CreatureCellRelocation(n, o, Home[o[1]]) ELSE n

\* CleanupsBeforeDelete takes the creature out of the world, and then stops its fight.
CleanupsBeforeDelete(m, o) ==
    LET n == [ResetViewers(m, o) EXCEPT !.removing = @ \cup {o}]
    IN  SetActiveBy(n, o, n.by[o] \ {"combat"})

Delete(m, o) ==
    [m EXCEPT !.pos[o] = Nowhere, !.by[o] = {}, !.removing = @ \ {o}]

\* Map::Remove of an object that has been taken out of the world.
RemoveObject(m, o) ==
    IF ~IsLoaded(m, GridOf(m.pos[o])) THEN [m EXCEPT !.removing = @ \ {o}]
    ELSE Delete(IF IsActive(m, o) THEN RemoveFromActive(m, o) ELSE m, o)

RemoveAllObjectsInRemoveList(m) ==
    FoldSet(LAMBDA o, n : RemoveObject(n, o), m, m.removing)

In(m, g) == {o \in Copies : OnMap(m, o) /\ GridOf(m.pos[o]) = g}

\* ObjectGridStoper ends the fights in the grid.
FightsStopped(m, g) ==
    FoldSet(LAMBDA o, n : SetActiveBy(n, o, n.by[o] \ {"combat"}), m, In(m, g))

\* ObjectGridRespawnMover: strangers are sent home if their spawn grid is loaded.
Strangers(m, g) == {o \in In(m, g) : HomeGrid(o) # g}
SentHome(m, g) ==
    FoldSet(LAMBDA o, n : CreatureRespawnRelocation(n, o), m, Strangers(m, g))

\* ObjectGridUnloader deletes what is still in the grid.
Emptied(m, g) ==
    FoldSet(LAMBDA o, n : Delete(CleanupsBeforeDelete(n, o), o), m, In(m, g))

GridGone(m, g) ==
    [m EXCEPT !.st[g] = "none", !.data[g] = FALSE, !.timer[g] = 0, !.lock[g] = 0,
              !.odd = IF \E o \in Copies : HomeGrid(o) = g /\ (o \in m.active \/ IsActive(m, o))
                      THEN @ ELSE @ \ {g}]

\* Mutant: strangers are deleted with the grid they are in.
UnloadGridMutant(m, g) == GridGone(Emptied(m, g), g)

\* Map::UnloadGrid
UnloadGrid(m, g) == GridGone(Emptied(SentHome(m, g), g), g)

----------------------------------------------------------------------------
(* What game code does between two updates.                                *)

\* Bound: a step that may load a grid needs a free object for each creature.
RoomToLoad == \A c \in Creatures : FreeCopies(Now, c) # {}
Calm == todo = {} /\ UNCHANGED <<todo, spawned>>

\* Map::Add(Player*).
AddPlayer(p, cell) ==
    /\ Calm /\ RoomToLoad
    /\ pos[p] = Nowhere
    /\ Become([EnsureGridLoadedAtEnter(Now, GridOf(cell)) EXCEPT !.pos[p] = cell])

PlayerRelocation(p, cell) ==
    /\ Calm /\ RoomToLoad
    /\ pos[p] \notin {Nowhere, cell}
    /\ LET g == GridOf(cell)
           m == IF GridOf(pos[p]) = g THEN Now ELSE EnsureGridLoadedAtEnter(Now, g)
       IN  Become([m EXCEPT !.pos[p] = cell])

\* Map::Remove(Player*): the auras of the far sight end, the camera comes back.
RemovePlayer(p) ==
    /\ Calm
    /\ pos[p] # Nowhere
    /\ Become([SetViewOf(Now, p, p) EXCEPT !.pos[p] = Nowhere])

\* Camera::UpdateVisibilityForOwner and the like visit the cells in sight and
\* load their grids; Map::Add of a passive object only creates the grid.
LoadNearGrid(g) ==
    /\ Calm /\ RoomToLoad
    /\ ActiveObjectsNearGrid(Now, g)
    /\ ~data[g]
    /\ \/ Become(EnsureGridLoaded(Now, g))
       \/ st[g] = "none" /\ Become(EnsureGridCreated(Now, g))

SetView(p, o) ==
    /\ Calm
    /\ p \in Viewers /\ pos[p] # Nowhere
    /\ InWorld(Now, o) /\ view[p] # o
    /\ Become(SetViewOf(Now, p, o))

ResetView(p) ==
    /\ Calm
    /\ pos[p] # Nowhere /\ view[p] # p
    /\ Become(SetViewOf(Now, p, p))

\* A script or a waypoint, the start or end of a fight, or the creature's death.
SetActive(o, reasons) ==
    /\ Calm
    /\ InWorld(Now, o)
    /\ \/ \E r \in Reasons \ by[o] : reasons = by[o] \cup {r}
       \/ \E r \in by[o] : reasons = by[o] \ {r}
       \/ by[o] # {} /\ reasons = {}
    /\ Become(SetActiveBy(Now, o, reasons))

\* Map::MoveAllCreaturesInMoveList for one creature of the cells being updated.
MoveCreature(o, cell) ==
    /\ Calm /\ RoomToLoad
    /\ InWorld(Now, o) /\ cell # pos[o]
    /\ ActiveObjectsNearGrid(Now, GridOf(pos[o]))
    /\ IF CanRelocate(Now, o, cell) THEN Become(CreatureCellRelocation(Now, o, cell))
       ELSE LET m == CreatureRespawnRelocation(Now, o)
            IN  Become(IF CanRelocate(SetActiveBy(Now, o, by[o] \ {"combat"}), o, Home[o[1]])
                       THEN m ELSE CleanupsBeforeDelete(m, o))

\* GameEventUnspawn and the pools' Despawn1Object.
Unspawn(c) ==
    /\ todo = {} /\ UNCHANGED todo
    /\ c \in spawned /\ spawned' = spawned \ {c}
    /\ LET found == {o \in Copies : o[1] = c /\ InWorld(Now, o)}
       IN  IF found = {} THEN Become(Now)
           ELSE \E o \in found : Become(CleanupsBeforeDelete(Now, o))

\* GameEventSpawn and the pools' Spawn1Object.
Spawn(c) ==
    /\ todo = {} /\ UNCHANGED todo
    /\ c \notin spawned /\ spawned' = spawned \cup {c}
    /\ IF IsLoaded(Now, GridOf(Home[c]))
       THEN FreeCopies(Now, c) # {} /\ Become(Make(Now, c))
       ELSE Become(Now)

----------------------------------------------------------------------------
(* Map::Update reads every listed object; then Map::DelayedUpdate.         *)

\* m_activeNonPlayers has only objects of this map.
ListedObjectsExist == \A x \in active : pos[x] # Nowhere

\* With a deleted object in the list the walk of Map::Update is undefined; the
\* model ends there.  The grids of a battleground are not updated.
BeginUpdate ==
    /\ todo = {}
    /\ ListedObjectsExist
    /\ todo' = IF bg THEN {} ELSE {g \in Grids : st[g] # "none"}
    /\ Become(RemoveAllObjectsInRemoveList(Now))
    /\ UNCHANGED spawned

Ticked(m, g) == [m EXCEPT !.timer[g] = IF @ > 0 THEN @ - 1 ELSE 0]
Reset(m, g, time) == [m EXCEPT !.timer[g] = time]

\* ActiveState::Update
UpdateActive(g) ==
    LET m == Ticked(Now, g)
    IN  /\ st[g] = "active"
        /\ IF m.timer[g] > 0 THEN Become(m)
           ELSE IF ActiveObjectsNearGrid(m, g) THEN Become(Reset(m, g, Short))
           ELSE Become([FightsStopped(m, g) EXCEPT !.st[g] = "idle"])

\* Mutant: the timer is set and the state stays.
UpdateIdleMutant(g) ==
    /\ st[g] = "idle"
    /\ Become(Reset(Now, g, Expiry))

\* IdleState::Update.
UpdateIdle(g) ==
    /\ st[g] = "idle"
    /\ Become([Reset(Now, g, Expiry) EXCEPT !.st[g] = "removal"])

\* The creatures that load their spawn grid when they are sent home.
Returning(m, g) == {o \in In(m, g) : IsActive(m, o) /\ ~IsLoaded(m, HomeGrid(o))}

\* Mutant: the lock is not looked at.
UpdateRemovalMutant(g) ==
    LET m == Ticked(Now, g)
    IN  /\ st[g] = "removal"
        /\ IF m.timer[g] > 0 THEN Become(m)
           ELSE IF ActiveObjectsNearGrid(m, g) THEN Become(Reset(m, g, Expiry))
           ELSE Become(UnloadGrid(m, g))

\* GridInfo::getUnloadLock.
UnloadLock(g) == lock[g] > 0 \/ g \in explicit

\* RemovalState::Update.
UpdateRemoval(g) ==
    LET m == Ticked(Now, g)
    IN  /\ st[g] = "removal"
        /\ IF UnloadLock(g) THEN Become(Now)
           ELSE IF m.timer[g] > 0 THEN Become(m)
           ELSE IF ActiveObjectsNearGrid(m, g) THEN Become(Reset(m, g, Expiry))
           ELSE /\ Returning(m, g) # {} => RoomToLoad
                /\ Become(UnloadGrid(m, g))

UpdateGrid(g) ==
    /\ g \in todo /\ todo' = todo \ {g}
    /\ UpdateActive(g) \/ UpdateIdle(g) \/ UpdateRemoval(g)
    /\ UNCHANGED spawned

----------------------------------------------------------------------------
Init ==
    /\ st = [g \in Grids |-> "none"]
    /\ data = [g \in Grids |-> FALSE]
    /\ timer = [g \in Grids |-> 0]
    /\ lock = [g \in Grids |-> 0]
    /\ explicit = {}
    /\ pos = [x \in Objects |-> Nowhere]
    /\ by = [o \in Copies |-> {}]
    /\ view = [p \in Players |-> p]
    /\ active = {}
    /\ removing = {}
    /\ scripted \in SUBSET Creatures
    /\ spawned = Creatures
    /\ todo = {}
    /\ bg \in BOOLEAN
    /\ odd = {}

Next ==
    \/ \E p \in Players : \/ \E cell \in Cells : AddPlayer(p, cell) \/ PlayerRelocation(p, cell)
                          \/ RemovePlayer(p) \/ ResetView(p)
                          \/ \E o \in Copies : SetView(p, o)
    \/ \E o \in Copies : \/ \E reasons \in SUBSET Reasons : SetActive(o, reasons)
                         \/ \E cell \in Cells : MoveCreature(o, cell)
    \/ \E c \in Creatures : Spawn(c) \/ Unspawn(c)
    \/ \E g \in Grids : LoadNearGrid(g) \/ UpdateGrid(g)
    \/ BeginUpdate

Spec == Init /\ [][Next]_vars

\* The map manager updates every map again and again, and an update runs to its end.
Fairness == WF_vars(BeginUpdate \/ \E g \in Grids : UpdateGrid(g))
FairSpec == Spec /\ Fairness

----------------------------------------------------------------------------
TypeOK ==
    /\ st \in [Grids -> {"none", "idle", "active", "removal"}]
    /\ data \in [Grids -> BOOLEAN] /\ timer \in [Grids -> 0 .. Expiry]
    /\ lock \in [Grids -> Nat]
    /\ pos \in [Objects -> Cells \cup {Nowhere}] /\ by \in [Copies -> SUBSET Reasons]
    /\ view \in [Players -> Objects] /\ active \subseteq Objects /\ removing \subseteq Copies
    /\ scripted \subseteq Creatures /\ spawned \subseteq Creatures /\ todo \subseteq Grids /\ odd \subseteq Grids
    /\ explicit \subseteq Grids /\ bg \in BOOLEAN

\* A player is always in a loaded grid that is updated as ACTIVE, whatever state
\* the grid was in when the player came (GridStates.cpp, EnsureGridLoadedAtEnter).
PlayersGridIsActive ==
    \A p \in Players : pos[p] # Nowhere =>
        st[GridOf(pos[p])] = "active" /\ data[GridOf(pos[p])]

\* A creature object is in a loaded grid, and a creature whose spawn grid is
\* loaded exists: it is not lost with the grid it had walked to (the respawn
\* mover of ObjectGridLoader.cpp and the move list of Map.cpp).
NoCreatureIsLost ==
    /\ \A o \in Copies : pos[o] # Nowhere => data[GridOf(pos[o])]
    /\ \A c \in spawned : data[GridOf(Home[c])] =>
        \E o \in Copies : o[1] = c /\ pos[o] # Nowhere

\* Nobody vanishes: neither a player's grid nor a creature (the two above).
NobodyVanishes == PlayersGridIsActive /\ NoCreatureIsLost

\* The unload lock of a grid counts the active creatures that spawned in it
\* (Map::AddToActive and Map::RemoveFromActive), so that it is neither lost nor
\* leaked, and the active list has only objects of the map that Map::Update may
\* read, but for the grids where one of the known slips has happened, and for
\* players, whom a camera puts into the list.
LockCountsActives ==
    /\ \A g \in Grids \ odd :
        lock[g] = Cardinality({o \in active \cap Copies : HomeGrid(o) = g})
    /\ \A o \in active \cap Copies : pos[o] # Nowhere \/ HomeGrid(o) \in odd

\* The purpose of the locks: the grid in which an active creature spawned is not
\* unloaded, since loading it again would make a second object of the creature
\* (Map::AddToActive, RemovalState::Update), nor one that was made while GridUnload
\* was off (trinitycore.conf.dist), nor one of a battleground, whose objects are not
\* loaded again (Map::DelayedUpdate).
LockedGridStays ==
    [][\A g \in Grids : (st[g] # "none" /\ st'[g] = "none")
        => /\ g \notin odd => \A o \in active \cap Copies : HomeGrid(o) # g
           /\ g \notin explicit /\ ~bg]_vars

\* When nobody is left on the map and nothing is active, every grid is unloaded,
\* but for those that are meant to stay and those whose lock has leaked.
Quiet == (\A p \in Players : pos[p] = Nowhere) /\ active = {}
QuietGridIsUnloaded ==
    \A g \in Grids : <>[](Quiet /\ g \notin odd \cup explicit /\ ~bg) => <>[](st[g] = "none")
=============================================================================
