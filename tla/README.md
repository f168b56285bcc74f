# A verification project for the Looking4group world server

This directory holds TLA+ models of the concurrent and transactional core of the
server under `src/`, the TLC configurations that check them on small instances,
and proofs, checked by TLAPS, of theorems that hold for every instance.

    tlasany M.tla                        parse a module
    tlc -config AsyncDbSafety.cfg AsyncDbMC
    tlapm AsyncDbProofs.tla              check the proofs of a module

`PROJECT.json` lists the components, the runs, the mutants (one plausible bug for
every property, which the run of the property finds), the source lines of every
definition, the hazards and the theorems.

## The system

The repository is a World of Warcraft (2.4.3) server of the MaNGOS/TrinityCore
family. Two programs share the `framework` and `shared` libraries: the realm
daemon (`src/src/trinityrealm`) authenticates accounts and lists realms; the world
daemon (`src/src/trinitycore`, `src/src/game`) runs the game. The repository has no
tests; its comments, messages and `trinitycore.conf.dist` say what is intended.

Threads of the world daemon:

| thread | code | works on |
| --- | --- | --- |
| main | `trinitycore/Master.cpp` | starts the others, waits for them, halts the databases |
| world | `trinitycore/WorldRunnable.cpp` | `World::Update` every 50 ms: sessions, maps, battlegrounds, callbacks, commands |
| map updaters | `game/MapUpdater.cpp`, `shared/DelayExecutor.cpp` | one `Map::Update` each, between two barriers of the world thread |
| network | `game/WorldSocketMgr.cpp` | sockets; authenticates clients, hands sessions and packets to the world thread |
| delay threads | `shared/Database/SqlDelayThread.cpp` | one per database, execute delayed SQL |
| freeze detector | `trinitycore/Master.cpp`, `MapUpdater::FreezeDetect` | breaks maps whose update hangs |
| command line | `trinitycore/CliRunnable.cpp` | queues commands for the world thread |

### Inventory

For each component: its state; its operations; how it meets the others; what is
hard; what makes it correct. Paths are below `src/src`.

**Asynchronous database** (`shared/Database`, module `AsyncDb`). State: a
transaction under construction per thread, the queue of the delay thread, one
locked connection for all writes, result queues. Operations: execute, begin,
commit, direct commit, rollback, query with callback, query holder, halt. Every
other component calls it. Hard: several threads share the connection, statements
fail, the connection is lost, shutdown races the last delayed operations. Correct:
transactions are atomic, delayed operations are executed once and in order,
shutdown loses nothing, callbacks come in order.

**Map updating** (`game/MapUpdater`, `game/MapManager`, `shared/DelayExecutor`,
module `MapUpdate`). State: the maps with their players and unload timers, the
request queue, the number of pending requests, the registered threads.
Operations: one walk per tick that deletes or schedules maps, the wait, the freeze
detector, the signal handler, shutdown. Hard: the barrier between the world thread
and the workers, a bounded queue, maps deleted while referred to, crashes handled
in a signal. Correct: a map is updated by one thread, never after its deletion,
never while the world thread is about; instances are deleted when empty and only
then; every wait ends.

**World sessions and login queue** (`game/World`, `game/WorldSession`,
`game/CharacterHandler`, module `WorldSessions`). State: sessions by account, the
list of new sessions, the queue of waiting clients, the player limit, the recent
disconnects, the characters being loaded. Operations: take over or replace or
refuse a session, let in or queue, log a character in through a database callback,
log out, delete, kick all. Hard: a client disconnects and returns at any moment,
several sessions leave in one tick, callbacks come for sessions that have gone.
Correct: no dangling session, the limit holds at admission, first come first
served, nobody waits or loads for ever, shutdown saves every player.

**Trade** (`game/TradeHandler`, module `Trade`). State: for each player the partner,
the acceptance, the offered gold and positions; inventories and money. Operations:
the trade opcodes, the exchange, the cancelling by the world thread and by the
threads of maps, and all that changes goods meanwhile. Hard: offers are checked
late, the exchange cannot be rolled back, both partners write to each other's
fields from two threads. Correct: goods are conserved, an exchange is whole, a change of
the offer takes the acceptances back, partners agree.

**World socket and network threads** (`game/WorldSocket`, `game/WorldSocketMgr`,
module `WorldSocket`). State: output buffer, packet queue, wake-up flag, session pointer, two locks.
Operations: open, send, flush, receive, authenticate, close, close by the reactor.
Hard: senders of several threads race the reactor and the close, a packet may pass
another one. Correct: the client can decrypt every header, a flush for every packet,
nobody calls into a deleted session or a freed socket, a closed socket goes unless its
client keeps its side open.

**Grids and object life cycle** (`game/GridStates`, `game/ObjectGridLoader`,
`game/Map`, `game/Camera`, `game/Object`, module `GridLife`). State: for each grid its
state (active, idle, removal), timer and unload lock; the objects and their
positions; the list of active objects; the cameras. Operations: enter, move, see,
leave, activate, spawn, unspawn, one walk over the grids per update. Hard: a creature
walks out of the grid it was spawned in, is active for several reasons at once, and
either grid is unloaded under it. Correct: nobody vanishes with a grid, nobody is
made twice, the lock is neither lost nor leaked, grids that are locked by the option or
belong to a battleground stay, an empty map gives the others back.

**Groups and loot rolls** (`game/Group`, `game/LootHandler`, `game/LootMgr`, module
`GroupLoot`). State: members, who is online, one roll per item with votes, counters
and timer, what is blocked and what is looted. Operations: open the loot, vote,
count, time out, loot, leave, join, log out, disband, clear. Hard: voters leave while
votes are counted or votes again, the corpse goes, the winner has gone. Correct: one item
to one player who asked for it, counters that agree with the votes, an end of every roll.

**Instance saves** (`game/InstanceSaveMgr`): binds that outlive their save, resets.

**Auctions, mail, guild bank** (`game/AuctionHouse*`, `game/Mail*`, `game/Guild`):
transfers of gold and items through the database; conserved, delivered once.

**Battleground queues** (`game/BattleGroundMgr`): invitations that expire, teams of
equal size, players that leave.

**Combat, threat, spells, movement, AI, pools, events, chat, commands, static data,
content scripts, realm daemon, framework, logging**: see the notes in
`PROJECT.json`; the framework's event processor, the stack of unit states, pools and
the realm daemon's handshake have small cores worth a module.

The components interact through calls on the world thread, but for: sessions and
packets that the network threads put into locked queues; delayed operations and
callbacks of the database; the requests of the map updater; and what the handlers
that run on a map's thread (`Opcodes.cpp`: `PROCESS_INPLACE`, `PROCESS_THREADSAFE`)
share with players of other maps.

## Modules

| module | what it is |
| --- | --- |
| `AtomicStore` | what the callers of the database may assume: operations take effect at once, in order, wholly or not at all |
| `AsyncDb`, `AsyncDbMC`, `AsyncDbProofs` | the database object, from start-up to the halt; its instances; its theorems |
| `MapUpdate`, `MapUpdateMC`, `MapUpdateProofs` | the parallel update of the maps |
| `WorldSessions`, `WorldSessionsMC`, `WorldSessionsProofs` | sessions, login queue, login of characters, shutdown |
| `Trade`, `TradeMC`, `TradeProofs` | the trade of two players |
| `WorldSocket`, `WorldSocketMC`, `WorldSocketProofs` | one client's socket: its output and who may still call whom |
| `GridLife`, `GridLifeMC`, `GridLifeProofs` | the grids of a map and the creatures in them |
| `GroupLoot`, `GroupLootProofs` | the rolls of a group for the items of one corpse; small enough to be checked without an MC module |

The modules are separate: what one needs of another is an assumption that the other
one checks. `Trade` has its world thread and its map threads exclude each other,
which is `WorldHasTheMapsAlone` of `MapUpdate`, and so has `WorldSocket`; that the steps
of `GridLife` on one map are of one thread is `OneThreadPerMap`. `WorldSessions` has
every query of the database answered, in order, which are `OperationsAreAnswered` and
`ResultsInOrder` of `AsyncDb`; that the save after a trade is atomic is `WritesAreWhole`
and `ActsLikeAtomicStore`. `WorldSessions` closes a socket in one step and deletes the
session later; what happens in between is `WorldSocket`.

### AsyncDb

`trans` is the transaction each thread builds (`m_TransStorage`), `sqlQueue` and
`running` belong to `SqlDelayThread`, `phase` says where its `run` is and, after it,
where `HaltDelayThread` is. `exec[e]` is the operation an executor (a caller, or the
delay thread) works on, `lockOwner` holds the mutex of the connection, `pos` is the
next statement. The MySQL server is external: `db` is the log of durable statements,
`inTrans` and `uncommitted` its open transaction. Each call is an action
(`BeginTransaction`, `ExecuteInTransaction`, `CommitTransaction`, `DirectExecute`,
`AsyncQuery`, ...), and so is each statement the server gets (`StartTransaction`,
`RunStatement`, `FailStatement`, `EndTransaction`); `Reconnect` is a connection lost and
made anew (`MYSQL_OPT_RECONNECT`).

### MapUpdate

`phase`, `todo` and `delayedUpdate` are the world thread in `MapManager::Update`;
`queue`, `active` and `pending_requests` are the `DelayExecutor` and the `MapUpdater`;
`at[w]` and `on[w]` say where a worker is and with which map. `Take`, `BeginUpdate`,
`EndUpdate`, `UpdateFinished` are the worker's steps, between which all others may
come. `FreezeDetect` marks maps as broken, `Fault` and the steps after it are
`_OnSignal` with VMSS. A map is the number of its players, its unload timer and
whether it is broken; time is counted in ticks. `UnloadTimes` is the option
`Instance.UnloadDelay`, which the world may load anew at any time, with the code's lower
bound `MIN_UNLOAD_DELAY`.

### WorldSessions

`session[s]` is the session at an address: addresses are used again, so that a
dangling pointer is seen as one. `phase` follows the world thread through a tick
(`add`, `update`, `results`, `commands`); one action updates one session
(`UpdateSession`), takes one over (`AddSession`) or runs one callback (`LoadPlayer`,
`DropHolder`). `Authenticate`, `CloseSocket` and packets are the clients. `orphaned`
records accounts of which a Player is left in the world without a session.

### Trade

The variables are the fields of the players. Handlers on the world thread are one
action each. `TradeCancel` on a map's thread is three steps (`CheckTrader`,
`ClearBoth`, `Unlink`), and `FollowNull` is what happens to the thread that comes
second. `MoveItems` is `moveItems` with its branch for items that do not fit. Offers
are positions, as in the code; items move, come, go and become bound meanwhile. So the
exchange is of what lies at the offered positions when it is made. `AcceptanceStands`
compares that too (`Shown`) while an acceptance stands, but for items that their owner moves
(`MovesItems`, see Findings).

### WorldSocket

`outBuffer` and `packetQueue` hold what the server has made and the kernel has not
taken, `crypt` is the order in which headers were encrypted, `wire` what the client
has. A section under `m_OutBufferLock` calls nothing that locks, so it is one step;
`sessionLock` is `m_SessionLock`, which is held across calls. `refs` is the count of
references, `listed`, `registered`, `toSocket` are those who hold one, `toSession` is
the pointer back. `pc[t]` says where each thread is: the acceptor in `OnSocketOpen`, the
network thread in the reactor's handlers and in its loop, the world thread in a
session's update or destructor, the workers in `SendPacket` and `KickPlayer` of a
session, which read `m_Socket` in one step and use it in the next. The size of what
the kernel takes is any; the acceptor publishes the socket before it makes the
buffer, as `AddSocket` does. A handler of the reactor fails when the client closes
its side or sends something it may not (`HandlerFails`); nothing makes the client do so.

### GridLife

`st`, `timer` and `lock` are the `GridInfo` of each grid, `data` its loaded flag. An
object is a copy of a creature, so that a creature that was made twice is seen as
such; `by` is `m_activeBy`, `view` the cameras, `active` the list `m_activeNonPlayers`.
Between two walks of `DelayedUpdate` come all calls of game code (`AddPlayer`,
`PlayerRelocation`, `MoveCreature`, `SetActive`, `SetView`, `Spawn`, ...); `BeginUpdate` and
one `UpdateGrid` per grid are the walk, with `UpdateActive`, `UpdateIdle`,
`UpdateRemoval` for the classes of `GridStates.cpp`. `explicit` has the grids that were made
while the option `GridUnload` was off, `bg` says that the map is a battleground, whose grids
are not updated. Unloading (`UnloadGrid`) sends the
strangers home (`SentHome`, which may load their spawn grid), deletes what is left
(`Emptied`) and then the grid (`GridGone`); fights are stopped when a grid gets idle
(`FightsStopped`). `odd` records the grids where a known slip of the code has happened
(see Findings). The operators take a map, as a record, to the map after them, so that a
handler is the calls it makes, in their order.

### GroupLoot

`roll`, `vote`, `total`, `timer` are a `Roll`; `blocked` and `looted` the flags of its
`LootItem`; `got` records who was given the item and `again` the items for which somebody
has voted twice, as the code does not look whether a voter has voted already.
`PrepareLootRolls`, `CountRollVote` with `CountTheRoll`, `Update` (the timer of all rolls),
`RemoveMember` with `_removeRolls`, `Disband`, `AutostoreLootItem` and `ClearLoot` are the
operations, one action each.

## Runs

Each passing run's properties have a mutant each that it finds.

| run | what it shows | distinct states |
| --- | --- | --- |
| `async_db_safety` | any order of the calls of two threads with a refused statement and a lost connection: `DelayedIsKept` (order, halt), `WritesAreWhole` (durability, whole transactions), `ResultsInOrder` (consistent reads, callbacks) | 983,000 |
| `async_db_live` | three threads, connection kept: refinement of `AtomicStore`; `OperationsAreAnswered`: every delayed operation is executed and every query answered | 117,000 |
| `map_update_safety` | continent, dungeon, battleground, two workers, bounded queue: barrier, life of maps, unload timer; `NothingWaitsForEver`: empty instances go, walks and shutdown end | 207,000 |
| `map_update_vmss` | `SignalKeepsTheBooks`: the signal handler's bookkeeping with frozen and crashing updates | 67,000 |
| `sessions_safety` | four sessions of three accounts, one exempt: `SessionsAreKept` (no dangling pointer, who queues waits), `AdmissionIsFair` (limit, first come first served), `LoadingSessionStays` | 1,480,000 |
| `sessions_live` | disconnect tolerance, limit switched on and off, world stopped at any tick: `EverySessionIsServed` (decisions, logins, deletions) and `StopSavesThePlayers` | 121,000 |
| `sessions_idle` | finding: a client waits on an empty server | counterexample |
| `sessions_twice` | finding: a late callback gives a session two characters | counterexample |
| `trade_safety` | two players, two maps, gold at its limit, an item that becomes bound: `ExchangeIsWhole`, agreement, acceptance, and that only maps apart collide (`TradeIsSound`) | 534,000 |
| `world_socket` | `HeadersInStep` and `OutputIsServed` for the output; `EveryHolderCounts`, `CalleeExists`, `ClosedSocketIsFreed` for the life of the socket | 139,000 |
| `grid_life` | `NobodyVanishes`, `LockCountsActives`, `LockedGridStays` (active creatures, the option, battlegrounds), and `QuietGridIsUnloaded` | 887,000 |
| `group_loot` | `RollIsSound`, `WinnerAskedForIt`, and `RollEnds`, with members that vote again | 596,000 |

A property with several parts is a conjunction of named ones; the comment at each part
says what it is for.

### Bounds, and why they are enough

- `AsyncDb`: three operations of two statements let a transaction be overtaken, be
  interleaved with another one and fail in its middle; two or three threads are all
  roles there are (main, world, another caller). One failure, one lost connection.
- `MapUpdate`: two workers and two or three maps let two requests run, one wait in the
  queue and one be refused. The queue of the code holds 1024 requests (ACE's 16 KiB high
  water mark, 16 bytes each); `QueueLimit` 1 or 2 makes a full queue happen. Unload
  delays of none and two ticks are the documented special value 0, which the code raises to
  its minimum of one, and the least that lets a timer run; so is the update interval of two.
- `WorldSessions`: three accounts are one that plays, one that waits and one that
  overtakes; four addresses let one account have two sessions. Limits of 0, 1 and 2.
  Packets of different sessions commute, so a client sends one where it matters.
- `Trade`: capacities of one and two positions make items fit in one direction and
  not in the other; two traded slots let one item be offered twice; `MAX_MONEY_AMOUNT`
  is 1, so that the limit is met. The third player that could interfere is covered by the
  theorem for any number of players.
- `WorldSocket`: packets of one and two units and a buffer of two make a packet wait that
  another one passes, and a partial send; four packets fill the queue behind a full
  buffer. The threads are all there are for one socket; a second worker of another map
  would do what `m2` does, and the theorems are for any number.
- `GridLife`: two grids of two cells let a creature leave its grid by one step and see
  across the border or not; timers of two ticks, and of one for a grid that is idle for
  a short time; two copies of a creature (`MaxCopies`) let a double be seen, a lock of two
  (`MaxLock`) lets a leak grow. A step that may load a grid needs a free copy
  (`RoomToLoad`), the unloading of a grid only when a creature loads its grid on its way
  home. Interactions of two creatures are through one lock, which counts reasons as well.
  The map is a battleground or not from the start; the option `GridUnload` has either value
  when the first grid is made and is on for the second (`FirstGridMayStay`), so that a
  grid that stays and one that goes meet; the theorems are for any values.
- `GroupLoot`: three players let one need, one be greedy and one leave; items are
  independent but for the loot they lie in, so one is enough, and the theorems are for any
  number. A member may vote any number of times; that a roll ends when as many votes as
  voters are counted bounds the counters. Two ticks of time let a vote come before and after
  the first.

### Fairness

`AsyncDb`: weak fairness of the delay thread (its loop polls every 10 ms), of every executor
that has begun an operation, of the world thread's result queue while it runs, and of the
join. `MapUpdate`: weak fairness of the world thread and of every worker and handler: they
wait only for each other. `WorldSessions`: weak fairness of the tick of the world thread,
strong fairness of the login callback, as the database answers every query and the result
queue is emptied on every tick. `WorldSocket`: weak fairness of every thread within a call
it is in, of the reactor's loop, which looks at its sockets again and again and drops a
closed one; strong fairness of the world thread's session update and of the end of a map's
update, both of which recur and are delayed by each other. `GridLife`: weak fairness of the
walk, as the map manager updates every map again and again. `GroupLoot`: weak fairness of
`Update`, which `World::Update` calls on every tick. No fairness is assumed of clients
(whether a handler of the reactor is ever called is theirs, so a closed socket may stay with
the reactor: `HeldByReactor`), of players, commands, signals, failures or the freeze
detector.

## Proofs

`AsyncDbProofs`, for any number of threads, operations and failures:
- `TypeCorrect`: the types of all variables, and that only an executor with a query or
  a non-empty transaction holds the lock. The invariant is proved in groups, one lemma
  per group of variables and one step per action.
- `OrderCorrect`: the delayed operations are those finished, then the one in execution,
  then the queue. It is inductive with the types.
- `HaltCorrect`: `HaltDelayThread` returns with nothing left. The strengthening says
  what each phase implies about the queue: after the loop has ended only the drain of
  the destructor can follow, and nobody issues operations any more.
- `KeptCorrect`: both of these, which is `DelayedIsKept`, the property of the run.
- `StoreCorrect`: `Spec /\ [](drops = 0) => ActsLikeAtomicStore`, the refinement of
  `AtomicStore`, step by step: a statement of a transaction is a stutter, and the step
  that makes the operation durable, fails it or answers it is the abstract one. What holds
  of the connection within an operation (`ServerInv`: who may have uncommitted statements;
  `BodyInv`: they are the first ones of the transaction in execution) is proved while no
  connection has been lost, which is a hypothesis of the theorem as it is of the property
  of the run: with a lost connection the refinement is false (see Findings).
- `WritesCorrect`: success is durable and transactions are whole. The invariant gives every
  operation an identifier of its own (`IdsInv`), so that what is in the log is of at most
  one of the operations delayed, in execution and finished.
- `ResultsCorrect`: a query sees what was delayed before it, a holder reads one state,
  callbacks come in the order of the calls (`SeenInv`, `PendingInv`).

`MapUpdateProofs`, for any number of maps and workers and any queue:
- `PendingCorrect`: `pending_requests` is the number of requests queued and taken, with
  refused requests and signals. `TypeCorrect` carries what a worker's place says about
  its registration and its map.
- `BooksCorrect`: with that, every thread inside an update is registered for its map,
  which is what the freeze detector and the signal handler go by.
- `BarrierCorrect`, `ExclusionCorrect`, `LifetimeCorrect`: without VMSS (assumed in the
  statements; with it the first is false, see Findings) no update is about when the
  world thread is outside of the walk, no two requests are for one map, and no request
  is for a deleted one. They rest on the count: `wait` returns at zero, so queue and
  workers are empty; within a walk the maps scheduled and those still to visit are
  disjoint (`WalkInv`, `RequestsInv`).
- `OnceCorrect`: after a walk every map on the list was updated once, or refused. `OnceInv`
  says which maps are on the list, and that a map requested is awaited or has been run,
  never both; without VMSS too, since its handler reports what has not been run.
- `UnloadCorrect`: a dungeon with players has no running unload timer (`PlayersInv`), so
  none is deleted with players inside. It holds for any values of the option, also 0, since
  the time is never less than the minimum (`UnloadTimesArePositive`).

`WorldSessionsProofs`, for any number of sessions, accounts and any limits. The invariant
`IInv` says that a session is new or in the world, never both (`NewInv`), which sessions
the map, the queue and the lists of a tick may hold (`MapInv`, `ListsInv`), that the queue
holds those that wait, each once (`QueueInv`), and who is closed while the world stops
(`StopInv`). Steps are sorted by the lists they change (`StepKinds`).
- `TypesCorrect`, `SessionsCorrect`, `StopCorrect`: the types, `SessionsAreKept`,
  `StopSavesThePlayers`.
- `LoadingCorrect`: a session that loads its character is not replaced.
- `AdmissionCorrect`: a session gets to play only below the limit, and nobody overtakes in
  the queue. It rests on lemmas about sequences that lose an element in their middle (what
  is left and what was ahead of what), and on the count of sessions that play.

`TradeProofs`, for any number of players, items and maps:
- `PartnersCorrect`, `AcceptanceCorrect`: the inductive invariant `IInv` adds that nobody
  cancels on a map's thread while the world thread works, that who is about to reset a
  `pTrader` has reset the acceptances (`CancelInv`), and that who has no partner has
  accepted nothing. That what lies at the offered positions stays is by who can move it: its
  owner, or an exchange, which ends both acceptances (`ItemsKinds`). Steps are sorted by
  what they do to a trade (begin, offer, accept, end, cancel), one lemma each.
- `TypesCorrect`, `SoundCorrect`: no item is in two positions and gold stays in its bounds
  (`GoodsInv`), and only partners of different maps collide (`CollideInv`).
- `ExchangeCorrect`: an exchange gives each player what the other one offered, and nothing
  else moves. `moveItems` goes through the slots; that what it has moved so far is what was
  offered in those slots is an invariant of the loop (`Side`), proved by the least slot
  at which it would fail.

`GroupLootProofs`, for any number of players and items and any time:
- `TypeCorrect`, `RollCorrect`, `WinnerCorrect`. The invariant `IInv` is the types,
  `RollIsSound`, and that nothing is rolled for or looted before the loot is opened. The
  counters are numbers of votes (`Exact`), or no less where somebody has voted again
  (`Counted`), so each step rests on a lemma about counting: what
  one vote adds (`VoteCounted`), what an erased vote takes away (`VoteErased`), when
  everybody has voted (`EverybodyVoted`), and that a positive counter has a voter
  (`WinnerVote`).

`WorldSocketProofs`, for any packets, buffer and number of workers of other maps:
- `CountCorrect`, `CalleeCorrect`. The invariant `IInv` says who can be where
  (`PlacesOK`); that calls are of the world thread or of the workers, never both, so that
  what they have read of `m_Socket` stays true but for other maps' workers (`CallsInv`); in
  which list the socket is at each place of the network thread (`ListsInv`); and that a
  closed socket has forgotten its session or somebody is about to make it forget, while
  the network thread is not inside the session (`CloseInv`).
- `TypesCorrect`, `HeadersCorrect`, `OutputCorrect`: what the client has and what waits in
  the buffer and the queue are the packets in the order of their headers (`OutputInv`,
  which adds that packets wait only behind a non-empty buffer), and what an open socket has
  to send is not left to nobody (`ServedInv`: in which list the socket is at each place of
  the acceptor). The units of a sequence of packets are a concatenation over it; how it
  grows and splits is proved by the least length at which it would not
  (`UnitsOfAppend`, `UnitsOfConcat`).

`GridLifeProofs`, for any number of players, creatures and grids and any bounds:
- The operators are functions of a map, and so is the invariant, `MapInv`: one lemma per
  operator says what it keeps. `ListsInv`: a creature is in the active list for a reason or a
  camera, the lock of a grid counts those that spawned there, a camera is on its player or on a
  creature in the world, and who is off the map has no reason and is not to be removed.
  `PlacesInv`: creatures are in loaded grids, players in active ones, and a creature of a
  loaded grid has an object in the world.
- `TypesCorrect`, `VanishCorrect`, `LockCorrect`: `TypeOK`, `NobodyVanishes`,
  `LockCountsActives`. While a grid is unloaded `PlacesInv` is not enough: `SentSoFar` says
  that a creature of another loaded grid has an object outside of this grid or is among the
  strangers still to be sent home, that the others and the players stay where they
  were, and that nobody has become active; so what is then deleted with the grid is not missed.
- `StaysCorrect`: the spawn grid of an active creature is not unloaded, nor is a grid that the
  option keeps or one of a battleground. Every step that unloads a grid finds both its locks
  free and the map no battleground (`LocksHold`, `Unlocked`), and the lock is the count.
- The operators fold over sets. That a fold is a function on the subsets and that it keeps
  what each element keeps (`FoldExists`, `FoldKeeps`) are lemmas over the least set for
  which they would fail.

The assumptions are the named ASSUMEs of the modules, which TLC evaluates in the runs.

The library's induction theorems take an operator as a parameter, which the provers cannot
instantiate. What needs an induction here is proved by a least counterexample: a set of
natural numbers that is not empty has a least element (`LeastNatural`), and the statement
is put as such a set.

Only model-checked: the liveness properties (`OperationsAreAnswered`,
`NothingWaitsForEver`, `EverySessionIsServed`, `ClosedSocketIsFreed`,
`QuietGridIsUnloaded`, `RollEnds`), as the prover has no fairness and no ENABLED. Every
invariant and every action property of the passing runs has its theorem, and the refinement
of `AtomicStore` too.

## Findings

Two runs end in a counterexample:

- `sessions_idle`: of two sessions that leave in one tick only the first lets a waiting
  client in; the other one waits until somebody else leaves.
- `sessions_twice`: a callback finds its session by the account, so a session can be
  given a second character while the first one stays in the world.

The rest was met while modelling. The models do what the code does; where a property
would fail for it, the property names the case as its exception.

- `SqlOperations.cpp:51` with `DatabaseMysql.cpp:150`: the result of `START TRANSACTION` is
  ignored and the client library reconnects by itself, so the rest of a transaction
  can become durable without its beginning (`TransactionsAllOrNothing` holds while no
  connection is lost).
- `Master.cpp:462` with `MapUpdater.h:44`: with VMSS the signal handler reports the update
  of a crashed thread as finished while the thread is inside the map, so the world
  thread goes on (`WorldHasTheMapsAlone` is checked and proved without VMSS).
- `World.cpp:334`: `HasRecentlyDisconnected` subtracts the times the wrong way round, so the
  tolerance never ends.
- `Player.cpp:11966`: two partners of a trade on different maps that cancel at the same
  time can make one thread follow a NULL `pTrader` (`FollowNull`; `OnlyMapsApartCollide`
  shows that it takes two maps).
- `TradeHandler.cpp:308`: items are offered by position, so a player may put another item at
  an offered position after the partner has accepted, and the acceptance stands: the
  exchange is then of an item that was never shown. The comment there says that this is
  known. `AcceptanceIsOfTheOffers` has this as its exception (`MovesItems`), and shows that
  only the owner can do it, not a handler of the trade or a third player.
- `TradeHandler.cpp:392`: after a failed space check both acceptances stay although both
  clients are told that they are back to the trade.
- `WorldSocket.cpp:628`: with a chat-only client that is to be kicked `ProcessIncoming` holds
  `m_SessionLock` and `CloseSocket` locks it again: the network thread waits for itself
  (`WaitsForItself`, the exception of `ClosedSocketIsFreed`).
- `WorldSocket.cpp:122`: `CloseSocket` shuts down the writing side only and tells the reactor
  nothing, so a client that keeps its own side open and is silent keeps a closed socket, with
  the reactor's reference, for ever (`HeldByReactor`). `ClosedSocketIsFreed` says that
  everybody else lets go of it, and that it is freed once a handler has failed.
- `Map.cpp:2105`, `2313`: `trinitycore.conf.dist:723` says that with `Instance.UnloadDelay` 0
  instance maps are kept in memory until they are reset; `std::max` with `MIN_UNLOAD_DELAY`
  makes 0 the shortest delay, so that they are unloaded at once. `NothingWaitsForEver` is
  checked with the option at 0, at two ticks, and changed between: empty instances go in each
  case, which is what the code does and not what the file says.
- `WorldSession.cpp:463`: `m_Socket` has no lock; the worker of the player's map clears it and
  drops the reference while the worker of another map sends through it (`Dangling`; the
  exception of `CalleeExists`, which shows that it takes a worker of another map).
- `Object.cpp:931`, `Unit.cpp:10927`: a creature taken out of the world in a fight leaves the
  deleted object in the list of active objects; `Camera.cpp:76`: a camera and a reason
  that overlap count the unload lock twice or not at all.
- `ObjectGridLoader.cpp:132` (`Make`): a creature whose AI activates it while it is added to the
  world is put into the active list by `setActive` and again by `LoadHelper`, so its grid's
  lock is one too high and the grid stays. `Map.cpp:1196` (`Log`): an object is activated or
  deactivated while its spawn grid is not there; the code logs an error and counts nothing.
- `LockCountsActives`, `LockedGridStays` and `QuietGridIsUnloaded` exempt the grids in which
  one of these four slips has happened (`odd`): in the model, which has game objects, pets and
  summons left out, no other way leads to a wrong lock. So they say nothing of the spawn grid
  of a creature that its AI activates when it is loaded.
- `Group.cpp:763` with `GroupHandler.cpp:397`: nobody looks whether a member has voted already. A
  second vote takes the place of the first and is counted beside it, so the roll can end
  while others are still asked, and when need was changed to pass the item goes to the first
  voter although nobody needs it (`Winners`). `again` records such rolls: for them the counters
  are only shown to be no less than the votes, and the winner to be a voter who needs the item
  if anybody does.
- `Group.cpp:857`, `537`: the item of a roll whose winner is offline, or whose group is
  disbanded, stays blocked for everybody; `Group.cpp:1372`: a vote is erased before the
  votes are counted again, so when the last voter leaves only the timer ends the roll.

## What is not modelled

- `AsyncDb`: synchronous queries on the connection pool (they promise no order with
  delayed writes), the registry of prepared statements, text and escaping.
- `MapUpdate`: what an update does inside a map, transports, `MapFreeMethod` 1, the
  `std::map` of threads that the handler reads without a lock.
- `WorldSessions`: `StopSavesThePlayers` is about players with a session, not about one that
  `sessions_twice` leaves in the world without any; `SessionUpdate.Threads` above 1, which
  the configuration file warns of; idle kicks (a case of `CloseSocket`); logins that arrive
  while the new sessions are taken over count as earlier ones; negative limits.
- `Trade`: stacks, bags, unique items, the spell on the item of the last slot, bans.
- `WorldSocket`: how packets are put together from received bytes, the key stream of the
  cipher, the query of the authentication, the end of the network threads.
- `GridLife`: game objects, corpses, dynamic objects and pets, which have no unload lock;
  terrain; the visibility of objects.
- `GroupLoot`: master and round robin loot, quest items, leaders, raids, the saved group.
- The components with status `not_modelled`, each with its reason in `PROJECT.json`.

## Plan

Done: `AsyncDb`, `MapUpdate`, `WorldSessions`, `Trade`, `WorldSocket`, `GridLife`,
`GroupLoot`; theorems of the safety properties of all of them.

Next, in this order:

1. `InstanceSave`: binds of players and groups that outlive their save, the reset of an
   instance with players inside, the clean-up of unused saves. With `GroupLoot` it
   completes what a group shares.
2. `Auction`: bids, expiry and mail as transfers over `AtomicStore`, after the manner of
   `Trade`.
3. `EventProcessor`, `UnitStates`, `PoolManager`: small sequential cores against
   reference definitions.

The new modules are to be proved about in the same way: types, then the invariant of each.
