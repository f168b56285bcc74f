----------------------------- MODULE MapUpdate -----------------------------
(***************************************************************************)
(* The parallel update of the maps.  On every tick the world thread walks  *)
(* over the maps of the MapManager, deletes those whose unload timer has   *)
(* run out and schedules an update of the others; a pool of threads (the   *)
(* DelayExecutor of the MapUpdater) runs the updates, and the world thread *)
(* waits for them before it touches a map again.  A freeze detector looks  *)
(* for updates that take too long, and the signal handler of the process   *)
(* intervenes when the thread of an update crashes.                        *)
(*                                                                         *)
(* A map is abstracted to the number of its players, its unload timer      *)
(* and whether it is broken; time is counted in ticks of the world.        *)
(***************************************************************************)
EXTENDS Naturals, Sequences, FiniteSets

CONSTANTS
    Continents, Dungeons, Battlegrounds,    \* the maps, by kind
    Workers,        \* the threads of the MapUpdater
    NoMap,          \* what a thread that updates nothing works on
    UnloadDelays,   \* the values CONFIG_INSTANCE_UNLOAD_DELAY may have, in ticks
    UpdateInterval, \* CONFIG_INTERVAL_MAPUPDATE, in ticks
    QueueLimit,     \* requests the activation queue holds (its high water mark)
    Vmss,           \* CONFIG_VMSS_ENABLE: the crash signals are handled
    Faults,         \* updates may freeze or crash
    MaxPlayers      \* bound: players on a map

MIN_UNLOAD_DELAY == 1
Maps == Continents \cup Dungeons \cup Battlegrounds

ASSUME MapUpdateAssumption ==
    /\ Continents \cap Dungeons = {}
    /\ Continents \cap Battlegrounds = {}
    /\ Dungeons \cap Battlegrounds = {}
    /\ NoMap \notin Maps
    /\ IsFiniteSet(Workers)
    /\ UnloadDelays \subseteq Nat
    /\ UnloadDelays # {}
    /\ UpdateInterval \in Nat \ {0}
    /\ QueueLimit \in Nat
    /\ Vmss \in BOOLEAN
    /\ Faults \in BOOLEAN
    /\ MaxPlayers \in Nat

VARIABLES
    i_maps,         \* MapManager::i_maps: the maps that exist
    players,        \* the size of each map's m_mapRefManager
    unloadTimer,    \* Map::m_unloadTimer, 0 when it does not run
    unloadWhenEmpty,\* the maps with InstanceMap::m_unloadWhenEmpty
    broken,         \* the maps with Map::m_broken
    elapsed,        \* Map::m_updateTracker
    phase,          \* where the world thread is
    todo,           \* the maps MapManager::Update still has to visit
    delayedUpdate,  \* its list of maps to update after the wait
    queue,          \* DelayExecutor::queue_: the maps of the requests
    active,         \* the queue is active
    pending_requests, \* of the MapUpdater
    m_threads,      \* of the MapUpdater: the map each registered thread updates
    at, on,         \* where each worker is, and the map of its request
    ran,            \* history: updates of each map that ended in this tick
    refused,        \* history: maps whose request the queue refused in this tick
    crashed         \* the process has been killed

mapVars   == <<i_maps, players, unloadTimer, unloadWhenEmpty, broken, elapsed>>
worldVars == <<phase, todo, delayedUpdate>>
poolVars  == <<queue, active, pending_requests, m_threads, at, on>>
histVars  == <<ran, refused>>
vars == <<mapVars, worldVars, poolVars, histVars, crashed>>

WorldPhases == {"sessions", "walk", "delayed", "unload", "deactivate", "join", "halted"}
Updating == {"taken", "registered", "update", "forced", "ran", "unregistered"}
Handling == {"mark", "unregister", "finish"}        \* steps of _OnSignal
Places == {"idle", "exited", "kill"} \cup Updating \cup Handling

\* The workers whose request still counts in pending_requests.
Busy == {w \in Workers : at[w] \in Updating \cup Handling}

Init ==
    /\ i_maps = Continents
    /\ players = [m \in Maps |-> 0]
    /\ unloadTimer = [m \in Maps |-> 0]
    /\ unloadWhenEmpty = {}
    /\ broken = {}
    /\ elapsed = [m \in Maps |-> 0]
    /\ phase = "sessions"
    /\ todo = {}
    /\ delayedUpdate = {}
    /\ queue = << >>
    /\ active = TRUE
    /\ pending_requests = 0
    /\ m_threads = [w \in Workers |-> NoMap]
    /\ at = [w \in Workers |-> "idle"]
    /\ on = [w \in Workers |-> NoMap]
    /\ ran = [m \in Maps |-> 0]
    /\ refused = {}
    /\ crashed = FALSE

-----------------------------------------------------------------------------
(* Between two walks over the maps the world thread updates the sessions:  *)
(* players come and go, instances are reset, battlegrounds begin and end.  *)

Sessions == ~crashed /\ phase = "sessions"

\* How long an empty instance is kept: the option, which the world may load anew at
\* any time, but no less than MIN_UNLOAD_DELAY.
UnloadTimes == {IF d < MIN_UNLOAD_DELAY THEN MIN_UNLOAD_DELAY ELSE d : d \in UnloadDelays}

\* The unload timer after the last player has left.
TimerWhenEmpty(m, time) ==
    IF m \in Dungeons /\ unloadTimer[m] = 0
    THEN IF m \in unloadWhenEmpty THEN MIN_UNLOAD_DELAY ELSE time
    ELSE unloadTimer[m]

\* InstanceMap::Remove, Map::Remove: one player leaves.
Leave(m) ==
    /\ players[m] > 0
    /\ players' = [players EXCEPT ![m] = @ - 1]
    /\ \E time \in UnloadTimes :
          unloadTimer' = IF players[m] = 1
                         THEN [unloadTimer EXCEPT ![m] = TimerWhenEmpty(m, time)]
                         ELSE unloadTimer

LeaveWhileUpdated(m) ==
    Leave(m) /\ UNCHANGED <<i_maps, unloadWhenEmpty, broken, elapsed>>

\* HandleMoveWorldportAckOpcode or a login: CreateMap makes the map if there
\* is none (but never a battleground) and Add lets the player in, unless
\* CanEnter rejects him, which leaves a map that was just made.
AddMutant(m) ==
    /\ players' = [players EXCEPT ![m] = @ + 1]
    /\ unloadTimer' = unloadTimer       \* the timer is not stopped
    /\ unloadWhenEmpty' = unloadWhenEmpty \ {m}
Add(m) ==
    /\ players' = [players EXCEPT ![m] = @ + 1]
    /\ unloadTimer' = IF m \in Dungeons THEN [unloadTimer EXCEPT ![m] = 0] ELSE unloadTimer
    /\ unloadWhenEmpty' = unloadWhenEmpty \ {m}

CreateMap(m) ==
    /\ m \in i_maps \/ m \notin Battlegrounds
    /\ i_maps' = i_maps \cup {m}
    /\ elapsed' = IF m \in i_maps THEN elapsed ELSE [elapsed EXCEPT ![m] = 0]

\* The constructor of an InstanceMap starts the unload timer.
Rejected(m) ==
    /\ m \in Dungeons \cup Battlegrounds
    /\ \E time \in UnloadTimes :
          unloadTimer' = IF m \in Dungeons \ i_maps
                         THEN [unloadTimer EXCEPT ![m] = time] ELSE unloadTimer
    /\ UNCHANGED <<players, unloadWhenEmpty>>

Enter(m) ==
    /\ Sessions
    /\ CreateMap(m)
    /\ \/ players[m] < MaxPlayers /\ Add(m)
       \/ Rejected(m)
    /\ UNCHANGED <<broken, worldVars, poolVars, histVars, crashed>>

\* CreateBgMap
OpenBattleground(m) ==
    /\ Sessions
    /\ m \in Battlegrounds \ i_maps
    /\ i_maps' = i_maps \cup {m}
    /\ elapsed' = [elapsed EXCEPT ![m] = 0]
    /\ UNCHANGED <<players, unloadTimer, unloadWhenEmpty, broken, worldVars, poolVars,
                   histVars, crashed>>

\* The end of a battleground: SetUnload, whoever is still inside.
CloseBattleground(m) ==
    /\ Sessions
    /\ m \in Battlegrounds \cap i_maps
    /\ unloadTimer' = [unloadTimer EXCEPT ![m] = MIN_UNLOAD_DELAY]
    /\ UNCHANGED <<i_maps, players, unloadWhenEmpty, broken, elapsed, worldVars, poolVars,
                   histVars, crashed>>

\* InstanceMap::Reset: an empty instance is unloaded on the next walk; players
\* inside keep it, and with the global and the respawn methods it is unloaded
\* as soon as they have left.
Reset(m) ==
    /\ Sessions
    /\ m \in Dungeons \cap i_maps
    /\ \/ /\ players[m] > 0
          /\ unloadWhenEmpty' = unloadWhenEmpty \cup {m}
          /\ UNCHANGED unloadTimer
       \/ /\ players[m] = 0
          /\ unloadTimer' = [unloadTimer EXCEPT ![m] = MIN_UNLOAD_DELAY]
          /\ UNCHANGED unloadWhenEmpty
    /\ UNCHANGED <<i_maps, players, broken, elapsed, worldVars, poolVars, histVars, crashed>>

\* HandleCrashMapCommand, of a player on the map.
CrashMapCommand(m) ==
    /\ Sessions
    /\ players[m] > 0
    /\ broken' = broken \cup {m}
    /\ UNCHANGED <<i_maps, players, unloadTimer, unloadWhenEmpty, elapsed, worldVars, poolVars,
                   histVars, crashed>>

LeaveBetweenWalks(m) ==
    Sessions /\ LeaveWhileUpdated(m) /\ UNCHANGED <<worldVars, poolVars, histVars, crashed>>

SessionStep ==
    \E m \in Maps :
        \/ Enter(m)
        \/ LeaveBetweenWalks(m)
        \/ OpenBattleground(m)
        \/ CloseBattleground(m)
        \/ Reset(m)
        \/ CrashMapCommand(m)

-----------------------------------------------------------------------------
(* MapManager::Update, run by the world thread.                            *)

BeginWalk ==
    /\ Sessions
    /\ phase' = "walk"
    /\ todo' = i_maps
    /\ elapsed' = [m \in Maps |->
                       IF elapsed[m] < UpdateInterval THEN elapsed[m] + 1 ELSE elapsed[m]]
    /\ ran' = [m \in Maps |-> 0]
    /\ refused' = {}
    /\ UNCHANGED <<i_maps, players, unloadTimer, unloadWhenEmpty, broken, delayedUpdate, poolVars,
                   crashed>>

\* Map::CanUnload
CanUnload(m) == unloadTimer[m] # 0 /\ unloadTimer[m] <= 1

\* The map is unloaded and deleted; players still inside are sent home.
UnloadMap(m) ==
    /\ CanUnload(m)
    /\ i_maps' = i_maps \ {m}
    /\ players' = [players EXCEPT ![m] = 0]
    /\ unloadTimer' = [unloadTimer EXCEPT ![m] = 0]
    /\ unloadWhenEmpty' = unloadWhenEmpty \ {m}
    /\ broken' = broken \ {m}
    /\ UNCHANGED <<elapsed, delayedUpdate, poolVars, refused>>

CountDownMutant(m) == unloadTimer' = [unloadTimer EXCEPT ![m] = @ - 1]  \* stopped timers too
CountDown(m) == unloadTimer' = [unloadTimer EXCEPT ![m] = IF @ = 0 THEN 0 ELSE @ - 1]

\* MapUpdater::schedule_update: a request the queue has no room for is
\* dropped and not counted.
ScheduleUpdate(m) ==
    /\ \/ /\ Len(queue) < QueueLimit
          /\ queue' = Append(queue, m)
          /\ pending_requests' = pending_requests + 1
          /\ UNCHANGED refused
       \/ /\ Len(queue) >= QueueLimit
          /\ refused' = refused \cup {m}
          /\ UNCHANGED <<queue, pending_requests>>
    /\ UNCHANGED <<active, m_threads, at, on>>

\* Map::UpdateHelper: the map is put on the list of the delayed updates and
\* its tracker reset, whether or not its request was queued.
ProcessMapMutant(m) ==      \* every map is put on the list
    /\ ~CanUnload(m)
    /\ CountDown(m)
    /\ delayedUpdate' = delayedUpdate \cup {m}
    /\ \/ /\ elapsed[m] >= UpdateInterval
          /\ ScheduleUpdate(m)
          /\ elapsed' = [elapsed EXCEPT ![m] = 0]
       \/ /\ elapsed[m] < UpdateInterval
          /\ UNCHANGED <<poolVars, refused, elapsed>>
    /\ UNCHANGED <<i_maps, players, unloadWhenEmpty, broken>>
ProcessMap(m) ==
    /\ ~CanUnload(m)
    /\ CountDown(m)
    /\ \/ /\ elapsed[m] >= UpdateInterval
          /\ ScheduleUpdate(m)
          /\ delayedUpdate' = delayedUpdate \cup {m}
          /\ elapsed' = [elapsed EXCEPT ![m] = 0]
       \/ /\ elapsed[m] < UpdateInterval
          /\ UNCHANGED <<poolVars, refused, delayedUpdate, elapsed>>
    /\ UNCHANGED <<i_maps, players, unloadWhenEmpty, broken>>

VisitMap(m) ==
    /\ ~crashed
    /\ phase = "walk"
    /\ m \in todo
    /\ todo' = todo \ {m}
    /\ UnloadMap(m) \/ ProcessMap(m)
    /\ UNCHANGED <<phase, ran, crashed>>

\* MapUpdater::wait
WaitMutant == TRUE          \* no barrier
Wait == pending_requests = 0

WaitReturns ==
    /\ ~crashed
    /\ phase = "walk"
    /\ todo = {}
    /\ Wait
    /\ phase' = "delayed"
    /\ UNCHANGED <<mapVars, todo, delayedUpdate, poolVars, histVars, crashed>>

DelayedUpdate(m) ==
    /\ ~crashed
    /\ phase = "delayed"
    /\ m \in delayedUpdate
    /\ delayedUpdate' = delayedUpdate \ {m}
    /\ UNCHANGED <<mapVars, phase, todo, poolVars, histVars, crashed>>

EndWalk ==
    /\ ~crashed
    /\ phase = "delayed"
    /\ delayedUpdate = {}
    /\ phase' = "sessions"
    /\ UNCHANGED <<mapVars, todo, delayedUpdate, poolVars, histVars, crashed>>

-----------------------------------------------------------------------------
(* The end of WorldRunnable::run.                                          *)

\* World::KickAll and UpdateSessions: every player leaves.
StopWorld ==
    /\ Sessions
    /\ phase' = "unload"
    /\ players' = [m \in Maps |-> 0]
    /\ \E time \in UnloadTimes :
          unloadTimer' = [m \in Maps |-> IF players[m] > 0 THEN TimerWhenEmpty(m, time)
                                                          ELSE unloadTimer[m]]
    /\ UNCHANGED <<i_maps, unloadWhenEmpty, broken, elapsed, todo, delayedUpdate, poolVars,
                   histVars, crashed>>

\* MapManager::UnloadAll deletes every map first ...
UnloadAll ==
    /\ ~crashed
    /\ phase = "unload"
    /\ phase' = "deactivate"
    /\ i_maps' = {}
    /\ unloadTimer' = [m \in Maps |-> 0]
    /\ unloadWhenEmpty' = {}
    /\ broken' = {}
    /\ UNCHANGED <<players, elapsed, todo, delayedUpdate, poolVars, histVars, crashed>>

\* ... and then stops the pool: MapUpdater::deactivate, DelayExecutor::deactivate.
Deactivate ==
    /\ ~crashed
    /\ phase = "deactivate"
    /\ Wait
    /\ phase' = "join"
    /\ active' = FALSE
    /\ UNCHANGED <<mapVars, todo, delayedUpdate, queue, pending_requests, m_threads, at, on,
                   histVars, crashed>>

Join ==
    /\ ~crashed
    /\ phase = "join"
    /\ \A w \in Workers : at[w] = "exited"
    /\ phase' = "halted"
    /\ UNCHANGED <<mapVars, todo, delayedUpdate, poolVars, histVars, crashed>>

WorldStep ==
    \/ BeginWalk
    \/ \E m \in Maps : VisitMap(m) \/ DelayedUpdate(m)
    \/ WaitReturns
    \/ EndWalk
    \/ UnloadAll
    \/ Deactivate
    \/ Join

-----------------------------------------------------------------------------
(* DelayExecutor::svc and MapUpdateRequest::call, run by the workers.      *)

Moves(w, from, to) ==
    /\ ~crashed
    /\ at[w] = from
    /\ at' = [at EXCEPT ![w] = to]

TakeMutant(w) ==            \* the request stays in the queue
    /\ Moves(w, "idle", "taken")
    /\ active
    /\ queue # << >>
    /\ on' = [on EXCEPT ![w] = Head(queue)]
    /\ UNCHANGED <<mapVars, worldVars, queue, active, pending_requests, m_threads, histVars, crashed>>
Take(w) ==
    /\ Moves(w, "idle", "taken")
    /\ active
    /\ queue # << >>
    /\ on' = [on EXCEPT ![w] = Head(queue)]
    /\ queue' = Tail(queue)
    /\ UNCHANGED <<mapVars, worldVars, active, pending_requests, m_threads, histVars, crashed>>

\* The queue of a deactivated executor yields no more requests.
ExitThread(w) ==
    /\ Moves(w, "idle", "exited")
    /\ ~active
    /\ UNCHANGED <<mapVars, worldVars, queue, active, pending_requests, m_threads, on, histVars,
                   crashed>>

RegisterThread(w) ==
    /\ Moves(w, "taken", "registered")
    /\ m_threads' = [m_threads EXCEPT ![w] = on[w]]
    /\ UNCHANGED <<mapVars, worldVars, queue, active, pending_requests, on, histVars, crashed>>

BeginUpdate(w) ==
    /\ Moves(w, "registered", IF on[w] \in broken THEN "forced" ELSE "update")
    /\ UNCHANGED <<mapVars, worldVars, queue, active, pending_requests, m_threads, on, histVars,
                   crashed>>

\* Map::Update handles the packets of the map's players, some of whom leave.
LeaveInUpdate(w) ==
    /\ ~crashed
    /\ at[w] = "update"
    /\ LeaveWhileUpdated(on[w])
    /\ UNCHANGED <<worldVars, poolVars, histVars, crashed>>

EndUpdate(w) ==
    /\ Moves(w, "update", "ran")
    /\ ran' = [ran EXCEPT ![on[w]] = @ + 1]
    /\ UNCHANGED <<mapVars, worldVars, queue, active, pending_requests, m_threads, on, refused,
                   crashed>>

\* Map::ForcedUnload logs the players out and mends the map.
ForcedUnload(w) ==
    /\ Moves(w, "forced", "ran")
    /\ ran' = [ran EXCEPT ![on[w]] = @ + 1]
    /\ players' = [players EXCEPT ![on[w]] = 0]
    /\ \E time \in UnloadTimes :
          unloadTimer' = [unloadTimer EXCEPT ![on[w]] =
                              IF players[on[w]] > 0 THEN TimerWhenEmpty(on[w], time) ELSE @]
    /\ broken' = broken \ {on[w]}
    /\ UNCHANGED <<i_maps, unloadWhenEmpty, elapsed, worldVars, queue, active, pending_requests,
                   m_threads, on, refused, crashed>>

UnregisterThread(w) ==
    /\ Moves(w, "ran", "unregistered")
    /\ m_threads' = [m_threads EXCEPT ![w] = NoMap]
    /\ UNCHANGED <<mapVars, worldVars, queue, active, pending_requests, on, histVars, crashed>>

\* MapUpdater::update_finished: at zero it only reports a bug.
DecreasePendingMutant ==    \* off by one
    pending_requests' = IF pending_requests <= 1 THEN pending_requests ELSE pending_requests - 1
DecreasePending ==
    pending_requests' = IF pending_requests = 0 THEN 0 ELSE pending_requests - 1

UpdateFinished(w) ==
    /\ Moves(w, "unregistered", "idle")
    /\ DecreasePending
    /\ on' = [on EXCEPT ![w] = NoMap]
    /\ UNCHANGED <<mapVars, worldVars, queue, active, m_threads, histVars, crashed>>

WorkerStep(w) ==
    \/ Take(w)
    \/ ExitThread(w)
    \/ RegisterThread(w)
    \/ BeginUpdate(w)
    \/ EndUpdate(w)
    \/ ForcedUnload(w)
    \/ UnregisterThread(w)
    \/ UpdateFinished(w)

-----------------------------------------------------------------------------
(* The freeze detector and the signal handler.                             *)

\* The default action of a crash signal kills the process.  With VMSS the
\* thread runs Master::_OnSignal instead and never returns to its update.
Signal(S) ==
    IF Vmss
    THEN at' = [w \in Workers |-> IF w \in S THEN "mark" ELSE at[w]] /\ UNCHANGED crashed
    ELSE crashed' = TRUE /\ UNCHANGED at

\* MapUpdater::FreezeDetect: some registered threads have been at it for too
\* long.  FindMap takes no lock: while the world thread changes i_maps it may
\* miss the map.
FreezeDetect ==
    /\ Faults
    /\ ~crashed
    /\ \E S \in SUBSET {w \in Workers : m_threads[w] # NoMap /\ at[w] \notin Handling} :
          /\ S # {}
          /\ broken' \in {broken \cup {m_threads[w] : w \in S}}
                         \cup (IF phase = "walk" THEN {broken} ELSE {})
          /\ Signal(S)
    /\ UNCHANGED <<i_maps, players, unloadTimer, unloadWhenEmpty, elapsed, worldVars, queue, active,
                   pending_requests, m_threads, on, histVars>>

\* An update crashes.
Fault(w) ==
    /\ Faults
    /\ ~crashed
    /\ at[w] = "update"
    /\ Signal({w})
    /\ UNCHANGED <<mapVars, worldVars, queue, active, pending_requests, m_threads, on, histVars>>

\* The steps of _OnSignal on a registered thread.
MarkMap(w) ==
    /\ Moves(w, "mark", "unregister")
    /\ broken' = broken \cup {m_threads[w]}
    /\ UNCHANGED <<i_maps, players, unloadTimer, unloadWhenEmpty, elapsed, worldVars, queue, active,
                   pending_requests, m_threads, on, histVars, crashed>>

UnregisterInHandler(w) ==
    /\ Moves(w, "unregister", "finish")
    /\ m_threads' = [m_threads EXCEPT ![w] = NoMap]
    /\ UNCHANGED <<mapVars, worldVars, queue, active, pending_requests, on, histVars, crashed>>

FinishInHandlerMutant(w) ==     \* the handler does not call update_finished
    /\ Moves(w, "finish", "kill")
    /\ UNCHANGED <<mapVars, worldVars, queue, active, pending_requests, m_threads, on, histVars,
                   crashed>>
FinishInHandler(w) ==
    /\ Moves(w, "finish", "kill")
    /\ DecreasePending
    /\ UNCHANGED <<mapVars, worldVars, queue, active, m_threads, on, histVars, crashed>>

\* The default handler is put back and the signal sent to the process.
KillProcess(w) ==
    /\ ~crashed
    /\ at[w] = "kill"
    /\ crashed' = TRUE
    /\ UNCHANGED <<mapVars, worldVars, poolVars, histVars>>

HandlerStep(w) == MarkMap(w) \/ UnregisterInHandler(w) \/ FinishInHandler(w) \/ KillProcess(w)

Ended == (crashed \/ phase = "halted") /\ UNCHANGED vars

Next ==
    \/ SessionStep
    \/ WorldStep
    \/ StopWorld
    \/ \E w \in Workers : WorkerStep(w) \/ LeaveInUpdate(w) \/ Fault(w) \/ HandlerStep(w)
    \/ FreezeDetect
    \/ Ended

Spec == Init /\ [][Next]_vars

\* The world thread goes on with its loop, and the workers with their updates
\* (an update that does not end is what the freeze detector is for).
Fairness ==
    /\ WF_vars(WorldStep)
    /\ \A w \in Workers : WF_vars(WorkerStep(w)) /\ WF_vars(HandlerStep(w))

FairSpec == Spec /\ Fairness

-----------------------------------------------------------------------------
(* Properties.                                                             *)

MapsOK ==
    /\ i_maps \in SUBSET Maps
    /\ players \in [Maps -> 0 .. MaxPlayers]
    /\ unloadTimer \in [Maps -> Nat]
    /\ unloadWhenEmpty \in SUBSET Dungeons
    /\ broken \in SUBSET Maps
    /\ elapsed \in [Maps -> 0 .. UpdateInterval]

WorldOK ==
    /\ phase \in WorldPhases
    /\ todo \in SUBSET Maps
    /\ delayedUpdate \in SUBSET Maps

PoolOK ==
    /\ queue \in Seq(Maps)
    /\ pending_requests \in Nat
    /\ m_threads \in [Workers -> Maps \cup {NoMap}]
    /\ at \in [Workers -> Places]
    /\ on \in [Workers -> Maps \cup {NoMap}]

HistoryOK ==
    /\ ran \in [Maps -> Nat]
    /\ refused \in SUBSET Maps

FlagsOK == active \in BOOLEAN /\ crashed \in BOOLEAN

TypeOK == MapsOK /\ WorldOK /\ PoolOK /\ HistoryOK /\ FlagsOK

\* pending_requests counts the requests in the queue and those the workers
\* have taken and not finished, also when the queue refuses a request or a
\* signal ends an update: wait neither returns early nor waits for ever.
PendingCountsRequests == pending_requests = Len(queue) + Cardinality(Busy)

\* While the world thread handles sessions, runs the delayed updates or
\* deletes all maps, no update runs or is queued.
WorldHasTheMapsAlone ==
    phase # "walk" /\ ~crashed =>
        /\ queue = << >>
        /\ \A w \in Workers : at[w] \in {"idle", "exited"}

\* A map that is to be updated, is being updated or waits for its delayed
\* update has not been deleted.
UpdatedMapExists ==
    /\ delayedUpdate \subseteq i_maps
    /\ \A i \in 1 .. Len(queue) : queue[i] \in i_maps
    /\ \A w \in Workers : on[w] # NoMap => on[w] \in i_maps

\* No two requests, queued or running, are for the same map.
OneThreadPerMap ==
    /\ \A i, j \in 1 .. Len(queue) : queue[i] = queue[j] => i = j
    /\ \A w, v \in Workers : on[w] = on[v] /\ on[w] # NoMap => w = v
    /\ \A w \in Workers, i \in 1 .. Len(queue) : on[w] # queue[i]

\* The freeze detector and the signal handler know a thread as the updater of
\* a map only while it has a request for that map.
RegisteredThreadUpdates ==
    \A w \in Workers : m_threads[w] # NoMap => m_threads[w] = on[w] /\ w \in Busy

\* The signal handler keeps the books as the worker would have (the count of the
\* requests and the registration of the thread: Master.cpp, MapUpdateRequest::call).
SignalKeepsTheBooks == PendingCountsRequests /\ RegisteredThreadUpdates

\* After the wait every map on the list was updated once, or the queue had
\* refused its request.
UpdatedOncePerWalk ==
    phase = "delayed" /\ ~crashed =>
        \A m \in delayedUpdate : ran[m] = (IF m \in refused THEN 0 ELSE 1)

\* InstanceMap::UnloadAll: "there are still players in the instance at unload,
\* should not happen!"
NoPlayersAtUnload ==
    [][\A m \in Dungeons : m \in i_maps /\ m \notin i_maps' => players[m] = 0]_vars

\* An instance nobody is in is deleted in the end, and so is a battleground that has
\* ended.  This is so with every unload delay: trinitycore.conf.dist says that with 0
\* the instance maps are kept in memory until they are reset, but the code takes 0 for
\* MIN_UNLOAD_DELAY and unloads them at once.
EmptyInstanceIsUnloaded ==
    /\ \A m \in Dungeons : m \in i_maps ~> m \notin i_maps \/ players[m] > 0
    /\ \A m \in Battlegrounds : unloadTimer[m] > 0 ~> m \notin i_maps

\* The world thread gets past every wait: no request stays counted that will
\* never be finished (MapUpdater::wait, MapManager::Update).
WalkEnds == phase = "walk" ~> phase = "sessions"

\* A stopped world halts with all workers gone (MapManager::UnloadAll,
\* DelayExecutor::deactivate).
StoppedWorldHalts == phase = "unload" ~> phase = "halted"

\* Nobody waits for ever: walks and the halt end, and empty instances go (the
\* three above).
NothingWaitsForEver == EmptyInstanceIsUnloaded /\ WalkEnds /\ StoppedWorldHalts
=============================================================================
