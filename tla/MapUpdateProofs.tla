--------------------------- MODULE MapUpdateProofs ---------------------------
(***************************************************************************)
(* Theorems about MapUpdate, for any maps, any number of workers, any      *)
(* delays and any limit of the request queue.                              *)
(***************************************************************************)
EXTENDS MapUpdate, FiniteSetTheorems, SequenceTheorems, TLAPS

-----------------------------------------------------------------------------
(* Types.                                                                  *)

\* Where a worker is tells what it works on and whether it is registered.
WorkersInv ==
    \A w \in Workers :
        /\ on[w] = NoMap <=> at[w] \in {"idle", "exited"}
        /\ m_threads[w] = IF at[w] \in {"registered", "update", "forced", "ran", "mark", "unregister"}
                          THEN on[w] ELSE NoMap

TypeInv == MapsOK /\ WorldOK /\ PoolOK /\ HistoryOK /\ WorkersInv

\* The flags stay Boolean.
LEMMA FlagsNext == FlagsOK /\ [Next]_vars => FlagsOK'
<1> USE MapUpdateAssumption
<1>1. ASSUME FlagsOK, Deactivate PROVE FlagsOK'
  BY <1>1, Zenon DEF FlagsOK, Deactivate, mapVars, worldVars, poolVars, histVars
<1>2. ASSUME FlagsOK, NEW w \in Workers, Fault(w) PROVE FlagsOK'
  BY <1>2, Zenon DEF FlagsOK, Fault, Signal, mapVars, worldVars, poolVars, histVars
<1>3. ASSUME FlagsOK, NEW w \in Workers, KillProcess(w) PROVE FlagsOK'
  BY <1>3, Zenon DEF FlagsOK, KillProcess, mapVars, worldVars, poolVars, histVars
<1>4. ASSUME FlagsOK, FreezeDetect PROVE FlagsOK'
  BY <1>4, Zenon DEF FlagsOK, FreezeDetect, Signal, mapVars, worldVars, poolVars, histVars
<1>5. ASSUME FlagsOK, UNCHANGED <<active, crashed>> PROVE FlagsOK'
  BY <1>5, Zenon DEF FlagsOK
<1> QED
  BY <1>1, <1>2, <1>3, <1>4, <1>5
     DEF Next, SessionStep, WorldStep, WorkerStep, HandlerStep, vars, mapVars, worldVars, poolVars,
          histVars, Enter, LeaveBetweenWalks, OpenBattleground, CloseBattleground, Reset,
          CrashMapCommand, BeginWalk, VisitMap, DelayedUpdate, WaitReturns, EndWalk, StopWorld,
          UnloadAll, Join, Take, ExitThread, RegisterThread, BeginUpdate, EndUpdate, ForcedUnload,
          UnregisterThread, UpdateFinished, LeaveInUpdate, MarkMap, UnregisterInHandler,
          FinishInHandler, Ended, LeaveWhileUpdated, UnloadMap, ProcessMap, ScheduleUpdate,
          LeaveWhileUpdated

\* An instance is always kept for a while.
LEMMA UnloadTimesArePositive == UnloadTimes \subseteq Nat \ {0} /\ UnloadTimes # {}
<1>1. UnloadDelays \subseteq Nat /\ UnloadDelays # {}
  BY MapUpdateAssumption
<1>2. ASSUME NEW d \in UnloadDelays
      PROVE (IF d < MIN_UNLOAD_DELAY THEN MIN_UNLOAD_DELAY ELSE d) \in Nat \ {0}
  BY <1>1, <1>2, SMT DEF MIN_UNLOAD_DELAY
<1> QED
  BY <1>1, <1>2, Zenon DEF UnloadTimes

\* The maps.
LEMMA MapsNext == TypeInv /\ [Next]_vars => MapsOK'
<1> USE MapUpdateAssumption, UnloadTimesArePositive
<1>1. ASSUME TypeInv, NEW m \in Maps, Enter(m) PROVE MapsOK'
  BY <1>1, SMTT(30) DEF TypeInv, MapsOK, Enter, Sessions, CreateMap, Add, Rejected, mapVars, worldVars,
       poolVars, histVars
<1>2. ASSUME TypeInv, NEW m \in Maps, LeaveBetweenWalks(m) PROVE MapsOK'
  BY <1>2, SMTT(30) DEF TypeInv, MapsOK, LeaveBetweenWalks, Sessions, LeaveWhileUpdated, Leave,
       TimerWhenEmpty, MIN_UNLOAD_DELAY, mapVars, worldVars, poolVars, histVars
<1>3. ASSUME TypeInv, NEW m \in Maps, OpenBattleground(m) PROVE MapsOK'
  BY <1>3, SMTT(30) DEF TypeInv, MapsOK, OpenBattleground, Sessions, mapVars, worldVars, poolVars,
       histVars
<1>4. ASSUME TypeInv, NEW m \in Maps, CloseBattleground(m) PROVE MapsOK'
  BY <1>4, SMTT(30) DEF TypeInv, MapsOK, CloseBattleground, Sessions, MIN_UNLOAD_DELAY, mapVars,
       worldVars, poolVars, histVars
<1>5. ASSUME TypeInv, NEW m \in Maps, Reset(m) PROVE MapsOK'
  BY <1>5, SMTT(30) DEF TypeInv, MapsOK, Reset, Sessions, MIN_UNLOAD_DELAY, mapVars, worldVars, poolVars,
       histVars
<1>6. ASSUME TypeInv, NEW m \in Maps, CrashMapCommand(m) PROVE MapsOK'
  BY <1>6, SMTT(30) DEF TypeInv, MapsOK, CrashMapCommand, Sessions, mapVars, worldVars, poolVars,
       histVars
<1>7. ASSUME TypeInv, BeginWalk PROVE MapsOK'
  BY <1>7, SMTT(30) DEF TypeInv, MapsOK, BeginWalk, Sessions, mapVars, worldVars, poolVars, histVars
<1>8. ASSUME TypeInv, NEW m \in Maps, VisitMap(m) PROVE MapsOK'
  <2>1. CASE UnloadMap(m)
    BY <1>8, <2>1, SMTT(30) DEF TypeInv, MapsOK, UnloadMap
  <2>2. CASE ProcessMap(m)
    <3>1. /\ unloadTimer' = [unloadTimer EXCEPT ![m] = IF @ = 0 THEN 0 ELSE @ - 1]
          /\ elapsed' = [elapsed EXCEPT ![m] = 0] \/ elapsed' = elapsed
          /\ UNCHANGED <<i_maps, players, unloadWhenEmpty, broken>>
      BY <2>2 DEF ProcessMap, CountDown
    <3> QED
      BY <1>8, <3>1, SMTT(30) DEF TypeInv, MapsOK
  <2> QED
    BY <1>8, <2>1, <2>2 DEF VisitMap
<1>9. ASSUME TypeInv, StopWorld PROVE MapsOK'
  BY <1>9, SMTT(30) DEF TypeInv, MapsOK, StopWorld, Sessions, TimerWhenEmpty, MIN_UNLOAD_DELAY, mapVars,
       worldVars, poolVars, histVars
<1>10. ASSUME TypeInv, UnloadAll PROVE MapsOK'
  BY <1>10, SMTT(30) DEF TypeInv, MapsOK, UnloadAll, mapVars, worldVars, poolVars, histVars
<1>11. ASSUME TypeInv, NEW w \in Workers, ForcedUnload(w) PROVE MapsOK'
  <2>1. on[w] \in Maps
    BY <1>11, SMTT(30) DEF TypeInv, WorkersInv, PoolOK, ForcedUnload, Moves
  <2> QED
    BY <1>11, <2>1, SMTT(30) DEF TypeInv, MapsOK, ForcedUnload, TimerWhenEmpty, MIN_UNLOAD_DELAY
<1>12. ASSUME TypeInv, NEW w \in Workers, LeaveInUpdate(w) PROVE MapsOK'
  <2>1. on[w] \in Maps
    BY <1>12, SMTT(30) DEF TypeInv, WorkersInv, PoolOK, LeaveInUpdate
  <2> QED
    BY <1>12, <2>1, SMTT(30) DEF TypeInv, MapsOK, LeaveInUpdate, LeaveWhileUpdated, Leave, TimerWhenEmpty, MIN_UNLOAD_DELAY
<1>13. ASSUME TypeInv, NEW w \in Workers, MarkMap(w) PROVE MapsOK'
  <2>1. m_threads[w] \in Maps
    BY <1>13, SMTT(30) DEF TypeInv, WorkersInv, PoolOK, MarkMap, Moves
  <2> QED
    BY <1>13, <2>1, SMTT(30) DEF TypeInv, MapsOK, MarkMap
<1>14. ASSUME TypeInv, FreezeDetect PROVE MapsOK'
  <2>1. PICK S \in SUBSET {w \in Workers : m_threads[w] # NoMap /\ at[w] \notin Handling} :
          broken' \in {broken \cup {m_threads[w] : w \in S}, broken}
    BY <1>14 DEF FreezeDetect
  <2>2. {m_threads[w] : w \in S} \subseteq Maps
    BY <1>14, SMTT(30) DEF TypeInv, PoolOK
  <2> QED
    BY <1>14, <2>1, <2>2, SMTT(30) DEF TypeInv, MapsOK, FreezeDetect
<1>15. ASSUME TypeInv, UNCHANGED <<i_maps, players, unloadTimer, unloadWhenEmpty, broken, elapsed>> PROVE MapsOK'
  BY <1>15, SMTT(30) DEF TypeInv, MapsOK
<1> QED
  BY <1>1, <1>2, <1>3, <1>4, <1>5, <1>6, <1>7, <1>8, <1>9, <1>10, <1>11, <1>12, <1>13, <1>14, <1>15
     DEF Next, SessionStep, WorldStep, WorkerStep, HandlerStep, vars, mapVars, worldVars, poolVars,
          histVars, DelayedUpdate, WaitReturns, EndWalk, Deactivate, Join, Take, ExitThread,
          RegisterThread, BeginUpdate, EndUpdate, UnregisterThread, UpdateFinished, Fault,
          UnregisterInHandler, FinishInHandler, KillProcess, Ended

\* The walk.
LEMMA WorldNext == TypeInv /\ [Next]_vars => WorldOK'
<1> USE MapUpdateAssumption
<1>1. ASSUME TypeInv, BeginWalk PROVE WorldOK'
  BY <1>1, SMTT(30) DEF TypeInv, WorldOK, MapsOK, WorldPhases, BeginWalk, Sessions, mapVars, worldVars,
       poolVars, histVars
<1>2. ASSUME TypeInv, NEW m \in Maps, VisitMap(m) PROVE WorldOK'
  BY <1>2, SMTT(30) DEF TypeInv, WorldOK, VisitMap, UnloadMap, ProcessMap
<1>3. ASSUME TypeInv, NEW m \in Maps, DelayedUpdate(m) PROVE WorldOK'
  BY <1>3, SMTT(30) DEF TypeInv, WorldOK, MapsOK, WorldPhases, DelayedUpdate, mapVars, worldVars,
       poolVars, histVars
<1>4. ASSUME TypeInv, WaitReturns PROVE WorldOK'
  BY <1>4, SMTT(30) DEF TypeInv, WorldOK, MapsOK, WorldPhases, WaitReturns, Wait, mapVars, worldVars,
       poolVars, histVars
<1>5. ASSUME TypeInv, EndWalk PROVE WorldOK'
  BY <1>5, SMTT(30) DEF TypeInv, WorldOK, MapsOK, WorldPhases, EndWalk, mapVars, worldVars, poolVars,
       histVars
<1>6. ASSUME TypeInv, StopWorld PROVE WorldOK'
  BY <1>6, SMTT(30) DEF TypeInv, WorldOK, MapsOK, WorldPhases, StopWorld, Sessions, TimerWhenEmpty,
       MIN_UNLOAD_DELAY, mapVars, worldVars, poolVars, histVars
<1>7. ASSUME TypeInv, UnloadAll PROVE WorldOK'
  BY <1>7, SMTT(30) DEF TypeInv, WorldOK, MapsOK, WorldPhases, UnloadAll, mapVars, worldVars, poolVars,
       histVars
<1>8. ASSUME TypeInv, Deactivate PROVE WorldOK'
  BY <1>8, SMTT(30) DEF TypeInv, WorldOK, MapsOK, WorldPhases, Deactivate, Wait, mapVars, worldVars,
       poolVars, histVars
<1>9. ASSUME TypeInv, Join PROVE WorldOK'
  BY <1>9, SMTT(30) DEF TypeInv, WorldOK, MapsOK, WorldPhases, Join, mapVars, worldVars, poolVars,
       histVars
<1>10. ASSUME TypeInv, UNCHANGED <<phase, todo, delayedUpdate>> PROVE WorldOK'
  BY <1>10, SMTT(30) DEF TypeInv, WorldOK, MapsOK, WorldPhases
<1> QED
  BY <1>1, <1>2, <1>3, <1>4, <1>5, <1>6, <1>7, <1>8, <1>9, <1>10
     DEF Next, SessionStep, WorldStep, WorkerStep, HandlerStep, vars, mapVars, worldVars, poolVars,
          histVars, Enter, LeaveBetweenWalks, OpenBattleground, CloseBattleground, Reset,
          CrashMapCommand, Take, ExitThread, RegisterThread, BeginUpdate, EndUpdate, ForcedUnload,
          UnregisterThread, UpdateFinished, LeaveInUpdate, Fault, MarkMap, UnregisterInHandler,
          FinishInHandler, KillProcess, FreezeDetect, Ended, LeaveWhileUpdated, LeaveWhileUpdated

\* The histories.
LEMMA HistoryNext == TypeInv /\ [Next]_vars => HistoryOK'
<1> USE MapUpdateAssumption
<1>1. ASSUME TypeInv, BeginWalk PROVE HistoryOK'
  BY <1>1, SMTT(30) DEF TypeInv, HistoryOK, BeginWalk, Sessions, mapVars, worldVars, poolVars, histVars
<1>2. ASSUME TypeInv, NEW m \in Maps, VisitMap(m) PROVE HistoryOK'
  BY <1>2, SMTT(30) DEF TypeInv, HistoryOK, VisitMap, UnloadMap, ProcessMap, ScheduleUpdate
<1>3. ASSUME TypeInv, NEW w \in Workers, EndUpdate(w) PROVE HistoryOK'
  <2>1. on[w] \in Maps
    BY <1>3, SMTT(30) DEF TypeInv, WorkersInv, PoolOK, EndUpdate, Moves
  <2> QED
    BY <1>3, <2>1, SMTT(30) DEF TypeInv, HistoryOK, EndUpdate
<1>4. ASSUME TypeInv, NEW w \in Workers, ForcedUnload(w) PROVE HistoryOK'
  <2>1. on[w] \in Maps
    BY <1>4, SMTT(30) DEF TypeInv, WorkersInv, PoolOK, ForcedUnload, Moves
  <2> QED
    BY <1>4, <2>1, SMTT(30) DEF TypeInv, HistoryOK, ForcedUnload
<1>5. ASSUME TypeInv, UNCHANGED <<ran, refused>> PROVE HistoryOK'
  BY <1>5, SMTT(30) DEF TypeInv, HistoryOK
<1> QED
  BY <1>1, <1>2, <1>3, <1>4, <1>5
     DEF Next, SessionStep, WorldStep, WorkerStep, HandlerStep, vars, mapVars, worldVars, poolVars,
          histVars, Enter, LeaveBetweenWalks, OpenBattleground, CloseBattleground, Reset,
          CrashMapCommand, DelayedUpdate, WaitReturns, EndWalk, StopWorld, UnloadAll, Deactivate,
          Join, Take, ExitThread, RegisterThread, BeginUpdate, UnregisterThread, UpdateFinished,
          LeaveInUpdate, Fault, MarkMap, UnregisterInHandler, FinishInHandler, KillProcess,
          FreezeDetect, Ended, LeaveWhileUpdated, LeaveWhileUpdated

\* The pool.
LEMMA PoolNext == TypeInv /\ [Next]_vars => PoolOK'
<1> USE MapUpdateAssumption
<1>1. ASSUME TypeInv, NEW m \in Maps, VisitMap(m) PROVE PoolOK'
  <2>1. \/ UNCHANGED <<queue, pending_requests, m_threads, at, on>>
        \/ /\ queue' = Append(queue, m) /\ pending_requests' = pending_requests + 1
           /\ UNCHANGED <<m_threads, at, on>>
    BY <1>1 DEF VisitMap, UnloadMap, ProcessMap, ScheduleUpdate, poolVars
  <2>2. Append(queue, m) \in Seq(Maps) /\ pending_requests + 1 \in Nat
    <3>1. queue \in Seq(Maps) /\ pending_requests \in Nat
      BY <1>1, Zenon DEF TypeInv, PoolOK
    <3> QED
      BY <3>1, AppendProperties, SMTT(30)
  <2> QED
    BY <1>1, <2>1, <2>2, Zenon DEF TypeInv, PoolOK
<1>2. ASSUME TypeInv, NEW w \in Workers, Take(w) PROVE PoolOK'
  <2>1. Head(queue) \in Maps /\ Tail(queue) \in Seq(Maps)
    BY <1>2, HeadTailProperties DEF TypeInv, PoolOK, Take
  <2> QED
    BY <1>2, <2>1, SMTT(30) DEF TypeInv, PoolOK, Places, Updating, Take, Moves
<1>3. ASSUME TypeInv, NEW w \in Workers, ExitThread(w) PROVE PoolOK'
  BY <1>3, SMTT(30) DEF TypeInv, PoolOK, Places, Updating, Handling, ExitThread, Moves, mapVars,
       worldVars, poolVars, histVars
<1>4. ASSUME TypeInv, NEW w \in Workers, RegisterThread(w) PROVE PoolOK'
  BY <1>4, SMTT(30) DEF TypeInv, PoolOK, Places, Updating, Handling, RegisterThread, Moves, mapVars,
       worldVars, poolVars, histVars
<1>5. ASSUME TypeInv, NEW w \in Workers, BeginUpdate(w) PROVE PoolOK'
  BY <1>5, SMTT(30) DEF TypeInv, PoolOK, Places, Updating, Handling, BeginUpdate, Moves, mapVars,
       worldVars, poolVars, histVars
<1>6. ASSUME TypeInv, NEW w \in Workers, EndUpdate(w) PROVE PoolOK'
  BY <1>6, SMTT(30) DEF TypeInv, PoolOK, Places, Updating, Handling, EndUpdate, Moves, mapVars,
       worldVars, poolVars, histVars
<1>7. ASSUME TypeInv, NEW w \in Workers, ForcedUnload(w) PROVE PoolOK'
  BY <1>7, SMTT(30) DEF TypeInv, PoolOK, Places, Updating, Handling, ForcedUnload, Moves, TimerWhenEmpty,
       MIN_UNLOAD_DELAY, mapVars, worldVars, poolVars, histVars
<1>8. ASSUME TypeInv, NEW w \in Workers, UnregisterThread(w) PROVE PoolOK'
  BY <1>8, SMTT(30) DEF TypeInv, PoolOK, Places, Updating, Handling, UnregisterThread, Moves, mapVars,
       worldVars, poolVars, histVars
<1>9. ASSUME TypeInv, NEW w \in Workers, UpdateFinished(w) PROVE PoolOK'
  BY <1>9, SMTT(30) DEF TypeInv, PoolOK, Places, Updating, Handling, UpdateFinished, Moves,
       DecreasePending, mapVars, worldVars, poolVars, histVars
<1>10. ASSUME TypeInv, NEW w \in Workers, Fault(w) PROVE PoolOK'
  BY <1>10, SMTT(30) DEF TypeInv, PoolOK, Places, Updating, Handling, Fault, Signal, mapVars, worldVars,
       poolVars, histVars
<1>11. ASSUME TypeInv, NEW w \in Workers, MarkMap(w) PROVE PoolOK'
  BY <1>11, SMTT(30) DEF TypeInv, PoolOK, Places, Updating, Handling, MarkMap, Moves, mapVars, worldVars,
       poolVars, histVars
<1>12. ASSUME TypeInv, NEW w \in Workers, UnregisterInHandler(w) PROVE PoolOK'
  BY <1>12, SMTT(30) DEF TypeInv, PoolOK, Places, Updating, Handling, UnregisterInHandler, Moves,
       mapVars, worldVars, poolVars, histVars
<1>13. ASSUME TypeInv, NEW w \in Workers, FinishInHandler(w) PROVE PoolOK'
  BY <1>13, SMTT(30) DEF TypeInv, PoolOK, Places, Updating, Handling, FinishInHandler, Moves,
       DecreasePending, mapVars, worldVars, poolVars, histVars
<1>14. ASSUME TypeInv, FreezeDetect PROVE PoolOK'
  BY <1>14, SMTT(30) DEF TypeInv, PoolOK, Places, Updating, Handling, FreezeDetect, Signal, mapVars,
       worldVars, poolVars, histVars
<1>15. ASSUME TypeInv, UNCHANGED <<queue, pending_requests, m_threads, at, on>> PROVE PoolOK'
  BY <1>15, SMTT(30) DEF TypeInv, PoolOK, Places, Updating, Handling
<1> QED
  BY <1>1, <1>2, <1>3, <1>4, <1>5, <1>6, <1>7, <1>8, <1>9, <1>10, <1>11, <1>12, <1>13, <1>14, <1>15
     DEF Next, SessionStep, WorldStep, WorkerStep, HandlerStep, vars, mapVars, worldVars, poolVars,
          histVars, Enter, LeaveBetweenWalks, OpenBattleground, CloseBattleground, Reset,
          CrashMapCommand, BeginWalk, DelayedUpdate, WaitReturns, EndWalk, StopWorld, UnloadAll,
          Deactivate, Join, LeaveInUpdate, KillProcess, Ended, LeaveWhileUpdated, LeaveWhileUpdated

\* The workers and their registration.
LEMMA WorkersNext == TypeInv /\ [Next]_vars => WorkersInv'
<1> USE MapUpdateAssumption
<1>1. ASSUME TypeInv, NEW w \in Workers, Take(w) PROVE WorkersInv'
  <2>1. Head(queue) \in Maps
    BY <1>1, HeadTailProperties DEF TypeInv, PoolOK, Take
  <2> QED
    BY <1>1, <2>1, SMTT(30) DEF TypeInv, PoolOK, WorkersInv, Take, Moves
<1>2. ASSUME TypeInv, NEW w \in Workers, ExitThread(w) PROVE WorkersInv'
  BY <1>2, SMTT(30) DEF TypeInv, PoolOK, WorkersInv, ExitThread, Moves, mapVars, worldVars, poolVars,
       histVars
<1>3. ASSUME TypeInv, NEW w \in Workers, RegisterThread(w) PROVE WorkersInv'
  BY <1>3, SMTT(30) DEF TypeInv, PoolOK, WorkersInv, RegisterThread, Moves, mapVars, worldVars, poolVars,
       histVars
<1>4. ASSUME TypeInv, NEW w \in Workers, BeginUpdate(w) PROVE WorkersInv'
  BY <1>4, SMTT(30) DEF TypeInv, PoolOK, WorkersInv, BeginUpdate, Moves, mapVars, worldVars, poolVars,
       histVars
<1>5. ASSUME TypeInv, NEW w \in Workers, EndUpdate(w) PROVE WorkersInv'
  BY <1>5, SMTT(30) DEF TypeInv, PoolOK, WorkersInv, EndUpdate, Moves, mapVars, worldVars, poolVars,
       histVars
<1>6. ASSUME TypeInv, NEW w \in Workers, ForcedUnload(w) PROVE WorkersInv'
  BY <1>6, SMTT(30) DEF TypeInv, PoolOK, WorkersInv, ForcedUnload, Moves, TimerWhenEmpty,
       MIN_UNLOAD_DELAY, mapVars, worldVars, poolVars, histVars
<1>7. ASSUME TypeInv, NEW w \in Workers, UnregisterThread(w) PROVE WorkersInv'
  BY <1>7, SMTT(30) DEF TypeInv, PoolOK, WorkersInv, UnregisterThread, Moves, mapVars, worldVars,
       poolVars, histVars
<1>8. ASSUME TypeInv, NEW w \in Workers, UpdateFinished(w) PROVE WorkersInv'
  BY <1>8, SMTT(30) DEF TypeInv, PoolOK, WorkersInv, UpdateFinished, Moves, DecreasePending, mapVars,
       worldVars, poolVars, histVars
<1>9. ASSUME TypeInv, NEW w \in Workers, Fault(w) PROVE WorkersInv'
  BY <1>9, SMTT(30) DEF TypeInv, PoolOK, WorkersInv, Fault, Signal, mapVars, worldVars, poolVars,
       histVars
<1>10. ASSUME TypeInv, NEW w \in Workers, MarkMap(w) PROVE WorkersInv'
  BY <1>10, SMTT(30) DEF TypeInv, PoolOK, WorkersInv, MarkMap, Moves, mapVars, worldVars, poolVars,
       histVars
<1>11. ASSUME TypeInv, NEW w \in Workers, UnregisterInHandler(w) PROVE WorkersInv'
  BY <1>11, SMTT(30) DEF TypeInv, PoolOK, WorkersInv, UnregisterInHandler, Moves, mapVars, worldVars,
       poolVars, histVars
<1>12. ASSUME TypeInv, NEW w \in Workers, FinishInHandler(w) PROVE WorkersInv'
  BY <1>12, SMTT(30) DEF TypeInv, PoolOK, WorkersInv, FinishInHandler, Moves, DecreasePending, mapVars,
       worldVars, poolVars, histVars
<1>13. ASSUME TypeInv, FreezeDetect PROVE WorkersInv'
  <2>1. PICK S \in SUBSET {w \in Workers : m_threads[w] # NoMap /\ at[w] \notin Handling} :
          at' = at \/ at' = [w \in Workers |-> IF w \in S THEN "mark" ELSE at[w]]
    BY <1>13 DEF FreezeDetect, Signal
  <2>2. UNCHANGED <<m_threads, on>>
    BY <1>13 DEF FreezeDetect
  <2> QED
    BY <1>13, <2>1, <2>2, SMTT(30) DEF TypeInv, PoolOK, WorkersInv
<1>14. ASSUME TypeInv, UNCHANGED <<m_threads, at, on>> PROVE WorkersInv'
  BY <1>14, SMTT(30) DEF TypeInv, PoolOK, WorkersInv
<1> QED
  BY <1>1, <1>2, <1>3, <1>4, <1>5, <1>6, <1>7, <1>8, <1>9, <1>10, <1>11, <1>12, <1>13, <1>14
     DEF Next, SessionStep, WorldStep, WorkerStep, HandlerStep, vars, mapVars, worldVars, poolVars,
          histVars, Enter, LeaveBetweenWalks, OpenBattleground, CloseBattleground, Reset,
          CrashMapCommand, BeginWalk, VisitMap, DelayedUpdate, WaitReturns, EndWalk, StopWorld,
          UnloadAll, Deactivate, Join, LeaveInUpdate, KillProcess, Ended, LeaveWhileUpdated,
          UnloadMap, ProcessMap, ScheduleUpdate, LeaveWhileUpdated

\* The types of all variables, and what a worker's place says of its registration and its
\* map, for any number of maps and workers (MapUpdater.h, DelayExecutor.cpp).
THEOREM TypeInvariant == Spec => [](TypeInv /\ FlagsOK)
<1>1. Init => TypeInv /\ FlagsOK
  <2> SUFFICES ASSUME Init PROVE TypeInv /\ FlagsOK
    OBVIOUS
  <2> USE MapUpdateAssumption DEF Init
  <2>1. MapsOK
    BY SMTT(30) DEF MapsOK, Maps
  <2>2. WorldOK /\ HistoryOK
    BY SMTT(30) DEF WorldOK, HistoryOK, WorldPhases
  <2>3. PoolOK
    BY EmptySeq, SMTT(30) DEF PoolOK, Places
  <2>4. WorkersInv
    BY SMTT(30) DEF WorkersInv
  <2>5. FlagsOK
    BY Zenon DEF FlagsOK
  <2> QED
    BY <2>1, <2>2, <2>3, <2>4, <2>5 DEF TypeInv
<1>2. TypeInv /\ FlagsOK /\ [Next]_vars => (TypeInv /\ FlagsOK)'
  BY FlagsNext, MapsNext, WorldNext, HistoryNext, PoolNext, WorkersNext DEF TypeInv
<1> QED
  BY <1>1, <1>2, PTL DEF Spec

\* Every variable keeps its type.
THEOREM TypeCorrect == Spec => []TypeOK
<1>1. TypeInv /\ FlagsOK => TypeOK
  BY DEF TypeInv, TypeOK
<1> QED
  BY <1>1, TypeInvariant, PTL


-----------------------------------------------------------------------------
(* The count of the pending requests.                                      *)

\* The busy workers can be counted.
LEMMA BusyFinite == IsFiniteSet(Busy) /\ Cardinality(Busy) \in Nat
<1>1. Busy \in SUBSET Workers
  BY DEF Busy
<1>2. IsFiniteSet(Busy)
  BY <1>1, MapUpdateAssumption, FS_Subset
<1> QED
  BY <1>2, FS_CardinalityType

\* Only a scheduled, a taken and a finished request change the count's terms.
LEMMA PendingNext == TypeInv /\ PendingCountsRequests /\ [Next]_vars => PendingCountsRequests'
<1> USE MapUpdateAssumption
<1>1. ASSUME TypeInv /\ PendingCountsRequests, NEW m \in Maps, VisitMap(m) PROVE PendingCountsRequests'
  <2>1. \/ UNCHANGED <<queue, pending_requests, at>>
        \/ queue' = Append(queue, m) /\ pending_requests' = pending_requests + 1 /\ UNCHANGED at
    BY <1>1 DEF VisitMap, UnloadMap, ProcessMap, ScheduleUpdate, poolVars
  <2>2. Busy' = Busy
    BY <2>1 DEF Busy
  <2>3. Len(Append(queue, m)) = Len(queue) + 1 /\ Len(queue) \in Nat
    BY <1>1, AppendProperties, LenProperties DEF TypeInv, PoolOK
  <2> QED
    BY <1>1, <2>1, <2>2, <2>3, BusyFinite, SMTT(30) DEF PendingCountsRequests
<1>2. ASSUME TypeInv /\ PendingCountsRequests, NEW w \in Workers, Take(w) PROVE PendingCountsRequests'
  <2>1. Busy' = Busy \cup {w} /\ w \notin Busy
    BY <1>2, SMTT(30) DEF TypeInv, PoolOK, Take, Moves, Busy, Updating, Handling
  <2>2. Cardinality(Busy \cup {w}) = Cardinality(Busy) + 1
    BY <2>1, BusyFinite, FS_AddElement
  <2>3. Len(queue') = Len(queue) - 1 /\ Len(queue) \in Nat
    BY <1>2, HeadTailProperties, LenProperties DEF TypeInv, PoolOK, Take
  <2>4. pending_requests' = pending_requests
    BY <1>2 DEF Take
  <2> QED
    BY <1>2, <2>1, <2>2, <2>3, <2>4, BusyFinite, SMTT(30) DEF PendingCountsRequests
<1>3. ASSUME TypeInv /\ PendingCountsRequests, NEW w \in Workers, ExitThread(w) PROVE PendingCountsRequests'
  <2>1. Busy' = Busy
    BY <1>3, SMTT(30) DEF TypeInv, PoolOK, ExitThread, Moves, Busy, Updating, Handling
  <2> QED
    BY <1>3, <2>1, SMTT(30) DEF PendingCountsRequests, ExitThread, poolVars
<1>4. ASSUME TypeInv /\ PendingCountsRequests, NEW w \in Workers, RegisterThread(w) PROVE PendingCountsRequests'
  <2>1. Busy' = Busy
    BY <1>4, SMTT(30) DEF TypeInv, PoolOK, RegisterThread, Moves, Busy, Updating, Handling
  <2> QED
    BY <1>4, <2>1, SMTT(30) DEF PendingCountsRequests, RegisterThread, poolVars
<1>5. ASSUME TypeInv /\ PendingCountsRequests, NEW w \in Workers, BeginUpdate(w) PROVE PendingCountsRequests'
  <2>1. Busy' = Busy
    BY <1>5, SMTT(30) DEF TypeInv, PoolOK, BeginUpdate, Moves, Busy, Updating, Handling
  <2> QED
    BY <1>5, <2>1, SMTT(30) DEF PendingCountsRequests, BeginUpdate, poolVars
<1>6. ASSUME TypeInv /\ PendingCountsRequests, NEW w \in Workers, EndUpdate(w) PROVE PendingCountsRequests'
  <2>1. Busy' = Busy
    BY <1>6, SMTT(30) DEF TypeInv, PoolOK, EndUpdate, Moves, Busy, Updating, Handling
  <2> QED
    BY <1>6, <2>1, SMTT(30) DEF PendingCountsRequests, EndUpdate, poolVars
<1>7. ASSUME TypeInv /\ PendingCountsRequests, NEW w \in Workers, ForcedUnload(w) PROVE PendingCountsRequests'
  <2>1. Busy' = Busy
    BY <1>7, SMTT(30) DEF TypeInv, PoolOK, ForcedUnload, Moves, Busy, Updating, Handling
  <2> QED
    BY <1>7, <2>1, SMTT(30) DEF PendingCountsRequests, ForcedUnload, poolVars
<1>8. ASSUME TypeInv /\ PendingCountsRequests, NEW w \in Workers, UnregisterThread(w) PROVE PendingCountsRequests'
  <2>1. Busy' = Busy
    BY <1>8, SMTT(30) DEF TypeInv, PoolOK, UnregisterThread, Moves, Busy, Updating, Handling
  <2> QED
    BY <1>8, <2>1, SMTT(30) DEF PendingCountsRequests, UnregisterThread, poolVars
<1>9. ASSUME TypeInv /\ PendingCountsRequests, NEW w \in Workers, UpdateFinished(w) PROVE PendingCountsRequests'
  <2>1. Busy' = Busy \ {w} /\ w \in Busy
    BY <1>9, SMTT(30) DEF TypeInv, PoolOK, UpdateFinished, Moves, Busy, Updating, Handling
  <2>2. /\ Cardinality(Busy \ {w}) = Cardinality(Busy) - 1
        /\ Cardinality(Busy \ {w}) \in Nat
    BY <2>1, BusyFinite, FS_RemoveElement, FS_CardinalityType
  <2>3. Len(queue) \in Nat /\ queue' = queue
    BY <1>9, LenProperties DEF TypeInv, PoolOK, UpdateFinished
  <2>4. pending_requests # 0
    BY <1>9, <2>2, <2>3, BusyFinite, SMTT(30) DEF PendingCountsRequests
  <2>5. pending_requests' = pending_requests - 1
    BY <1>9, <2>4 DEF UpdateFinished, DecreasePending
  <2> QED
    BY <1>9, <2>1, <2>2, <2>3, <2>5, BusyFinite, SMTT(30) DEF PendingCountsRequests
<1>10. ASSUME TypeInv /\ PendingCountsRequests, NEW w \in Workers, Fault(w) PROVE PendingCountsRequests'
  <2>1. Busy' = Busy
    BY <1>10, SMTT(30) DEF TypeInv, PoolOK, Fault, Signal, Busy, Updating, Handling
  <2> QED
    BY <1>10, <2>1, SMTT(30) DEF PendingCountsRequests, Fault
<1>11. ASSUME TypeInv /\ PendingCountsRequests, NEW w \in Workers, MarkMap(w) PROVE PendingCountsRequests'
  <2>1. Busy' = Busy
    BY <1>11, SMTT(30) DEF TypeInv, PoolOK, MarkMap, Moves, Busy, Updating, Handling
  <2> QED
    BY <1>11, <2>1, SMTT(30) DEF PendingCountsRequests, MarkMap, poolVars
<1>12. ASSUME TypeInv /\ PendingCountsRequests, NEW w \in Workers, UnregisterInHandler(w) PROVE PendingCountsRequests'
  <2>1. Busy' = Busy
    BY <1>12, SMTT(30) DEF TypeInv, PoolOK, UnregisterInHandler, Moves, Busy, Updating, Handling
  <2> QED
    BY <1>12, <2>1, SMTT(30) DEF PendingCountsRequests, UnregisterInHandler, poolVars
<1>13. ASSUME TypeInv /\ PendingCountsRequests, NEW w \in Workers, FinishInHandler(w) PROVE PendingCountsRequests'
  <2>1. Busy' = Busy \ {w} /\ w \in Busy
    BY <1>13, SMTT(30) DEF TypeInv, PoolOK, FinishInHandler, Moves, Busy, Updating, Handling
  <2>2. /\ Cardinality(Busy \ {w}) = Cardinality(Busy) - 1
        /\ Cardinality(Busy \ {w}) \in Nat
    BY <2>1, BusyFinite, FS_RemoveElement, FS_CardinalityType
  <2>3. Len(queue) \in Nat /\ queue' = queue
    BY <1>13, LenProperties DEF TypeInv, PoolOK, FinishInHandler
  <2>4. pending_requests # 0
    BY <1>13, <2>2, <2>3, BusyFinite, SMTT(30) DEF PendingCountsRequests
  <2>5. pending_requests' = pending_requests - 1
    BY <1>13, <2>4 DEF FinishInHandler, DecreasePending
  <2> QED
    BY <1>13, <2>1, <2>2, <2>3, <2>5, BusyFinite, SMTT(30) DEF PendingCountsRequests
<1>14. ASSUME TypeInv /\ PendingCountsRequests, FreezeDetect PROVE PendingCountsRequests'
  <2>1. PICK S \in SUBSET {w \in Workers : m_threads[w] # NoMap /\ at[w] \notin Handling} :
          at' = at \/ at' = [w \in Workers |-> IF w \in S THEN "mark" ELSE at[w]]
    BY <1>14 DEF FreezeDetect, Signal
  <2>2. Busy' = Busy
    BY <1>14, <2>1, SMTT(30) DEF TypeInv, PoolOK, WorkersInv, Busy, Updating, Handling
  <2> QED
    BY <1>14, <2>2, SMTT(30) DEF PendingCountsRequests, FreezeDetect
<1>15. ASSUME TypeInv /\ PendingCountsRequests, UNCHANGED <<queue, pending_requests, at>> PROVE PendingCountsRequests'
  BY <1>15, SMTT(30) DEF PendingCountsRequests, Busy
<1> QED
  BY <1>1, <1>2, <1>3, <1>4, <1>5, <1>6, <1>7, <1>8, <1>9, <1>10, <1>11, <1>12, <1>13, <1>14, <1>15
     DEF Next, SessionStep, WorldStep, WorkerStep, HandlerStep, vars, mapVars, worldVars, poolVars,
          histVars, Enter, LeaveBetweenWalks, OpenBattleground, CloseBattleground, Reset,
          CrashMapCommand, BeginWalk, DelayedUpdate, WaitReturns, EndWalk, StopWorld, UnloadAll,
          Deactivate, Join, LeaveInUpdate, KillProcess, Ended, LeaveWhileUpdated, LeaveWhileUpdated

\* At the start nothing is counted and nothing is requested.
LEMMA PendingInit == Init => PendingCountsRequests
<1> SUFFICES ASSUME Init PROVE PendingCountsRequests
  OBVIOUS
<1>1. Busy = {}
  BY SMTT(30) DEF Init, Busy, Updating, Handling
<1> QED
  BY <1>1, FS_EmptySet, EmptySeq DEF Init, PendingCountsRequests

\* pending_requests is the number of requests queued or running, with signals
\* and refused requests too.
THEOREM PendingCorrect == Spec => []PendingCountsRequests
<1>1. TypeInv /\ PendingCountsRequests /\ [Next]_vars => PendingCountsRequests'
  BY PendingNext
<1> QED
  BY <1>1, PendingInit, TypeInvariant, PTL DEF Spec

-----------------------------------------------------------------------------
(* The barrier.                                                            *)

\* Outside of the walk nothing is pending.
WalkInv ==
    /\ phase # "walk" => pending_requests = 0 /\ todo = {}
    /\ phase \notin {"walk", "delayed"} => delayedUpdate = {}

\* Requests are only scheduled during the walk, which ends with none pending.
LEMMA WalkNext == TypeInv /\ WalkInv /\ [Next]_vars => WalkInv'
<1> USE MapUpdateAssumption
<1>1. ASSUME TypeInv /\ WalkInv, BeginWalk PROVE WalkInv'
  BY <1>1, SMTT(30) DEF TypeInv, PoolOK, WalkInv, BeginWalk, Sessions, mapVars, worldVars, poolVars,
       histVars
<1>2. ASSUME TypeInv /\ WalkInv, NEW m \in Maps, VisitMap(m) PROVE WalkInv'
  BY <1>2, SMTT(30) DEF WalkInv, VisitMap, UnloadMap, ProcessMap
<1>3. ASSUME TypeInv /\ WalkInv, NEW m \in Maps, DelayedUpdate(m) PROVE WalkInv'
  BY <1>3, SMTT(30) DEF TypeInv, PoolOK, WalkInv, DelayedUpdate, mapVars, worldVars, poolVars, histVars
<1>4. ASSUME TypeInv /\ WalkInv, WaitReturns PROVE WalkInv'
  BY <1>4, SMTT(30) DEF TypeInv, PoolOK, WalkInv, WaitReturns, Wait, mapVars, worldVars, poolVars,
       histVars
<1>5. ASSUME TypeInv /\ WalkInv, EndWalk PROVE WalkInv'
  BY <1>5, SMTT(30) DEF TypeInv, PoolOK, WalkInv, EndWalk, mapVars, worldVars, poolVars, histVars
<1>6. ASSUME TypeInv /\ WalkInv, StopWorld PROVE WalkInv'
  BY <1>6, SMTT(30) DEF TypeInv, PoolOK, WalkInv, StopWorld, Sessions, TimerWhenEmpty, MIN_UNLOAD_DELAY,
       mapVars, worldVars, poolVars, histVars
<1>7. ASSUME TypeInv /\ WalkInv, UnloadAll PROVE WalkInv'
  BY <1>7, SMTT(30) DEF TypeInv, PoolOK, WalkInv, UnloadAll, mapVars, worldVars, poolVars, histVars
<1>8. ASSUME TypeInv /\ WalkInv, Deactivate PROVE WalkInv'
  BY <1>8, SMTT(30) DEF TypeInv, PoolOK, WalkInv, Deactivate, Wait, mapVars, worldVars, poolVars,
       histVars
<1>9. ASSUME TypeInv /\ WalkInv, Join PROVE WalkInv'
  BY <1>9, SMTT(30) DEF TypeInv, PoolOK, WalkInv, Join, mapVars, worldVars, poolVars, histVars
<1>10. ASSUME TypeInv /\ WalkInv, NEW w \in Workers, UpdateFinished(w) PROVE WalkInv'
  BY <1>10, SMTT(30) DEF TypeInv, PoolOK, WalkInv, UpdateFinished, Moves, DecreasePending, mapVars,
       worldVars, poolVars, histVars
<1>11. ASSUME TypeInv /\ WalkInv, NEW w \in Workers, FinishInHandler(w) PROVE WalkInv'
  BY <1>11, SMTT(30) DEF TypeInv, PoolOK, WalkInv, FinishInHandler, Moves, DecreasePending, mapVars,
       worldVars, poolVars, histVars
<1>12. ASSUME TypeInv /\ WalkInv, UNCHANGED <<phase, pending_requests, todo, delayedUpdate>> PROVE WalkInv'
  BY <1>12, SMTT(30) DEF TypeInv, PoolOK, WalkInv
<1> QED
  BY <1>1, <1>2, <1>3, <1>4, <1>5, <1>6, <1>7, <1>8, <1>9, <1>10, <1>11, <1>12
     DEF Next, SessionStep, WorldStep, WorkerStep, HandlerStep, vars, mapVars, worldVars, poolVars,
          histVars, Enter, LeaveBetweenWalks, OpenBattleground, CloseBattleground, Reset,
          CrashMapCommand, Take, ExitThread, RegisterThread, BeginUpdate, EndUpdate, ForcedUnload,
          UnregisterThread, LeaveInUpdate, Fault, MarkMap, UnregisterInHandler, KillProcess,
          FreezeDetect, Ended, LeaveWhileUpdated, LeaveWhileUpdated

\* The invariant of the walk holds in every state.
LEMMA WalkInvariant == Spec => []WalkInv
<1>1. Init => WalkInv
  BY SMTT(30) DEF Init, WalkInv
<1> QED
  BY <1>1, WalkNext, TypeInvariant, PTL DEF Spec

\* Outside of the walk the queue is empty and no worker is busy.
LEMMA IdleOutsideWalk ==
  ASSUME TypeInv, PendingCountsRequests, WalkInv, phase # "walk"
  PROVE  queue = << >> /\ Busy = {}
<1>1. Len(queue) = 0 /\ Cardinality(Busy) = 0
  BY BusyFinite, LenProperties, SMTT(30) DEF TypeInv, PoolOK, PendingCountsRequests, WalkInv
<1> QED
  BY <1>1, BusyFinite, FS_EmptySet, EmptySeq, SMTT(30) DEF TypeInv, PoolOK

\* Without VMSS no thread ever runs the signal handler.
NoHandler == \A w \in Workers : at[w] \notin Handling \cup {"kill"}

\* Signals then kill the process at once.
LEMMA HandlerNext == Vmss = FALSE /\ TypeInv /\ NoHandler /\ [Next]_vars => NoHandler'
<1> USE MapUpdateAssumption
<1>1. ASSUME Vmss = FALSE /\ TypeInv /\ NoHandler, NEW w \in Workers, Take(w) PROVE NoHandler'
  BY <1>1, SMTT(30) DEF TypeInv, PoolOK, NoHandler, Handling, Take, Moves, mapVars, worldVars, poolVars,
       histVars
<1>2. ASSUME Vmss = FALSE /\ TypeInv /\ NoHandler, NEW w \in Workers, ExitThread(w) PROVE NoHandler'
  BY <1>2, SMTT(30) DEF TypeInv, PoolOK, NoHandler, Handling, ExitThread, Moves, mapVars, worldVars,
       poolVars, histVars
<1>3. ASSUME Vmss = FALSE /\ TypeInv /\ NoHandler, NEW w \in Workers, RegisterThread(w) PROVE NoHandler'
  BY <1>3, SMTT(30) DEF TypeInv, PoolOK, NoHandler, Handling, RegisterThread, Moves, mapVars, worldVars,
       poolVars, histVars
<1>4. ASSUME Vmss = FALSE /\ TypeInv /\ NoHandler, NEW w \in Workers, BeginUpdate(w) PROVE NoHandler'
  BY <1>4, SMTT(30) DEF TypeInv, PoolOK, NoHandler, Handling, BeginUpdate, Moves, mapVars, worldVars,
       poolVars, histVars
<1>5. ASSUME Vmss = FALSE /\ TypeInv /\ NoHandler, NEW w \in Workers, EndUpdate(w) PROVE NoHandler'
  BY <1>5, SMTT(30) DEF TypeInv, PoolOK, NoHandler, Handling, EndUpdate, Moves, mapVars, worldVars,
       poolVars, histVars
<1>6. ASSUME Vmss = FALSE /\ TypeInv /\ NoHandler, NEW w \in Workers, ForcedUnload(w) PROVE NoHandler'
  BY <1>6, SMTT(30) DEF TypeInv, PoolOK, NoHandler, Handling, ForcedUnload, Moves, TimerWhenEmpty,
       MIN_UNLOAD_DELAY, mapVars, worldVars, poolVars, histVars
<1>7. ASSUME Vmss = FALSE /\ TypeInv /\ NoHandler, NEW w \in Workers, UnregisterThread(w) PROVE NoHandler'
  BY <1>7, SMTT(30) DEF TypeInv, PoolOK, NoHandler, Handling, UnregisterThread, Moves, mapVars,
       worldVars, poolVars, histVars
<1>8. ASSUME Vmss = FALSE /\ TypeInv /\ NoHandler, NEW w \in Workers, UpdateFinished(w) PROVE NoHandler'
  BY <1>8, SMTT(30) DEF TypeInv, PoolOK, NoHandler, Handling, UpdateFinished, Moves, DecreasePending,
       mapVars, worldVars, poolVars, histVars
<1>9. ASSUME Vmss = FALSE /\ TypeInv /\ NoHandler, NEW w \in Workers, Fault(w) PROVE NoHandler'
  BY <1>9, SMTT(30) DEF Fault, Signal, NoHandler
<1>10. ASSUME Vmss = FALSE /\ TypeInv /\ NoHandler, NEW w \in Workers, MarkMap(w) PROVE NoHandler'
  BY <1>10, SMTT(30) DEF TypeInv, PoolOK, NoHandler, Handling, MarkMap, Moves, mapVars, worldVars,
       poolVars, histVars
<1>11. ASSUME Vmss = FALSE /\ TypeInv /\ NoHandler, NEW w \in Workers, UnregisterInHandler(w) PROVE NoHandler'
  BY <1>11, SMTT(30) DEF TypeInv, PoolOK, NoHandler, Handling, UnregisterInHandler, Moves, mapVars,
       worldVars, poolVars, histVars
<1>12. ASSUME Vmss = FALSE /\ TypeInv /\ NoHandler, NEW w \in Workers, FinishInHandler(w) PROVE NoHandler'
  BY <1>12, SMTT(30) DEF TypeInv, PoolOK, NoHandler, Handling, FinishInHandler, Moves, DecreasePending,
       mapVars, worldVars, poolVars, histVars
<1>13. ASSUME Vmss = FALSE /\ TypeInv /\ NoHandler, FreezeDetect PROVE NoHandler'
  BY <1>13, SMTT(30) DEF FreezeDetect, Signal, NoHandler
<1>14. ASSUME Vmss = FALSE /\ TypeInv /\ NoHandler, UNCHANGED <<at>> PROVE NoHandler'
  BY <1>14, SMTT(30) DEF TypeInv, PoolOK, NoHandler, Handling
<1> QED
  BY <1>1, <1>2, <1>3, <1>4, <1>5, <1>6, <1>7, <1>8, <1>9, <1>10, <1>11, <1>12, <1>13, <1>14
     DEF Next, SessionStep, WorldStep, WorkerStep, HandlerStep, vars, mapVars, worldVars, poolVars,
          histVars, Enter, LeaveBetweenWalks, OpenBattleground, CloseBattleground, Reset,
          CrashMapCommand, BeginWalk, VisitMap, DelayedUpdate, WaitReturns, EndWalk, StopWorld,
          UnloadAll, Deactivate, Join, LeaveInUpdate, KillProcess, Ended, LeaveWhileUpdated,
          UnloadMap, ProcessMap, ScheduleUpdate, LeaveWhileUpdated

\* Without VMSS no signal handler ever runs.
LEMMA HandlerInvariant ==
  ASSUME Vmss = FALSE
  PROVE  Spec => []NoHandler
<1>1. Init => NoHandler
  BY SMTT(30) DEF Init, NoHandler, Handling
<1>2. TypeInv /\ NoHandler /\ [Next]_vars => NoHandler'
  BY HandlerNext
<1> QED
  BY <1>1, <1>2, TypeInvariant, PTL DEF Spec

\* Without VMSS the world thread has the maps to itself outside of the walk:
\* the count is zero when the wait returns and stays so until the next walk.
THEOREM BarrierCorrect ==
  ASSUME Vmss = FALSE
  PROVE  Spec => []WorldHasTheMapsAlone
<1>1. TypeInv /\ PendingCountsRequests /\ WalkInv /\ NoHandler => WorldHasTheMapsAlone
  <2> SUFFICES ASSUME TypeInv, PendingCountsRequests, WalkInv, NoHandler, phase # "walk"
               PROVE  queue = << >> /\ \A w \in Workers : at[w] \in {"idle", "exited"}
    BY DEF WorldHasTheMapsAlone
  <2>1. queue = << >> /\ Busy = {}
    BY IdleOutsideWalk
  <2> QED
    BY <2>1, SMTT(30) DEF Busy, NoHandler, TypeInv, PoolOK, Places
<1> QED
  BY <1>1, TypeInvariant, PendingCorrect, WalkInvariant, HandlerInvariant, PTL


-----------------------------------------------------------------------------
(* The maps of the requests.                                               *)

\* The maps still to be visited exist and have no request yet; those with a
\* request exist and have only one.
RequestsInv ==
    /\ todo \subseteq i_maps
    /\ \A m \in todo :
          /\ m \notin delayedUpdate
          /\ \A i \in 1 .. Len(queue) : queue[i] # m
          /\ \A w \in Workers : on[w] # m
    /\ OneThreadPerMap
    /\ UpdatedMapExists

Hypotheses == TypeInv /\ PendingCountsRequests /\ WalkInv /\ NoHandler

\* A map gets its one request when it is visited, and is deleted only instead.
LEMMA RequestsNext == Hypotheses /\ RequestsInv /\ [Next]_vars => RequestsInv'
<1> USE MapUpdateAssumption
<1>1. ASSUME Hypotheses /\ RequestsInv, NEW m \in Maps, Enter(m) PROVE RequestsInv'
  BY <1>1, SMTT(30) DEF RequestsInv, OneThreadPerMap, UpdatedMapExists, Enter, Sessions, CreateMap, Add,
       Rejected, mapVars, worldVars, poolVars, histVars
<1>2. ASSUME Hypotheses /\ RequestsInv, NEW m \in Maps, OpenBattleground(m) PROVE RequestsInv'
  BY <1>2, SMTT(30) DEF RequestsInv, OneThreadPerMap, UpdatedMapExists, OpenBattleground, Sessions,
       mapVars, worldVars, poolVars, histVars
<1>3. ASSUME Hypotheses /\ RequestsInv, BeginWalk PROVE RequestsInv'
  <2>1. phase # "walk"
    BY <1>3 DEF BeginWalk, Sessions
  <2>2. queue = << >> /\ Busy = {}
    BY <1>3, <2>1, IdleOutsideWalk DEF Hypotheses
  <2>3. \A w \in Workers : on[w] = NoMap
    BY <1>3, <2>2, SMTT(30) DEF Hypotheses, TypeInv, WorkersInv, PoolOK, NoHandler, Busy, Places
  <2>4. Len(queue) = 0
    BY <2>2, EmptySeq
  <2>5. todo = {} /\ (phase = "delayed" \/ delayedUpdate = {})
    BY <1>3, <2>1 DEF Hypotheses, WalkInv
  <2>6. todo \subseteq Maps
    BY <1>3 DEF Hypotheses, TypeInv, WorldOK
  <2> QED
    BY <1>3, <2>3, <2>4, <2>5, <2>6, SMTT(30) DEF RequestsInv, OneThreadPerMap, UpdatedMapExists, BeginWalk, Sessions, Hypotheses, TypeInv, MapsOK, poolVars
<1>4. ASSUME Hypotheses /\ RequestsInv, NEW m \in Maps, VisitMap(m) PROVE RequestsInv'
  <2>1. m \in todo /\ todo' = todo \ {m} /\ on' = on
    BY <1>4 DEF VisitMap, UnloadMap, ProcessMap, ScheduleUpdate, poolVars
  <2>2. CASE UnloadMap(m)
    <3>1. i_maps' = i_maps \ {m} /\ UNCHANGED <<delayedUpdate, queue>>
      BY <2>2 DEF UnloadMap, poolVars
    <3> QED
      BY <1>4, <2>1, <3>1, SMTT(30) DEF RequestsInv, OneThreadPerMap, UpdatedMapExists
  <2>3. CASE ProcessMap(m)
    <3>1. i_maps' = i_maps /\ delayedUpdate' \in {delayedUpdate, delayedUpdate \cup {m}}
      BY <2>3 DEF ProcessMap
    <3>2. CASE queue' = queue
      BY <1>4, <2>1, <3>1, <3>2, SMTT(30) DEF RequestsInv, OneThreadPerMap, UpdatedMapExists
    <3>3. CASE queue' = Append(queue, m)
      <4>1. /\ Len(queue) \in Nat
            /\ Len(queue') = Len(queue) + 1
            /\ \A i \in 1 .. Len(queue) : queue'[i] = queue[i]
            /\ queue'[Len(queue) + 1] = m
        BY <1>4, <3>3, AppendProperties, LenProperties DEF Hypotheses, TypeInv, PoolOK
      <4>2. \A i \in 1 .. Len(queue') : i \in 1 .. Len(queue) \/ i = Len(queue) + 1
        BY <4>1, SMTT(30)
      <4>3. OneThreadPerMap'
        BY <1>4, <2>1, <4>1, <4>2, SMTT(30) DEF RequestsInv, OneThreadPerMap
      <4>4. UpdatedMapExists'
        BY <1>4, <2>1, <3>1, <4>1, <4>2, SMTT(30) DEF RequestsInv, UpdatedMapExists
      <4> QED
        BY <1>4, <2>1, <3>1, <4>1, <4>2, <4>3, <4>4, SMTT(30) DEF RequestsInv
    <3> QED
      BY <2>3, <3>2, <3>3 DEF ProcessMap, ScheduleUpdate, poolVars
  <2> QED
    BY <1>4, <2>2, <2>3 DEF VisitMap
<1>5. ASSUME Hypotheses /\ RequestsInv, NEW m \in Maps, DelayedUpdate(m) PROVE RequestsInv'
  BY <1>5, SMTT(30) DEF RequestsInv, OneThreadPerMap, UpdatedMapExists, DelayedUpdate, mapVars,
       worldVars, poolVars, histVars
<1>6. ASSUME Hypotheses /\ RequestsInv, UnloadAll PROVE RequestsInv'
  <2>1. phase # "walk"
    BY <1>6 DEF UnloadAll, Sessions
  <2>2. queue = << >> /\ Busy = {}
    BY <1>6, <2>1, IdleOutsideWalk DEF Hypotheses
  <2>3. \A w \in Workers : on[w] = NoMap
    BY <1>6, <2>2, SMTT(30) DEF Hypotheses, TypeInv, WorkersInv, PoolOK, NoHandler, Busy, Places
  <2>4. Len(queue) = 0
    BY <2>2, EmptySeq
  <2>5. todo = {} /\ (phase = "delayed" \/ delayedUpdate = {})
    BY <1>6, <2>1 DEF Hypotheses, WalkInv
  <2>6. todo \subseteq Maps
    BY <1>6 DEF Hypotheses, TypeInv, WorldOK
  <2> QED
    BY <1>6, <2>3, <2>4, <2>5, <2>6, SMTT(30) DEF RequestsInv, OneThreadPerMap, UpdatedMapExists, UnloadAll, Sessions, Hypotheses, TypeInv, MapsOK, poolVars
<1>7. ASSUME Hypotheses /\ RequestsInv, NEW w \in Workers, Take(w) PROVE RequestsInv'
  <2>1. /\ on' = [on EXCEPT ![w] = Head(queue)]
        /\ queue' = Tail(queue)
        /\ queue # << >>
        /\ UNCHANGED <<i_maps, todo, delayedUpdate>>
    BY <1>7 DEF Take, mapVars, worldVars
  <2>2. /\ Len(queue) \in Nat \ {0}
        /\ Len(queue') = Len(queue) - 1
        /\ \A i \in 1 .. Len(queue') : queue'[i] = queue[i + 1]
        /\ Head(queue) = queue[1]
    BY <1>7, <2>1, HeadTailProperties, EmptySeq DEF Hypotheses, TypeInv, PoolOK
  <2>3. /\ 1 \in 1 .. Len(queue)
        /\ \A i \in 1 .. Len(queue') : i + 1 \in 1 .. Len(queue) /\ i + 1 # 1
        /\ \A i, j \in 1 .. Len(queue') : i + 1 = j + 1 => i = j
    BY <2>2, SMTT(30)
  <2>4. \A v \in Workers : on'[v] = IF v = w THEN queue[1] ELSE on[v]
    BY <1>7, <2>1, <2>2, SMTT(30) DEF Hypotheses, TypeInv, PoolOK
  <2>5. OneThreadPerMap'
    <3>1. \A i, j \in 1 .. Len(queue') : queue'[i] = queue'[j] => i = j
      BY <1>7, <2>2, <2>3, SMTT(30) DEF RequestsInv, OneThreadPerMap
    <3>2. \A v, u \in Workers : on'[v] = on'[u] /\ on'[v] # NoMap => v = u
      BY <1>7, <2>3, <2>4, SMTT(30) DEF RequestsInv, OneThreadPerMap
    <3>3. \A v \in Workers, i \in 1 .. Len(queue') : on'[v] # queue'[i]
      BY <1>7, <2>2, <2>3, <2>4, SMTT(30) DEF RequestsInv, OneThreadPerMap
    <3> QED
      BY <3>1, <3>2, <3>3 DEF OneThreadPerMap
  <2>6. UpdatedMapExists'
    BY <1>7, <2>1, <2>2, <2>3, <2>4, SMTT(30) DEF RequestsInv, UpdatedMapExists
  <2> QED
    BY <1>7, <2>1, <2>2, <2>3, <2>4, <2>5, <2>6, SMTT(30) DEF RequestsInv
<1>8. ASSUME Hypotheses /\ RequestsInv, NEW w \in Workers, UpdateFinished(w) PROVE RequestsInv'
  <2>1. on' = [on EXCEPT ![w] = NoMap] /\ UNCHANGED <<i_maps, todo, delayedUpdate, queue>>
    BY <1>8 DEF UpdateFinished, mapVars, worldVars
  <2>2. \A v \in Workers : on'[v] = IF v = w THEN NoMap ELSE on[v]
    BY <1>8, <2>1, SMTT(30) DEF Hypotheses, TypeInv, PoolOK
  <2>3. \A i \in 1 .. Len(queue) : queue[i] # NoMap
    BY <1>8, LenProperties, SMTT(30) DEF Hypotheses, TypeInv, PoolOK
  <2>4. \A m \in todo : m # NoMap
    BY <1>8, SMTT(30) DEF Hypotheses, TypeInv, WorldOK
  <2> QED
    BY <1>8, <2>1, <2>2, <2>3, <2>4, SMTT(30) DEF RequestsInv, OneThreadPerMap, UpdatedMapExists
<1>9. ASSUME Hypotheses /\ RequestsInv, UNCHANGED <<i_maps, todo, delayedUpdate, queue, on>> PROVE RequestsInv'
  BY <1>9, SMTT(30) DEF RequestsInv, OneThreadPerMap, UpdatedMapExists
<1> QED
  BY <1>1, <1>2, <1>3, <1>4, <1>5, <1>6, <1>7, <1>8, <1>9
     DEF Next, SessionStep, WorldStep, WorkerStep, HandlerStep, vars, mapVars, worldVars, poolVars,
          histVars, LeaveBetweenWalks, CloseBattleground, Reset, CrashMapCommand, WaitReturns,
          EndWalk, StopWorld, Deactivate, Join, ExitThread, RegisterThread, BeginUpdate, EndUpdate,
          ForcedUnload, UnregisterThread, LeaveInUpdate, Fault, MarkMap, UnregisterInHandler,
          FinishInHandler, KillProcess, FreezeDetect, Ended, LeaveWhileUpdated, LeaveWhileUpdated

\* Without VMSS the invariant of the requests holds in every state.
LEMMA RequestsInvariant ==
  ASSUME Vmss = FALSE
  PROVE  Spec => []RequestsInv
<1>1. Init => RequestsInv
  <2> SUFFICES ASSUME Init PROVE RequestsInv
    OBVIOUS
  <2>1. Len(queue) = 0 /\ \A w \in Workers : on[w] = NoMap
    BY EmptySeq DEF Init
  <2> QED
    BY <2>1, SMTT(30) DEF Init, RequestsInv, OneThreadPerMap, UpdatedMapExists
<1> QED
  BY <1>1, RequestsNext, TypeInvariant, PendingCorrect, WalkInvariant, HandlerInvariant, PTL
     DEF Spec, Hypotheses

\* Without VMSS no map is updated by two threads or requested twice.
THEOREM ExclusionCorrect ==
  ASSUME Vmss = FALSE
  PROVE  Spec => []OneThreadPerMap
<1>1. RequestsInv => OneThreadPerMap
  BY DEF RequestsInv
<1> QED
  BY <1>1, RequestsInvariant, PTL

\* Without VMSS no request and no worker refers to a deleted map.
THEOREM LifetimeCorrect ==
  ASSUME Vmss = FALSE
  PROVE  Spec => []UpdatedMapExists
<1>1. RequestsInv => UpdatedMapExists
  BY DEF RequestsInv
<1> QED
  BY <1>1, RequestsInvariant, PTL

-----------------------------------------------------------------------------
(* The unload timer.                                                       *)

\* The timer of an instance does not run while there are players in it, and
\* no one is left once the world has stopped.
PlayersInv ==
    /\ \A m \in Dungeons : players[m] > 0 => unloadTimer[m] = 0
    /\ \A m \in Maps : players[m] > 0 => m \in i_maps
    /\ phase \in {"unload", "deactivate", "join", "halted"} => \A m \in Maps : players[m] = 0

\* Who enters stops the timer, and only the last who leaves starts it.
LEMMA PlayersNext == TypeInv /\ PlayersInv /\ [Next]_vars => PlayersInv'
<1> USE MapUpdateAssumption
<1>1. ASSUME TypeInv /\ PlayersInv, NEW m \in Maps, Enter(m) PROVE PlayersInv'
  BY <1>1, SMTT(30) DEF TypeInv, MapsOK, PlayersInv, Maps, Enter, Sessions, CreateMap, Add, Rejected,
       mapVars, worldVars, poolVars, histVars
<1>2. ASSUME TypeInv /\ PlayersInv, NEW m \in Maps, LeaveBetweenWalks(m) PROVE PlayersInv'
  BY <1>2, SMTT(30) DEF TypeInv, MapsOK, PlayersInv, Maps, LeaveBetweenWalks, Sessions,
       LeaveWhileUpdated, Leave, TimerWhenEmpty, MIN_UNLOAD_DELAY, mapVars, worldVars, poolVars,
       histVars
<1>3. ASSUME TypeInv /\ PlayersInv, NEW m \in Maps, OpenBattleground(m) PROVE PlayersInv'
  BY <1>3, SMTT(30) DEF TypeInv, MapsOK, PlayersInv, Maps, OpenBattleground, Sessions, mapVars,
       worldVars, poolVars, histVars
<1>4. ASSUME TypeInv /\ PlayersInv, NEW m \in Maps, CloseBattleground(m) PROVE PlayersInv'
  BY <1>4, SMTT(30) DEF TypeInv, MapsOK, PlayersInv, Maps, CloseBattleground, Sessions, MIN_UNLOAD_DELAY,
       mapVars, worldVars, poolVars, histVars
<1>5. ASSUME TypeInv /\ PlayersInv, NEW m \in Maps, Reset(m) PROVE PlayersInv'
  BY <1>5, SMTT(30) DEF TypeInv, MapsOK, PlayersInv, Maps, Reset, Sessions, MIN_UNLOAD_DELAY, mapVars,
       worldVars, poolVars, histVars
<1>6. ASSUME TypeInv /\ PlayersInv, BeginWalk PROVE PlayersInv'
  BY <1>6, SMTT(30) DEF TypeInv, MapsOK, PlayersInv, Maps, BeginWalk, Sessions, mapVars, worldVars,
       poolVars, histVars
<1>7. ASSUME TypeInv /\ PlayersInv, NEW m \in Maps, VisitMap(m) PROVE PlayersInv'
  <2>1. phase = "walk" /\ phase' = phase
    BY <1>7 DEF VisitMap
  <2>2. CASE UnloadMap(m)
    BY <1>7, <2>1, <2>2, SMTT(30) DEF TypeInv, MapsOK, PlayersInv, UnloadMap, Maps
  <2>3. CASE ProcessMap(m)
    <3>1. UNCHANGED <<i_maps, players>> /\ unloadTimer' = [unloadTimer EXCEPT ![m] = IF @ = 0 THEN 0 ELSE @ - 1]
      BY <2>3 DEF ProcessMap, CountDown
    <3> QED
      BY <1>7, <2>1, <3>1, SMTT(30) DEF TypeInv, MapsOK, PlayersInv, Maps
  <2> QED
    BY <1>7, <2>2, <2>3 DEF VisitMap
<1>8. ASSUME TypeInv /\ PlayersInv, WaitReturns PROVE PlayersInv'
  BY <1>8, SMTT(30) DEF TypeInv, MapsOK, PlayersInv, Maps, WaitReturns, Wait, mapVars, worldVars,
       poolVars, histVars
<1>9. ASSUME TypeInv /\ PlayersInv, EndWalk PROVE PlayersInv'
  BY <1>9, SMTT(30) DEF TypeInv, MapsOK, PlayersInv, Maps, EndWalk, mapVars, worldVars, poolVars,
       histVars
<1>10. ASSUME TypeInv /\ PlayersInv, StopWorld PROVE PlayersInv'
  BY <1>10, SMTT(30) DEF TypeInv, MapsOK, PlayersInv, Maps, StopWorld, Sessions, TimerWhenEmpty,
       MIN_UNLOAD_DELAY, mapVars, worldVars, poolVars, histVars
<1>11. ASSUME TypeInv /\ PlayersInv, UnloadAll PROVE PlayersInv'
  BY <1>11, SMTT(30) DEF TypeInv, MapsOK, PlayersInv, Maps, UnloadAll, mapVars, worldVars, poolVars,
       histVars
<1>12. ASSUME TypeInv /\ PlayersInv, Deactivate PROVE PlayersInv'
  BY <1>12, SMTT(30) DEF TypeInv, MapsOK, PlayersInv, Maps, Deactivate, Wait, mapVars, worldVars,
       poolVars, histVars
<1>13. ASSUME TypeInv /\ PlayersInv, Join PROVE PlayersInv'
  BY <1>13, SMTT(30) DEF TypeInv, MapsOK, PlayersInv, Maps, Join, mapVars, worldVars, poolVars, histVars
<1>14. ASSUME TypeInv /\ PlayersInv, NEW w \in Workers, ForcedUnload(w) PROVE PlayersInv'
  <2>1. on[w] \in Maps
    BY <1>14, SMTT(30) DEF TypeInv, WorkersInv, PoolOK, ForcedUnload, Moves
  <2> QED
    BY <1>14, <2>1, SMTT(30) DEF TypeInv, MapsOK, PlayersInv, ForcedUnload, Moves, LeaveWhileUpdated, Leave, TimerWhenEmpty, MIN_UNLOAD_DELAY, mapVars, worldVars, Maps
<1>15. ASSUME TypeInv /\ PlayersInv, NEW w \in Workers, LeaveInUpdate(w) PROVE PlayersInv'
  <2>1. on[w] \in Maps
    BY <1>15, SMTT(30) DEF TypeInv, WorkersInv, PoolOK, LeaveInUpdate, Moves
  <2> QED
    BY <1>15, <2>1, SMTT(30) DEF TypeInv, MapsOK, PlayersInv, LeaveInUpdate, Moves, LeaveWhileUpdated, Leave, TimerWhenEmpty, MIN_UNLOAD_DELAY, mapVars, worldVars, Maps
<1>16. ASSUME TypeInv /\ PlayersInv, UNCHANGED <<i_maps, players, unloadTimer, phase>> PROVE PlayersInv'
  BY <1>16, SMTT(30) DEF TypeInv, MapsOK, PlayersInv, Maps
<1> QED
  BY <1>1, <1>2, <1>3, <1>4, <1>5, <1>6, <1>7, <1>8, <1>9, <1>10, <1>11, <1>12, <1>13, <1>14, <1>15,
       <1>16
     DEF Next, SessionStep, WorldStep, WorkerStep, HandlerStep, vars, mapVars, worldVars, poolVars,
          histVars, CrashMapCommand, DelayedUpdate, Take, ExitThread, RegisterThread, BeginUpdate,
          EndUpdate, UnregisterThread, UpdateFinished, Fault, MarkMap, UnregisterInHandler,
          FinishInHandler, KillProcess, FreezeDetect, Ended

\* The invariant of players and unload timers holds in every state.
LEMMA PlayersInvariant == Spec => []PlayersInv
<1>1. Init => PlayersInv
  BY SMTT(30) DEF Init, PlayersInv, Maps
<1> QED
  BY <1>1, PlayersNext, TypeInvariant, PTL DEF Spec

\* The step that deletes a dungeon, if there is one.
NobodyInDeleted == \A m \in Dungeons : m \in i_maps /\ m \notin i_maps' => players[m] = 0

\* A dungeon is deleted by the walk, after its timer, or when the world has stopped.
LEMMA NobodyInDeletedNext == TypeInv /\ PlayersInv /\ [Next]_vars => NobodyInDeleted
<1> USE MapUpdateAssumption
<1>1. ASSUME TypeInv /\ PlayersInv, NEW m \in Maps, Enter(m) PROVE NobodyInDeleted
  BY <1>1, SMTT(30) DEF TypeInv, MapsOK, PlayersInv, NobodyInDeleted, Maps, Enter, Sessions, CreateMap,
       Add, Rejected, mapVars, worldVars, poolVars, histVars
<1>2. ASSUME TypeInv /\ PlayersInv, NEW m \in Maps, OpenBattleground(m) PROVE NobodyInDeleted
  BY <1>2, SMTT(30) DEF TypeInv, MapsOK, PlayersInv, NobodyInDeleted, Maps, OpenBattleground, Sessions,
       mapVars, worldVars, poolVars, histVars
<1>3. ASSUME TypeInv /\ PlayersInv, NEW m \in Maps, VisitMap(m) PROVE NobodyInDeleted
  <2>1. CASE UnloadMap(m)
    BY <1>3, <2>1, SMTT(30) DEF TypeInv, MapsOK, PlayersInv, NobodyInDeleted, UnloadMap, CanUnload, Maps
  <2>2. CASE ProcessMap(m)
    BY <2>2, SMTT(30) DEF NobodyInDeleted, ProcessMap
  <2> QED
    BY <1>3, <2>1, <2>2 DEF VisitMap
<1>4. ASSUME TypeInv /\ PlayersInv, UnloadAll PROVE NobodyInDeleted
  BY <1>4, SMTT(30) DEF TypeInv, MapsOK, PlayersInv, NobodyInDeleted, Maps, UnloadAll, mapVars,
       worldVars, poolVars, histVars
<1>5. ASSUME TypeInv /\ PlayersInv, UNCHANGED <<i_maps>> PROVE NobodyInDeleted
  BY <1>5, SMTT(30) DEF TypeInv, MapsOK, PlayersInv, NobodyInDeleted, Maps
<1> QED
  BY <1>1, <1>2, <1>3, <1>4, <1>5
     DEF Next, SessionStep, WorldStep, WorkerStep, HandlerStep, vars, mapVars, worldVars, poolVars,
          histVars, LeaveBetweenWalks, CloseBattleground, Reset, CrashMapCommand, BeginWalk,
          DelayedUpdate, WaitReturns, EndWalk, StopWorld, Deactivate, Join, Take, ExitThread,
          RegisterThread, BeginUpdate, EndUpdate, ForcedUnload, UnregisterThread, UpdateFinished,
          LeaveInUpdate, Fault, MarkMap, UnregisterInHandler, FinishInHandler, KillProcess,
          FreezeDetect, Ended, LeaveWhileUpdated, LeaveWhileUpdated

\* No dungeon is ever deleted with players inside.
THEOREM UnloadCorrect == Spec => NoPlayersAtUnload
<1>1. TypeInv /\ PlayersInv /\ [Next]_vars
        => [\A m \in Dungeons : m \in i_maps /\ m \notin i_maps' => players[m] = 0]_vars
  BY NobodyInDeletedNext DEF NobodyInDeleted
<1> QED
  BY <1>1, TypeInvariant, PlayersInvariant, PTL DEF Spec, NoPlayersAtUnload

\* A thread is registered for the map it works on, and only while it does.
LEMMA RegisteredFromType == TypeInv => RegisteredThreadUpdates
  BY SMTT(30) DEF TypeInv, WorkersInv, RegisteredThreadUpdates, Busy, Updating, Handling

\* The signal handler leaves the count of the requests and the registration of
\* the threads as the worker would have.
THEOREM BooksCorrect == Spec => []SignalKeepsTheBooks
<1>1. PendingCountsRequests /\ RegisteredThreadUpdates => SignalKeepsTheBooks
  BY DEF SignalKeepsTheBooks
<1> QED
  BY <1>1, RegisteredFromType, TypeInvariant, PendingCorrect, PTL

-----------------------------------------------------------------------------
(* One update of every map.                                                *)

\* The maps whose requested update has not been run yet.
BeforeItsEnd == {"taken", "registered", "update", "forced"}
Awaited == {queue[i] : i \in 1 .. Len(queue)} \cup {on[w] : w \in {v \in Workers : at[v] \in BeforeItsEnd}}

\* A map gets on the list when its update is requested or refused, and what has
\* been requested is awaited or has been run, once.
OnceInv ==
    /\ phase = "walk" =>
          /\ \A m \in Maps \ delayedUpdate : ran[m] = 0 /\ m \notin refused
          /\ Awaited \subseteq delayedUpdate \ refused
    /\ phase \in {"walk", "delayed"} =>
          \A m \in delayedUpdate : ran[m] = IF m \in refused \cup Awaited THEN 0 ELSE 1

\* What Append and Tail do to the elements.
LEMMA ElementsOfAppend ==
  ASSUME NEW S, NEW q \in Seq(S), NEW m \in S
  PROVE  {Append(q, m)[i] : i \in 1 .. Len(Append(q, m))} = {q[i] : i \in 1 .. Len(q)} \cup {m}
<1>1. /\ Len(Append(q, m)) = Len(q) + 1 /\ Len(q) \in Nat
      /\ Append(q, m)[Len(q) + 1] = m /\ \A i \in 1 .. Len(q) : Append(q, m)[i] = q[i]
  BY AppendProperties, LenProperties
<1>2. 1 .. Len(q) + 1 = (1 .. Len(q)) \cup {Len(q) + 1}
  BY <1>1, SMTT(30)
<1> QED
  BY <1>1, <1>2

\* The elements of a queue are its head and those of its tail.
LEMMA ElementsOfTail ==
  ASSUME NEW S, NEW q \in Seq(S), q # << >>
  PROVE  {q[i] : i \in 1 .. Len(q)} = {Tail(q)[i] : i \in 1 .. Len(Tail(q))} \cup {Head(q)}
<1>1. /\ Len(q) \in Nat \ {0} /\ Len(Tail(q)) = Len(q) - 1 /\ Head(q) = q[1]
      /\ \A i \in 1 .. Len(q) - 1 : Tail(q)[i] = q[i + 1]
  BY HeadTailProperties, EmptySeq
<1>2. ASSUME NEW i \in 1 .. Len(q) - 1 PROVE i + 1 \in 1 .. Len(q)
  BY <1>1, SMTT(30)
<1>3. ASSUME NEW i \in 1 .. Len(q), i # 1
      PROVE  i - 1 \in 1 .. Len(q) - 1 /\ q[i] = Tail(q)[i - 1]
  BY <1>1, <1>3, SMTT(30)
<1>4. 1 \in 1 .. Len(q)
  BY <1>1, SMTT(30)
<1>5. {q[i] : i \in 1 .. Len(q)} \subseteq {Tail(q)[i] : i \in 1 .. Len(q) - 1} \cup {Head(q)}
  BY <1>1, <1>3
<1>6. {Tail(q)[i] : i \in 1 .. Len(q) - 1} \subseteq {q[i] : i \in 1 .. Len(q)}
  BY <1>1, <1>2
<1>7. Head(q) \in {q[i] : i \in 1 .. Len(q)}
  BY <1>1, <1>4
<1> QED
  BY <1>1, <1>5, <1>6, <1>7

\* An update that ends is awaited no more: nobody else has the map.
LEMMA AwaitedEnds ==
  ASSUME TypeInv, RequestsInv, NEW w \in Workers, at[w] \in BeforeItsEnd,
         at' = [at EXCEPT ![w] = "ran"], UNCHANGED <<queue, on>>
  PROVE  on[w] \in Awaited /\ Awaited' = Awaited \ {on[w]}
<1>1. at \in [Workers -> Places] /\ on[w] # NoMap
  BY SMTT(30) DEF TypeInv, PoolOK, WorkersInv, BeforeItsEnd
<1>2. \A v \in Workers : at'[v] = IF v = w THEN "ran" ELSE at[v]
  BY <1>1
<1>3. \A v \in Workers : on[v] = on[w] => v = w
  BY <1>1 DEF RequestsInv, OneThreadPerMap
<1>4. \A i \in 1 .. Len(queue) : queue[i] # on[w]
  BY DEF RequestsInv, OneThreadPerMap
<1>5. {v \in Workers : at'[v] \in BeforeItsEnd} = {v \in Workers : at[v] \in BeforeItsEnd} \ {w}
  BY <1>2 DEF BeforeItsEnd
<1> QED
  BY <1>3, <1>4, <1>5 DEF Awaited

\* The other steps of a worker change nothing of it.
LEMMA AwaitedStays ==
  ASSUME TypeInv, NEW w \in Workers, NEW place, at' = [at EXCEPT ![w] = place],
         UNCHANGED <<queue, on>>, at[w] \in BeforeItsEnd <=> place \in BeforeItsEnd
  PROVE  Awaited' = Awaited
<1>1. at \in [Workers -> Places]
  BY DEF TypeInv, PoolOK
<1>2. \A v \in Workers : at'[v] \in BeforeItsEnd <=> at[v] \in BeforeItsEnd
  BY <1>1
<1> QED
  BY <1>2 DEF Awaited

\* Outside the walk no update is awaited.
LEMMA NothingAwaited ==
  ASSUME TypeInv, PendingCountsRequests, WalkInv, NoHandler, phase # "walk"
  PROVE  Awaited = {}
<1>1. queue = << >> /\ Busy = {}
  BY IdleOutsideWalk
<1>2. Len(queue) = 0
  BY <1>1, EmptySeq
<1> QED
  BY <1>1, <1>2, SMTT(30) DEF Awaited, Busy, Updating, BeforeItsEnd

OnceHypotheses == Hypotheses /\ RequestsInv /\ OnceInv

\* Only the visit of a map, and the end of an update, change what OnceInv says.
LEMMA OnceNext ==
  ASSUME Vmss = FALSE
  PROVE  OnceHypotheses /\ [Next]_vars => OnceInv'
<1> SUFFICES ASSUME OnceHypotheses, [Next]_vars PROVE OnceInv'
  OBVIOUS
<1> USE DEF OnceHypotheses
<1>1. /\ queue \in Seq(Maps) /\ at \in [Workers -> Places] /\ on \in [Workers -> Maps \cup {NoMap}]
      /\ ran \in [Maps -> Nat] /\ TypeInv
  BY DEF Hypotheses, TypeInv, PoolOK, HistoryOK
<1>2. \A w \in Workers : at[w] \notin Handling \cup {"kill"}
  BY DEF Hypotheses, NoHandler
<1>3. ASSUME UNCHANGED <<phase, delayedUpdate, ran, refused>>, Awaited' = Awaited PROVE OnceInv'
  BY <1>3 DEF OnceInv
<1>4. ASSUME phase # "walk" PROVE Awaited = {}
  BY <1>4, NothingAwaited DEF Hypotheses
<1>5. ASSUME UNCHANGED <<queue, at, on>> PROVE Awaited' = Awaited
  BY <1>5 DEF Awaited
<1>6. CASE SessionStep \/ StopWorld
  <2>1. phase = "sessions" /\ phase' \in {"sessions", "unload"}
    BY <1>6 DEF SessionStep, StopWorld, Sessions, Enter, LeaveBetweenWalks, OpenBattleground,
                CloseBattleground, Reset, CrashMapCommand, worldVars
  <2> QED
    BY <2>1 DEF OnceInv
<1>7. CASE BeginWalk
  <2>1. /\ phase = "sessions" /\ phase' = "walk" /\ delayedUpdate' = delayedUpdate
        /\ ran' = [m \in Maps |-> 0] /\ refused' = {} /\ UNCHANGED <<queue, at, on>>
    BY <1>7 DEF BeginWalk, Sessions, poolVars
  <2>2. Awaited' = {} /\ delayedUpdate = {}
    BY <1>4, <1>5, <2>1 DEF Hypotheses, WalkInv
  <2> QED
    BY <2>1, <2>2 DEF OnceInv
<1>8. ASSUME NEW m \in Maps, VisitMap(m) PROVE OnceInv'
  <2>1. phase = "walk" /\ phase' = phase /\ m \in todo /\ ran' = ran
    BY <1>8 DEF VisitMap
  <2>2. m \notin delayedUpdate /\ ran[m] = 0 /\ m \notin refused /\ m \notin Awaited
    BY <2>1 DEF RequestsInv, OnceInv
  <2>3. CASE UnloadMap(m)
    BY <1>3, <1>5, <2>1, <2>3 DEF UnloadMap, poolVars
  <2>4. CASE ProcessMap(m)
    <3>1. CASE UNCHANGED <<poolVars, refused, delayedUpdate>>
      BY <1>3, <1>5, <2>1, <3>1 DEF poolVars
    <3>2. CASE ScheduleUpdate(m) /\ delayedUpdate' = delayedUpdate \cup {m}
      <4>1. CASE queue' = Append(queue, m) /\ refused' = refused
        <5>1. Awaited' = Awaited \cup {m}
          BY <1>1, <3>2, <4>1, ElementsOfAppend DEF Awaited, ScheduleUpdate
        <5> QED
          BY <2>1, <2>2, <3>2, <4>1, <5>1 DEF OnceInv
      <4>2. CASE queue' = queue /\ refused' = refused \cup {m}
        <5>1. Awaited' = Awaited
          BY <1>5, <3>2, <4>2 DEF ScheduleUpdate
        <5> QED
          BY <2>1, <2>2, <3>2, <4>2, <5>1 DEF OnceInv
      <4> QED
        BY <3>2, <4>1, <4>2 DEF ScheduleUpdate
    <3> QED
      BY <2>4, <3>1, <3>2 DEF ProcessMap
  <2> QED
    BY <1>8, <2>3, <2>4 DEF VisitMap
<1>9. ASSUME NEW m \in Maps, DelayedUpdate(m) PROVE OnceInv'
  <2>1. /\ phase = "delayed" /\ delayedUpdate' \subseteq delayedUpdate
        /\ UNCHANGED <<phase, ran, refused, queue, at, on>>
    BY <1>9 DEF DelayedUpdate, poolVars, histVars
  <2> QED
    BY <1>5, <2>1 DEF OnceInv
<1>10. CASE WaitReturns
  <2>1. phase = "walk" /\ phase' = "delayed" /\ UNCHANGED <<delayedUpdate, ran, refused, queue, at, on>>
    BY <1>10 DEF WaitReturns, poolVars, histVars
  <2> QED
    BY <1>5, <2>1 DEF OnceInv
<1>11. CASE EndWalk \/ UnloadAll \/ Deactivate \/ Join
  BY <1>11 DEF EndWalk, UnloadAll, Deactivate, Join, OnceInv
<1>12. ASSUME NEW w \in Workers, Take(w) PROVE OnceInv'
  <2>1. /\ at' = [at EXCEPT ![w] = "taken"] /\ on' = [on EXCEPT ![w] = Head(queue)]
        /\ queue # << >> /\ queue' = Tail(queue) /\ at[w] = "idle"
        /\ UNCHANGED <<phase, delayedUpdate, ran, refused>>
    BY <1>12 DEF Take, Moves, worldVars, histVars
  <2>2. \A v \in Workers : /\ at'[v] = IF v = w THEN "taken" ELSE at[v]
                           /\ on'[v] = IF v = w THEN Head(queue) ELSE on[v]
    BY <1>1, <2>1
  <2>3. {v \in Workers : at'[v] \in BeforeItsEnd} = {v \in Workers : at[v] \in BeforeItsEnd} \cup {w}
    BY <2>1, <2>2 DEF BeforeItsEnd
  <2>4. w \notin {v \in Workers : at[v] \in BeforeItsEnd}
    BY <2>1 DEF BeforeItsEnd
  <2>5. {on'[v] : v \in {u \in Workers : at'[u] \in BeforeItsEnd}}
          = {on[v] : v \in {u \in Workers : at[u] \in BeforeItsEnd}} \cup {Head(queue)}
    BY <2>2, <2>3, <2>4
  <2>6. {queue[i] : i \in 1 .. Len(queue)} = {queue'[i] : i \in 1 .. Len(queue')} \cup {Head(queue)}
    BY <1>1, <2>1, ElementsOfTail
  <2>7. Awaited' = Awaited
    BY <2>5, <2>6 DEF Awaited
  <2> QED
    BY <1>3, <2>1, <2>7
<1>13. ASSUME NEW w \in Workers,
              ExitThread(w) \/ RegisterThread(w) \/ BeginUpdate(w) \/ UnregisterThread(w)
       PROVE  OnceInv'
  <2>1. UNCHANGED <<phase, delayedUpdate, ran, refused, queue, on>>
    BY <1>13 DEF ExitThread, RegisterThread, BeginUpdate, UnregisterThread, worldVars, histVars
  <2>2. \E place : /\ at' = [at EXCEPT ![w] = place]
                   /\ at[w] \in BeforeItsEnd <=> place \in BeforeItsEnd
    BY <1>13 DEF ExitThread, RegisterThread, BeginUpdate, UnregisterThread, Moves, BeforeItsEnd
  <2>3. Awaited' = Awaited
    BY <1>1, <2>1, <2>2, AwaitedStays
  <2> QED
    BY <1>3, <2>1, <2>3
<1>14. ASSUME NEW w \in Workers, EndUpdate(w) \/ ForcedUnload(w) PROVE OnceInv'
  <2>1. /\ at[w] \in BeforeItsEnd /\ at' = [at EXCEPT ![w] = "ran"]
        /\ ran' = [ran EXCEPT ![on[w]] = @ + 1]
        /\ UNCHANGED <<phase, delayedUpdate, refused, queue, on>>
    BY <1>14 DEF EndUpdate, ForcedUnload, Moves, BeforeItsEnd, worldVars
  <2>2. on[w] \in Awaited /\ Awaited' = Awaited \ {on[w]}
    BY <1>1, <2>1, AwaitedEnds
  <2>3. phase = "walk"
    BY <1>4, <2>2
  <2>4. on[w] \in delayedUpdate /\ on[w] \notin refused /\ ran[on[w]] = 0
    BY <2>2, <2>3 DEF OnceInv
  <2>5. delayedUpdate \subseteq Maps
    BY <1>1 DEF TypeInv, WorldOK
  <2>6. \A m \in Maps : ran'[m] = IF m = on[w] THEN 1 ELSE ran[m]
    BY <1>1, <2>1, <2>4, <2>5
  <2> QED
    BY <2>1, <2>2, <2>3, <2>4, <2>5, <2>6 DEF OnceInv
<1>15. ASSUME NEW w \in Workers, UpdateFinished(w) PROVE OnceInv'
  <2>1. /\ at[w] = "unregistered" /\ at' = [at EXCEPT ![w] = "idle"]
        /\ on' = [on EXCEPT ![w] = NoMap]
        /\ UNCHANGED <<phase, delayedUpdate, ran, refused, queue>>
    BY <1>15 DEF UpdateFinished, Moves, worldVars, histVars
  <2>2. \A v \in Workers : v # w => at'[v] = at[v] /\ on'[v] = on[v]
    BY <1>1, <2>1
  <2>3. at'[w] \notin BeforeItsEnd /\ at[w] \notin BeforeItsEnd
    BY <1>1, <2>1 DEF BeforeItsEnd
  <2>4. Awaited' = Awaited
    BY <2>1, <2>2, <2>3 DEF Awaited
  <2> QED
    BY <1>3, <2>1, <2>4
<1>16. ASSUME NEW w \in Workers, LeaveInUpdate(w) PROVE OnceInv'
  BY <1>3, <1>5, <1>16 DEF LeaveInUpdate, worldVars, poolVars, histVars
<1>17. ASSUME NEW w \in Workers, HandlerStep(w) PROVE OnceInv'
  BY <1>2, <1>17 DEF HandlerStep, MarkMap, UnregisterInHandler, FinishInHandler, KillProcess, Moves,
                     Handling
<1>18. ASSUME UNCHANGED <<worldVars, poolVars, histVars>> PROVE OnceInv'
  BY <1>3, <1>5, <1>18 DEF worldVars, poolVars, histVars
<1>19. CASE FreezeDetect
  BY <1>3, <1>5, <1>19 DEF FreezeDetect, Signal, worldVars, histVars
<1>20. ASSUME NEW w \in Workers, Fault(w) PROVE OnceInv'
  BY <1>3, <1>5, <1>20 DEF Fault, Signal, worldVars, histVars
<1>21. CASE Ended \/ UNCHANGED vars
  BY <1>18, <1>21 DEF Ended, vars
<1> QED
  BY <1>6, <1>7, <1>8, <1>9, <1>10, <1>11, <1>12, <1>13, <1>14, <1>15, <1>16, <1>17, <1>19, <1>20,
     <1>21 DEF Next, WorldStep, WorkerStep

\* Without VMSS the invariant of who was updated holds in every state.
LEMMA OnceInvariant ==
  ASSUME Vmss = FALSE
  PROVE  Spec => []OnceInv
<1>1. Init => OnceInv
  BY DEF Init, OnceInv
<1>2. OnceHypotheses /\ [Next]_vars => OnceInv'
  BY OnceNext
<1>3. Spec => []NoHandler
  BY HandlerInvariant
<1>4. Spec => []RequestsInv
  BY RequestsInvariant
<1> QED
  BY <1>1, <1>2, <1>3, <1>4, TypeInvariant, PendingCorrect, WalkInvariant, PTL
     DEF Spec, OnceHypotheses, Hypotheses

\* On a server that leaves the crash signals alone, every map on the list of the
\* delayed updates was updated exactly once by the time the walk gets to that
\* list, unless the queue had refused its request (MapManager::Update,
\* MapUpdater::schedule_update): no update is lost, doubled or still running.
THEOREM OnceCorrect ==
  ASSUME Vmss = FALSE
  PROVE  Spec => []UpdatedOncePerWalk
<1>1. Hypotheses /\ OnceInv => UpdatedOncePerWalk
  <2> SUFFICES ASSUME Hypotheses, OnceInv, phase = "delayed" PROVE UpdatedOncePerWalk
    BY DEF UpdatedOncePerWalk
  <2>1. Awaited = {}
    BY NothingAwaited DEF Hypotheses
  <2>2. delayedUpdate \subseteq Maps
    BY DEF Hypotheses, TypeInv, WorldOK
  <2> QED
    BY <2>1, <2>2 DEF OnceInv, UpdatedOncePerWalk
<1>2. Spec => []NoHandler
  BY HandlerInvariant
<1>3. Spec => []OnceInv
  BY OnceInvariant
<1> QED
  BY <1>1, <1>2, <1>3, TypeInvariant, PendingCorrect, WalkInvariant, PTL DEF Hypotheses
=============================================================================
