------------------------------ MODULE AsyncDb ------------------------------
(***************************************************************************)
(* One Database object of the world server (the server has three): the     *)
(* transactions its callers build per thread, the queue of its delay       *)
(* thread, the lock of the one connection all writes go through, the       *)
(* result queue the world thread drains, and its life from start-up to     *)
(* HaltDelayThread.                                                        *)
(*                                                                         *)
(* The statements' text is abstracted to the operation that carries them   *)
(* and their position in it.  The MySQL server is external: it is modelled *)
(* as the log of the statements it made durable and the open transaction   *)
(* of the connection.                                                      *)
(***************************************************************************)
EXTENDS Naturals, Sequences, FiniteSets

CONSTANTS
    Threads,        \* the threads that call the Database object
    Main,           \* the thread of Master::Run
    World,          \* the thread of WorldRunnable::run
    DelayThread,    \* the executor of SqlDelayThread::ProcessRequests
    NoOne,          \* no executor holds the lock of the connection
    MaxOps,         \* bound: operations issued
    MaxSize,        \* bound: statements of a transaction, queries of a holder
    MaxFailures,    \* bound: statements the server refuses
    MaxDrops        \* bound: times the connection is lost and made again

ASSUME AsyncDbAssumption ==
    /\ Main \in Threads
    /\ World \in Threads
    /\ Main # World
    /\ DelayThread \notin Threads
    /\ NoOne \notin Threads \cup {DelayThread}
    /\ MaxOps \in Nat
    /\ MaxSize \in Nat \ {0}
    /\ MaxFailures \in Nat
    /\ MaxDrops \in Nat

VARIABLES
    allowAsync,     \* m_bAllowAsyncTransactions
    live,           \* the threads that run
    trans,          \* m_TransStorage: statements of each thread's open transaction
    sqlQueue,       \* SqlDelayThread::m_sqlQueue
    running,        \* SqlDelayThread::m_running
    phase,          \* where the delay thread, then HaltDelayThread, is
    exec,           \* the operation each executor runs: a sequence of at most one
    lockOwner,      \* the executor that holds SqlConnection::m_mutex of m_pAsyncConn
    pos,            \* the next statement of the lock owner's operation
    inTrans,        \* server: a transaction is open on the connection
    uncommitted,    \* server: its statements
    db,             \* server: the statements made durable, in order
    resultQueue,    \* Database::m_pResultQueue
    issued,         \* history: operations issued
    delayed,        \* history: operations passed to Delay, in order
    finished,       \* history: delayed operations executed, in order
    seen,           \* history: for each query, the durable statements each of its reads saw
    called,         \* history: queries whose callback ran, in order
    acked,          \* history: plain statements reported successful
    failures, drops \* history: the server's refusals and lost connections

callerVars == <<allowAsync, live, trans>>
threadVars == <<sqlQueue, running, phase>>
connVars   == <<exec, lockOwner, pos>>
serverVars == <<inTrans, uncommitted, db>>
queryVars  == <<resultQueue, seen, called>>
histVars   == <<issued, delayed, finished, acked, failures, drops>>
vars == <<callerVars, threadVars, connVars, serverVars, queryVars, histVars>>

NoTrans == MaxSize + 1      \* trans[t] when m_pTrans is NULL

Executors == Threads \cup {DelayThread}
Kinds == {"stmt", "trans", "query"}
Operation ==
    {op \in [id : 1 .. MaxOps, by : Threads, kind : Kinds, size : 0 .. MaxSize] :
        op.kind = "stmt" => op.size = 1}
Statement == [op : 1 .. MaxOps, n : 1 .. MaxSize]
Phases == {"sleep", "drain", "check", "exited", "flush", "gone"}

Store == INSTANCE AtomicStore WITH
    Operations <- Operation,
    pending <- exec[DelayThread] \o sqlQueue,
    log <- db

-----------------------------------------------------------------------------
Init ==
    /\ allowAsync = FALSE
    /\ live = {Main}
    /\ trans = [t \in Threads |-> NoTrans]
    /\ sqlQueue = << >>
    /\ running = TRUE
    /\ phase = "sleep"
    /\ exec = [e \in Executors |-> << >>]
    /\ lockOwner = NoOne
    /\ pos = 1
    /\ inTrans = FALSE
    /\ uncommitted = << >>
    /\ db = << >>
    /\ resultQueue = << >>
    /\ issued = 0
    /\ delayed = << >>
    /\ finished = << >>
    /\ seen = [i \in 1 .. MaxOps |-> << >>]
    /\ called = << >>
    /\ acked = {}
    /\ failures = 0
    /\ drops = 0

\* A thread that runs and is not inside a direct transaction of its own; Main
\* is in HaltDelayThread once it has stopped the delay thread.
Ready(t) ==
    /\ t \in live
    /\ exec[t] = << >>
    /\ t = Main => running

\* While the server is up Main waits for the other threads: of all calls it
\* makes only the direct updates of the realm list then.
Calling(t) == Ready(t) /\ (t = Main => ~allowAsync \/ live = {Main})

\* The next operation a caller builds.
NewOp(t, kind, size) == [id |-> issued + 1, by |-> t, kind |-> kind, size |-> size]

\* A queue that puts the newest operation first.
DelayMutant(op) ==
    /\ sqlQueue' = <<op>> \o sqlQueue
    /\ delayed' = Append(delayed, op)
    /\ issued' = op.id

\* SqlDelayThread::Delay: the operation goes to the end of m_sqlQueue.
Delay(op) ==
    /\ sqlQueue' = Append(sqlQueue, op)
    /\ delayed' = Append(delayed, op)
    /\ issued' = op.id

\* A statement reaches the server: it joins the open transaction of the
\* connection or, under autocommit, is durable at once.
ServerExecute(s) ==
    IF inTrans
    THEN uncommitted' = Append(uncommitted, s) /\ UNCHANGED db
    ELSE db' = Append(db, s) /\ UNCHANGED uncommitted

\* LOCK_DB_CONN: the connection can be locked when no one holds it.
LockFreeMutant == TRUE      \* no lock
LockFree == lockOwner = NoOne

\* Database::DirectExecute: lock the connection, execute, unlock.
DirectExecute(t) ==
    /\ Ready(t)
    /\ issued < MaxOps
    /\ LockFree
    /\ issued' = issued + 1
    /\ \/ /\ ServerExecute([op |-> issued + 1, n |-> 1])
          /\ acked' = acked \cup {issued + 1}
          /\ UNCHANGED failures
       \/ /\ failures < MaxFailures
          /\ failures' = failures + 1
          /\ UNCHANGED <<uncommitted, db, acked>>
    /\ UNCHANGED <<callerVars, threadVars, connVars, inTrans, queryVars,
                   delayed, finished, drops>>

-----------------------------------------------------------------------------
(* The callers.                                                            *)

\* Database::BeginTransaction; TransHelper::init asserts no transaction is open.
BeginTransaction(t) ==
    /\ Calling(t)
    /\ trans[t] = NoTrans
    /\ issued < MaxOps
    /\ trans' = [trans EXCEPT ![t] = 0]
    /\ UNCHANGED <<allowAsync, live, threadVars, connVars, serverVars, queryVars, histVars>>

\* Database::Execute and ExecuteStmt inside a transaction of the thread.
ExecuteInTransaction(t) ==
    /\ Calling(t)
    /\ trans[t] < MaxSize
    /\ trans' = [trans EXCEPT ![t] = @ + 1]
    /\ UNCHANGED <<allowAsync, live, threadVars, connVars, serverVars, queryVars, histVars>>

\* Database::Execute and ExecuteStmt outside one, once the server has started;
\* before that they are DirectExecute.
ExecuteDelayed(t) ==
    /\ Calling(t)
    /\ trans[t] = NoTrans
    /\ allowAsync
    /\ issued < MaxOps
    /\ Delay(NewOp(t, "stmt", 1))
    /\ UNCHANGED <<callerVars, running, phase, connVars, serverVars, queryVars,
                   finished, acked, failures, drops>>

\* Database::CommitTransaction: the transaction is delayed.
CommitTransaction(t) ==
    /\ Calling(t)
    /\ trans[t] # NoTrans
    /\ allowAsync
    /\ issued < MaxOps
    /\ Delay(NewOp(t, "trans", trans[t]))
    /\ trans' = [trans EXCEPT ![t] = NoTrans]
    /\ UNCHANGED <<allowAsync, live, running, phase, connVars, serverVars, queryVars,
                   finished, acked, failures, drops>>

\* Database::CommitTransactionDirect, which CommitTransaction turns into
\* during start-up: the calling thread executes the transaction itself.
CommitTransactionDirect(t) ==
    /\ Calling(t)
    /\ trans[t] # NoTrans
    /\ ~allowAsync
    /\ issued < MaxOps
    /\ trans' = [trans EXCEPT ![t] = NoTrans]
    /\ exec' = [exec EXCEPT ![t] = <<NewOp(t, "trans", trans[t])>>]
    /\ issued' = issued + 1
    /\ UNCHANGED <<allowAsync, live, threadVars, lockOwner, pos, serverVars, queryVars,
                   delayed, finished, acked, failures, drops>>

\* Database::RollbackTransaction: TransHelper::reset.
RollbackTransaction(t) ==
    /\ Calling(t)
    /\ trans[t] # NoTrans
    /\ trans' = [trans EXCEPT ![t] = NoTrans]
    /\ UNCHANGED <<allowAsync, live, threadVars, connVars, serverVars, queryVars, histVars>>

\* Database::AsyncQuery and DelayQueryHolder: always delayed, whether or not
\* the thread has a transaction open and whether or not the server has started.
AsyncQuery(t) ==
    /\ Calling(t)
    /\ issued < MaxOps
    /\ \E size \in 1 .. MaxSize : Delay(NewOp(t, "query", size))
    /\ UNCHANGED <<callerVars, running, phase, connVars, serverVars, queryVars,
                   finished, acked, failures, drops>>

\* A result queue read from its end.
UpdateResultQueueMutant ==
    /\ World \in live
    /\ resultQueue # << >>
    /\ called' = Append(called, resultQueue[Len(resultQueue)])
    /\ resultQueue' = SubSeq(resultQueue, 1, Len(resultQueue) - 1)
    /\ UNCHANGED <<callerVars, threadVars, connVars, serverVars, seen, histVars>>

\* SqlResultQueue::Update, from World::UpdateResultQueue: the world thread
\* takes the oldest callback and executes it.
UpdateResultQueue ==
    /\ World \in live
    /\ resultQueue # << >>
    /\ called' = Append(called, Head(resultQueue))
    /\ resultQueue' = Tail(resultQueue)
    /\ UNCHANGED <<callerVars, threadVars, connVars, serverVars, seen, histVars>>

-----------------------------------------------------------------------------
(* Executing an operation on the connection: SqlPlainRequest::Execute,     *)
(* SqlTransaction::Execute, SqlQuery::Execute and SqlQueryHolderEx::Execute *)
(* by executor e.  The lock is recursive, so the statements of a           *)
(* transaction take the lock their transaction holds.                      *)

Op(e) == Head(exec[e])

\* The executor leaves its operation and the lock.
Leave(e) ==
    /\ exec' = [exec EXCEPT ![e] = << >>]
    /\ lockOwner' = NoOne
    /\ pos' = 1
    /\ finished' = IF e = DelayThread THEN Append(finished, Op(e)) ELSE finished

\* A plain statement: lock, execute, unlock.
RunPlain(e) ==
    /\ exec[e] # << >>
    /\ Op(e).kind = "stmt"
    /\ LockFree
    /\ \/ /\ ServerExecute([op |-> Op(e).id, n |-> 1])
          /\ acked' = acked \cup {Op(e).id}
          /\ UNCHANGED failures
       \/ /\ failures < MaxFailures
          /\ failures' = failures + 1
          /\ UNCHANGED <<uncommitted, db, acked>>
    /\ Leave(e)
    /\ UNCHANGED <<callerVars, threadVars, inTrans, queryVars, issued, delayed, drops>>

\* A transaction without statements returns before it takes the lock.
RunEmptyTransaction(e) ==
    /\ exec[e] # << >>
    /\ Op(e).kind = "trans"
    /\ Op(e).size = 0
    /\ exec' = [exec EXCEPT ![e] = << >>]
    /\ finished' = IF e = DelayThread THEN Append(finished, Op(e)) ELSE finished
    /\ UNCHANGED <<callerVars, threadVars, lockOwner, pos, serverVars, queryVars,
                   issued, delayed, acked, failures, drops>>

\* A transaction takes the lock and sends START TRANSACTION, whose result it
\* ignores: when the connection is lost here the statements that follow run
\* under autocommit.
StartTransaction(e) ==
    /\ exec[e] # << >>
    /\ Op(e).kind = "trans"
    /\ Op(e).size > 0
    /\ LockFree
    /\ lockOwner' = e
    /\ \/ inTrans' = TRUE /\ UNCHANGED drops
       \/ drops < MaxDrops /\ drops' = drops + 1 /\ UNCHANGED inTrans
    /\ UNCHANGED <<callerVars, threadVars, exec, pos, uncommitted, db, queryVars,
                   issued, delayed, finished, acked, failures>>

\* The next statement of the transaction succeeds.
RunStatement(e) ==
    /\ lockOwner = e
    /\ Op(e).kind = "trans"
    /\ pos <= Op(e).size
    /\ ServerExecute([op |-> Op(e).id, n |-> pos])
    /\ pos' = pos + 1
    /\ UNCHANGED <<callerVars, threadVars, exec, lockOwner, inTrans, queryVars, histVars>>

\* A failing statement that goes on to the next instead of rolling back.
FailStatementMutant(e) ==
    /\ lockOwner = e
    /\ Op(e).kind = "trans"
    /\ pos <= Op(e).size
    /\ failures < MaxFailures
    /\ failures' = failures + 1
    /\ pos' = pos + 1
    /\ UNCHANGED <<callerVars, threadVars, exec, lockOwner, serverVars, queryVars,
                   issued, delayed, finished, acked, drops>>

\* The next statement of the transaction fails: ROLLBACK, return false.
FailStatement(e) ==
    /\ lockOwner = e
    /\ Op(e).kind = "trans"
    /\ pos <= Op(e).size
    /\ failures < MaxFailures
    /\ failures' = failures + 1
    /\ inTrans' = FALSE
    /\ uncommitted' = << >>
    /\ Leave(e)
    /\ UNCHANGED <<callerVars, threadVars, db, queryVars, issued, delayed, acked, drops>>

\* A transaction that leaves the statement position where it was.
EndTransactionMutant(e) ==
    /\ lockOwner = e
    /\ Op(e).kind = "trans"
    /\ pos = Op(e).size + 1
    /\ db' = db \o uncommitted
    /\ uncommitted' = << >>
    /\ inTrans' = FALSE
    /\ exec' = [exec EXCEPT ![e] = << >>]
    /\ lockOwner' = NoOne
    /\ pos' = pos + 1
    /\ finished' = IF e = DelayThread THEN Append(finished, Op(e)) ELSE finished
    /\ UNCHANGED <<callerVars, threadVars, queryVars, issued, delayed, acked, failures, drops>>

\* COMMIT after the last statement.
EndTransaction(e) ==
    /\ lockOwner = e
    /\ Op(e).kind = "trans"
    /\ pos = Op(e).size + 1
    /\ db' = db \o uncommitted
    /\ uncommitted' = << >>
    /\ inTrans' = FALSE
    /\ Leave(e)
    /\ UNCHANGED <<callerVars, threadVars, queryVars, issued, delayed, acked, failures, drops>>

\* A query, or a holder, takes the lock for all its reads.
LockForQuery(e) ==
    /\ exec[e] # << >>
    /\ Op(e).kind = "query"
    /\ LockFree
    /\ lockOwner' = e
    /\ UNCHANGED <<callerVars, threadVars, exec, pos, serverVars, queryVars, histVars>>

\* The next read: the result holds what is durable now (a failed query stores
\* an empty result and goes on in the same way).
RunQuery(e) ==
    /\ lockOwner = e
    /\ Op(e).kind = "query"
    /\ pos <= Op(e).size
    /\ seen' = [seen EXCEPT ![Op(e).id] = Append(@, Len(db))]
    /\ pos' = pos + 1
    /\ UNCHANGED <<callerVars, threadVars, exec, lockOwner, serverVars,
                   resultQueue, called, histVars>>

\* The callback goes to the result queue of the Database.
AnswerQuery(e) ==
    /\ lockOwner = e
    /\ Op(e).kind = "query"
    /\ pos = Op(e).size + 1
    /\ resultQueue' = Append(resultQueue, Op(e))
    /\ Leave(e)
    /\ UNCHANGED <<callerVars, threadVars, serverVars, seen, called,
                   issued, delayed, acked, failures, drops>>

\* External: the connection is lost inside a transaction and the client
\* library makes it again (MYSQL_OPT_RECONNECT): the server forgets the open
\* transaction and later statements run under autocommit.
Reconnect ==
    /\ inTrans
    /\ drops < MaxDrops
    /\ drops' = drops + 1
    /\ inTrans' = FALSE
    /\ uncommitted' = << >>
    /\ UNCHANGED <<callerVars, threadVars, connVars, db, queryVars,
                   issued, delayed, finished, acked, failures>>

-----------------------------------------------------------------------------
(* The delay thread.                                                       *)

\* SqlDelayThread::run after its sleep.
Wake ==
    /\ phase = "sleep"
    /\ phase' = "drain"
    /\ UNCHANGED <<callerVars, sqlQueue, running, connVars, serverVars, queryVars, histVars>>

\* SqlDelayThread::ProcessRequests, on the delay thread or in the destructor
\* on the halting thread: take the oldest operation ...
TakeRequest ==
    /\ phase \in {"drain", "flush"}
    /\ exec[DelayThread] = << >>
    /\ sqlQueue # << >>
    /\ exec' = [exec EXCEPT ![DelayThread] = <<Head(sqlQueue)>>]
    /\ sqlQueue' = Tail(sqlQueue)
    /\ UNCHANGED <<callerVars, running, phase, lockOwner, pos, serverVars, queryVars, histVars>>

\* ... until there is none.  (The ping that may follow changes nothing.)
QueueDrained ==
    /\ phase \in {"drain", "flush"}
    /\ exec[DelayThread] = << >>
    /\ sqlQueue = << >>
    /\ phase' = IF phase = "drain" THEN "check" ELSE "gone"
    /\ UNCHANGED <<callerVars, sqlQueue, running, connVars, serverVars, queryVars, histVars>>

\* A loop that ends whatever m_running says.
CheckRunningMutant ==
    /\ phase = "check"
    /\ phase' \in {"sleep", "exited"}
    /\ UNCHANGED <<callerVars, sqlQueue, running, connVars, serverVars, queryVars, histVars>>

\* The loop condition of SqlDelayThread::run.
CheckRunning ==
    /\ phase = "check"
    /\ phase' = IF running THEN "sleep" ELSE "exited"
    /\ UNCHANGED <<callerVars, sqlQueue, running, connVars, serverVars, queryVars, histVars>>

-----------------------------------------------------------------------------
(* Start-up and shutdown, Master::Run.                                     *)

\* Asynchronous operations are allowed and the other threads are started.
StartServer ==
    /\ ~allowAsync
    /\ exec[Main] = << >>
    /\ trans[Main] = NoTrans
    /\ allowAsync' = TRUE
    /\ live' = Threads
    /\ UNCHANGED <<trans, threadVars, connVars, serverVars, queryVars, histVars>>

\* A thread ends; ~TransHelper drops a transaction it left open.
EndThread(t) ==
    /\ Ready(t)
    /\ t # Main
    /\ live' = live \ {t}
    /\ trans' = [trans EXCEPT ![t] = NoTrans]
    /\ UNCHANGED <<allowAsync, threadVars, connVars, serverVars, queryVars, histVars>>

\* Database::HaltDelayThread, after the other threads were joined: Stop ...
StopDelayThread ==
    /\ allowAsync
    /\ live = {Main}
    /\ running
    /\ trans[Main] = NoTrans
    /\ running' = FALSE
    /\ UNCHANGED <<callerVars, sqlQueue, phase, connVars, serverVars, queryVars, histVars>>

\* ... wait for the thread, and delete it, which runs ~SqlDelayThread.
JoinDelayThread ==
    /\ phase = "exited"
    /\ ~running
    /\ phase' = "flush"
    /\ UNCHANGED <<callerVars, sqlQueue, running, connVars, serverVars, queryVars, histVars>>

\* The process ends after the halt.
Halted == phase = "gone" /\ UNCHANGED vars

-----------------------------------------------------------------------------
Call(t) ==
    \/ DirectExecute(t)
    \/ BeginTransaction(t)
    \/ ExecuteInTransaction(t)
    \/ ExecuteDelayed(t)
    \/ CommitTransaction(t)
    \/ CommitTransactionDirect(t)
    \/ RollbackTransaction(t)
    \/ AsyncQuery(t)
    \/ EndThread(t)

Run(e) ==
    \/ RunPlain(e)
    \/ RunEmptyTransaction(e)
    \/ StartTransaction(e)
    \/ RunStatement(e)
    \/ FailStatement(e)
    \/ EndTransaction(e)
    \/ LockForQuery(e)
    \/ RunQuery(e)
    \/ AnswerQuery(e)

DelayThreadStep == Wake \/ TakeRequest \/ QueueDrained \/ CheckRunning

Next ==
    \/ \E t \in Threads : Call(t)
    \/ \E e \in Executors : Run(e)
    \/ DelayThreadStep
    \/ UpdateResultQueue
    \/ Reconnect
    \/ StartServer
    \/ StopDelayThread
    \/ JoinDelayThread
    \/ Halted

Spec == Init /\ [][Next]_vars

\* The delay thread and whoever executes an operation keep running, the world
\* thread drains its results on every tick, and a halt that has begun ends.
\* No thread has to call anything, to stop or to be stopped.
Fairness ==
    /\ WF_vars(DelayThreadStep)
    /\ \A e \in Executors : WF_vars(Run(e))
    /\ WF_vars(UpdateResultQueue)
    /\ WF_vars(JoinDelayThread)

FairSpec == Spec /\ Fairness

-----------------------------------------------------------------------------
(* Properties.                                                             *)

FlagsOK ==
    /\ allowAsync \in BOOLEAN
    /\ running \in BOOLEAN
    /\ inTrans \in BOOLEAN

CallersOK ==
    /\ live \in SUBSET Threads
    /\ trans \in [Threads -> 0 .. NoTrans]

ThreadOK ==
    /\ sqlQueue \in Seq(Operation)
    /\ phase \in Phases

ConnectionOK ==
    /\ exec \in [Executors -> Seq(Operation)]
    /\ \A e \in Executors : Len(exec[e]) <= 1
    /\ lockOwner \in Executors \cup {NoOne}
    /\ pos \in 1 .. MaxSize + 1

ServerOK ==
    /\ uncommitted \in Seq(Statement)
    /\ db \in Seq(Statement)

QueriesOK ==
    /\ resultQueue \in Seq(Operation)
    /\ seen \in [1 .. MaxOps -> Seq(Nat)]
    /\ called \in Seq(Operation)

HistoryOK ==
    /\ issued \in 0 .. MaxOps
    /\ delayed \in Seq(Operation)
    /\ finished \in Seq(Operation)
    /\ acked \in SUBSET (1 .. MaxOps)
    /\ failures \in 0 .. MaxFailures
    /\ drops \in 0 .. MaxDrops

TypeOK ==
    FlagsOK /\ CallersOK /\ ThreadOK /\ ConnectionOK /\ ServerOK /\ QueriesOK /\ HistoryOK

\* Whoever holds the connection's lock is executing a query or a transaction
\* that has statements.
LockHolderExecutes ==
    lockOwner # NoOne =>
        /\ exec[lockOwner] # << >>
        /\ Op(lockOwner).kind = "query" \/ (Op(lockOwner).kind = "trans" /\ Op(lockOwner).size > 0)

\* What was delayed is, in the order of the calls, what the delay thread has
\* executed, the operation it executes and the queue: nothing is lost, run
\* twice or overtaken, over the life of the thread and through its halt.
NothingLostOrOvertaken == delayed = finished \o exec[DelayThread] \o sqlQueue

\* HaltDelayThread returns only after every delayed operation was executed,
\* those included that were queued while the thread was stopping.
HaltFlushesQueue == phase = "gone" => finished = delayed

\* A delayed operation is neither lost nor overtaken, nor left by the halt (the
\* two above: Database::Execute, SqlDelayThread::run, HaltDelayThread).
DelayedIsKept == NothingLostOrOvertaken /\ HaltFlushesQueue

\* A statement whose execution was reported successful is durable: no other
\* thread's ROLLBACK takes it back (the connection lock keeps transactions
\* and single statements apart).
SuccessIsDurable ==
    \A id \in acked : \E k \in 1 .. Len(db) : db[k].op = id

\* All the reads of a query holder (the twenty-odd queries of a character
\* login) see one state of the database.
HolderReadsOneState ==
    \A i \in 1 .. MaxOps : \A j, k \in 1 .. Len(seen[i]) : seen[i][j] = seen[i][k]

\* A query sees what every statement delayed before it did.
QuerySeesEarlierWrites ==
    \A q, o \in 1 .. Len(delayed) :
        /\ o < q
        /\ delayed[q].kind = "query"
        /\ seen[delayed[q].id] # << >>
        => \A k \in 1 .. Len(db) : db[k].op = delayed[o].id => k <= seen[delayed[q].id][1]

\* Callbacks run once each, in the order their queries were made: the n-th
\* query that was executed is the n-th callback (AnswerQuery, SqlResultQueue::Update).
QueriesUpTo(k, ops) == {i \in 1 .. k : ops[i].kind = "query"}
AnswersInOrder(answers, ops) ==
    /\ Len(answers) = Cardinality(QueriesUpTo(Len(ops), ops))
    /\ \A k \in 1 .. Len(ops) : ops[k].kind = "query" =>
           answers[Cardinality(QueriesUpTo(k, ops))] = ops[k]
CallbacksInOrder == AnswersInOrder(called \o resultQueue, finished)

\* What a query and its callback see is in order (the three above: one state of
\* the database, after the earlier writes, and callbacks in the order of the calls).
ResultsInOrder == HolderReadsOneState /\ QuerySeesEarlierWrites /\ CallbacksInOrder

\* A transaction takes effect wholly or not at all once it has been executed,
\* unless the connection is lost: SqlTransaction::Execute ignores the result of
\* START TRANSACTION, and a connection that is made anew commits each statement.
TransactionsAllOrNothing ==
    drops = 0 =>
        \A i \in 1 .. Len(finished) :
            LET op == finished[i]
                there == {k \in 1 .. Len(db) : db[k].op = op.id}
            IN  op.kind = "trans" /\ there # {} =>
                    \A n \in 1 .. op.size : \E k \in there : db[k].n = n

\* Writes are durable and whole (SuccessIsDurable and the above).
WritesAreWhole == SuccessIsDurable /\ TransactionsAllOrNothing

\* Operations take effect in the order of the calls, each at once and wholly
\* or not at all; direct ones take effect when they are called.
ActsLikeAtomicStore == Store!StoreSpec

\* Every delayed operation is executed in the end.
DelayedIsExecuted ==
    \A n \in 1 .. MaxOps : Len(delayed) >= n ~> Len(finished) >= n

\* Every query's callback is executed, unless the world thread ends first.
QueryIsAnswered ==
    \A n \in 1 .. MaxOps :
        (\E i \in 1 .. Len(delayed) : delayed[i].kind = "query" /\ delayed[i].id = n)
            ~> (World \notin live \/ \E i \in 1 .. Len(called) : called[i].id = n)

\* Delayed operations are executed and queries answered in the end, shutdown
\* included (the two above: SqlDelayThread::run, SqlResultQueue::Update).
OperationsAreAnswered == DelayedIsExecuted /\ QueryIsAnswered
=============================================================================
