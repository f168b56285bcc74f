--------------------------- MODULE AsyncDbProofs ---------------------------
(***************************************************************************)
(* Theorems about AsyncDb, for any number of threads, operations,          *)
(* statements and failures.                                                *)
(***************************************************************************)
EXTENDS AsyncDb, SequenceTheorems, FiniteSetTheorems, TLAPS

-----------------------------------------------------------------------------
(* Types of the values the actions build.                                  *)

\* The types of the state are inductive together with the fact that the lock's
\* holder has something to execute.
TypeInv ==
    /\ CallersOK /\ ThreadOK /\ ConnectionOK /\ ServerOK /\ QueriesOK /\ HistoryOK
    /\ LockHolderExecutes

\* The fields of an operation; a single statement has the size one.
LEMMA OperationFields ==
  ASSUME NEW op \in Operation
  PROVE  /\ op.id \in 1 .. MaxOps /\ op.size \in 0 .. MaxSize
         /\ op.kind = "stmt" => op.size = 1
  BY DEF Operation

\* What an executor runs is an operation.
LEMMA OpType ==
  ASSUME ConnectionOK, NEW e \in Executors, exec[e] # << >>
  PROVE  Op(e) \in Operation
  BY HeadTailProperties, SMTT(30) DEF ConnectionOK, Op

\* So is what a caller issues within the bound.
LEMMA NewOpType ==
  ASSUME HistoryOK, issued < MaxOps,
         NEW t \in Threads, NEW kind \in Kinds, NEW size \in 0 .. MaxSize,
         kind = "stmt" => size = 1
  PROVE  NewOp(t, kind, size) \in Operation
  BY AsyncDbAssumption, SMTT(30) DEF HistoryOK, NewOp, Operation

\* Delay keeps the queue and its history well typed.
LEMMA DelayType ==
  ASSUME ThreadOK, HistoryOK, NEW op \in Operation, Delay(op)
  PROVE  /\ sqlQueue' \in Seq(Operation)
         /\ delayed' \in Seq(Operation)
         /\ issued' \in 0 .. MaxOps
  BY OperationFields, AppendProperties, AsyncDbAssumption, SMTT(30) DEF Delay, ThreadOK, HistoryOK

\* A statement is given by its operation and its place in it.
LEMMA StatementType ==
  ASSUME NEW id \in 1 .. MaxOps, NEW k \in 1 .. MaxSize
  PROVE  [op |-> id, n |-> k] \in Statement
  BY SMTT(30) DEF Statement

\* A statement that reaches the server, or fails, keeps its two logs well typed.
LEMMA ServerExecuteType ==
  ASSUME ServerOK, NEW s \in Statement,
         ServerExecute(s) \/ UNCHANGED <<uncommitted, db>>
  PROVE  uncommitted' \in Seq(Statement) /\ db' \in Seq(Statement)
<1>1. \/ uncommitted' = Append(uncommitted, s) /\ db' = db
      \/ uncommitted' = uncommitted /\ db' = Append(db, s)
      \/ UNCHANGED <<uncommitted, db>>
  BY Zenon DEF ServerExecute
<1>2. Append(uncommitted, s) \in Seq(Statement) /\ Append(db, s) \in Seq(Statement)
  BY AppendProperties DEF ServerOK
<1> QED
  BY <1>1, <1>2 DEF ServerOK

-----------------------------------------------------------------------------
(* Every step keeps the types: one lemma per group of variables, with a    *)
(* step for each action that changes one of the group.                     *)

\* The flags stay Boolean.
LEMMA FlagsNext == FlagsOK /\ [Next]_vars => FlagsOK'
<1> USE AsyncDbAssumption
<1>1. ASSUME FlagsOK, NEW e \in Executors, StartTransaction(e) PROVE FlagsOK'
  BY <1>1, Zenon DEF FlagsOK, StartTransaction, callerVars, threadVars, connVars, serverVars, queryVars, histVars
<1>2. ASSUME FlagsOK, NEW e \in Executors, FailStatement(e) PROVE FlagsOK'
  BY <1>2, Zenon DEF FlagsOK, FailStatement, callerVars, threadVars, connVars, serverVars, queryVars, histVars
<1>3. ASSUME FlagsOK, NEW e \in Executors, EndTransaction(e) PROVE FlagsOK'
  BY <1>3, Zenon DEF FlagsOK, EndTransaction, callerVars, threadVars, connVars, serverVars, queryVars, histVars
<1>4. ASSUME FlagsOK, Reconnect PROVE FlagsOK'
  BY <1>4, Zenon DEF FlagsOK, Reconnect, callerVars, threadVars, connVars, serverVars, queryVars, histVars
<1>5. ASSUME FlagsOK, StartServer PROVE FlagsOK'
  BY <1>5, Zenon DEF FlagsOK, StartServer, callerVars, threadVars, connVars, serverVars, queryVars, histVars
<1>6. ASSUME FlagsOK, StopDelayThread PROVE FlagsOK'
  BY <1>6, Zenon DEF FlagsOK, StopDelayThread, callerVars, threadVars, connVars, serverVars, queryVars, histVars
<1>7. ASSUME FlagsOK, UNCHANGED <<allowAsync, running, inTrans>> PROVE FlagsOK'
  BY <1>7, Zenon DEF FlagsOK
<1> QED
  BY <1>1, <1>2, <1>3, <1>4, <1>5, <1>6, <1>7
     DEF Next, Call, Run, DelayThreadStep, vars, callerVars, threadVars, connVars, serverVars, queryVars, histVars,
         DirectExecute, BeginTransaction, ExecuteInTransaction,
         ExecuteDelayed, CommitTransaction, CommitTransactionDirect,
         RollbackTransaction, AsyncQuery, EndThread, RunPlain,
         RunEmptyTransaction, RunStatement, LockForQuery, RunQuery,
         AnswerQuery, Wake, TakeRequest, QueueDrained, CheckRunning,
         UpdateResultQueue, JoinDelayThread, Halted

\* The callers.
LEMMA CallersNext == TypeInv /\ [Next]_vars => CallersOK'
<1> USE AsyncDbAssumption
<1>1. ASSUME TypeInv, NEW t \in Threads, BeginTransaction(t) PROVE CallersOK'
  BY <1>1, SMTT(30) DEF TypeInv, CallersOK, BeginTransaction, NoTrans, callerVars, threadVars, connVars, serverVars, queryVars, histVars
<1>2. ASSUME TypeInv, NEW t \in Threads, ExecuteInTransaction(t) PROVE CallersOK'
  BY <1>2, SMTT(30) DEF TypeInv, CallersOK, ExecuteInTransaction, NoTrans, callerVars, threadVars, connVars, serverVars, queryVars, histVars
<1>3. ASSUME TypeInv, NEW t \in Threads, CommitTransaction(t) PROVE CallersOK'
  BY <1>3, SMTT(30) DEF TypeInv, CallersOK, CommitTransaction, NoTrans, callerVars, threadVars, connVars, serverVars, queryVars, histVars
<1>4. ASSUME TypeInv, NEW t \in Threads, CommitTransactionDirect(t) PROVE CallersOK'
  BY <1>4, SMTT(30) DEF TypeInv, CallersOK, CommitTransactionDirect, NoTrans, callerVars, threadVars, connVars, serverVars, queryVars, histVars
<1>5. ASSUME TypeInv, NEW t \in Threads, RollbackTransaction(t) PROVE CallersOK'
  BY <1>5, SMTT(30) DEF TypeInv, CallersOK, RollbackTransaction, NoTrans, callerVars, threadVars, connVars, serverVars, queryVars, histVars
<1>6. ASSUME TypeInv, NEW t \in Threads, EndThread(t) PROVE CallersOK'
  BY <1>6, SMTT(30) DEF TypeInv, CallersOK, EndThread, NoTrans, callerVars, threadVars, connVars, serverVars, queryVars, histVars
<1>7. ASSUME TypeInv, StartServer PROVE CallersOK'
  BY <1>7, SMTT(30) DEF TypeInv, CallersOK, StartServer, NoTrans, callerVars, threadVars, connVars, serverVars, queryVars, histVars
<1>8. ASSUME TypeInv, UNCHANGED <<live, trans>> PROVE CallersOK'
  BY <1>8, SMTT(30) DEF TypeInv, CallersOK
<1> QED
  BY <1>1, <1>2, <1>3, <1>4, <1>5, <1>6, <1>7, <1>8
     DEF Next, Call, Run, DelayThreadStep, vars, callerVars, threadVars, connVars, serverVars, queryVars, histVars,
         DirectExecute, ExecuteDelayed, AsyncQuery, RunPlain,
         RunEmptyTransaction, StartTransaction, RunStatement,
         FailStatement, EndTransaction, LockForQuery, RunQuery,
         AnswerQuery, Wake, TakeRequest, QueueDrained, CheckRunning,
         UpdateResultQueue, Reconnect, StopDelayThread,
         JoinDelayThread, Halted

\* The queue of the delay thread.
LEMMA ThreadNext == TypeInv /\ [Next]_vars => ThreadOK'
<1> USE AsyncDbAssumption
<1>1. ASSUME TypeInv, NEW t \in Threads, ExecuteDelayed(t) PROVE ThreadOK'
  <2>1. Delay(NewOp(t, "stmt", 1))
    BY <1>1 DEF ExecuteDelayed
  <2>2. NewOp(t, "stmt", 1) \in Operation
    BY <1>1, NewOpType, SMTT(30) DEF TypeInv, ExecuteDelayed, Kinds
  <2> QED
    BY <1>1, <2>1, <2>2, DelayType DEF TypeInv, ThreadOK, ExecuteDelayed, callerVars, threadVars, connVars, serverVars, queryVars, histVars
<1>2. ASSUME TypeInv, NEW t \in Threads, CommitTransaction(t) PROVE ThreadOK'
  <2>1. Delay(NewOp(t, "trans", trans[t]))
    BY <1>2 DEF CommitTransaction
  <2>2. trans[t] \in 0 .. MaxSize /\ issued < MaxOps
    BY <1>2, SMTT(30) DEF TypeInv, CallersOK, NoTrans, CommitTransaction
  <2>3. NewOp(t, "trans", trans[t]) \in Operation
    BY <1>2, <2>2, NewOpType DEF TypeInv, Kinds
  <2> QED
    BY <1>2, <2>1, <2>3, DelayType DEF TypeInv, ThreadOK, CommitTransaction, callerVars, threadVars, connVars, serverVars, queryVars, histVars
<1>3. ASSUME TypeInv, NEW t \in Threads, AsyncQuery(t) PROVE ThreadOK'
  <2>1. PICK size \in 1 .. MaxSize : Delay(NewOp(t, "query", size))
    BY <1>3 DEF AsyncQuery
  <2>2. NewOp(t, "query", size) \in Operation
    BY <1>3, NewOpType, SMTT(30) DEF TypeInv, AsyncQuery, Kinds
  <2> QED
    BY <1>3, <2>1, <2>2, DelayType DEF TypeInv, ThreadOK, AsyncQuery, callerVars, threadVars, connVars, serverVars, queryVars, histVars
<1>4. ASSUME TypeInv, Wake PROVE ThreadOK'
  BY <1>4, SMTT(30) DEF TypeInv, ThreadOK, Wake, Phases, callerVars, threadVars, connVars, serverVars, queryVars, histVars
<1>5. ASSUME TypeInv, TakeRequest PROVE ThreadOK'
  BY <1>5, HeadTailProperties, SMTT(30) DEF TypeInv, ThreadOK, TakeRequest, Phases, callerVars, threadVars, connVars, serverVars, queryVars, histVars
<1>6. ASSUME TypeInv, QueueDrained PROVE ThreadOK'
  BY <1>6, SMTT(30) DEF TypeInv, ThreadOK, QueueDrained, Phases, callerVars, threadVars, connVars, serverVars, queryVars, histVars
<1>7. ASSUME TypeInv, CheckRunning PROVE ThreadOK'
  BY <1>7, SMTT(30) DEF TypeInv, ThreadOK, CheckRunning, Phases, callerVars, threadVars, connVars, serverVars, queryVars, histVars
<1>8. ASSUME TypeInv, JoinDelayThread PROVE ThreadOK'
  BY <1>8, SMTT(30) DEF TypeInv, ThreadOK, JoinDelayThread, Phases, callerVars, threadVars, connVars, serverVars, queryVars, histVars
<1>9. ASSUME TypeInv, UNCHANGED <<sqlQueue, phase>> PROVE ThreadOK'
  BY <1>9, SMTT(30) DEF TypeInv, ThreadOK
<1> QED
  BY <1>1, <1>2, <1>3, <1>4, <1>5, <1>6, <1>7, <1>8, <1>9
     DEF Next, Call, Run, DelayThreadStep, vars, callerVars, threadVars, connVars, serverVars, queryVars, histVars,
         DirectExecute, BeginTransaction, ExecuteInTransaction,
         CommitTransactionDirect, RollbackTransaction, EndThread,
         RunPlain, RunEmptyTransaction, StartTransaction,
         RunStatement, FailStatement, EndTransaction, LockForQuery,
         RunQuery, AnswerQuery, UpdateResultQueue, Reconnect,
         StartServer, StopDelayThread, Halted

\* The executors and the connection's lock.
LEMMA ConnectionNext == TypeInv /\ [Next]_vars => ConnectionOK'
<1> USE AsyncDbAssumption
<1>1. ASSUME TypeInv, NEW t \in Threads, CommitTransactionDirect(t) PROVE ConnectionOK'
  <2>1. trans[t] \in 0 .. MaxSize /\ issued < MaxOps
    BY <1>1, SMTT(30) DEF TypeInv, CallersOK, NoTrans, CommitTransactionDirect
  <2>2. NewOp(t, "trans", trans[t]) \in Operation
    BY <1>1, <2>1, NewOpType DEF TypeInv, Kinds
  <2>3. exec' = [exec EXCEPT ![t] = <<NewOp(t, "trans", trans[t])>>] /\ UNCHANGED <<lockOwner, pos>>
    BY <1>1 DEF CommitTransactionDirect
  <2> QED
    BY <1>1, <2>2, <2>3, SMTT(30) DEF TypeInv, ConnectionOK, Executors
<1>2. ASSUME TypeInv, NEW e \in Executors, RunPlain(e) PROVE ConnectionOK'
  <2>1. Leave(e)
    BY <1>2 DEF RunPlain
  <2> QED
    BY <1>2, <2>1, SMTT(30) DEF TypeInv, ConnectionOK, Leave
<1>3. ASSUME TypeInv, NEW e \in Executors, RunEmptyTransaction(e) PROVE ConnectionOK'
  <2>1. exec' = [exec EXCEPT ![e] = << >>] /\ UNCHANGED <<lockOwner, pos>>
    BY <1>3 DEF RunEmptyTransaction
  <2> QED
    BY <1>3, <2>1, SMTT(30) DEF TypeInv, ConnectionOK
<1>4. ASSUME TypeInv, NEW e \in Executors, StartTransaction(e) PROVE ConnectionOK'
  <2>1. lockOwner' = e /\ UNCHANGED <<exec, pos>>
    BY <1>4 DEF StartTransaction
  <2> QED
    BY <1>4, <2>1, SMTT(30) DEF TypeInv, ConnectionOK
<1>5. ASSUME TypeInv, NEW e \in Executors, RunStatement(e) PROVE ConnectionOK'
  <2>1. lockOwner = e /\ pos <= Op(e).size /\ pos' = pos + 1 /\ UNCHANGED <<exec, lockOwner>>
    BY <1>5 DEF RunStatement
  <2>2. Op(e).size \in 0 .. MaxSize
    BY <1>5, <2>1, OpType, OperationFields, AsyncDbAssumption DEF TypeInv, LockHolderExecutes, Executors
  <2> QED
    BY <1>5, <2>1, <2>2, SMTT(30) DEF TypeInv, ConnectionOK
<1>6. ASSUME TypeInv, NEW e \in Executors, FailStatement(e) PROVE ConnectionOK'
  <2>1. Leave(e)
    BY <1>6 DEF FailStatement
  <2> QED
    BY <1>6, <2>1, SMTT(30) DEF TypeInv, ConnectionOK, Leave
<1>7. ASSUME TypeInv, NEW e \in Executors, EndTransaction(e) PROVE ConnectionOK'
  <2>1. Leave(e)
    BY <1>7 DEF EndTransaction
  <2> QED
    BY <1>7, <2>1, SMTT(30) DEF TypeInv, ConnectionOK, Leave
<1>8. ASSUME TypeInv, NEW e \in Executors, LockForQuery(e) PROVE ConnectionOK'
  <2>1. lockOwner' = e /\ UNCHANGED <<exec, pos>>
    BY <1>8 DEF LockForQuery
  <2> QED
    BY <1>8, <2>1, SMTT(30) DEF TypeInv, ConnectionOK
<1>9. ASSUME TypeInv, NEW e \in Executors, RunQuery(e) PROVE ConnectionOK'
  <2>1. lockOwner = e /\ pos <= Op(e).size /\ pos' = pos + 1 /\ UNCHANGED <<exec, lockOwner>>
    BY <1>9 DEF RunQuery
  <2>2. Op(e).size \in 0 .. MaxSize
    BY <1>9, <2>1, OpType, OperationFields, AsyncDbAssumption DEF TypeInv, LockHolderExecutes, Executors
  <2> QED
    BY <1>9, <2>1, <2>2, SMTT(30) DEF TypeInv, ConnectionOK
<1>10. ASSUME TypeInv, NEW e \in Executors, AnswerQuery(e) PROVE ConnectionOK'
  <2>1. Leave(e)
    BY <1>10 DEF AnswerQuery
  <2> QED
    BY <1>10, <2>1, SMTT(30) DEF TypeInv, ConnectionOK, Leave
<1>11. ASSUME TypeInv, TakeRequest PROVE ConnectionOK'
  <2>1. Head(sqlQueue) \in Operation
    BY <1>11, HeadTailProperties DEF TypeInv, ThreadOK, TakeRequest
  <2>2. exec' = [exec EXCEPT ![DelayThread] = <<Head(sqlQueue)>>] /\ UNCHANGED <<lockOwner, pos>>
    BY <1>11 DEF TakeRequest
  <2> QED
    BY <1>11, <2>1, <2>2, SMTT(30) DEF TypeInv, ConnectionOK, Executors
<1>12. ASSUME TypeInv, UNCHANGED <<exec, lockOwner, pos>> PROVE ConnectionOK'
  BY <1>12, SMTT(30) DEF TypeInv, ConnectionOK
<1> QED
  BY <1>1, <1>2, <1>3, <1>4, <1>5, <1>6, <1>7, <1>8, <1>9, <1>10, <1>11, <1>12
     DEF Next, Call, Run, DelayThreadStep, vars, callerVars, threadVars, connVars, serverVars, queryVars, histVars,
         DirectExecute, BeginTransaction, ExecuteInTransaction,
         ExecuteDelayed, CommitTransaction, RollbackTransaction,
         AsyncQuery, EndThread, Wake, QueueDrained, CheckRunning,
         UpdateResultQueue, Reconnect, StartServer, StopDelayThread,
         JoinDelayThread, Halted

\* The server's logs.
LEMMA ServerNext == TypeInv /\ [Next]_vars => ServerOK'
<1> USE AsyncDbAssumption
<1>1. ASSUME TypeInv, NEW t \in Threads, DirectExecute(t) PROVE ServerOK'
  <2>1. [op |-> issued + 1, n |-> 1] \in Statement
    BY <1>1, StatementType, SMTT(30) DEF TypeInv, HistoryOK, DirectExecute
  <2> QED
    BY <1>1, <2>1, ServerExecuteType DEF TypeInv, ServerOK, DirectExecute
<1>2. ASSUME TypeInv, NEW e \in Executors, RunPlain(e) PROVE ServerOK'
  <2>1. Op(e).id \in 1 .. MaxOps
    BY <1>2, OpType, OperationFields DEF TypeInv, RunPlain
  <2>2. [op |-> Op(e).id, n |-> 1] \in Statement
    BY <1>2, <2>1, StatementType, SMTT(30)
  <2> QED
    BY <1>2, <2>2, ServerExecuteType DEF TypeInv, ServerOK, RunPlain
<1>3. ASSUME TypeInv, NEW e \in Executors, RunStatement(e) PROVE ServerOK'
  <2>1. Op(e) \in Operation
    BY <1>3, OpType, AsyncDbAssumption DEF TypeInv, LockHolderExecutes, RunStatement, Executors
  <2>2. [op |-> Op(e).id, n |-> pos] \in Statement
    BY <1>3, <2>1, OperationFields, StatementType, SMTT(30) DEF TypeInv, ConnectionOK, RunStatement
  <2> QED
    BY <1>3, <2>2, ServerExecuteType DEF TypeInv, ServerOK, RunStatement
<1>4. ASSUME TypeInv, NEW e \in Executors, FailStatement(e) PROVE ServerOK'
  <2>1. uncommitted' = << >> /\ db' = db
    BY <1>4 DEF FailStatement
  <2> QED
    BY <1>4, <2>1 DEF TypeInv, ServerOK
<1>5. ASSUME TypeInv, NEW e \in Executors, EndTransaction(e) PROVE ServerOK'
  <2>1. uncommitted' = << >> /\ db' = db \o uncommitted
    BY <1>5 DEF EndTransaction
  <2> QED
    BY <1>5, <2>1, ConcatProperties DEF TypeInv, ServerOK
<1>6. ASSUME TypeInv, Reconnect PROVE ServerOK'
  <2>1. uncommitted' = << >> /\ db' = db
    BY <1>6 DEF Reconnect
  <2> QED
    BY <1>6, <2>1 DEF TypeInv, ServerOK
<1>7. ASSUME TypeInv, UNCHANGED <<uncommitted, db>> PROVE ServerOK'
  BY <1>7, SMTT(30) DEF TypeInv, ServerOK
<1> QED
  BY <1>1, <1>2, <1>3, <1>4, <1>5, <1>6, <1>7
     DEF Next, Call, Run, DelayThreadStep, vars, callerVars, threadVars, connVars, serverVars, queryVars, histVars,
         BeginTransaction, ExecuteInTransaction, ExecuteDelayed,
         CommitTransaction, CommitTransactionDirect,
         RollbackTransaction, AsyncQuery, EndThread,
         RunEmptyTransaction, StartTransaction, LockForQuery,
         RunQuery, AnswerQuery, Wake, TakeRequest, QueueDrained,
         CheckRunning, UpdateResultQueue, StartServer,
         StopDelayThread, JoinDelayThread, Halted

\* The result queue and what the queries saw.
LEMMA QueriesNext == TypeInv /\ [Next]_vars => QueriesOK'
<1> USE AsyncDbAssumption
<1>1. ASSUME TypeInv, NEW e \in Executors, RunQuery(e) PROVE QueriesOK'
  <2>1. Op(e).id \in 1 .. MaxOps
    BY <1>1, OpType, OperationFields, AsyncDbAssumption DEF TypeInv, LockHolderExecutes, RunQuery, Executors
  <2>2. seen' = [seen EXCEPT ![Op(e).id] = Append(@, Len(db))] /\ UNCHANGED <<resultQueue, called>>
    BY <1>1 DEF RunQuery
  <2>3. Len(db) \in Nat
    BY <1>1, LenProperties DEF TypeInv, ServerOK
  <2>4. Append(seen[Op(e).id], Len(db)) \in Seq(Nat)
    BY <1>1, <2>1, <2>3, AppendProperties DEF TypeInv, QueriesOK
  <2> QED
    BY <1>1, <2>1, <2>2, <2>4 DEF TypeInv, QueriesOK
<1>2. ASSUME TypeInv, NEW e \in Executors, AnswerQuery(e) PROVE QueriesOK'
  <2>1. Op(e) \in Operation
    BY <1>2, OpType, AsyncDbAssumption DEF TypeInv, LockHolderExecutes, AnswerQuery, Executors
  <2>2. resultQueue' = Append(resultQueue, Op(e)) /\ UNCHANGED <<seen, called>>
    BY <1>2 DEF AnswerQuery
  <2> QED
    BY <1>2, <2>1, <2>2, AppendProperties DEF TypeInv, QueriesOK
<1>3. ASSUME TypeInv, UpdateResultQueue PROVE QueriesOK'
  <2>1. Head(resultQueue) \in Operation /\ Tail(resultQueue) \in Seq(Operation)
    BY <1>3, HeadTailProperties DEF TypeInv, QueriesOK, UpdateResultQueue
  <2> QED
    BY <1>3, <2>1, AppendProperties DEF TypeInv, QueriesOK, UpdateResultQueue
<1>4. ASSUME TypeInv, UNCHANGED <<resultQueue, seen, called>> PROVE QueriesOK'
  BY <1>4, SMTT(30) DEF TypeInv, QueriesOK
<1> QED
  BY <1>1, <1>2, <1>3, <1>4
     DEF Next, Call, Run, DelayThreadStep, vars, callerVars, threadVars, connVars, serverVars, queryVars, histVars,
         DirectExecute, BeginTransaction, ExecuteInTransaction,
         ExecuteDelayed, CommitTransaction, CommitTransactionDirect,
         RollbackTransaction, AsyncQuery, EndThread, RunPlain,
         RunEmptyTransaction, StartTransaction, RunStatement,
         FailStatement, EndTransaction, LockForQuery, Wake,
         TakeRequest, QueueDrained, CheckRunning, Reconnect,
         StartServer, StopDelayThread, JoinDelayThread, Halted

\* The histories.
LEMMA HistoryNext == TypeInv /\ [Next]_vars => HistoryOK'
<1> USE AsyncDbAssumption
<1>1. ASSUME TypeInv, NEW t \in Threads, DirectExecute(t) PROVE HistoryOK'
  <2>1. /\ issued < MaxOps /\ issued' = issued + 1
        /\ \/ acked' = acked \cup {issued + 1} /\ failures' = failures
           \/ acked' = acked /\ failures < MaxFailures /\ failures' = failures + 1
        /\ UNCHANGED <<delayed, finished, drops>>
    BY <1>1, Zenon DEF DirectExecute
  <2>2. issued' \in 0 .. MaxOps /\ failures' \in 0 .. MaxFailures
    BY <1>1, <2>1, SMTT(30) DEF TypeInv, HistoryOK
  <2>3. issued + 1 \in 1 .. MaxOps
    BY <1>1, <2>1, SMTT(30) DEF TypeInv, HistoryOK
  <2> QED
    BY <1>1, <2>1, <2>2, <2>3, Zenon DEF TypeInv, HistoryOK
<1>2. ASSUME TypeInv, NEW t \in Threads, ExecuteDelayed(t) PROVE HistoryOK'
  <2>1. Delay(NewOp(t, "stmt", 1))
    BY <1>2 DEF ExecuteDelayed
  <2>2. NewOp(t, "stmt", 1) \in Operation
    BY <1>2, NewOpType, SMTT(30) DEF TypeInv, ExecuteDelayed, Kinds
  <2> QED
    BY <1>2, <2>1, <2>2, DelayType DEF TypeInv, HistoryOK, ExecuteDelayed
<1>3. ASSUME TypeInv, NEW t \in Threads, CommitTransaction(t) PROVE HistoryOK'
  <2>1. Delay(NewOp(t, "trans", trans[t]))
    BY <1>3 DEF CommitTransaction
  <2>2. trans[t] \in 0 .. MaxSize /\ issued < MaxOps
    BY <1>3, SMTT(30) DEF TypeInv, CallersOK, NoTrans, CommitTransaction
  <2>3. NewOp(t, "trans", trans[t]) \in Operation
    BY <1>3, <2>2, NewOpType DEF TypeInv, Kinds
  <2> QED
    BY <1>3, <2>1, <2>3, DelayType DEF TypeInv, HistoryOK, CommitTransaction
<1>4. ASSUME TypeInv, NEW t \in Threads, CommitTransactionDirect(t) PROVE HistoryOK'
  <2>1. issued < MaxOps /\ issued' = issued + 1
        /\ UNCHANGED <<delayed, finished, acked, failures, drops>>
    BY <1>4 DEF CommitTransactionDirect
  <2> QED
    BY <1>4, <2>1, SMTT(30) DEF TypeInv, HistoryOK
<1>5. ASSUME TypeInv, NEW t \in Threads, AsyncQuery(t) PROVE HistoryOK'
  <2>1. PICK size \in 1 .. MaxSize : Delay(NewOp(t, "query", size))
    BY <1>5 DEF AsyncQuery
  <2>2. NewOp(t, "query", size) \in Operation
    BY <1>5, NewOpType, SMTT(30) DEF TypeInv, AsyncQuery, Kinds
  <2> QED
    BY <1>5, <2>1, <2>2, DelayType DEF TypeInv, HistoryOK, AsyncQuery
<1>6. ASSUME TypeInv, NEW e \in Executors, RunPlain(e) PROVE HistoryOK'
  <2>1. Op(e) \in Operation /\ Op(e).id \in 1 .. MaxOps
    BY <1>6, OpType, OperationFields, AsyncDbAssumption DEF TypeInv, LockHolderExecutes, RunPlain, Executors
  <2>2. finished' = Append(finished, Op(e)) \/ finished' = finished
    BY <1>6 DEF RunPlain, Leave
  <2>3. finished' \in Seq(Operation)
    BY <1>6, <2>1, <2>2, AppendProperties DEF TypeInv, HistoryOK
  <2>4. acked' \in SUBSET (1 .. MaxOps) /\ failures' \in 0 .. MaxFailures /\ UNCHANGED <<issued, delayed, drops>>
    BY <1>6, <2>1, SMTT(30) DEF TypeInv, HistoryOK, RunPlain
  <2> QED
    BY <1>6, <2>3, <2>4 DEF TypeInv, HistoryOK
<1>7. ASSUME TypeInv, NEW e \in Executors, RunEmptyTransaction(e) PROVE HistoryOK'
  <2>1. Op(e) \in Operation /\ Op(e).id \in 1 .. MaxOps
    BY <1>7, OpType, OperationFields, AsyncDbAssumption DEF TypeInv, LockHolderExecutes, RunEmptyTransaction, Executors
  <2>2. finished' = Append(finished, Op(e)) \/ finished' = finished
    BY <1>7 DEF RunEmptyTransaction, Leave
  <2>3. finished' \in Seq(Operation)
    BY <1>7, <2>1, <2>2, AppendProperties DEF TypeInv, HistoryOK
  <2>4. UNCHANGED <<issued, delayed, acked, failures, drops>>
    BY <1>7 DEF RunEmptyTransaction
  <2> QED
    BY <1>7, <2>3, <2>4 DEF TypeInv, HistoryOK
<1>8. ASSUME TypeInv, NEW e \in Executors, StartTransaction(e) PROVE HistoryOK'
  <2>1. drops' \in 0 .. MaxDrops /\ UNCHANGED <<issued, delayed, finished, acked, failures>>
    BY <1>8, SMTT(30) DEF TypeInv, HistoryOK, StartTransaction
  <2> QED
    BY <1>8, <2>1 DEF TypeInv, HistoryOK
<1>9. ASSUME TypeInv, NEW e \in Executors, FailStatement(e) PROVE HistoryOK'
  <2>1. Op(e) \in Operation /\ Op(e).id \in 1 .. MaxOps
    BY <1>9, OpType, OperationFields, AsyncDbAssumption DEF TypeInv, LockHolderExecutes, FailStatement, Executors
  <2>2. finished' = Append(finished, Op(e)) \/ finished' = finished
    BY <1>9 DEF FailStatement, Leave
  <2>3. finished' \in Seq(Operation)
    BY <1>9, <2>1, <2>2, AppendProperties DEF TypeInv, HistoryOK
  <2>4. failures' \in 0 .. MaxFailures /\ UNCHANGED <<issued, delayed, acked, drops>>
    BY <1>9, SMTT(30) DEF TypeInv, HistoryOK, FailStatement
  <2> QED
    BY <1>9, <2>3, <2>4 DEF TypeInv, HistoryOK
<1>10. ASSUME TypeInv, NEW e \in Executors, EndTransaction(e) PROVE HistoryOK'
  <2>1. Op(e) \in Operation /\ Op(e).id \in 1 .. MaxOps
    BY <1>10, OpType, OperationFields, AsyncDbAssumption DEF TypeInv, LockHolderExecutes, EndTransaction, Executors
  <2>2. finished' = Append(finished, Op(e)) \/ finished' = finished
    BY <1>10 DEF EndTransaction, Leave
  <2>3. finished' \in Seq(Operation)
    BY <1>10, <2>1, <2>2, AppendProperties DEF TypeInv, HistoryOK
  <2>4. UNCHANGED <<issued, delayed, acked, failures, drops>>
    BY <1>10 DEF EndTransaction
  <2> QED
    BY <1>10, <2>3, <2>4 DEF TypeInv, HistoryOK
<1>11. ASSUME TypeInv, NEW e \in Executors, AnswerQuery(e) PROVE HistoryOK'
  <2>1. Op(e) \in Operation /\ Op(e).id \in 1 .. MaxOps
    BY <1>11, OpType, OperationFields, AsyncDbAssumption DEF TypeInv, LockHolderExecutes, AnswerQuery, Executors
  <2>2. finished' = Append(finished, Op(e)) \/ finished' = finished
    BY <1>11 DEF AnswerQuery, Leave
  <2>3. finished' \in Seq(Operation)
    BY <1>11, <2>1, <2>2, AppendProperties DEF TypeInv, HistoryOK
  <2>4. UNCHANGED <<issued, delayed, acked, failures, drops>>
    BY <1>11 DEF AnswerQuery
  <2> QED
    BY <1>11, <2>3, <2>4 DEF TypeInv, HistoryOK
<1>12. ASSUME TypeInv, Reconnect PROVE HistoryOK'
  <2>1. drops' \in 0 .. MaxDrops /\ UNCHANGED <<issued, delayed, finished, acked, failures>>
    BY <1>12, SMTT(30) DEF TypeInv, HistoryOK, Reconnect
  <2> QED
    BY <1>12, <2>1 DEF TypeInv, HistoryOK
<1>13. ASSUME TypeInv, UNCHANGED <<issued, delayed, finished, acked, failures, drops>> PROVE HistoryOK'
  BY <1>13, SMTT(30) DEF TypeInv, HistoryOK
<1> QED
  BY <1>1, <1>2, <1>3, <1>4, <1>5, <1>6, <1>7, <1>8, <1>9, <1>10, <1>11, <1>12, <1>13
     DEF Next, Call, Run, DelayThreadStep, vars, callerVars, threadVars, connVars, serverVars, queryVars, histVars,
         BeginTransaction, ExecuteInTransaction, RollbackTransaction,
         EndThread, RunStatement, LockForQuery, RunQuery, Wake,
         TakeRequest, QueueDrained, CheckRunning, UpdateResultQueue,
         StartServer, StopDelayThread, JoinDelayThread, Halted

\* The lock's holder has something to execute.
LEMMA LockNext == TypeInv /\ [Next]_vars => LockHolderExecutes'
<1> USE AsyncDbAssumption
<1>1. ASSUME TypeInv, NEW t \in Threads, CommitTransactionDirect(t) PROVE LockHolderExecutes'
  <2>1. exec[t] = << >> /\ UNCHANGED lockOwner
        /\ exec' = [exec EXCEPT ![t] = <<NewOp(t, "trans", trans[t])>>]
    BY <1>1 DEF CommitTransactionDirect, Calling, Ready
  <2> QED
    BY <1>1, <2>1, SMTT(30) DEF TypeInv, ConnectionOK, LockHolderExecutes, Executors, Op
<1>2. ASSUME TypeInv, NEW e \in Executors, RunPlain(e) PROVE LockHolderExecutes'
  <2>1. lockOwner' = NoOne
    BY <1>2 DEF RunPlain, Leave
  <2> QED
    BY <1>2, <2>1 DEF LockHolderExecutes
<1>3. ASSUME TypeInv, NEW e \in Executors, RunEmptyTransaction(e) PROVE LockHolderExecutes'
  <2>1. lockOwner # e
    BY <1>3, AsyncDbAssumption, SMTT(30) DEF TypeInv, LockHolderExecutes, RunEmptyTransaction, Executors
  <2>2. exec' = [exec EXCEPT ![e] = << >>] /\ UNCHANGED lockOwner
    BY <1>3 DEF RunEmptyTransaction
  <2> QED
    BY <1>3, <2>1, <2>2, SMTT(30) DEF TypeInv, ConnectionOK, LockHolderExecutes, Op
<1>4. ASSUME TypeInv, NEW e \in Executors, StartTransaction(e) PROVE LockHolderExecutes'
  BY <1>4 DEF StartTransaction, LockHolderExecutes, Op
<1>5. ASSUME TypeInv, NEW e \in Executors, FailStatement(e) PROVE LockHolderExecutes'
  <2>1. lockOwner' = NoOne
    BY <1>5 DEF FailStatement, Leave
  <2> QED
    BY <1>5, <2>1 DEF LockHolderExecutes
<1>6. ASSUME TypeInv, NEW e \in Executors, EndTransaction(e) PROVE LockHolderExecutes'
  <2>1. lockOwner' = NoOne
    BY <1>6 DEF EndTransaction, Leave
  <2> QED
    BY <1>6, <2>1 DEF LockHolderExecutes
<1>7. ASSUME TypeInv, NEW e \in Executors, LockForQuery(e) PROVE LockHolderExecutes'
  BY <1>7 DEF LockForQuery, LockHolderExecutes, Op
<1>8. ASSUME TypeInv, NEW e \in Executors, AnswerQuery(e) PROVE LockHolderExecutes'
  <2>1. lockOwner' = NoOne
    BY <1>8 DEF AnswerQuery, Leave
  <2> QED
    BY <1>8, <2>1 DEF LockHolderExecutes
<1>9. ASSUME TypeInv, TakeRequest PROVE LockHolderExecutes'
  <2>1. exec[DelayThread] = << >> /\ UNCHANGED lockOwner
        /\ exec' = [exec EXCEPT ![DelayThread] = <<Head(sqlQueue)>>]
    BY <1>9 DEF TakeRequest
  <2> QED
    BY <1>9, <2>1, SMTT(30) DEF TypeInv, ConnectionOK, LockHolderExecutes, Executors, Op
<1>10. ASSUME TypeInv, UNCHANGED <<exec, lockOwner>> PROVE LockHolderExecutes'
  BY <1>10, SMTT(30) DEF TypeInv, LockHolderExecutes, Op
<1> QED
  BY <1>1, <1>2, <1>3, <1>4, <1>5, <1>6, <1>7, <1>8, <1>9, <1>10
     DEF Next, Call, Run, DelayThreadStep, vars, callerVars, threadVars, connVars, serverVars, queryVars, histVars,
         DirectExecute, BeginTransaction, ExecuteInTransaction,
         ExecuteDelayed, CommitTransaction, RollbackTransaction,
         AsyncQuery, EndThread, RunStatement, RunQuery, Wake,
         QueueDrained, CheckRunning, UpdateResultQueue, Reconnect,
         StartServer, StopDelayThread, JoinDelayThread, Halted

-----------------------------------------------------------------------------
\* All types hold at the start.
LEMMA TypeInit == Init => FlagsOK /\ TypeInv
<1> SUFFICES ASSUME Init PROVE FlagsOK /\ TypeInv
  OBVIOUS
<1>1. FlagsOK
  BY Zenon DEF Init, FlagsOK
<1>2. CallersOK
  BY AsyncDbAssumption, SMTT(30) DEF Init, CallersOK, NoTrans
<1>3. ThreadOK
  BY SMTT(30) DEF Init, ThreadOK, Phases
<1>4. ConnectionOK
  BY AsyncDbAssumption, SMTT(30) DEF Init, ConnectionOK
<1>5. ServerOK
  BY SMTT(30) DEF Init, ServerOK
<1>6. QueriesOK
  BY SMTT(30) DEF Init, QueriesOK
<1>7. HistoryOK
  BY AsyncDbAssumption, SMTT(30) DEF Init, HistoryOK
<1>8. LockHolderExecutes
  BY DEF Init, LockHolderExecutes
<1> QED
  BY <1>1, <1>2, <1>3, <1>4, <1>5, <1>6, <1>7, <1>8 DEF TypeInv

\* A step keeps all types.
LEMMA TypeNext == TypeInv /\ [Next]_vars => TypeInv'
  BY CallersNext, ThreadNext, ConnectionNext, ServerNext, QueriesNext, HistoryNext, LockNext DEF TypeInv

\* Every variable keeps its type, and the connection's lock is only ever held by
\* a thread that is executing a query or a non-empty transaction, whatever the
\* calls, failures and lost connections.
THEOREM TypeCorrect == Spec => [](TypeOK /\ LockHolderExecutes)
<1>1. Spec => []FlagsOK
  BY TypeInit, FlagsNext, PTL DEF Spec
<1>2. Spec => []TypeInv
  BY TypeInit, TypeNext, PTL DEF Spec
<1>3. FlagsOK /\ TypeInv => TypeOK /\ LockHolderExecutes
  BY DEF TypeInv, TypeOK
<1> QED
  BY <1>1, <1>2, <1>3, PTL

-----------------------------------------------------------------------------
(* The order of the delayed operations.                                    *)

\* A sequence of at most one element that is not empty is its head.
LEMMA SingletonSeq ==
  ASSUME NEW S, NEW s \in Seq(S), Len(s) <= 1, s # << >>
  PROVE  s = <<Head(s)>>
<1>1. Len(s) \in Nat \ {0}
  BY EmptySeq
<1>2. Len(s) = 1
  BY <1>1, SMTT(30)
<1> QED
  BY <1>2, SMTT(30)

\* An executor runs one operation at a time.
LEMMA OneOperation ==
  ASSUME ConnectionOK, NEW e \in Executors, exec[e] # << >>
  PROVE  exec[e] = <<Op(e)>>
  BY SingletonSeq DEF ConnectionOK, Op

\* Taking the first element off a sequence.
LEMMA HeadOffConcat ==
  ASSUME NEW S, NEW a \in Seq(S), NEW b \in Seq(S), b # << >>
  PROVE  (a \o << >>) \o b = (a \o <<Head(b)>>) \o Tail(b)
<1>1. Head(b) \in S /\ Tail(b) \in Seq(S) /\ <<Head(b)>> \in Seq(S)
  BY HeadTailProperties
<1>2. b = <<Head(b)>> \o Tail(b)
  BY <1>1, SMTT(30)
<1>3. a \o << >> = a
  BY ConcatEmptySeq
<1> QED
  BY <1>1, <1>2, <1>3, ConcatAssociative

\* Delay(op) appends to both sides of the equation.
LEMMA DelayKeepsOrder ==
  ASSUME TypeInv, NothingLostOrOvertaken, NEW op \in Operation, Delay(op),
         UNCHANGED <<exec, finished>>
  PROVE  NothingLostOrOvertaken'
<1>1. finished \in Seq(Operation) /\ exec[DelayThread] \in Seq(Operation) /\ sqlQueue \in Seq(Operation)
  BY DEF TypeInv, HistoryOK, ConnectionOK, ThreadOK, Executors
<1> DEFINE taken == finished \o exec[DelayThread]
<1>2. taken \in Seq(Operation)
  BY <1>1, ConcatProperties
<1>3. delayed = taken \o sqlQueue
  BY DEF NothingLostOrOvertaken
<1>4. taken' = taken
  OBVIOUS
<1>5. delayed' = Append(delayed, op) /\ sqlQueue' = Append(sqlQueue, op)
  BY DEF Delay
<1> HIDE DEF taken
<1>6. Append(taken \o sqlQueue, op) = taken \o Append(sqlQueue, op)
  <2> SUFFICES ASSUME taken \in Seq(Operation), sqlQueue \in Seq(Operation)
               PROVE  Append(taken \o sqlQueue, op) = taken \o Append(sqlQueue, op)
    BY <1>1, <1>2
  <2> QED
    BY SMTT(30)
<1>7. delayed' = taken' \o sqlQueue'
  BY <1>3, <1>4, <1>5, <1>6
<1> QED
  BY <1>7 DEF NothingLostOrOvertaken, taken

\* An executor that finishes moves its operation to the executed ones.
LEMMA FinishKeepsOrder ==
  ASSUME TypeInv, NothingLostOrOvertaken, NEW e \in Executors, exec[e] # << >>,
         exec' = [exec EXCEPT ![e] = << >>],
         finished' = IF e = DelayThread THEN Append(finished, Op(e)) ELSE finished,
         UNCHANGED <<sqlQueue, delayed>>
  PROVE  NothingLostOrOvertaken'
<1>1. finished \in Seq(Operation) /\ exec \in [Executors -> Seq(Operation)] /\ DelayThread \in Executors
  BY DEF TypeInv, HistoryOK, ConnectionOK, Executors
<1>2. CASE e = DelayThread
  <2>1. exec[DelayThread] = <<Op(e)>> /\ Op(e) \in Operation
    BY <1>2, OneOperation, OpType DEF TypeInv
  <2>2. finished' = finished \o <<Op(e)>>
    BY <1>1, <1>2, <2>1, AppendIsConcat
  <2>3. finished' \in Seq(Operation) /\ exec'[DelayThread] = << >>
    BY <1>1, <1>2, <2>1, AppendProperties
  <2>4. finished' \o exec'[DelayThread] = finished \o exec[DelayThread]
    BY <2>1, <2>2, <2>3, ConcatEmptySeq
  <2> QED
    BY <2>4 DEF NothingLostOrOvertaken
<1>3. CASE e # DelayThread
  <2>1. finished' = finished /\ exec'[DelayThread] = exec[DelayThread]
    BY <1>1, <1>3
  <2> QED
    BY <2>1 DEF NothingLostOrOvertaken
<1> QED
  BY <1>2, <1>3

\* Every step keeps the delayed operations in their order.
LEMMA OrderNext == TypeInv /\ NothingLostOrOvertaken /\ [Next]_vars => NothingLostOrOvertaken'
<1> USE AsyncDbAssumption
<1>1. ASSUME TypeInv, NothingLostOrOvertaken, NEW t \in Threads, ExecuteDelayed(t) PROVE NothingLostOrOvertaken'
  <2>1. Delay(NewOp(t, "stmt", 1))
    BY <1>1 DEF ExecuteDelayed
  <2>2. NewOp(t, "stmt", 1) \in Operation
    BY <1>1, NewOpType, SMTT(30) DEF TypeInv, ExecuteDelayed, Kinds
  <2> QED
    BY <1>1, <2>1, <2>2, DelayKeepsOrder DEF ExecuteDelayed, connVars
<1>2. ASSUME TypeInv, NothingLostOrOvertaken, NEW t \in Threads, CommitTransaction(t) PROVE NothingLostOrOvertaken'
  <2>1. Delay(NewOp(t, "trans", trans[t]))
    BY <1>2 DEF CommitTransaction
  <2>2. trans[t] \in 0 .. MaxSize /\ issued < MaxOps
    BY <1>2, SMTT(30) DEF TypeInv, CallersOK, NoTrans, CommitTransaction
  <2>3. NewOp(t, "trans", trans[t]) \in Operation
    BY <1>2, <2>2, NewOpType DEF TypeInv, Kinds
  <2> QED
    BY <1>2, <2>1, <2>3, DelayKeepsOrder DEF CommitTransaction, connVars
<1>3. ASSUME TypeInv, NothingLostOrOvertaken, NEW t \in Threads, CommitTransactionDirect(t) PROVE NothingLostOrOvertaken'
  <2>1. exec' = [exec EXCEPT ![t] = <<NewOp(t, "trans", trans[t])>>]
        /\ UNCHANGED <<sqlQueue, delayed, finished>>
    BY <1>3 DEF CommitTransactionDirect, threadVars
  <2>2. exec'[DelayThread] = exec[DelayThread]
    BY <1>3, <2>1 DEF TypeInv, ConnectionOK, Executors
  <2> QED
    BY <1>3, <2>1, <2>2 DEF NothingLostOrOvertaken
<1>4. ASSUME TypeInv, NothingLostOrOvertaken, NEW t \in Threads, AsyncQuery(t) PROVE NothingLostOrOvertaken'
  <2>1. PICK size \in 1 .. MaxSize : Delay(NewOp(t, "query", size))
    BY <1>4 DEF AsyncQuery
  <2>2. NewOp(t, "query", size) \in Operation
    BY <1>4, NewOpType, SMTT(30) DEF TypeInv, AsyncQuery, Kinds
  <2> QED
    BY <1>4, <2>1, <2>2, DelayKeepsOrder DEF AsyncQuery, connVars
<1>5. ASSUME TypeInv, NothingLostOrOvertaken, NEW e \in Executors, RunPlain(e) PROVE NothingLostOrOvertaken'
  <2>1. exec[e] # << >>
    BY <1>5 DEF RunPlain, TypeInv, LockHolderExecutes, Executors
  <2> QED
    BY <1>5, <2>1, FinishKeepsOrder DEF RunPlain, Leave, threadVars
<1>6. ASSUME TypeInv, NothingLostOrOvertaken, NEW e \in Executors, RunEmptyTransaction(e) PROVE NothingLostOrOvertaken'
  <2>1. exec[e] # << >>
    BY <1>6 DEF RunEmptyTransaction, TypeInv, LockHolderExecutes, Executors
  <2> QED
    BY <1>6, <2>1, FinishKeepsOrder DEF RunEmptyTransaction, Leave, threadVars
<1>7. ASSUME TypeInv, NothingLostOrOvertaken, NEW e \in Executors, FailStatement(e) PROVE NothingLostOrOvertaken'
  <2>1. exec[e] # << >>
    BY <1>7 DEF FailStatement, TypeInv, LockHolderExecutes, Executors
  <2> QED
    BY <1>7, <2>1, FinishKeepsOrder DEF FailStatement, Leave, threadVars
<1>8. ASSUME TypeInv, NothingLostOrOvertaken, NEW e \in Executors, EndTransaction(e) PROVE NothingLostOrOvertaken'
  <2>1. exec[e] # << >>
    BY <1>8 DEF EndTransaction, TypeInv, LockHolderExecutes, Executors
  <2> QED
    BY <1>8, <2>1, FinishKeepsOrder DEF EndTransaction, Leave, threadVars
<1>9. ASSUME TypeInv, NothingLostOrOvertaken, NEW e \in Executors, AnswerQuery(e) PROVE NothingLostOrOvertaken'
  <2>1. exec[e] # << >>
    BY <1>9 DEF AnswerQuery, TypeInv, LockHolderExecutes, Executors
  <2> QED
    BY <1>9, <2>1, FinishKeepsOrder DEF AnswerQuery, Leave, threadVars
<1>10. ASSUME TypeInv, NothingLostOrOvertaken, TakeRequest PROVE NothingLostOrOvertaken'
  <2>1. /\ exec[DelayThread] = << >> /\ sqlQueue # << >> /\ sqlQueue' = Tail(sqlQueue)
        /\ exec' = [exec EXCEPT ![DelayThread] = <<Head(sqlQueue)>>]
        /\ UNCHANGED <<delayed, finished>>
    BY <1>10 DEF TakeRequest, histVars
  <2>2. exec'[DelayThread] = <<Head(sqlQueue)>>
    BY <1>10, <2>1 DEF TypeInv, ConnectionOK, Executors
  <2>3. finished \in Seq(Operation) /\ sqlQueue \in Seq(Operation)
    BY <1>10 DEF TypeInv, HistoryOK, ThreadOK
  <2>4. (finished \o << >>) \o sqlQueue = (finished \o <<Head(sqlQueue)>>) \o Tail(sqlQueue)
    BY <2>1, <2>3, HeadOffConcat
  <2> QED
    BY <1>10, <2>1, <2>2, <2>4 DEF NothingLostOrOvertaken
<1>11. ASSUME TypeInv, NothingLostOrOvertaken, UNCHANGED <<exec, sqlQueue, delayed, finished>> PROVE NothingLostOrOvertaken'
  BY <1>11 DEF NothingLostOrOvertaken
<1> QED
  BY <1>1, <1>2, <1>3, <1>4, <1>5, <1>6, <1>7, <1>8, <1>9, <1>10, <1>11
     DEF Next, Call, Run, DelayThreadStep, vars, callerVars, threadVars, connVars, serverVars, queryVars, histVars,
         DirectExecute, BeginTransaction, ExecuteInTransaction,
         RollbackTransaction, EndThread, StartTransaction,
         RunStatement, LockForQuery, RunQuery, Wake, QueueDrained,
         CheckRunning, UpdateResultQueue, Reconnect, StartServer,
         StopDelayThread, JoinDelayThread, Halted

\* Delayed operations are executed in the order of the calls, none is lost,
\* run twice or overtaken, for any number of callers and whatever fails.
THEOREM OrderCorrect == Spec => []NothingLostOrOvertaken
<1>1. Init => NothingLostOrOvertaken
  BY AsyncDbAssumption, ConcatEmptySeq, SMTT(30) DEF Init, NothingLostOrOvertaken, Executors
<1>2. Spec => []TypeInv
  BY TypeInit, TypeNext, PTL DEF Spec
<1> QED
  BY <1>1, <1>2, OrderNext, PTL DEF Spec

-----------------------------------------------------------------------------
(* The halt of the delay thread.                                           *)

\* What the halt relies on: the delay thread is stopped only once every other
\* thread has ended, it leaves its loop only once it is stopped, and
\* ~SqlDelayThread returns only with an empty queue.
HaltInv ==
    /\ ~running => live = {Main} /\ allowAsync
    /\ phase \in {"exited", "flush", "gone"} => ~running
    /\ phase = "gone" => sqlQueue = << >> /\ exec[DelayThread] = << >>

\* Every step keeps what the halt relies on.
LEMMA HaltNext == TypeInv /\ HaltInv /\ [Next]_vars => HaltInv'
<1> USE AsyncDbAssumption
<1>1. ASSUME TypeInv, HaltInv, NEW t \in Threads, ExecuteDelayed(t) PROVE HaltInv'
  <2>1. t \in live /\ (t = Main => running) /\ UNCHANGED <<live, allowAsync, running, phase>>
    BY <1>1, Zenon DEF ExecuteDelayed, Calling, Ready, callerVars
  <2>2. running
    BY <1>1, <2>1, Zenon DEF HaltInv
  <2> QED
    BY <1>1, <2>1, <2>2, Zenon DEF HaltInv
<1>2. ASSUME TypeInv, HaltInv, NEW t \in Threads, CommitTransaction(t) PROVE HaltInv'
  <2>1. t \in live /\ (t = Main => running) /\ UNCHANGED <<live, allowAsync, running, phase>>
    BY <1>2, Zenon DEF CommitTransaction, Calling, Ready, callerVars
  <2>2. running
    BY <1>2, <2>1, Zenon DEF HaltInv
  <2> QED
    BY <1>2, <2>1, <2>2, Zenon DEF HaltInv
<1>3. ASSUME TypeInv, HaltInv, NEW t \in Threads, CommitTransactionDirect(t) PROVE HaltInv'
  <2>1. t # DelayThread /\ exec' = [exec EXCEPT ![t] = <<NewOp(t, "trans", trans[t])>>]
        /\ UNCHANGED <<live, allowAsync, running, phase, sqlQueue>>
    BY <1>3, Zenon DEF CommitTransactionDirect, threadVars
  <2>2. exec'[DelayThread] = exec[DelayThread]
    BY <1>3, <2>1 DEF TypeInv, ConnectionOK, Executors
  <2> QED
    BY <1>3, <2>1, <2>2, Zenon DEF HaltInv
<1>4. ASSUME TypeInv, HaltInv, NEW t \in Threads, AsyncQuery(t) PROVE HaltInv'
  <2>1. t \in live /\ (t = Main => running) /\ UNCHANGED <<live, allowAsync, running, phase>>
    BY <1>4, Zenon DEF AsyncQuery, Calling, Ready, callerVars
  <2>2. running
    BY <1>4, <2>1, Zenon DEF HaltInv
  <2> QED
    BY <1>4, <2>1, <2>2, Zenon DEF HaltInv
<1>5. ASSUME TypeInv, HaltInv, NEW t \in Threads, EndThread(t) PROVE HaltInv'
  <2>1. t \in live /\ t # Main /\ UNCHANGED <<allowAsync, running, phase, sqlQueue, exec>>
    BY <1>5, Zenon DEF EndThread, Ready, threadVars, connVars
  <2>2. running
    BY <1>5, <2>1, Zenon DEF HaltInv
  <2> QED
    BY <1>5, <2>1, <2>2, Zenon DEF HaltInv
<1>6. ASSUME TypeInv, HaltInv, NEW e \in Executors, RunPlain(e) PROVE HaltInv'
  <2>1. exec' = [exec EXCEPT ![e] = << >>] /\ UNCHANGED <<live, allowAsync, running, phase, sqlQueue>>
    BY <1>6, Zenon DEF RunPlain, Leave, callerVars, threadVars
  <2>2. exec[DelayThread] = << >> => exec'[DelayThread] = << >>
    BY <1>6, <2>1 DEF TypeInv, ConnectionOK, Executors
  <2> QED
    BY <1>6, <2>1, <2>2, Zenon DEF HaltInv
<1>7. ASSUME TypeInv, HaltInv, NEW e \in Executors, RunEmptyTransaction(e) PROVE HaltInv'
  <2>1. exec' = [exec EXCEPT ![e] = << >>] /\ UNCHANGED <<live, allowAsync, running, phase, sqlQueue>>
    BY <1>7, Zenon DEF RunEmptyTransaction, Leave, callerVars, threadVars
  <2>2. exec[DelayThread] = << >> => exec'[DelayThread] = << >>
    BY <1>7, <2>1 DEF TypeInv, ConnectionOK, Executors
  <2> QED
    BY <1>7, <2>1, <2>2, Zenon DEF HaltInv
<1>8. ASSUME TypeInv, HaltInv, NEW e \in Executors, FailStatement(e) PROVE HaltInv'
  <2>1. exec' = [exec EXCEPT ![e] = << >>] /\ UNCHANGED <<live, allowAsync, running, phase, sqlQueue>>
    BY <1>8, Zenon DEF FailStatement, Leave, callerVars, threadVars
  <2>2. exec[DelayThread] = << >> => exec'[DelayThread] = << >>
    BY <1>8, <2>1 DEF TypeInv, ConnectionOK, Executors
  <2> QED
    BY <1>8, <2>1, <2>2, Zenon DEF HaltInv
<1>9. ASSUME TypeInv, HaltInv, NEW e \in Executors, EndTransaction(e) PROVE HaltInv'
  <2>1. exec' = [exec EXCEPT ![e] = << >>] /\ UNCHANGED <<live, allowAsync, running, phase, sqlQueue>>
    BY <1>9, Zenon DEF EndTransaction, Leave, callerVars, threadVars
  <2>2. exec[DelayThread] = << >> => exec'[DelayThread] = << >>
    BY <1>9, <2>1 DEF TypeInv, ConnectionOK, Executors
  <2> QED
    BY <1>9, <2>1, <2>2, Zenon DEF HaltInv
<1>10. ASSUME TypeInv, HaltInv, NEW e \in Executors, AnswerQuery(e) PROVE HaltInv'
  <2>1. exec' = [exec EXCEPT ![e] = << >>] /\ UNCHANGED <<live, allowAsync, running, phase, sqlQueue>>
    BY <1>10, Zenon DEF AnswerQuery, Leave, callerVars, threadVars
  <2>2. exec[DelayThread] = << >> => exec'[DelayThread] = << >>
    BY <1>10, <2>1 DEF TypeInv, ConnectionOK, Executors
  <2> QED
    BY <1>10, <2>1, <2>2, Zenon DEF HaltInv
<1>11. ASSUME TypeInv, HaltInv, Wake PROVE HaltInv'
  <2>1. phase' = "drain" /\ UNCHANGED <<live, allowAsync, running>>
    BY <1>11, Zenon DEF Wake, callerVars
  <2>2. phase' \notin {"exited", "flush", "gone"} /\ phase' # "gone"
    BY <2>1
  <2> QED
    BY <1>11, <2>1, <2>2, Zenon DEF HaltInv
<1>12. ASSUME TypeInv, HaltInv, TakeRequest PROVE HaltInv'
  <2>1. phase # "gone" /\ UNCHANGED <<live, allowAsync, running, phase>>
    BY <1>12 DEF TakeRequest, callerVars
  <2> QED
    BY <1>12, <2>1, Zenon DEF HaltInv
<1>13. ASSUME TypeInv, HaltInv, QueueDrained PROVE HaltInv'
  <2>0. phase \in {"drain", "flush"} /\ phase' = IF phase = "drain" THEN "check" ELSE "gone"
    BY <1>13, Zenon DEF QueueDrained
  <2>1. (phase = "drain" /\ phase' = "check") \/ (phase = "flush" /\ phase' = "gone")
    BY <2>0
  <2>2. exec[DelayThread] = << >> /\ sqlQueue = << >> /\ UNCHANGED <<live, allowAsync, running, exec, sqlQueue>>
    BY <1>13, Zenon DEF QueueDrained, callerVars, connVars
  <2>3. phase' \in {"exited", "flush", "gone"} => phase \in {"exited", "flush", "gone"}
    BY <2>1
  <2> QED
    BY <1>13, <2>2, <2>3, Zenon DEF HaltInv
<1>14. ASSUME TypeInv, HaltInv, CheckRunning PROVE HaltInv'
  <2>1. UNCHANGED <<live, allowAsync, running, exec, sqlQueue>>
    BY <1>14, Zenon DEF CheckRunning, callerVars, connVars
  <2>2. phase' = "sleep" \/ (phase' = "exited" /\ ~running)
    BY <1>14, Zenon DEF CheckRunning
  <2>3. phase' # "gone" /\ (phase' \in {"exited", "flush", "gone"} => ~running)
    BY <2>2
  <2> QED
    BY <1>14, <2>1, <2>3, Zenon DEF HaltInv
<1>15. ASSUME TypeInv, HaltInv, StartServer PROVE HaltInv'
  <2>1. running /\ UNCHANGED <<running, phase, sqlQueue, exec>>
    BY <1>15, Zenon DEF StartServer, HaltInv, threadVars, connVars
  <2> QED
    BY <1>15, <2>1, Zenon DEF HaltInv
<1>16. ASSUME TypeInv, HaltInv, StopDelayThread PROVE HaltInv'
  <2>1. ~running' /\ live' = {Main} /\ allowAsync' /\ UNCHANGED <<phase, sqlQueue, exec>>
    BY <1>16, Zenon DEF StopDelayThread, callerVars, connVars
  <2> QED
    BY <1>16, <2>1, Zenon DEF HaltInv
<1>17. ASSUME TypeInv, HaltInv, JoinDelayThread PROVE HaltInv'
  <2>1. ~running /\ phase' = "flush" /\ UNCHANGED <<live, allowAsync, running>>
    BY <1>17, Zenon DEF JoinDelayThread, callerVars
  <2>2. phase' # "gone"
    BY <2>1
  <2> QED
    BY <1>17, <2>1, <2>2, Zenon DEF HaltInv
<1>18. ASSUME TypeInv, HaltInv, UNCHANGED <<live, allowAsync, running, phase, sqlQueue, exec>> PROVE HaltInv'
  BY <1>18, Zenon DEF HaltInv
<1> QED
  BY <1>1, <1>2, <1>3, <1>4, <1>5, <1>6, <1>7, <1>8, <1>9, <1>10, <1>11, <1>12, <1>13, <1>14, <1>15, <1>16, <1>17, <1>18
     DEF Next, Call, Run, DelayThreadStep, vars, callerVars, threadVars, connVars, serverVars, queryVars, histVars,
         DirectExecute, BeginTransaction, ExecuteInTransaction,
         RollbackTransaction, StartTransaction, RunStatement,
         LockForQuery, RunQuery, UpdateResultQueue, Reconnect, Halted

\* HaltDelayThread returns only after every delayed operation was executed.
THEOREM HaltCorrect == Spec => []HaltFlushesQueue
<1>1. Init => HaltInv
  BY DEF Init, HaltInv
<1>2. Spec => []TypeInv
  BY TypeInit, TypeNext, PTL DEF Spec
<1>3. Spec => []HaltInv
  BY <1>1, <1>2, HaltNext, PTL DEF Spec
<1>4. TypeInv /\ HaltInv /\ NothingLostOrOvertaken => HaltFlushesQueue
  <2> SUFFICES ASSUME TypeInv, HaltInv, NothingLostOrOvertaken, phase = "gone"
               PROVE  finished = delayed
    BY DEF HaltFlushesQueue
  <2>1. delayed = (finished \o << >>) \o << >>
    BY Zenon DEF HaltInv, NothingLostOrOvertaken
  <2>2. finished \in Seq(Operation)
    BY DEF TypeInv, HistoryOK
  <2> QED
    BY <2>1, <2>2, ConcatEmptySeq
<1> QED
  BY <1>2, <1>3, <1>4, OrderCorrect, PTL

\* A delayed operation is executed once, in the order of the queue, and none is
\* left when the thread has been halted.
THEOREM KeptCorrect == Spec => []DelayedIsKept
<1>1. NothingLostOrOvertaken /\ HaltFlushesQueue => DelayedIsKept
  BY DEF DelayedIsKept
<1> QED
  BY <1>1, OrderCorrect, HaltCorrect, PTL

-----------------------------------------------------------------------------
(* What a step does to the connection, the server and the histories.       *)

\* A step that leaves them alone.
Quiet == UNCHANGED <<connVars, serverVars, queryVars, histVars, sqlQueue>>

\* A call that delays an operation with a new identifier.
Submits(op) ==
    /\ Delay(op)
    /\ op.id = issued + 1
    /\ UNCHANGED <<connVars, serverVars, queryVars, finished, acked, drops>>

\* Every step is quiet, delays an operation, or is one of the other actions.
LEMMA NextCases ==
  ASSUME TypeInv, [Next]_vars
  PROVE  \/ Quiet
         \/ \E op \in Operation : Submits(op)
         \/ \E t \in Threads : DirectExecute(t) \/ CommitTransactionDirect(t)
         \/ \E e \in Executors : Run(e)
         \/ UpdateResultQueue \/ TakeRequest \/ Reconnect
<1>1. ASSUME NEW t \in Threads, ExecuteDelayed(t) PROVE \E op \in Operation : Submits(op)
  <2>1. Delay(NewOp(t, "stmt", 1)) /\ issued < MaxOps
    BY <1>1 DEF ExecuteDelayed
  <2>2. NewOp(t, "stmt", 1) \in Operation
    BY <2>1, NewOpType, AsyncDbAssumption, SMTT(30) DEF TypeInv, Kinds
  <2> QED
    BY <1>1, <2>1, <2>2 DEF ExecuteDelayed, Submits, NewOp
<1>2. ASSUME NEW t \in Threads, CommitTransaction(t) PROVE \E op \in Operation : Submits(op)
  <2>1. Delay(NewOp(t, "trans", trans[t])) /\ issued < MaxOps
    BY <1>2 DEF CommitTransaction
  <2>2. trans[t] \in 0 .. MaxSize
    BY <1>2, AsyncDbAssumption, SMTT(30) DEF TypeInv, CallersOK, NoTrans, CommitTransaction
  <2>3. NewOp(t, "trans", trans[t]) \in Operation
    BY <2>1, <2>2, NewOpType DEF TypeInv, Kinds
  <2> QED
    BY <1>2, <2>1, <2>3 DEF CommitTransaction, Submits, NewOp
<1>3. ASSUME NEW t \in Threads, AsyncQuery(t) PROVE \E op \in Operation : Submits(op)
  <2>1. issued < MaxOps
    BY <1>3 DEF AsyncQuery
  <2>2. PICK size \in 1 .. MaxSize : Delay(NewOp(t, "query", size))
    BY <1>3 DEF AsyncQuery
  <2>3. NewOp(t, "query", size) \in Operation
    BY <2>1, NewOpType, AsyncDbAssumption, SMTT(30) DEF TypeInv, Kinds
  <2> QED
    BY <1>3, <2>2, <2>3 DEF AsyncQuery, Submits, NewOp
<1>4. ASSUME \/ \E t \in Threads : \/ BeginTransaction(t) \/ ExecuteInTransaction(t)
                                   \/ RollbackTransaction(t) \/ EndThread(t)
             \/ Wake \/ QueueDrained \/ CheckRunning
             \/ StartServer \/ StopDelayThread \/ JoinDelayThread \/ Halted \/ UNCHANGED vars
      PROVE  Quiet
  BY <1>4, Zenon DEF Quiet, BeginTransaction, ExecuteInTransaction, RollbackTransaction, EndThread,
     Wake, QueueDrained, CheckRunning, StartServer, StopDelayThread, JoinDelayThread, Halted, vars,
     threadVars
<1> QED
  BY <1>1, <1>2, <1>3, <1>4, Zenon DEF Next, Call, DelayThreadStep

-----------------------------------------------------------------------------
(* The connection and the server.                                          *)

\* The open transaction is that of the lock's holder, and only the delay thread
\* executes other operations than transactions.
ServerInv ==
    /\ lockOwner = NoOne => ~inTrans /\ pos = 1
    /\ inTrans => lockOwner # NoOne /\ Op(lockOwner).kind = "trans"
    /\ ~inTrans => uncommitted = << >>
    /\ \A k \in 1 .. Len(uncommitted) : uncommitted[k].op = Op(lockOwner).id
    /\ \A t \in Threads : exec[t] # << >> => Op(t).kind = "trans"

\* As long as no connection was lost the open transaction holds the statements
\* that its executor has sent.
Sent(op, n) == [i \in 1 .. n |-> [op |-> op.id, n |-> i]]
BodyInv ==
    drops = 0 /\ lockOwner # NoOne /\ Op(lockOwner).kind = "trans" =>
        /\ inTrans
        /\ pos <= Op(lockOwner).size + 1
        /\ uncommitted = Sent(Op(lockOwner), pos - 1)

\* An executor that ends its operation leaves the lock free.
LEMMA LeaveFacts ==
  ASSUME TypeInv, NEW e \in Executors, Leave(e)
  PROVE  /\ lockOwner' = NoOne /\ pos' = 1
         /\ exec'[e] = << >>
         /\ \A f \in Executors : f # e => exec'[f] = exec[f]
  BY Zenon DEF Leave, TypeInv, ConnectionOK

\* A step keeps what is said of who may have uncommitted statements.
LEMMA ServerInvNext ==
  ASSUME TypeInv, ServerInv, [Next]_vars
  PROVE  ServerInv'
<1> USE AsyncDbAssumption
<1>0. /\ exec \in [Executors -> Seq(Operation)] /\ Threads \subseteq Executors /\ DelayThread \in Executors
      /\ uncommitted \in Seq(Statement)
  BY DEF TypeInv, ConnectionOK, ServerOK, Executors
<1>1. ASSUME UNCHANGED <<exec, lockOwner, pos, inTrans, uncommitted>> PROVE ServerInv'
  BY <1>1 DEF ServerInv, Op
<1>2. ASSUME NEW t \in Threads, DirectExecute(t) PROVE ServerInv'
  <2>1. ~inTrans /\ UNCHANGED <<exec, lockOwner, pos, inTrans>>
    BY <1>2 DEF DirectExecute, LockFree, ServerInv, connVars
  <2>2. UNCHANGED uncommitted
    BY <1>2, <2>1 DEF DirectExecute, ServerExecute
  <2> QED
    BY <1>1, <2>1, <2>2
<1>3. ASSUME NEW t \in Threads, CommitTransactionDirect(t) PROVE ServerInv'
  <2>1. /\ exec' = [exec EXCEPT ![t] = <<NewOp(t, "trans", trans[t])>>] /\ exec[t] = << >>
        /\ UNCHANGED <<lockOwner, pos, inTrans, uncommitted>>
    BY <1>3 DEF CommitTransactionDirect, Calling, Ready, serverVars
  <2>2. \A f \in Executors : f # t => exec'[f] = exec[f]
    BY <1>0, <2>1
  <2>3. lockOwner # NoOne => lockOwner # t /\ lockOwner \in Executors
    BY <2>1 DEF TypeInv, LockHolderExecutes, ConnectionOK
  <2>4. uncommitted # << >> => inTrans
    BY DEF ServerInv
  <2>5. Op(t)'.kind = "trans"
    BY <1>0, <2>1 DEF Op, NewOp
  <2> QED
    BY <1>0, <2>1, <2>2, <2>3, <2>4, <2>5, SMTT(30) DEF ServerInv, Op
<1>4. ASSUME TakeRequest PROVE ServerInv'
  <2>1. /\ exec' = [exec EXCEPT ![DelayThread] = <<Head(sqlQueue)>>] /\ exec[DelayThread] = << >>
        /\ UNCHANGED <<lockOwner, pos, inTrans, uncommitted>>
    BY <1>4 DEF TakeRequest, serverVars
  <2>2. \A f \in Executors : f # DelayThread => exec'[f] = exec[f]
    BY <1>0, <2>1
  <2>3. lockOwner # NoOne => lockOwner # DelayThread /\ lockOwner \in Executors
    BY <2>1 DEF TypeInv, LockHolderExecutes, ConnectionOK
  <2>4. uncommitted # << >> => inTrans
    BY DEF ServerInv
  <2> QED
    BY <1>0, <2>1, <2>2, <2>3, <2>4, SMTT(30) DEF ServerInv, Op
<1>5. ASSUME Reconnect PROVE ServerInv'
  BY <1>5, SMTT(30) DEF Reconnect, ServerInv, connVars, Op
<1>6. ASSUME NEW e \in Executors, RunPlain(e) PROVE ServerInv'
  <2>1. Leave(e) /\ ~inTrans /\ UNCHANGED inTrans /\ uncommitted = << >>
    BY <1>6 DEF RunPlain, LockFree, ServerInv
  <2>2. UNCHANGED uncommitted
    BY <1>6, <2>1 DEF RunPlain, ServerExecute
  <2> QED
    BY <1>0, <2>1, <2>2, LeaveFacts, SMTT(30) DEF ServerInv, Op
<1>7. ASSUME NEW e \in Executors, RunEmptyTransaction(e) PROVE ServerInv'
  <2>1. /\ exec' = [exec EXCEPT ![e] = << >>] /\ Op(e).size = 0 /\ Op(e).kind = "trans"
        /\ UNCHANGED <<lockOwner, pos, inTrans, uncommitted>>
    BY <1>7 DEF RunEmptyTransaction, serverVars
  <2>2. lockOwner # NoOne => lockOwner # e /\ lockOwner \in Executors
    BY <2>1, SMTT(30) DEF TypeInv, LockHolderExecutes, ConnectionOK
  <2>3. \A f \in Executors : f # e => exec'[f] = exec[f]
    BY <1>0, <2>1
  <2>4. uncommitted # << >> => inTrans
    BY DEF ServerInv
  <2> QED
    BY <1>0, <2>1, <2>2, <2>3, <2>4, SMTT(30) DEF ServerInv, Op
<1>8. ASSUME NEW e \in Executors, StartTransaction(e) PROVE ServerInv'
  <2>1. uncommitted = << >> /\ UNCHANGED <<exec, pos, uncommitted>> /\ lockOwner' = e /\ e # NoOne
    BY <1>8 DEF StartTransaction, LockFree, ServerInv, Executors
  <2>2. Op(e)'.kind = "trans" /\ (inTrans' => lockOwner' # NoOne)
    BY <1>8, <2>1 DEF StartTransaction, Op
  <2> QED
    BY <2>1, <2>2, SMTT(30) DEF ServerInv, Op
<1>9. ASSUME NEW e \in Executors, RunStatement(e) PROVE ServerInv'
  <2> DEFINE s == [op |-> Op(e).id, n |-> pos]
  <2>1. lockOwner = e /\ ServerExecute(s) /\ UNCHANGED <<exec, lockOwner, inTrans>> /\ e # NoOne
    BY <1>9 DEF RunStatement, Executors
  <2>2. \/ inTrans /\ uncommitted' = Append(uncommitted, s)
        \/ ~inTrans /\ UNCHANGED uncommitted
    BY <2>1 DEF ServerExecute
  <2>3. s \in Statement
    <3>1. Op(e) \in Operation
      BY <2>1, OpType DEF TypeInv, LockHolderExecutes
    <3>2. pos \in Nat \ {0} /\ pos <= Op(e).size
      BY <1>9, SMTT(30) DEF RunStatement, TypeInv, ConnectionOK
    <3>3. pos \in 1 .. MaxSize
      BY <3>1, <3>2, OperationFields, SMTT(30)
    <3> QED
      BY <3>1, <3>3, OperationFields, StatementType
  <2>4. \A k \in 1 .. Len(uncommitted') : uncommitted'[k].op = Op(e).id
    <3> HIDE DEF s
    <3> DEFINE id == Op(e).id
    <3>1. \A k \in 1 .. Len(uncommitted) : uncommitted[k].op = id
      BY <2>1 DEF ServerInv
    <3>2. s.op = id
      BY DEF s
    <3> HIDE DEF id
    <3>3. uncommitted \in Seq(Statement)
      BY <1>0
    <3>4. ASSUME inTrans, NEW k \in 1 .. Len(uncommitted') PROVE uncommitted'[k].op = id
      <4>1. uncommitted' = Append(uncommitted, s)
        BY <2>2, <3>4
      <4>2. k = Len(uncommitted) + 1 => uncommitted'[k] = s
        BY <2>3, <3>3, <4>1, AppendProperties
      <4>3. k # Len(uncommitted) + 1 => k \in 1 .. Len(uncommitted) /\ uncommitted'[k] = uncommitted[k]
        BY <2>3, <3>3, <4>1, AppendProperties
      <4> QED
        BY <3>1, <3>2, <4>2, <4>3
    <3>5. ~inTrans => uncommitted' = uncommitted
      BY <2>2
    <3> QED
      BY <3>1, <3>4, <3>5 DEF id
  <2>5. inTrans => lockOwner = e /\ Op(e).kind = "trans"
    BY <2>1 DEF ServerInv
  <2>6. ~inTrans => uncommitted' = << >>
    BY <2>2 DEF ServerInv
  <2> QED
    BY <1>0, <2>1, <2>4, <2>5, <2>6, Zenon DEF ServerInv, Op
<1>10. ASSUME NEW e \in Executors, FailStatement(e) \/ EndTransaction(e) PROVE ServerInv'
  <2>1. Leave(e) /\ ~inTrans' /\ uncommitted' = << >>
    BY <1>10 DEF FailStatement, EndTransaction
  <2>2. lockOwner' = NoOne /\ pos' = 1 /\ \A t \in Threads : exec'[t] = exec[t] \/ exec'[t] = << >>
    BY <1>0, <2>1, LeaveFacts
  <2> QED
    BY <2>1, <2>2, SMTT(30) DEF ServerInv, Op
<1>11. ASSUME NEW e \in Executors, LockForQuery(e) PROVE ServerInv'
  BY <1>0, <1>11, SMTT(30) DEF LockForQuery, LockFree, ServerInv, Op, serverVars
<1>12. ASSUME NEW e \in Executors, RunQuery(e) PROVE ServerInv'
  BY <1>0, <1>12, SMTT(30) DEF RunQuery, ServerInv, Op, serverVars, Executors
<1>13. ASSUME NEW e \in Executors, AnswerQuery(e) PROVE ServerInv'
  <2>1. Leave(e) /\ ~inTrans /\ uncommitted = << >> /\ UNCHANGED <<inTrans, uncommitted>>
    BY <1>13 DEF AnswerQuery, ServerInv, serverVars
  <2> QED
    BY <1>0, <2>1, LeaveFacts, SMTT(30) DEF ServerInv, Op
<1> QED
  BY <1>1, <1>2, <1>3, <1>4, <1>5, <1>6, <1>7, <1>8, <1>9, <1>10, <1>11, <1>12, <1>13, NextCases, Zenon
     DEF Run, Quiet, Submits, connVars, serverVars, UpdateResultQueue

\* A step keeps that the uncommitted statements are the first of the transaction.
LEMMA BodyInvNext ==
  ASSUME TypeInv, ServerInv, BodyInv, [Next]_vars
  PROVE  BodyInv'
<1> USE AsyncDbAssumption
<1>0. /\ exec \in [Executors -> Seq(Operation)] /\ Threads \subseteq Executors /\ DelayThread \in Executors
      /\ uncommitted \in Seq(Statement) /\ drops \in Nat
  BY SMTT(30) DEF TypeInv, ConnectionOK, ServerOK, HistoryOK, Executors
<1>1. ASSUME UNCHANGED <<exec, lockOwner, pos, inTrans, uncommitted, drops>> PROVE BodyInv'
  BY <1>1 DEF BodyInv, Op, Sent
<1>2. ASSUME NEW t \in Threads, DirectExecute(t) PROVE BodyInv'
  <2>1. ~inTrans /\ UNCHANGED <<exec, lockOwner, pos, inTrans, drops>>
    BY <1>2 DEF DirectExecute, LockFree, ServerInv, connVars
  <2>2. UNCHANGED uncommitted
    BY <1>2, <2>1 DEF DirectExecute, ServerExecute
  <2> QED
    BY <1>1, <2>1, <2>2
\* An operation that begins, or ends without the lock, is not the holder's.
<1>3. ASSUME NEW e \in Executors, NEW x, exec' = [exec EXCEPT ![e] = x], e # lockOwner,
             UNCHANGED <<lockOwner, pos, inTrans, uncommitted, drops>>
      PROVE  BodyInv'
  <2>1. lockOwner # NoOne => lockOwner \in Executors /\ exec'[lockOwner] = exec[lockOwner]
    BY <1>0, <1>3 DEF TypeInv, ConnectionOK
  <2> QED
    BY <1>3, <2>1 DEF BodyInv, Op, Sent
<1>4. ASSUME NEW t \in Threads, CommitTransactionDirect(t) PROVE BodyInv'
  <2>1. exec[t] = << >>
    BY <1>4 DEF CommitTransactionDirect, Calling, Ready
  <2>2. t # lockOwner
    BY <2>1 DEF TypeInv, LockHolderExecutes
  <2> QED
    BY <1>0, <1>3, <1>4, <2>2 DEF CommitTransactionDirect, serverVars
<1>5. ASSUME TakeRequest PROVE BodyInv'
  <2>1. exec[DelayThread] = << >>
    BY <1>5 DEF TakeRequest
  <2>2. DelayThread # lockOwner
    BY <2>1 DEF TypeInv, LockHolderExecutes
  <2> QED
    BY <1>0, <1>3, <1>5, <2>2 DEF TakeRequest, serverVars, histVars
<1>6. ASSUME NEW e \in Executors, RunEmptyTransaction(e) PROVE BodyInv'
  <2>1. Op(e).size = 0 /\ Op(e).kind = "trans"
    BY <1>6 DEF RunEmptyTransaction
  <2>2. e # lockOwner
    BY <2>1, SMTT(30) DEF TypeInv, LockHolderExecutes, Executors
  <2> QED
    BY <1>3, <1>6, <2>2 DEF RunEmptyTransaction, serverVars
<1>7. ASSUME lockOwner' = NoOne PROVE BodyInv'
  BY <1>7 DEF BodyInv
<1>8. ASSUME Reconnect PROVE BodyInv'
  BY <1>0, <1>8, SMTT(30) DEF Reconnect, BodyInv
<1>9. ASSUME NEW e \in Executors, StartTransaction(e) PROVE BodyInv'
  <2>1. uncommitted = << >> /\ pos = 1 /\ UNCHANGED <<exec, pos, uncommitted>> /\ lockOwner' = e
    BY <1>9 DEF StartTransaction, LockFree, ServerInv
  <2>2. drops' = 0 => inTrans'
    BY <1>0, <1>9, SMTT(30) DEF StartTransaction
  <2>3. Op(e) \in Operation /\ Op(e)' = Op(e)
    BY <1>9, <2>1, OpType DEF StartTransaction, TypeInv, Op
  <2>4. pos' <= Op(e)'.size + 1
    BY <2>1, <2>3, OperationFields, SMTT(30)
  <2>5. Sent(Op(e), 0) = << >> /\ pos' - 1 = 0
    BY <2>1, SMTT(30) DEF Sent
  <2>6. uncommitted' = Sent(Op(e), pos' - 1)
    BY <2>1, <2>5
  <2> QED
    BY <2>1, <2>2, <2>3, <2>4, <2>6, Zenon DEF BodyInv, Op, Sent
<1>10. ASSUME NEW e \in Executors, RunStatement(e) PROVE BodyInv'
  <2> DEFINE s == [op |-> Op(e).id, n |-> pos]
  <2>1. /\ lockOwner = e /\ e # NoOne /\ Op(e).kind = "trans" /\ ServerExecute(s)
        /\ pos <= Op(e).size /\ pos' = pos + 1
        /\ UNCHANGED <<exec, lockOwner, inTrans, drops>>
    BY <1>10 DEF RunStatement, Executors, histVars
  <2>2. pos \in Nat \ {0} /\ Op(e).size \in Nat
    <3>1. Op(e) \in Operation
      BY <2>1, OpType DEF TypeInv, LockHolderExecutes
    <3> QED
      BY <3>1, OperationFields, SMTT(30) DEF TypeInv, ConnectionOK
  <2> SUFFICES ASSUME drops = 0
               PROVE  inTrans /\ pos' <= Op(e).size + 1 /\ uncommitted' = Sent(Op(e), pos' - 1)
    BY <2>1, Zenon DEF BodyInv, Op, Sent
  <2>3. inTrans /\ uncommitted = Sent(Op(e), pos - 1)
    BY <2>1 DEF BodyInv
  <2>4. uncommitted' = Append(uncommitted, s)
    BY <2>1, <2>3 DEF ServerExecute
  <2>5. Append(Sent(Op(e), pos - 1), s) = Sent(Op(e), pos)
    BY <2>2, SMTT(30) DEF Sent
  <2>6. pos' - 1 = pos /\ pos' <= Op(e).size + 1
    BY <2>1, <2>2, SMTT(30)
  <2> QED
    BY <2>3, <2>4, <2>5, <2>6
<1>11. ASSUME NEW e \in Executors, LockForQuery(e) PROVE BodyInv'
  BY <1>11 DEF LockForQuery, BodyInv, Op
<1>12. ASSUME NEW e \in Executors, RunQuery(e) PROVE BodyInv'
  BY <1>12 DEF RunQuery, BodyInv, Op
<1> QED
  BY <1>1, <1>2, <1>4, <1>5, <1>6, <1>7, <1>8, <1>9, <1>10, <1>11, <1>12, NextCases, Zenon
     DEF Run, Quiet, Submits, RunPlain, FailStatement, EndTransaction, AnswerQuery, Leave,
         connVars, serverVars, histVars, UpdateResultQueue

\* Both hold throughout.
LEMMA ConnectionInv == Spec => [](TypeInv /\ ServerInv /\ BodyInv)
<1>1. Init => ServerInv /\ BodyInv
  <2> SUFFICES ASSUME Init PROVE ServerInv /\ BodyInv
    OBVIOUS
  <2>1. lockOwner = NoOne /\ ~inTrans /\ pos = 1 /\ uncommitted = << >> /\ \A t \in Threads : exec[t] = << >>
    BY DEF Init, Executors
  <2> QED
    BY <2>1, SMTT(30) DEF ServerInv, BodyInv
<1> QED
  BY <1>1, TypeInit, TypeNext, ServerInvNext, BodyInvNext, PTL DEF Spec

-----------------------------------------------------------------------------
(* The database implements AtomicStore while no connection is lost.        *)

\* The statements an operation has sent are those of the store's operation.
LEMMA SentIsStatements ==
  ASSUME NEW op, op.kind # "query"
  PROVE  Sent(op, op.size) = Store!Statements(op)
  BY DEF Sent, Store!Statements

\* The operation the delay thread executes is the oldest one that waits.
LEMMA OldestPending ==
  ASSUME TypeInv, exec[DelayThread] # << >>
  PROVE  LET pending == exec[DelayThread] \o sqlQueue
         IN  pending # << >> /\ Head(pending) = Op(DelayThread) /\ Tail(pending) = sqlQueue
<1>1. exec[DelayThread] = <<Op(DelayThread)>> /\ Op(DelayThread) \in Operation /\ sqlQueue \in Seq(Operation)
  BY OneOperation, OpType DEF TypeInv, Executors, ThreadOK
<1> QED
  BY <1>1, SMTT(30)

\* An executor ends its operation op with the effect log' of the store.
LEMMA EndIsApply ==
  ASSUME TypeInv, NEW e \in Executors, exec[e] # << >>,
         exec' = [exec EXCEPT ![e] = << >>], UNCHANGED sqlQueue,
         \/ Op(e).kind # "query" /\ db' = db \o Store!Statements(Op(e))
         \/ UNCHANGED db
  PROVE  Store!StoreNext \/ UNCHANGED Store!storeVars
<1>1. exec \in [Executors -> Seq(Operation)] /\ DelayThread \in Executors /\ Op(e) \in Operation
      /\ sqlQueue \in Seq(Operation)
  BY OpType DEF TypeInv, ConnectionOK, ThreadOK, Executors
<1>2. CASE e = DelayThread
  <2>1. exec'[DelayThread] \o sqlQueue' = sqlQueue
    BY <1>1, <1>2, ConcatEmptySeq
  <2> QED
    BY <1>2, <2>1, OldestPending DEF Store!StoreNext, Store!Apply
<1>3. CASE e # DelayThread
  <2>1. exec'[DelayThread] = exec[DelayThread]
    BY <1>1, <1>3
  <2> QED
    BY <1>1, <2>1 DEF Store!StoreNext, Store!ApplyDirect, Store!storeVars
<1> QED
  BY <1>2, <1>3

\* Every step of the database is a step of the store, or leaves it alone.
LEMMA StepIsStoreStep ==
  ASSUME TypeInv, ServerInv, BodyInv, [Next]_vars, drops = 0, drops' = 0
  PROVE  Store!StoreNext \/ UNCHANGED Store!storeVars
<1> USE AsyncDbAssumption
<1>0. /\ exec \in [Executors -> Seq(Operation)] /\ Threads \subseteq Executors /\ DelayThread \in Executors
      /\ db \in Seq(Statement) /\ sqlQueue \in Seq(Operation)
  BY SMTT(30) DEF TypeInv, ConnectionOK, ServerOK, ThreadOK, Executors
<1>1. ASSUME UNCHANGED <<exec, sqlQueue, db>> PROVE UNCHANGED Store!storeVars
  BY <1>1 DEF Store!storeVars
<1>2. ASSUME NEW op \in Operation, Submits(op) PROVE Store!StoreNext
  <2>1. UNCHANGED <<exec, db>> /\ sqlQueue' = Append(sqlQueue, op)
    BY <1>2 DEF Submits, Delay, connVars, serverVars
  <2>2. exec[DelayThread] \o Append(sqlQueue, op) = Append(exec[DelayThread] \o sqlQueue, op)
    <3>1. exec[DelayThread] \in Seq(Operation)
      BY <1>0
    <3> QED
      BY <1>0, <3>1, SMTT(30)
  <2> QED
    BY <2>1, <2>2 DEF Store!StoreNext, Store!Submit
<1>3. ASSUME NEW t \in Threads, DirectExecute(t)
      PROVE  Store!StoreNext \/ UNCHANGED Store!storeVars
  <2> DEFINE op == NewOp(t, "stmt", 1)
  <2>1. ~inTrans /\ issued < MaxOps /\ UNCHANGED <<exec, sqlQueue>>
    BY <1>3 DEF DirectExecute, LockFree, ServerInv, connVars, threadVars
  <2>2. db' = Append(db, [op |-> issued + 1, n |-> 1]) \/ UNCHANGED db
    BY <1>3, <2>1 DEF DirectExecute, ServerExecute
  <2>3. op \in Operation
    BY <2>1, NewOpType, SMTT(30) DEF TypeInv, Kinds
  <2>4. Append(db, [op |-> issued + 1, n |-> 1]) = db \o Store!Statements(op)
    <3>1. Store!Statements(op) = <<[op |-> issued + 1, n |-> 1]>>
      BY SMTT(30) DEF Store!Statements, NewOp
    <3>2. [op |-> issued + 1, n |-> 1] \in Statement
      BY <2>1, StatementType, SMTT(30) DEF TypeInv, HistoryOK
    <3> QED
      BY <1>0, <3>1, <3>2, AppendIsConcat
  <2> QED
    BY <1>1, <2>1, <2>2, <2>3, <2>4 DEF Store!StoreNext, Store!ApplyDirect
<1>4. ASSUME NEW t \in Threads, CommitTransactionDirect(t) PROVE UNCHANGED Store!storeVars
  <2>1. exec'[DelayThread] = exec[DelayThread]
    BY <1>0, <1>4 DEF CommitTransactionDirect
  <2> QED
    BY <1>4, <2>1 DEF CommitTransactionDirect, threadVars, serverVars, Store!storeVars
<1>5. ASSUME TakeRequest PROVE UNCHANGED Store!storeVars
  <2>1. /\ exec[DelayThread] = << >> /\ sqlQueue # << >> /\ UNCHANGED db
        /\ exec'[DelayThread] = <<Head(sqlQueue)>> /\ sqlQueue' = Tail(sqlQueue)
    BY <1>0, <1>5 DEF TakeRequest, serverVars
  <2>2. << >> \o sqlQueue = <<Head(sqlQueue)>> \o Tail(sqlQueue)
    BY <1>0, <2>1, SMTT(30)
  <2> QED
    BY <2>1, <2>2 DEF Store!storeVars
<1>6. ASSUME NEW e \in Executors, RunPlain(e) PROVE Store!StoreNext \/ UNCHANGED Store!storeVars
  <2>1. /\ exec[e] # << >> /\ Op(e).kind = "stmt" /\ ~inTrans /\ Leave(e) /\ UNCHANGED sqlQueue
    BY <1>6 DEF RunPlain, LockFree, ServerInv, threadVars
  <2>2. db' = Append(db, [op |-> Op(e).id, n |-> 1]) \/ UNCHANGED db
    BY <1>6, <2>1 DEF RunPlain, ServerExecute
  <2>3. Op(e).size = 1 /\ Op(e).id \in 1 .. MaxOps
    BY <2>1, OpType, OperationFields DEF TypeInv
  <2>4. Append(db, [op |-> Op(e).id, n |-> 1]) = db \o Store!Statements(Op(e))
    <3>1. Store!Statements(Op(e)) = <<[op |-> Op(e).id, n |-> 1]>>
      BY <2>1, <2>3, SMTT(30) DEF Store!Statements
    <3>2. [op |-> Op(e).id, n |-> 1] \in Statement
      BY <2>3, StatementType, SMTT(30)
    <3> QED
      BY <1>0, <3>1, <3>2, AppendIsConcat
  <2> QED
    BY <2>1, <2>2, <2>4, EndIsApply DEF Leave
<1>7. ASSUME NEW e \in Executors, RunEmptyTransaction(e) PROVE Store!StoreNext \/ UNCHANGED Store!storeVars
  BY <1>7, EndIsApply DEF RunEmptyTransaction, threadVars, serverVars
<1>8. ASSUME NEW e \in Executors, RunStatement(e) PROVE UNCHANGED Store!storeVars
  <2>1. lockOwner = e /\ e # NoOne /\ Op(e).kind = "trans" /\ UNCHANGED <<exec, sqlQueue>>
    BY <1>8 DEF RunStatement, Executors, threadVars
  <2>2. inTrans
    BY <2>1 DEF BodyInv
  <2>3. UNCHANGED db
    BY <1>8, <2>2 DEF RunStatement, ServerExecute
  <2> QED
    BY <1>1, <2>1, <2>3
<1>9. ASSUME NEW e \in Executors, FailStatement(e) PROVE Store!StoreNext \/ UNCHANGED Store!storeVars
  <2>1. exec[e] # << >>
    BY <1>9 DEF FailStatement, TypeInv, LockHolderExecutes, Executors
  <2> QED
    BY <1>9, <2>1, EndIsApply DEF FailStatement, Leave, threadVars
<1>10. ASSUME NEW e \in Executors, EndTransaction(e) PROVE Store!StoreNext \/ UNCHANGED Store!storeVars
  <2>1. lockOwner = e /\ e # NoOne /\ Op(e).kind = "trans" /\ pos = Op(e).size + 1
        /\ Leave(e) /\ UNCHANGED sqlQueue /\ db' = db \o uncommitted
    BY <1>10 DEF EndTransaction, Executors, threadVars
  <2>2. exec[e] # << >>
    BY <2>1 DEF TypeInv, LockHolderExecutes
  <2>3. Op(e).size \in Nat
    BY <2>2, OpType, OperationFields, SMTT(30) DEF TypeInv
  <2>4. uncommitted = Sent(Op(e), Op(e).size)
    BY <2>1, <2>3, SMTT(30) DEF BodyInv
  <2>5. db' = db \o Store!Statements(Op(e))
    BY <2>1, <2>4, SentIsStatements
  <2> QED
    BY <2>1, <2>2, <2>5, EndIsApply DEF Leave
<1>11. ASSUME NEW e \in Executors, AnswerQuery(e) PROVE Store!StoreNext \/ UNCHANGED Store!storeVars
  <2>1. exec[e] # << >>
    BY <1>11 DEF AnswerQuery, TypeInv, LockHolderExecutes, Executors
  <2> QED
    BY <1>11, <2>1, EndIsApply DEF AnswerQuery, Leave, threadVars, serverVars
<1>12. ASSUME NEW e \in Executors, StartTransaction(e) \/ LockForQuery(e) \/ RunQuery(e)
       PROVE  UNCHANGED Store!storeVars
  BY <1>1, <1>12 DEF StartTransaction, LockForQuery, RunQuery, threadVars, serverVars
<1>13. ASSUME Quiet \/ UpdateResultQueue \/ Reconnect PROVE UNCHANGED Store!storeVars
  BY <1>1, <1>13 DEF Quiet, UpdateResultQueue, Reconnect, connVars, serverVars, threadVars
<1> QED
  BY <1>2, <1>3, <1>4, <1>5, <1>6, <1>7, <1>8, <1>9, <1>10, <1>11, <1>12, <1>13, NextCases, Zenon DEF Run

\* While no connection is lost the database implements AtomicStore: the
\* statements of the operations, executed one at a time under the connection lock by
\* several threads, take effect as if each operation took effect at once, wholly or
\* not at all, the delayed ones in the order of the calls.
THEOREM StoreCorrect == Spec /\ [](drops = 0) => ActsLikeAtomicStore
<1>1. Init => Store!StoreInit
  BY AsyncDbAssumption, ConcatEmptySeq, SMTT(30) DEF Init, Store!StoreInit, Executors
<1>2. TypeInv /\ ServerInv /\ BodyInv /\ [Next]_vars /\ drops = 0 /\ (drops = 0)'
        => [Store!StoreNext]_Store!storeVars
  BY StepIsStoreStep
<1> QED
  BY <1>1, <1>2, ConnectionInv, PTL DEF Spec, ActsLikeAtomicStore, Store!StoreSpec

-----------------------------------------------------------------------------
(* Identifiers and positions.                                              *)

\* The fields of a statement.
LEMMA StatementFields ==
  ASSUME NEW s \in Statement
  PROVE  s.op \in 1 .. MaxOps /\ s.n \in 1 .. MaxSize
  BY DEF Statement

\* The log of durable statements grows by statements of operation id, if at all.
GrowsBy(id) ==
    /\ Len(db') \in Nat /\ Len(db) <= Len(db')
    /\ \A k \in 1 .. Len(db) : db'[k] = db[k]
    /\ \A k \in Len(db) + 1 .. Len(db') : db'[k].op = id

\* A log that stays the same has grown by nothing.
LEMMA SameLogGrows ==
  ASSUME ServerOK, NEW id, UNCHANGED db
  PROVE  GrowsBy(id)
  BY SMTT(30) DEF GrowsBy, ServerOK

\* A log that takes a statement has grown by its operation.
LEMMA AppendGrows ==
  ASSUME ServerOK, NEW s \in Statement, db' = Append(db, s)
  PROVE  GrowsBy(s.op)
  BY SMTT(30) DEF GrowsBy, ServerOK

\* An operation adds only statements of its own to the log.
LEMMA RunGrows ==
  ASSUME TypeInv, ServerInv, NEW e \in Executors, Run(e)
  PROVE  GrowsBy(Op(e).id)
<1> USE AsyncDbAssumption
<1>0. ServerOK
  BY DEF TypeInv
<1>1. exec[e] # << >>
  BY DEF Run, RunPlain, RunEmptyTransaction, StartTransaction, RunStatement, FailStatement,
     EndTransaction, LockForQuery, RunQuery, AnswerQuery, TypeInv, LockHolderExecutes, Executors
<1>2. Op(e).id \in 1 .. MaxOps /\ Op(e).size \in 0 .. MaxSize
  BY <1>1, OpType, OperationFields DEF TypeInv
<1>3. CASE EndTransaction(e)
  <2>1. db' = db \o uncommitted /\ e = lockOwner
    BY <1>3 DEF EndTransaction
  <2>2. \A k \in 1 .. Len(uncommitted) : uncommitted[k].op = Op(e).id
    BY <2>1 DEF ServerInv
  <2>3. db \in Seq(Statement) /\ uncommitted \in Seq(Statement)
    BY <1>0 DEF ServerOK
  <2> QED
    BY <2>1, <2>2, <2>3, SMTT(30) DEF GrowsBy
<1>4. CASE RunPlain(e)
  <2>1. [op |-> Op(e).id, n |-> 1] \in Statement
    BY <1>2, StatementType, SMTT(30)
  <2>2. UNCHANGED db \/ db' = Append(db, [op |-> Op(e).id, n |-> 1])
    BY <1>4, Zenon DEF RunPlain, ServerExecute
  <2> QED
    BY <1>0, <2>1, <2>2, SameLogGrows, AppendGrows
<1>5. CASE RunStatement(e)
  <2>1. pos \in 1 .. MaxSize
    BY <1>2, <1>5, SMTT(30) DEF RunStatement, TypeInv, ConnectionOK
  <2>2. [op |-> Op(e).id, n |-> pos] \in Statement
    BY <1>2, <2>1, StatementType
  <2>3. UNCHANGED db \/ db' = Append(db, [op |-> Op(e).id, n |-> pos])
    BY <1>5, Zenon DEF RunStatement, ServerExecute
  <2> QED
    BY <1>0, <2>2, <2>3, SameLogGrows, AppendGrows
<1>6. CASE RunEmptyTransaction(e) \/ StartTransaction(e) \/ FailStatement(e) \/ LockForQuery(e)
           \/ RunQuery(e) \/ AnswerQuery(e)
  <2>1. UNCHANGED db
    BY <1>6, Zenon DEF RunEmptyTransaction, StartTransaction, FailStatement, LockForQuery, RunQuery,
       AnswerQuery, serverVars
  <2> QED
    BY <1>0, <2>1, SameLogGrows
<1> QED
  BY <1>3, <1>4, <1>5, <1>6 DEF Run

\* Executor e goes on with its operation, or ends it.
GoesOn(e) == UNCHANGED <<exec, finished>>
Ends(e) ==
    /\ exec' = [exec EXCEPT ![e] = << >>]
    /\ finished' = IF e = DelayThread THEN Append(finished, Op(e)) ELSE finished

\* A step of an execution ends its operation or goes on with it, and issues nothing.
LEMMA RunFacts ==
  ASSUME TypeInv, NEW e \in Executors, Run(e)
  PROVE  /\ exec[e] # << >> /\ Op(e) \in Operation
         /\ GoesOn(e) \/ Ends(e)
         /\ UNCHANGED <<delayed, issued, sqlQueue>>
<1>1. exec[e] # << >>
  BY AsyncDbAssumption DEF Run, RunPlain, RunEmptyTransaction, StartTransaction, RunStatement, FailStatement,
     EndTransaction, LockForQuery, RunQuery, AnswerQuery, TypeInv, LockHolderExecutes, Executors
<1>2. GoesOn(e) \/ Ends(e)
  BY Zenon DEF Run, RunPlain, RunEmptyTransaction, StartTransaction, RunStatement, FailStatement,
     EndTransaction, LockForQuery, RunQuery, AnswerQuery, Leave, GoesOn, Ends, histVars
<1>3. UNCHANGED <<delayed, issued, sqlQueue>>
  BY Zenon DEF Run, RunPlain, RunEmptyTransaction, StartTransaction, RunStatement, FailStatement,
     EndTransaction, LockForQuery, RunQuery, AnswerQuery, threadVars, histVars
<1> QED
  BY <1>1, <1>2, <1>3, OpType DEF TypeInv

\* Positions in a concatenation whose middle part has at most one element.
LEMMA ConcatPositions ==
  ASSUME NEW S, NEW a \in Seq(S), NEW x \in Seq(S), NEW b \in Seq(S), Len(x) <= 1,
         NEW c, c = (a \o x) \o b
  PROVE  /\ Len(a) \in Nat /\ Len(c) \in Nat /\ Len(a) <= Len(c)
         /\ \A i \in 1 .. Len(a) : c[i] = a[i]
         /\ x # << >> => Len(a) < Len(c) /\ c[Len(a) + 1] = Head(x)
<1> DEFINE ax == a \o x
<1>0. ax \in Seq(S) /\ Len(a) \in Nat /\ Len(x) \in Nat
  BY SMTT(30)
<1>1. /\ Len(ax) = Len(a) + Len(x)
      /\ \A i \in 1 .. Len(a) : ax[i] = a[i]
      /\ \A i \in 1 .. Len(x) : ax[Len(a) + i] = x[i]
  BY SMTT(30)
<1>2. c = ax \o b
  OBVIOUS
<1> HIDE DEF ax
<1>3. Len(c) = Len(ax) + Len(b) /\ Len(b) \in Nat /\ \A i \in 1 .. Len(ax) : c[i] = ax[i]
  BY <1>0, <1>2, SMTT(30)
<1>4. ASSUME x # << >> PROVE Len(x) = 1 /\ Head(x) = x[1]
  <2>1. x = <<Head(x)>>
    BY <1>4, SingletonSeq
  <2> QED
    BY <2>1, SMTT(30)
<1> QED
  BY <1>0, <1>1, <1>3, <1>4, SMTT(30)

\* The executed operations come first among the delayed ones, then the one the
\* delay thread executes.
LEMMA Positions ==
  ASSUME TypeInv, NothingLostOrOvertaken
  PROVE  /\ Len(finished) \in Nat /\ Len(delayed) \in Nat /\ Len(finished) <= Len(delayed)
         /\ \A i \in 1 .. Len(finished) : delayed[i] = finished[i]
         /\ exec[DelayThread] # << >> => /\ Len(finished) < Len(delayed)
                                         /\ delayed[Len(finished) + 1] = Op(DelayThread)
<1>1. finished \in Seq(Operation) /\ exec[DelayThread] \in Seq(Operation) /\ sqlQueue \in Seq(Operation)
      /\ Len(exec[DelayThread]) <= 1
  BY DEF TypeInv, HistoryOK, ConnectionOK, ThreadOK, Executors
<1>2. delayed = (finished \o exec[DelayThread]) \o sqlQueue
  BY DEF NothingLostOrOvertaken
<1>3. ASSUME NEW x \in Seq(Operation), Len(x) <= 1, delayed = (finished \o x) \o sqlQueue
      PROVE  /\ Len(finished) \in Nat /\ Len(delayed) \in Nat /\ Len(finished) <= Len(delayed)
             /\ \A i \in 1 .. Len(finished) : delayed[i] = finished[i]
             /\ x # << >> => Len(finished) < Len(delayed) /\ delayed[Len(finished) + 1] = Head(x)
  BY <1>1, <1>3, ConcatPositions
<1> QED
  BY <1>1, <1>2, <1>3 DEF Op

\* Identifiers are given out once: they grow along the delayed operations, those
\* of the direct transactions are others, and nothing exists under a later one.
IdsInv ==
    /\ \A i \in 1 .. Len(delayed) : delayed[i].id <= issued
    /\ \A i, j \in 1 .. Len(delayed) : i < j => delayed[i].id < delayed[j].id
    /\ \A t \in Threads : exec[t] # << >> =>
           /\ Op(t).id <= issued
           /\ \A i \in 1 .. Len(delayed) : delayed[i].id # Op(t).id
    /\ \A k \in 1 .. Len(db) : db[k].op <= issued
    /\ \A id \in 1 .. MaxOps : id > issued => seen[id] = << >>

\* An operation that an executor runs bears an identifier that was given out.
LEMMA RunningId ==
  ASSUME TypeInv, NothingLostOrOvertaken, IdsInv, NEW e \in Executors, exec[e] # << >>
  PROVE  Op(e).id <= issued
<1>1. CASE e = DelayThread
  BY <1>1, Positions, SMTT(30) DEF IdsInv
<1>2. CASE e \in Threads
  BY <1>2 DEF IdsInv
<1> QED
  BY <1>1, <1>2 DEF Executors

\* A step keeps that every operation has an identifier of its own.
LEMMA IdsNext ==
  ASSUME TypeInv, ServerInv, NothingLostOrOvertaken, IdsInv, [Next]_vars
  PROVE  IdsInv'
<1> USE AsyncDbAssumption
<1>0. /\ exec \in [Executors -> Seq(Operation)] /\ Threads \subseteq Executors /\ DelayThread \in Executors
      /\ delayed \in Seq(Operation) /\ db \in Seq(Statement) /\ issued \in Nat
      /\ seen \in [1 .. MaxOps -> Seq(Nat)]
  BY SMTT(30) DEF TypeInv, ConnectionOK, HistoryOK, ServerOK, QueriesOK, Executors
<1>a. Len(delayed) \in Nat /\ \A i \in 1 .. Len(delayed) : delayed[i].id \in Nat /\ delayed[i].id <= issued
  <2>1. \A i \in 1 .. Len(delayed) : delayed[i].id \in Nat
    BY <1>0, OperationFields, SMTT(30)
  <2> QED
    BY <1>0, <2>1 DEF IdsInv
<1>b. Len(db) \in Nat /\ \A k \in 1 .. Len(db) : db[k].op \in Nat /\ db[k].op <= issued
  <2>1. Len(db) \in Nat /\ \A k \in 1 .. Len(db) : db[k].op \in Nat
    BY <1>0, StatementFields, SMTT(30)
  <2> QED
    BY <2>1 DEF IdsInv
<1>c. \A id \in 1 .. MaxOps : id > issued => seen[id] = << >>
  BY DEF IdsInv
<1>d. \A i, j \in 1 .. Len(delayed) : i < j => delayed[i].id < delayed[j].id
  BY DEF IdsInv
<1>1. ASSUME UNCHANGED <<delayed, db, seen, issued>>, \A t \in Threads : exec'[t] = exec[t]
      PROVE  IdsInv'
  BY <1>1, Zenon DEF IdsInv, Op
<1>2. ASSUME NEW op \in Operation, Submits(op) PROVE IdsInv'
  <2>1. /\ delayed' = Append(delayed, op) /\ op.id = issued + 1 /\ issued' = issued + 1
        /\ UNCHANGED <<db, seen, exec>>
    BY <1>2 DEF Submits, Delay, connVars, serverVars, queryVars
  <2>2. /\ \A i \in 1 .. Len(delayed) : delayed'[i] = delayed[i]
        /\ delayed'[Len(delayed) + 1] = op
        /\ Len(delayed') = Len(delayed) + 1 /\ Len(delayed) \in Nat
    BY <1>0, <2>1, SMTT(30)
  <2>4. \A i \in 1 .. Len(delayed') : delayed'[i].id <= issued'
    BY <1>0, <1>a, <2>1, <2>2, SMTT(30)
  <2>5. ASSUME NEW i \in 1 .. Len(delayed'), NEW j \in 1 .. Len(delayed'), i < j
        PROVE  delayed'[i].id < delayed'[j].id
    <3>1. i \in 1 .. Len(delayed) /\ delayed'[i] = delayed[i]
      BY <2>2, <2>5, SMTT(30)
    <3>2. CASE j \in 1 .. Len(delayed)
      BY <1>d, <2>2, <2>5, <3>1, <3>2
    <3>3. CASE j = Len(delayed) + 1
      BY <1>0, <1>a, <2>1, <2>2, <3>1, <3>3, SMTT(30)
    <3> QED
      BY <2>2, <3>2, <3>3, SMTT(30)
  <2>6. ASSUME NEW t \in Threads, exec'[t] # << >>
        PROVE  Op(t)'.id <= issued' /\ \A i \in 1 .. Len(delayed') : delayed'[i].id # Op(t)'.id
    <3>1. Op(t)' = Op(t) /\ exec[t] # << >> /\ Op(t).id \in Nat
      BY <1>0, <2>1, <2>6, OpType, OperationFields, SMTT(30) DEF Op, TypeInv
    <3>2. Op(t).id <= issued /\ \A i \in 1 .. Len(delayed) : delayed[i].id # Op(t).id
      BY <3>1 DEF IdsInv
    <3> DEFINE id == Op(t).id
    <3> HIDE DEF id
    <3>3. id <= issued /\ id \in Nat /\ \A i \in 1 .. Len(delayed) : delayed[i].id # id
      BY <3>1, <3>2 DEF id
    <3>4. id <= issued' /\ \A i \in 1 .. Len(delayed') : delayed'[i].id # id
      BY <1>0, <2>1, <2>2, <3>3, SMTT(30)
    <3> QED
      BY <3>1, <3>4 DEF id
  <2>7. \A k \in 1 .. Len(db') : db'[k].op <= issued'
    BY <1>0, <1>b, <2>1, SMTT(30)
  <2>8. \A id \in 1 .. MaxOps : id > issued' => seen'[id] = << >>
    BY <1>0, <1>c, <2>1, SMTT(30)
  <2> QED
    BY <2>4, <2>5, <2>6, <2>7, <2>8 DEF IdsInv
\* A caller takes the next identifier for an operation of its own.
<1>3. ASSUME NEW t \in Threads, DirectExecute(t) \/ CommitTransactionDirect(t) PROVE IdsInv'
  <2>1. issued' = issued + 1 /\ issued < MaxOps /\ UNCHANGED <<delayed, seen>>
    BY <1>3 DEF DirectExecute, CommitTransactionDirect, queryVars
  <2>2. GrowsBy(issued + 1)
    <3>1. [op |-> issued + 1, n |-> 1] \in Statement
      BY <2>1, StatementType, SMTT(30) DEF TypeInv, HistoryOK
    <3>2. UNCHANGED db \/ db' = Append(db, [op |-> issued + 1, n |-> 1])
      BY <1>3, Zenon DEF DirectExecute, CommitTransactionDirect, ServerExecute, serverVars
    <3> QED
      BY <3>1, <3>2, SameLogGrows, AppendGrows DEF TypeInv
  <2>4. ASSUME NEW u \in Threads, exec'[u] # << >>
        PROVE  Op(u)'.id <= issued' /\ \A i \in 1 .. Len(delayed') : delayed'[i].id # Op(u)'.id
    <3>1. CASE exec'[u] = exec[u]
      <4>1. Op(u)' = Op(u) /\ Op(u).id \in Nat
        BY <1>0, <2>4, <3>1, OpType, OperationFields, SMTT(30) DEF Op, TypeInv
      <4>2. Op(u).id <= issued /\ \A i \in 1 .. Len(delayed) : delayed[i].id # Op(u).id
        BY <2>4, <3>1 DEF IdsInv
      <4> QED
        BY <1>0, <2>1, <4>1, <4>2, SMTT(30)
    <3>2. CASE exec'[u] = <<NewOp(t, "trans", trans[t])>>
      <4>1. Op(u)'.id = issued + 1
        BY <3>2 DEF Op, NewOp
      <4> QED
        <5> DEFINE id == Op(u)'.id
        <5> HIDE DEF id
        <5>1. id <= issued' /\ \A i \in 1 .. Len(delayed') : delayed'[i].id # id
          BY <1>0, <1>a, <2>1, <4>1, SMTT(30) DEF id
        <5> QED
          BY <5>1 DEF id
    <3> QED
      BY <1>0, <1>3, <3>1, <3>2 DEF DirectExecute, CommitTransactionDirect, connVars
  <2>5. \A k \in 1 .. Len(db') : db'[k].op <= issued'
    <3> SUFFICES ASSUME NEW k \in 1 .. Len(db') PROVE db'[k].op <= issued + 1
      BY <2>1
    <3>1. k \in 1 .. Len(db) \/ k \in Len(db) + 1 .. Len(db')
      BY <1>b, <2>2, SMTT(30) DEF GrowsBy
    <3>2. db'[k].op = issued + 1 \/ (k \in 1 .. Len(db) /\ db'[k] = db[k])
      BY <2>2, <3>1 DEF GrowsBy
    <3> QED
      BY <1>0, <1>b, <3>2, SMTT(30)
  <2>6. \A i \in 1 .. Len(delayed) : delayed[i].id <= issued'
    BY <1>0, <1>a, <2>1, SMTT(30)
  <2>7. \A id \in 1 .. MaxOps : id > issued' => seen'[id] = << >>
    BY <1>0, <1>c, <2>1, SMTT(30)
  <2> QED
    BY <2>1, <2>4, <2>5, <2>6, <2>7 DEF IdsInv
<1>4. ASSUME NEW e \in Executors, Run(e) PROVE IdsInv'
  <2>1. /\ exec[e] # << >> /\ Op(e) \in Operation /\ UNCHANGED <<delayed, issued>>
        /\ \A t \in Threads : exec'[t] = exec[t] \/ exec'[t] = << >>
    BY <1>0, <1>4, RunFacts DEF GoesOn, Ends
  <2>2. Op(e).id <= issued /\ GrowsBy(Op(e).id) /\ Op(e).id \in Nat
    BY <1>4, <2>1, RunGrows, RunningId, OperationFields, SMTT(30)
  <2>3. \A k \in 1 .. Len(db') : db'[k].op <= issued'
    <3> SUFFICES ASSUME NEW k \in 1 .. Len(db') PROVE db'[k].op <= issued
      BY <2>1
    <3>1. k \in 1 .. Len(db) \/ k \in Len(db) + 1 .. Len(db')
      BY <1>b, <2>2, SMTT(30) DEF GrowsBy
    <3>2. db'[k].op = Op(e).id \/ (k \in 1 .. Len(db) /\ db'[k] = db[k])
      BY <2>2, <3>1 DEF GrowsBy
    <3> QED
      BY <1>b, <2>2, <3>2
  <2>4. UNCHANGED seen \/ seen' = [seen EXCEPT ![Op(e).id] = Append(@, Len(db))]
    BY <1>4, Zenon DEF Run, RunPlain, RunEmptyTransaction, StartTransaction, RunStatement, FailStatement,
       EndTransaction, LockForQuery, RunQuery, AnswerQuery, queryVars
  <2>5. \A id \in 1 .. MaxOps : id > issued' => seen'[id] = << >>
    <3> DEFINE id == Op(e).id
    <3> HIDE DEF id
    <3>1. id <= issued /\ id \in Nat /\ (UNCHANGED seen \/ seen' = [seen EXCEPT ![id] = Append(@, Len(db))])
      BY <2>2, <2>4 DEF id
    <3>2. SUFFICES ASSUME NEW i \in 1 .. MaxOps, i > issued' PROVE seen'[i] = << >>
      OBVIOUS
    <3>3. i > issued /\ i # id /\ issued \in Nat
      BY <1>0, <1>c, <2>1, <3>1, <3>2
    <3>4. seen[i] = << >>
      BY <1>c, <3>3
    <3>5. seen'[i] = seen[i]
      BY <1>0, <1>c, <3>1, <3>3
    <3> QED
      BY <3>4, <3>5
  <2>6. ASSUME NEW t \in Threads, exec'[t] # << >>
        PROVE  Op(t)'.id <= issued' /\ \A i \in 1 .. Len(delayed') : delayed'[i].id # Op(t)'.id
    BY <2>1, <2>6 DEF IdsInv, Op
  <2> QED
    BY <2>1, <2>3, <2>5, <2>6 DEF IdsInv
<1>5. ASSUME Quiet \/ UpdateResultQueue \/ TakeRequest \/ Reconnect PROVE IdsInv'
  <2>1. UNCHANGED <<delayed, db, seen, issued>>
    BY <1>5, Zenon DEF Quiet, UpdateResultQueue, TakeRequest, Reconnect, serverVars, queryVars, histVars
  <2>2. \A t \in Threads : exec'[t] = exec[t]
    BY <1>0, <1>5 DEF Quiet, UpdateResultQueue, TakeRequest, Reconnect, connVars
  <2> QED
    BY <1>1, <2>1, <2>2
<1> QED
  BY <1>2, <1>3, <1>4, <1>5, NextCases, Zenon

-----------------------------------------------------------------------------
(* What the executed operations see of the log.                            *)

\* A step adds nothing to the log under the identifier of an executed operation.
LEMMA NewWrites ==
  ASSUME TypeInv, ServerInv, NothingLostOrOvertaken, IdsInv, [Next]_vars
  PROVE  /\ Len(db') \in Nat /\ Len(db) <= Len(db')
         /\ \A k \in 1 .. Len(db) : db'[k] = db[k]
         /\ \A k \in Len(db) + 1 .. Len(db') : \A o \in 1 .. Len(finished) : db'[k].op # delayed[o].id
<1> USE AsyncDbAssumption
<1>0. /\ Len(finished) \in Nat /\ Len(delayed) \in Nat /\ Len(finished) <= Len(delayed)
      /\ delayed \in Seq(Operation) /\ issued \in Nat
  BY Positions, SMTT(30) DEF TypeInv, HistoryOK
<1>a. \A o \in 1 .. Len(finished) : delayed[o].id \in Nat /\ delayed[o].id <= issued
  <2>1. \A o \in 1 .. Len(finished) : o \in 1 .. Len(delayed)
    BY <1>0, SMTT(30)
  <2>2. \A o \in 1 .. Len(delayed) : delayed[o].id \in Nat
    BY <1>0, OperationFields, SMTT(30)
  <2> QED
    BY <2>1, <2>2 DEF IdsInv
<1>1. ASSUME NEW id, GrowsBy(id), \A o \in 1 .. Len(finished) : delayed[o].id # id
      PROVE  /\ Len(db') \in Nat /\ Len(db) <= Len(db')
             /\ \A k \in 1 .. Len(db) : db'[k] = db[k]
             /\ \A k \in Len(db) + 1 .. Len(db') : \A o \in 1 .. Len(finished) : db'[k].op # delayed[o].id
  BY <1>1, Zenon DEF GrowsBy
<1>2. \A o \in 1 .. Len(finished) : delayed[o].id # issued + 1
  BY <1>0, <1>a, SMTT(30)
<1>3. ASSUME UNCHANGED db PROVE GrowsBy(issued + 1)
  BY <1>3, SameLogGrows DEF TypeInv
<1>4. ASSUME NEW t \in Threads, DirectExecute(t) PROVE GrowsBy(issued + 1)
  <2>1. [op |-> issued + 1, n |-> 1] \in Statement
    BY <1>4, StatementType, SMTT(30) DEF TypeInv, HistoryOK, DirectExecute
  <2>2. UNCHANGED db \/ db' = Append(db, [op |-> issued + 1, n |-> 1])
    BY <1>4, Zenon DEF DirectExecute, ServerExecute
  <2> QED
    BY <2>1, <2>2, SameLogGrows, AppendGrows DEF TypeInv
<1>5. ASSUME NEW e \in Executors, Run(e) PROVE \A o \in 1 .. Len(finished) : delayed[o].id # Op(e).id
  <2>1. exec[e] # << >>
    BY <1>5, RunFacts
  <2>2. CASE e = DelayThread
    <3> SUFFICES ASSUME NEW o \in 1 .. Len(finished) PROVE delayed[o].id # delayed[Len(finished) + 1].id
      BY <2>1, <2>2, Positions
    <3>1. o \in 1 .. Len(delayed) /\ Len(finished) + 1 \in 1 .. Len(delayed) /\ o < Len(finished) + 1
      BY <1>0, <2>1, <2>2, Positions, SMTT(30)
    <3>2. delayed[o].id < delayed[Len(finished) + 1].id
      BY <3>1 DEF IdsInv
    <3> QED
      BY <1>a, <3>2, SMTT(30)
  <2>3. CASE e \in Threads
    <3>1. \A o \in 1 .. Len(finished) : o \in 1 .. Len(delayed)
      BY <1>0, SMTT(30)
    <3> QED
      BY <2>1, <2>3, <3>1 DEF IdsInv
  <2> QED
    BY <2>2, <2>3 DEF Executors
<1>6. CASE UNCHANGED db
  BY <1>1, <1>2, <1>3, <1>6
<1>7. CASE \E t \in Threads : DirectExecute(t)
  BY <1>1, <1>2, <1>4, <1>7
<1>8. CASE \E e \in Executors : Run(e)
  BY <1>1, <1>5, <1>8, RunGrows
<1> QED
  BY <1>6, <1>7, <1>8, NextCases, Zenon
     DEF Quiet, Submits, CommitTransactionDirect, UpdateResultQueue, TakeRequest, Reconnect, serverVars

\* Delayed operations are executed by one executor only; a step executes the next
\* of them, delays one more, or leaves both histories alone.
LEMMA HistoryStep ==
  ASSUME TypeInv, [Next]_vars
  PROVE  \/ UNCHANGED <<delayed, finished>>
         \/ UNCHANGED delayed /\ Run(DelayThread) /\ Ends(DelayThread)
         \/ UNCHANGED <<finished, lockOwner, db, seen>> /\ \E op \in Operation : Submits(op)
<1>1. ASSUME NEW e \in Executors, Run(e)
      PROVE  \/ UNCHANGED <<delayed, finished>>
             \/ UNCHANGED delayed /\ Run(DelayThread) /\ Ends(DelayThread)
  BY <1>1, RunFacts, Zenon DEF GoesOn, Ends
<1>2. ASSUME NEW op \in Operation, Submits(op)
      PROVE  UNCHANGED <<finished, lockOwner, db, seen>>
  BY <1>2, Zenon DEF Submits, connVars, serverVars, queryVars
<1> QED
  BY <1>1, <1>2, NextCases, Zenon
     DEF Quiet, DirectExecute, CommitTransactionDirect, UpdateResultQueue, TakeRequest, Reconnect, histVars

\* Only the delay thread executes queries.
LEMMA OnlyQueriesRead ==
  ASSUME TypeInv, ServerInv, [Next]_vars
  PROVE  UNCHANGED seen \/ RunQuery(DelayThread)
<1>1. ASSUME NEW e \in Executors, RunQuery(e) PROVE e = DelayThread
  <2>1. exec[e] # << >> /\ Op(e).kind = "query"
    BY <1>1, AsyncDbAssumption DEF RunQuery, TypeInv, LockHolderExecutes, Executors
  <2> QED
    BY <2>1, SMTT(30) DEF ServerInv, Executors
<1>2. ASSUME NEW e \in Executors, Run(e) PROVE UNCHANGED seen \/ RunQuery(DelayThread)
  BY <1>1, <1>2, Zenon DEF Run, RunPlain, RunEmptyTransaction, StartTransaction, RunStatement, FailStatement,
     EndTransaction, LockForQuery, AnswerQuery, queryVars
<1> QED
  BY <1>2, NextCases, Zenon
     DEF Quiet, Submits, DirectExecute, CommitTransactionDirect, UpdateResultQueue, TakeRequest, Reconnect, queryVars

\* Nothing is written while the delay thread holds the connection for a query.
LEMMA QueryHolds ==
  ASSUME TypeInv, [Next]_vars, lockOwner = DelayThread, Op(DelayThread).kind = "query"
  PROVE  UNCHANGED <<lockOwner, db>> \/ Ends(DelayThread)
<1> USE AsyncDbAssumption
<1>1. ~LockFree
  BY DEF LockFree
<1>2. ASSUME NEW e \in Executors, Run(e) PROVE UNCHANGED <<lockOwner, db>> \/ Ends(DelayThread)
  <2>1. ~RunPlain(e) /\ ~StartTransaction(e) /\ ~LockForQuery(e)
    BY <1>1, Zenon DEF RunPlain, StartTransaction, LockForQuery
  <2>2. ~RunStatement(e) /\ ~FailStatement(e) /\ ~EndTransaction(e)
    BY DEF RunStatement, FailStatement, EndTransaction
  <2>3. ASSUME RunEmptyTransaction(e) \/ RunQuery(e) PROVE UNCHANGED <<lockOwner, db>>
    BY <2>3, Zenon DEF RunEmptyTransaction, RunQuery, serverVars
  <2>4. ASSUME AnswerQuery(e) PROVE Ends(DelayThread)
    BY <2>4, Zenon DEF AnswerQuery, Leave, Ends
  <2> QED
    BY <1>2, <2>1, <2>2, <2>3, <2>4 DEF Run
<1>3. ASSUME NEW t \in Threads, DirectExecute(t) PROVE FALSE
  BY <1>1, <1>3, Zenon DEF DirectExecute
<1> QED
  BY <1>2, <1>3, NextCases, Zenon
     DEF Quiet, Submits, CommitTransactionDirect, UpdateResultQueue, TakeRequest, Reconnect, serverVars, connVars

\* Of the operations that were not executed yet only the delay thread's query
\* has read anything, and what it read is the present state of the log.
SeenInv ==
    \A i \in Len(finished) + 1 .. Len(delayed) :
        LET reads == seen[delayed[i].id]
        IN  reads # << >> =>
                /\ i = Len(finished) + 1
                /\ lockOwner = DelayThread
                /\ \A j \in 1 .. Len(reads) : reads[j] = Len(db)
                /\ delayed[i].kind = "query"

\* The read of a query, at the position of the query among the delayed operations.
LEMMA ReadFacts ==
  ASSUME TypeInv, NothingLostOrOvertaken, IdsInv, RunQuery(DelayThread)
  PROVE  LET n == Len(finished) + 1
             id == delayed[n].id
         IN  /\ n \in 1 .. Len(delayed) /\ Len(finished) \in Nat /\ Len(delayed) \in Nat
             /\ delayed[n].kind = "query" /\ id \in 1 .. MaxOps
             /\ lockOwner = DelayThread
             /\ seen[id] \in Seq(Nat) /\ Len(db) \in Nat
             /\ seen' = [seen EXCEPT ![id] = Append(@, Len(db))]
             /\ seen'[id] = Append(seen[id], Len(db))
             /\ \A other \in 1 .. MaxOps : other # id => seen'[other] = seen[other]
             /\ \A i \in 1 .. Len(delayed) : i # n => delayed[i].id # id
             /\ UNCHANGED <<lockOwner, db, delayed, finished>>
<1> USE AsyncDbAssumption
<1>1. /\ lockOwner = DelayThread /\ Op(DelayThread).kind = "query"
      /\ seen' = [seen EXCEPT ![Op(DelayThread).id] = Append(@, Len(db))]
      /\ UNCHANGED <<lockOwner, db, delayed, finished>>
  BY DEF RunQuery, serverVars, histVars
<1>2. exec[DelayThread] # << >>
  BY <1>1 DEF TypeInv, LockHolderExecutes, Executors
<1>3. Op(DelayThread) = delayed[Len(finished) + 1] /\ Op(DelayThread).id \in 1 .. MaxOps
  BY <1>2, Positions, OpType, OperationFields DEF TypeInv, Executors
<1>4. Len(finished) + 1 \in 1 .. Len(delayed) /\ Len(finished) \in Nat /\ Len(delayed) \in Nat
  BY <1>2, Positions, SMTT(30)
<1>5. seen \in [1 .. MaxOps -> Seq(Nat)] /\ Len(db) \in Nat
  BY SMTT(30) DEF TypeInv, QueriesOK, ServerOK
<1>6. ASSUME NEW i \in 1 .. Len(delayed), i # Len(finished) + 1
      PROVE  delayed[i].id # delayed[Len(finished) + 1].id
  <2>1. i < Len(finished) + 1 \/ Len(finished) + 1 < i
    BY <1>4, <1>6, SMTT(30)
  <2>2. delayed[i].id < delayed[Len(finished) + 1].id \/ delayed[Len(finished) + 1].id < delayed[i].id
    BY <1>4, <2>1 DEF IdsInv
  <2>3. delayed[Len(finished) + 1].id \in Nat
    BY <1>3, SMTT(30)
  <2> QED
    BY <2>2, <2>3, SMTT(30)
<1> QED
  BY <1>1, <1>3, <1>4, <1>5, <1>6

\* A step keeps that only the query in execution has read, and that it read the present log.
LEMMA SeenNext ==
  ASSUME TypeInv, ServerInv, NothingLostOrOvertaken, IdsInv, SeenInv, [Next]_vars
  PROVE  SeenInv'
<1> USE AsyncDbAssumption
<1>0. Len(finished) \in Nat /\ Len(delayed) \in Nat /\ delayed \in Seq(Operation) /\ issued \in Nat
  BY Positions, SMTT(30) DEF TypeInv, HistoryOK
<1>1. CASE RunQuery(DelayThread)
  <2> DEFINE n == Len(finished) + 1
             id == delayed[n].id
  <2>1. /\ n \in 1 .. Len(delayed) /\ delayed[n].kind = "query" /\ lockOwner = DelayThread
        /\ seen[id] \in Seq(Nat) /\ Len(db) \in Nat
        /\ seen'[id] = Append(seen[id], Len(db))
        /\ \A i \in 1 .. Len(delayed) : i # n => delayed[i].id # id
        /\ UNCHANGED <<lockOwner, db, delayed, finished>>
    BY <1>1, ReadFacts, Zenon
  <2>2. \A other \in 1 .. MaxOps : other # id => seen'[other] = seen[other]
    BY <1>1, ReadFacts, Zenon
  <2> SUFFICES ASSUME NEW i \in n .. Len(delayed), seen'[delayed[i].id] # << >>
               PROVE  /\ i = n /\ lockOwner = DelayThread
                      /\ \A j \in 1 .. Len(seen'[delayed[i].id]) : seen'[delayed[i].id][j] = Len(db)
                      /\ delayed[i].kind = "query"
    BY <2>1, Zenon DEF SeenInv
  <2>3. i \in 1 .. Len(delayed) /\ delayed[i].id \in 1 .. MaxOps
    BY <1>0, OperationFields, SMTT(30)
  <2>4. i = n
    BY <2>1, <2>2, <2>3 DEF SeenInv
  <2>5. \A j \in 1 .. Len(seen[id]) : seen[id][j] = Len(db)
    <3>1. CASE seen[id] = << >>
      BY <3>1, SMTT(30)
    <3>2. CASE seen[id] # << >>
      BY <2>4, <3>2 DEF SeenInv
    <3> QED
      BY <3>1, <3>2
  <2>6. \A j \in 1 .. Len(seen'[id]) : seen'[id][j] = Len(db)
    <3> HIDE DEF id, n
    <3> QED
      BY <2>1, <2>5, SMTT(30)
  <2> QED
    BY <2>1, <2>4, <2>6
<1>2. CASE UNCHANGED <<seen, delayed>> /\ Ends(DelayThread)
  <2>1. Len(finished') = Len(finished) + 1
    BY <1>2, SMTT(30) DEF Ends, TypeInv, HistoryOK
  <2>2. \A i \in Len(finished') + 1 .. Len(delayed) : i \in Len(finished) + 1 .. Len(delayed) /\ i # Len(finished) + 1
    BY <1>0, <2>1, SMTT(30)
  <2>3. \A i \in Len(finished') + 1 .. Len(delayed) : seen[delayed[i].id] = << >>
    BY <2>2 DEF SeenInv
  <2> QED
    BY <1>2, <2>3 DEF SeenInv
<1>3. CASE UNCHANGED <<seen, delayed, finished>>
  <2> SUFFICES ASSUME NEW i \in Len(finished) + 1 .. Len(delayed), seen[delayed[i].id] # << >>
               PROVE  UNCHANGED <<lockOwner, db>>
    BY <1>3, Zenon DEF SeenInv
  <2>1. i = Len(finished) + 1 /\ lockOwner = DelayThread /\ delayed[i].kind = "query"
    BY DEF SeenInv
  <2>2. Op(DelayThread).kind = "query"
    BY <2>1, Positions DEF TypeInv, LockHolderExecutes, Executors
  <2>3. ~Ends(DelayThread)
    <3>1. finished \in Seq(Operation)
      BY DEF TypeInv, HistoryOK
    <3> SUFFICES ASSUME Ends(DelayThread) PROVE FALSE
      OBVIOUS
    <3>2. finished = Append(finished, Op(DelayThread))
      BY <1>3 DEF Ends
    <3>3. Len(finished) = Len(finished) + 1
      BY <3>1, <3>2, SMTT(30)
    <3> QED
      BY <1>0, <3>3, SMTT(30)
  <2> QED
    BY <2>1, <2>2, <2>3, QueryHolds
<1>4. ASSUME NEW op \in Operation, Submits(op), UNCHANGED <<finished, lockOwner, db, seen>> PROVE SeenInv'
  <2>1. delayed' = Append(delayed, op) /\ op.id = issued + 1
    BY <1>4 DEF Submits, Delay
  <2>2. seen[op.id] = << >>
    BY <1>0, <2>1, OperationFields, SMTT(30) DEF IdsInv
  <2>3. \A i \in 1 .. Len(delayed) : delayed'[i] = delayed[i]
    BY <1>0, <2>1, SMTT(30)
  <2>4. Len(delayed') = Len(delayed) + 1 /\ delayed'[Len(delayed) + 1] = op
    BY <1>0, <2>1, SMTT(30)
  <2>5. \A i \in Len(finished) + 1 .. Len(delayed') : i = Len(delayed) + 1 \/ (i \in Len(finished) + 1 .. Len(delayed) /\ i \in 1 .. Len(delayed))
    BY <1>0, <2>4, SMTT(30)
  <2> SUFFICES ASSUME NEW i \in Len(finished) + 1 .. Len(delayed'), seen[delayed'[i].id] # << >>
               PROVE  /\ i = Len(finished) + 1 /\ lockOwner = DelayThread
                      /\ \A j \in 1 .. Len(seen[delayed'[i].id]) : seen[delayed'[i].id][j] = Len(db)
                      /\ delayed'[i].kind = "query"
    BY <1>4, Zenon DEF SeenInv
  <2>6. i \in Len(finished) + 1 .. Len(delayed) /\ delayed'[i] = delayed[i]
    BY <2>2, <2>3, <2>4, <2>5
  <2> QED
    BY <2>6, Zenon DEF SeenInv
<1> QED
  BY <1>1, <1>2, <1>3, <1>4, HistoryStep, OnlyQueriesRead, Zenon

\* As long as no connection was lost, nothing of an operation that was not
\* executed yet is in the log.
PendingInv ==
    drops = 0 => \A i \in Len(finished) + 1 .. Len(delayed) :
                    \A k \in 1 .. Len(db) : db[k].op # delayed[i].id

\* The executor that adds to the log outside a lost transaction ends its operation.
LEMMA WriterEnds ==
  ASSUME TypeInv, ServerInv, BodyInv, drops = 0, NEW e \in Executors, Run(e)
  PROVE  UNCHANGED db \/ Ends(e)
<1>1. ASSUME RunStatement(e) PROVE UNCHANGED db
  <2>1. lockOwner = e /\ e # NoOne /\ Op(e).kind = "trans"
    BY <1>1, AsyncDbAssumption DEF RunStatement, Executors
  <2>2. inTrans
    BY <2>1 DEF BodyInv
  <2> QED
    BY <1>1, <2>2 DEF RunStatement, ServerExecute
<1> QED
  BY <1>1, Zenon DEF Run, RunPlain, RunEmptyTransaction, StartTransaction, FailStatement,
     EndTransaction, LockForQuery, RunQuery, AnswerQuery, Leave, Ends, serverVars

\* The count of lost connections does not fall.
LEMMA DropsGrow ==
  ASSUME TypeInv, [Next]_vars, drops' = 0
  PROVE  drops = 0
<1>1. drops' = drops \/ drops' = drops + 1
  BY NextCases, Zenon DEF Quiet, Submits, DirectExecute, CommitTransactionDirect, UpdateResultQueue,
     TakeRequest, Reconnect, Run, RunPlain, RunEmptyTransaction, StartTransaction, RunStatement, FailStatement,
     EndTransaction, LockForQuery, RunQuery, AnswerQuery, histVars
<1> QED
  BY <1>1, SMTT(30) DEF TypeInv, HistoryOK

\* A step keeps that operations not yet executed have nothing in the log.
LEMMA PendingNext ==
  ASSUME TypeInv, ServerInv, BodyInv, NothingLostOrOvertaken, IdsInv, PendingInv, [Next]_vars
  PROVE  PendingInv'
<1> USE AsyncDbAssumption
<1> SUFFICES ASSUME drops = 0, drops' = 0,
                    NEW i \in Len(finished') + 1 .. Len(delayed'), NEW k \in 1 .. Len(db')
             PROVE  db'[k].op # delayed'[i].id
  BY DropsGrow DEF PendingInv
<1>0. /\ Len(finished) \in Nat /\ Len(delayed) \in Nat /\ delayed \in Seq(Operation) /\ finished \in Seq(Operation)
      /\ issued \in Nat /\ Len(db) \in Nat /\ db \in Seq(Statement)
  BY Positions, SMTT(30) DEF TypeInv, HistoryOK, ServerOK
<1>a. \A j \in 1 .. Len(delayed) : delayed[j].id \in Nat /\ delayed[j].id <= issued
  BY <1>0, OperationFields, SMTT(30) DEF IdsInv
<1>1. CASE UNCHANGED <<delayed, finished, db>>
  BY <1>1 DEF PendingInv
<1>2. ASSUME NEW op \in Operation, Submits(op) PROVE db'[k].op # delayed'[i].id
  <2>1. /\ delayed' = Append(delayed, op) /\ op.id = issued + 1
        /\ UNCHANGED <<finished, db>>
    BY <1>2, Zenon DEF Submits, Delay, serverVars
  <2>2. \/ i = Len(delayed) + 1 /\ delayed'[i] = op
        \/ i \in Len(finished) + 1 .. Len(delayed) /\ delayed'[i] = delayed[i]
    BY <1>0, <2>1, SMTT(30)
  <2>3. db[k].op \in Nat /\ db[k].op <= issued
    BY <1>0, <2>1, StatementFields, SMTT(30) DEF IdsInv
  <2>4. db[k].op # issued + 1
    BY <1>0, <2>3, SMTT(30)
  <2> QED
    BY <2>1, <2>2, <2>4 DEF PendingInv
\* Statements that a direct transaction or a direct statement adds are others.
<1>3. ASSUME NEW id, GrowsBy(id), \A j \in 1 .. Len(delayed) : delayed[j].id # id, UNCHANGED <<finished, delayed>>
      PROVE  db'[k].op # delayed'[i].id
  <2>1. i \in 1 .. Len(delayed) /\ i \in Len(finished) + 1 .. Len(delayed)
    BY <1>0, <1>3, SMTT(30)
  <2>2. k \in 1 .. Len(db) \/ k \in Len(db) + 1 .. Len(db')
    BY <1>0, <1>3, SMTT(30) DEF GrowsBy
  <2>3. CASE k \in 1 .. Len(db)
    BY <1>3, <2>1, <2>3 DEF PendingInv, GrowsBy
  <2>4. CASE k \in Len(db) + 1 .. Len(db')
    BY <1>3, <2>1, <2>4 DEF GrowsBy
  <2> QED
    BY <2>2, <2>3, <2>4
<1>4. ASSUME NEW t \in Threads, DirectExecute(t) PROVE db'[k].op # delayed'[i].id
  <2>1. [op |-> issued + 1, n |-> 1] \in Statement
    BY <1>4, StatementType, SMTT(30) DEF TypeInv, HistoryOK, DirectExecute
  <2>2. UNCHANGED db \/ db' = Append(db, [op |-> issued + 1, n |-> 1])
    BY <1>4, Zenon DEF DirectExecute, ServerExecute
  <2>3. GrowsBy(issued + 1)
    BY <2>1, <2>2, SameLogGrows, AppendGrows DEF TypeInv
  <2>4. \A j \in 1 .. Len(delayed) : delayed[j].id # issued + 1
    BY <1>0, <1>a, SMTT(30)
  <2> QED
    BY <1>3, <1>4, <2>3, <2>4 DEF DirectExecute
<1>5. ASSUME NEW t \in Threads, Run(t) PROVE db'[k].op # delayed'[i].id
  <2>1. t \in Executors /\ t # DelayThread
    BY DEF Executors
  <2>2. exec[t] # << >> /\ UNCHANGED delayed /\ (GoesOn(t) \/ Ends(t)) /\ GrowsBy(Op(t).id)
    BY <1>5, <2>1, RunFacts, RunGrows
  <2>3. UNCHANGED finished
    BY <2>1, <2>2 DEF GoesOn, Ends
  <2>4. \A j \in 1 .. Len(delayed) : delayed[j].id # Op(t).id
    BY <2>2 DEF IdsInv
  <2> QED
    BY <1>3, <2>2, <2>3, <2>4
<1>6. ASSUME Run(DelayThread), Ends(DelayThread), UNCHANGED delayed PROVE db'[k].op # delayed'[i].id
  <2> DEFINE n == Len(finished) + 1
  <2>1. DelayThread \in Executors
    BY DEF Executors
  <2>2. exec[DelayThread] # << >> /\ GrowsBy(Op(DelayThread).id)
    BY <1>6, <2>1, RunFacts, RunGrows
  <2>3. n \in 1 .. Len(delayed) /\ delayed[n] = Op(DelayThread)
    BY <2>2, Positions, SMTT(30)
  <2>4. Len(finished') = n
    BY <1>0, <1>6, SMTT(30) DEF Ends
  <2>5. i \in 1 .. Len(delayed) /\ i \in n .. Len(delayed) /\ n < i
    BY <1>0, <1>6, <2>4, SMTT(30)
  <2>6. delayed[n].id < delayed[i].id
    BY <2>3, <2>5 DEF IdsInv
  <2>7. delayed[n].id # delayed[i].id
    BY <1>a, <2>3, <2>6, SMTT(30)
  <2>8. k \in 1 .. Len(db) \/ k \in Len(db) + 1 .. Len(db')
    BY <1>0, <2>2, SMTT(30) DEF GrowsBy
  <2>9. CASE k \in 1 .. Len(db)
    BY <1>6, <2>2, <2>5, <2>9 DEF PendingInv, GrowsBy
  <2>10. CASE k \in Len(db) + 1 .. Len(db')
    BY <1>6, <2>2, <2>3, <2>7, <2>10 DEF GrowsBy
  <2> QED
    BY <2>8, <2>9, <2>10
<1>7. ASSUME Run(DelayThread), ~Ends(DelayThread) PROVE db'[k].op # delayed'[i].id
  <2>1. UNCHANGED db
    BY <1>7, WriterEnds DEF Executors
  <2>2. UNCHANGED <<delayed, finished>>
    BY <1>7, RunFacts DEF Executors, GoesOn
  <2> QED
    BY <1>1, <2>1, <2>2
<1>8. Run(DelayThread) => UNCHANGED delayed
  BY RunFacts DEF Executors
<1> QED
  BY <1>1, <1>2, <1>4, <1>5, <1>6, <1>7, <1>8, NextCases, Zenon
     DEF Quiet, CommitTransactionDirect, UpdateResultQueue, TakeRequest, Reconnect, serverVars, histVars, Executors

-----------------------------------------------------------------------------
(* Writes are durable and whole.                                           *)

\* A statement that is reported successful was sent outside a transaction.
LEMMA DurableNext ==
  ASSUME TypeInv, ServerInv, NothingLostOrOvertaken, IdsInv, SuccessIsDurable, [Next]_vars
  PROVE  SuccessIsDurable'
<1>0. db \in Seq(Statement)
  BY DEF TypeInv, ServerOK
<1>1. ASSUME NEW id \in acked PROVE \E k \in 1 .. Len(db') : db'[k].op = id
  <2>1. PICK k \in 1 .. Len(db) : db[k].op = id
    BY DEF SuccessIsDurable
  <2>2. k \in 1 .. Len(db') /\ db'[k] = db[k]
    BY <1>0, NewWrites, SMTT(30)
  <2> QED
    BY <2>1, <2>2
<1>2. ASSUME NEW id, ServerExecute([op |-> id, n |-> 1]), LockFree
      PROVE  \E k \in 1 .. Len(db') : db'[k].op = id
  <2>1. db' = Append(db, [op |-> id, n |-> 1])
    BY <1>2 DEF ServerExecute, ServerInv, LockFree
  <2>2. Len(db) + 1 \in 1 .. Len(db') /\ db'[Len(db) + 1] = [op |-> id, n |-> 1]
    BY <1>0, <2>1, SMTT(30)
  <2> QED
    BY <2>2
<1>3. \/ UNCHANGED acked
      \/ \E id : acked' = acked \cup {id} /\ ServerExecute([op |-> id, n |-> 1]) /\ LockFree
  <2>1. ASSUME NEW t \in Threads, DirectExecute(t)
        PROVE  \/ UNCHANGED acked
               \/ \E id : acked' = acked \cup {id} /\ ServerExecute([op |-> id, n |-> 1]) /\ LockFree
    BY <2>1, Zenon DEF DirectExecute
  <2>2. ASSUME NEW e \in Executors, RunPlain(e)
        PROVE  \/ UNCHANGED acked
               \/ \E id : acked' = acked \cup {id} /\ ServerExecute([op |-> id, n |-> 1]) /\ LockFree
    BY <2>2, Zenon DEF RunPlain
  <2> QED
    BY <2>1, <2>2, NextCases, Zenon DEF Quiet, Submits, CommitTransactionDirect, UpdateResultQueue,
       TakeRequest, Reconnect, Run, RunEmptyTransaction, StartTransaction, RunStatement, FailStatement,
       EndTransaction, LockForQuery, RunQuery, AnswerQuery, histVars
<1>4. ASSUME NEW id \in acked' PROVE \E k \in 1 .. Len(db') : db'[k].op = id
  <2>1. CASE id \in acked
    BY <1>1, <2>1
  <2>2. CASE id \notin acked
    <3>1. PICK new : acked' = acked \cup {new} /\ ServerExecute([op |-> new, n |-> 1]) /\ LockFree
      BY <1>3, <2>2
    <3>2. id = new
      BY <2>2, <3>1
    <3> QED
      BY <1>2, <3>1, <3>2
  <2> QED
    BY <2>1, <2>2
<1> QED
  BY <1>4 DEF SuccessIsDurable

\* A transaction that ends has sent everything or leaves nothing.
LEMMA WholeNext ==
  ASSUME TypeInv, ServerInv, BodyInv, NothingLostOrOvertaken, IdsInv, PendingInv,
         TransactionsAllOrNothing, [Next]_vars
  PROVE  TransactionsAllOrNothing'
<1> USE AsyncDbAssumption
<1> SUFFICES ASSUME drops = 0, drops' = 0, NEW i \in 1 .. Len(finished'), finished'[i].kind = "trans",
                    NEW k0 \in 1 .. Len(db'), db'[k0].op = finished'[i].id,
                    NEW n \in 1 .. finished'[i].size
             PROVE  \E k \in 1 .. Len(db') : db'[k].op = finished'[i].id /\ db'[k].n = n
  <2> SUFFICES ASSUME drops' = 0, NEW i \in 1 .. Len(finished'), finished'[i].kind = "trans",
                      {j \in 1 .. Len(db') : db'[j].op = finished'[i].id} # {},
                      NEW n \in 1 .. finished'[i].size
               PROVE  \E k \in {j \in 1 .. Len(db') : db'[j].op = finished'[i].id} : db'[k].n = n
    BY Zenon DEF TransactionsAllOrNothing
  <2> QED
    BY DropsGrow
<1>0. finished \in Seq(Operation) /\ db \in Seq(Statement) /\ Len(finished) \in Nat /\ Len(db) \in Nat
  BY SMTT(30) DEF TypeInv, HistoryOK, ServerOK
<1>1. CASE i \in 1 .. Len(finished) /\ finished'[i] = finished[i]
  <2>1. k0 \in 1 .. Len(db) /\ db'[k0] = db[k0]
    <3>1. delayed[i] = finished[i]
      BY <1>1, Positions
    <3>2. k0 \in 1 .. Len(db) \/ k0 \in Len(db) + 1 .. Len(db')
      BY <1>0, NewWrites, SMTT(30)
    <3> QED
      BY <1>1, <3>1, <3>2, NewWrites
  <2>2. \E k \in 1 .. Len(db) : db[k].op = finished[i].id /\ db[k].n = n
    BY <1>1, <2>1 DEF TransactionsAllOrNothing
  <2>3. PICK k \in 1 .. Len(db) : db[k].op = finished[i].id /\ db[k].n = n
    BY <2>2
  <2>4. k \in 1 .. Len(db') /\ db'[k] = db[k]
    BY <1>0, NewWrites, SMTT(30)
  <2> QED
    BY <1>1, <2>3, <2>4
<1>2. CASE Run(DelayThread) /\ i = Len(finished) + 1 /\ finished'[i] = Op(DelayThread)
  <2> DEFINE op == Op(DelayThread)
  <2>1. exec[DelayThread] # << >> /\ op \in Operation
    BY <1>2, RunFacts DEF Executors
  <2>2. i \in Len(finished) + 1 .. Len(delayed) /\ delayed[i] = op
    BY <1>2, <2>1, Positions, SMTT(30)
  <2>3. ~UNCHANGED db
    BY <1>2, <2>2 DEF PendingInv
  <2>4. ~RunPlain(DelayThread)
    BY <1>2 DEF RunPlain
  <2>5. Ends(DelayThread)
    BY <1>2, <2>3, WriterEnds DEF Executors
  <2>6. ~RunStatement(DelayThread)
    <3> SUFFICES ASSUME RunStatement(DelayThread) PROVE FALSE
      OBVIOUS
    <3>1. finished = Append(finished, op)
      BY <2>5 DEF Ends, RunStatement, histVars
    <3>2. Len(finished) = Len(finished) + 1
      BY <1>0, <2>1, <3>1, AppendProperties
    <3> QED
      BY <1>0, <3>2, SMTT(30)
  <2>7. EndTransaction(DelayThread)
    BY <1>2, <2>3, <2>4, <2>6, Zenon DEF Run, RunEmptyTransaction, StartTransaction, FailStatement,
       LockForQuery, RunQuery, AnswerQuery, serverVars
  <2>8. lockOwner = DelayThread /\ op.kind = "trans" /\ pos = op.size + 1 /\ db' = db \o uncommitted
    BY <2>7 DEF EndTransaction
  <2>9. uncommitted = Sent(op, op.size) /\ op.size \in Nat
    <3>1. op.size \in Nat
      BY <2>1, OperationFields, SMTT(30)
    <3> QED
      BY <2>8, <3>1, SMTT(30) DEF BodyInv
  <2>10. n \in 1 .. op.size
    BY <1>2
  <2>11. Len(uncommitted) = op.size /\ uncommitted[n] = [op |-> op.id, n |-> n]
    <3> HIDE DEF op
    <3> QED
      BY <2>9, <2>10, SMTT(30) DEF Sent
  <2>12. Len(db) + n \in 1 .. Len(db') /\ db'[Len(db) + n] = uncommitted[n]
    <3> HIDE DEF op
    <3>1. uncommitted \in Seq(Statement)
      BY DEF TypeInv, ServerOK
    <3> QED
      BY <1>0, <2>8, <2>9, <2>10, <2>11, <3>1, SMTT(30)
  <2> QED
    BY <1>2, <2>11, <2>12
<1>3. CASE UNCHANGED finished
  BY <1>1, <1>3
<1>4. CASE Run(DelayThread) /\ Ends(DelayThread)
  <2>1. Op(DelayThread) \in Operation /\ finished' = Append(finished, Op(DelayThread))
    BY <1>4, RunFacts DEF Ends, Executors
  <2>2. \/ i \in 1 .. Len(finished) /\ finished'[i] = finished[i]
        \/ i = Len(finished) + 1 /\ finished'[i] = Op(DelayThread)
    BY <1>0, <2>1, SMTT(30)
  <2> QED
    BY <1>1, <1>2, <1>4, <2>2
<1> QED
  BY <1>3, <1>4, HistoryStep

-----------------------------------------------------------------------------
(* Results are in order.                                                   *)

\* A step keeps that a holder of queries reads one state.
LEMMA ReadsNext ==
  ASSUME TypeInv, ServerInv, NothingLostOrOvertaken, IdsInv, SeenInv, HolderReadsOneState, [Next]_vars
  PROVE  HolderReadsOneState'
<1>1. CASE UNCHANGED seen
  BY <1>1 DEF HolderReadsOneState
<1>2. CASE RunQuery(DelayThread)
  <2> DEFINE n == Len(finished) + 1
             id == delayed[n].id
  <2>1. n \in 1 .. Len(delayed) /\ n \in Len(finished) + 1 .. Len(delayed)
    BY <1>2, ReadFacts, SMTT(30)
  <2>2. \A j \in 1 .. Len(seen[id]) : seen[id][j] = Len(db)
    <3>1. CASE seen[id] = << >>
      BY <3>1, SMTT(30)
    <3>2. CASE seen[id] # << >>
      BY <2>1, <3>2 DEF SeenInv
    <3> QED
      BY <3>1, <3>2
  <2>3. \A j \in 1 .. Len(seen'[id]) : seen'[id][j] = Len(db)
    <3>1. seen'[id] = Append(seen[id], Len(db)) /\ seen[id] \in Seq(Nat) /\ Len(db) \in Nat
      BY <1>2, ReadFacts, Zenon
    <3> HIDE DEF id
    <3> QED
      BY <2>2, <3>1, SMTT(30)
  <2>4. \A other \in 1 .. MaxOps : other # id => seen'[other] = seen[other]
    BY <1>2, ReadFacts, Zenon
  <2> SUFFICES ASSUME NEW x \in 1 .. MaxOps, NEW j \in 1 .. Len(seen'[x]), NEW k \in 1 .. Len(seen'[x])
               PROVE  seen'[x][j] = seen'[x][k]
    BY Zenon DEF HolderReadsOneState
  <2>5. CASE x = id
    BY <2>3, <2>5
  <2>6. CASE x # id
    BY <2>4, <2>6 DEF HolderReadsOneState
  <2> QED
    BY <2>5, <2>6
<1> QED
  BY <1>1, <1>2, OnlyQueriesRead

\* A step keeps that a query sees what was delayed before it.
LEMMA EarlierWritesNext ==
  ASSUME TypeInv, ServerInv, NothingLostOrOvertaken, IdsInv, SeenInv, QuerySeesEarlierWrites, [Next]_vars
  PROVE  QuerySeesEarlierWrites'
<1> USE AsyncDbAssumption
<1> SUFFICES ASSUME NEW q \in 1 .. Len(delayed'), NEW o \in 1 .. Len(delayed'), o < q,
                    delayed'[q].kind = "query", seen'[delayed'[q].id] # << >>,
                    NEW k \in 1 .. Len(db'), db'[k].op = delayed'[o].id
             PROVE  k <= seen'[delayed'[q].id][1]
  BY DEF QuerySeesEarlierWrites
<1>0. /\ Len(finished) \in Nat /\ Len(delayed) \in Nat /\ delayed \in Seq(Operation) /\ Len(db) \in Nat
      /\ db \in Seq(Statement) /\ issued \in Nat
  BY Positions, SMTT(30) DEF TypeInv, HistoryOK, ServerOK
\* The query had read before: what it saw first stays.
<1>1. ASSUME q \in 1 .. Len(delayed), o \in 1 .. Len(delayed), delayed'[q] = delayed[q], delayed'[o] = delayed[o],
             seen[delayed[q].id] # << >>, seen'[delayed[q].id][1] = seen[delayed[q].id][1]
      PROVE  k <= seen'[delayed'[q].id][1]
  <2>1. CASE k \in 1 .. Len(db)
    <3>1. db[k].op = delayed[o].id /\ delayed[q].kind = "query"
      BY <1>1, <2>1, NewWrites
    <3> QED
      BY <1>1, <2>1, <3>1, Zenon DEF QuerySeesEarlierWrites
  <2>2. CASE k \in Len(db) + 1 .. Len(db')
    <3>1. o \in 1 .. Len(finished)
      <4>1. q <= Len(finished) + 1
        <5>1. q \in Len(finished) + 1 .. Len(delayed) => q = Len(finished) + 1
          BY <1>1, Zenon DEF SeenInv
        <5> QED
          BY <1>0, <1>1, <5>1, SMTT(30)
      <4> QED
        BY <1>0, <1>1, <4>1, SMTT(30)
    <3> QED
      BY <1>1, <2>2, <3>1, NewWrites
  <2> QED
    BY <1>0, <2>1, <2>2, NewWrites, SMTT(30)
<1>2. CASE RunQuery(DelayThread)
  <2> DEFINE n == Len(finished) + 1
             id == delayed[n].id
  <2>1. UNCHANGED <<db, delayed>>
    BY <1>2, ReadFacts, Zenon
  <2>2. seen[id] \in Seq(Nat) /\ seen'[id] = Append(seen[id], Len(db))
    BY <1>2, ReadFacts, Zenon
  <2>3. \A other \in 1 .. MaxOps : other # id => seen'[other] = seen[other]
    BY <1>2, ReadFacts, Zenon
  <2>4. delayed[q].id \in 1 .. MaxOps
    BY <1>0, <2>1, OperationFields, SMTT(30)
  <2>5. CASE delayed[q].id # id
    BY <1>1, <2>1, <2>3, <2>4, <2>5
  <2>6. CASE delayed[q].id = id /\ seen[id] # << >>
    <3>1. seen'[id][1] = seen[id][1]
      <4> HIDE DEF id
      <4>1. Len(seen[id]) \in Nat \ {0}
        BY <2>2, <2>6, EmptySeq
      <4> QED
        BY <2>2, <4>1, SMTT(30)
    <3> QED
      BY <1>1, <2>1, <2>6, <3>1
  <2>7. CASE delayed[q].id = id /\ seen[id] = << >>
    <3>1. seen'[id][1] = Len(db)
      <4> HIDE DEF id
      <4> QED
        BY <1>0, <2>2, <2>7, SMTT(30)
    <3> QED
      BY <1>0, <2>1, <2>7, <3>1, SMTT(30)
  <2> QED
    BY <2>5, <2>6, <2>7
<1>3. CASE UNCHANGED <<seen, delayed>>
  BY <1>1, <1>3
<1>4. ASSUME NEW op \in Operation, Submits(op), UNCHANGED <<finished, lockOwner, db, seen>>
      PROVE  k <= seen'[delayed'[q].id][1]
  <2>1. delayed' = Append(delayed, op) /\ op.id = issued + 1
    BY <1>4 DEF Submits, Delay
  <2>2. seen[op.id] = << >>
    BY <1>0, <2>1, OperationFields, SMTT(30) DEF IdsInv
  <2>3. \/ q = Len(delayed) + 1 /\ delayed'[q] = op
        \/ q \in 1 .. Len(delayed) /\ o \in 1 .. Len(delayed) /\ delayed'[q] = delayed[q] /\ delayed'[o] = delayed[o]
    BY <1>0, <2>1, SMTT(30)
  <2> QED
    BY <1>1, <1>4, <2>2, <2>3
<1> QED
  BY <1>2, <1>3, <1>4, HistoryStep, OnlyQueriesRead, Zenon

\* Counting the queries among the first k of a sequence of operations.
LEMMA QueryCount ==
  ASSUME NEW ops, NEW k \in Nat
  PROVE  /\ IsFiniteSet(QueriesUpTo(k, ops)) /\ Cardinality(QueriesUpTo(k, ops)) \in Nat
         /\ k + 1 \notin QueriesUpTo(k, ops)
<1>1. IsFiniteSet(1 .. k)
  BY FS_Interval, SMTT(30)
<1>2. QueriesUpTo(k, ops) \subseteq 1 .. k
  BY DEF QueriesUpTo
<1>3. k + 1 \notin 1 .. k
  BY SMTT(30)
<1> QED
  BY <1>1, <1>2, <1>3, FS_Subset, FS_CardinalityType

\* A query has its place among the answers.
LEMMA QueryRank ==
  ASSUME NEW ops, NEW L \in Nat, NEW k \in 1 .. L, ops[k].kind = "query"
  PROVE  Cardinality(QueriesUpTo(k, ops)) \in 1 .. Cardinality(QueriesUpTo(L, ops))
<1>1. k \in Nat /\ k <= L
  BY SMTT(30)
<1>2. QueriesUpTo(k, ops) \subseteq QueriesUpTo(L, ops) /\ {k} \subseteq QueriesUpTo(k, ops)
  BY <1>1, SMTT(30) DEF QueriesUpTo
<1>3. Cardinality(QueriesUpTo(k, ops)) <= Cardinality(QueriesUpTo(L, ops))
  BY <1>1, <1>2, QueryCount, FS_Subset
<1>4. Cardinality({k}) <= Cardinality(QueriesUpTo(k, ops)) /\ Cardinality({k}) = 1
  BY <1>1, <1>2, QueryCount, FS_Subset, FS_Singleton
<1>5. Cardinality(QueriesUpTo(k, ops)) \in Nat /\ Cardinality(QueriesUpTo(L, ops)) \in Nat
  BY <1>1, QueryCount
<1> QED
  BY <1>3, <1>4, <1>5, SMTT(30)

\* One more operation: a query is answered, anything else is not.
LEMMA NextAnswer ==
  ASSUME NEW ops \in Seq(Operation), NEW answers \in Seq(Operation), AnswersInOrder(answers, ops),
         NEW op \in Operation, NEW more,
         IF op.kind = "query" THEN more = Append(answers, op) ELSE more = answers
  PROVE  AnswersInOrder(more, Append(ops, op))
<1> DEFINE L == Len(ops)
           longer == Append(ops, op)
<1>0. L \in Nat
  BY SMTT(30)
<1>1. Len(longer) = L + 1 /\ longer[L + 1] = op /\ \A k \in 1 .. L : longer[k] = ops[k]
  BY SMTT(30)
<1>a. /\ Len(answers) = Cardinality(QueriesUpTo(L, ops))
      /\ \A k \in 1 .. L : ops[k].kind = "query" => answers[Cardinality(QueriesUpTo(k, ops))] = ops[k]
  BY DEF AnswersInOrder
<1> HIDE DEF longer, L
<1>2. ASSUME NEW k \in 0 .. L PROVE QueriesUpTo(k, longer) = QueriesUpTo(k, ops)
  <2>1. \A i \in 1 .. k : longer[i] = ops[i]
    BY <1>0, <1>1, SMTT(30)
  <2> QED
    BY <2>1 DEF QueriesUpTo
<1>3. QueriesUpTo(L + 1, longer) = IF op.kind = "query" THEN QueriesUpTo(L, ops) \cup {L + 1} ELSE QueriesUpTo(L, ops)
  <2>1. 1 .. L + 1 = (1 .. L) \cup {L + 1} /\ L \in 0 .. L
    BY <1>0, SMTT(30)
  <2>2. QueriesUpTo(L, longer) = QueriesUpTo(L, ops)
    BY <1>2, <2>1
  <2>3. QueriesUpTo(L + 1, longer) = QueriesUpTo(L, longer) \cup {i \in {L + 1} : longer[i].kind = "query"}
    BY <2>1 DEF QueriesUpTo
  <2> QED
    BY <1>1, <2>2, <2>3
<1>4. Cardinality(QueriesUpTo(L + 1, longer)) = IF op.kind = "query" THEN Len(answers) + 1 ELSE Len(answers)
  <2>1. IsFiniteSet(QueriesUpTo(L, ops)) /\ L + 1 \notin QueriesUpTo(L, ops)
    BY <1>0, QueryCount
  <2>2. Cardinality(QueriesUpTo(L, ops) \cup {L + 1}) = Len(answers) + 1
    BY <1>a, <2>1, FS_AddElement
  <2> QED
    BY <1>a, <1>3, <2>2
<1>5. Len(more) = Cardinality(QueriesUpTo(L + 1, longer))
  BY <1>4, SMTT(30)
<1>6. ASSUME NEW k \in 1 .. L, ops[k].kind = "query"
      PROVE  more[Cardinality(QueriesUpTo(k, ops))] = ops[k]
  <2>1. Cardinality(QueriesUpTo(k, ops)) \in 1 .. Len(answers)
    BY <1>0, <1>a, <1>6, QueryRank
  <2>2. answers[Cardinality(QueriesUpTo(k, ops))] = ops[k]
    BY <1>a, <1>6
  <2>3. ASSUME NEW m \in 1 .. Len(answers) PROVE more[m] = answers[m]
    BY SMTT(30)
  <2> QED
    BY <2>1, <2>2, <2>3
<1>7. op.kind = "query" => more[Cardinality(QueriesUpTo(L + 1, longer))] = op
  BY <1>4, SMTT(30)
<1>8. ASSUME NEW k \in 1 .. L + 1, longer[k].kind = "query"
      PROVE  more[Cardinality(QueriesUpTo(k, longer))] = longer[k]
  <2>1. CASE k = L + 1
    BY <1>1, <1>7, <1>8, <2>1
  <2>2. CASE k \in 1 .. L /\ k \in 0 .. L
    BY <1>1, <1>2, <1>6, <1>8, <2>2
  <2> QED
    BY <1>0, <2>1, <2>2, SMTT(30)
<1>9. AnswersInOrder(more, longer)
  BY <1>1, <1>5, <1>8, Zenon DEF AnswersInOrder
<1> QED
  BY <1>9 DEF longer

\* A step keeps the order of the callbacks.
LEMMA CallbacksNext ==
  ASSUME TypeInv, ServerInv, CallbacksInOrder, [Next]_vars
  PROVE  CallbacksInOrder'
<1> USE AsyncDbAssumption
<1> DEFINE answered == called \o resultQueue
<1>0. /\ finished \in Seq(Operation) /\ called \in Seq(Operation) /\ resultQueue \in Seq(Operation)
      /\ answered \in Seq(Operation)
  BY SMTT(30) DEF TypeInv, HistoryOK, QueriesOK
<1>1. ASSUME answered' = answered, UNCHANGED finished PROVE CallbacksInOrder'
  BY <1>1, Zenon DEF CallbacksInOrder
\* An operation that ends is answered when it is a query.
<1>2. ASSUME NEW op \in Operation, finished' = Append(finished, op),
             IF op.kind = "query" THEN answered' = Append(answered, op) ELSE answered' = answered
      PROVE  CallbacksInOrder'
  <2>1. AnswersInOrder(answered, finished)
    BY DEF CallbacksInOrder
  <2>2. AnswersInOrder(answered', finished')
    <3> HIDE DEF answered
    <3> QED
      BY <1>0, <1>2, <2>1, NextAnswer
  <2> QED
    BY <2>2 DEF CallbacksInOrder
<1>3. ASSUME UpdateResultQueue PROVE CallbacksInOrder'
  <2>1. answered' = answered
    BY <1>0, <1>3, SMTT(30) DEF UpdateResultQueue
  <2> QED
    BY <1>1, <1>3, <2>1 DEF UpdateResultQueue, histVars
<1>4. ASSUME NEW e \in Executors, Run(e) PROVE CallbacksInOrder'
  <2>1. exec[e] # << >> /\ Op(e) \in Operation /\ (GoesOn(e) \/ Ends(e))
    BY <1>4, RunFacts
  <2>2. CASE AnswerQuery(e)
    <3>1. Op(e).kind = "query" /\ e = DelayThread /\ UNCHANGED called /\ resultQueue' = Append(resultQueue, Op(e))
      BY <2>1, <2>2, SMTT(30) DEF AnswerQuery, ServerInv, Executors
    <3>2. answered' = Append(answered, Op(e))
      BY <1>0, <2>1, <3>1, SMTT(30)
    <3> QED
      BY <1>2, <2>1, <2>2, <3>1, <3>2 DEF AnswerQuery, Leave
  <2>3. CASE ~AnswerQuery(e)
    <3>1. UNCHANGED answered
      BY <1>4, <2>3, Zenon DEF Run, RunPlain, RunEmptyTransaction, StartTransaction, RunStatement, FailStatement,
         EndTransaction, LockForQuery, RunQuery, queryVars
    <3>2. ASSUME ~UNCHANGED finished PROVE Op(e).kind # "query" /\ finished' = Append(finished, Op(e))
      <4>1. finished' = Append(finished, Op(e))
        BY <2>1, <3>2 DEF GoesOn, Ends
      <4>2. ~StartTransaction(e) /\ ~RunStatement(e) /\ ~LockForQuery(e) /\ ~RunQuery(e)
        BY <3>2, Zenon DEF StartTransaction, RunStatement, LockForQuery, RunQuery, histVars
      <4> QED
        BY <1>4, <2>3, <4>1, <4>2 DEF Run, RunPlain, RunEmptyTransaction, FailStatement, EndTransaction
    <3> QED
      BY <1>1, <1>2, <2>1, <3>1, <3>2
  <2> QED
    BY <2>2, <2>3
<1>5. ASSUME UNCHANGED <<called, resultQueue, finished>> PROVE CallbacksInOrder'
  BY <1>1, <1>5
<1> QED
  BY <1>3, <1>4, <1>5, NextCases, Zenon
     DEF Quiet, Submits, DirectExecute, CommitTransactionDirect, TakeRequest, Reconnect, queryVars, histVars

-----------------------------------------------------------------------------
(* The theorems.                                                           *)

\* The identifiers, the reads and the pending operations keep their invariants.
LEMMA HistoryInv == Spec => [](NothingLostOrOvertaken /\ IdsInv /\ SeenInv /\ PendingInv)
<1>1. Init => IdsInv /\ SeenInv /\ PendingInv
  <2> SUFFICES ASSUME Init PROVE IdsInv /\ SeenInv /\ PendingInv
    OBVIOUS
  <2>1. /\ delayed = << >> /\ db = << >> /\ finished = << >> /\ \A t \in Threads : exec[t] = << >>
        /\ \A id \in 1 .. MaxOps : seen[id] = << >>
    BY DEF Init, Executors
  <2> QED
    BY <2>1, SMTT(30) DEF IdsInv, SeenInv, PendingInv
<1> QED
  BY <1>1, ConnectionInv, OrderCorrect, IdsNext, SeenNext, PendingNext, PTL DEF Spec

\* A statement whose success was reported is durable whatever other threads roll
\* back, and an executed transaction is in the log wholly or not at all while no
\* connection is lost: for any number of threads, statements and failures.
THEOREM WritesCorrect == Spec => []WritesAreWhole
<1>1. Init => SuccessIsDurable /\ TransactionsAllOrNothing
  BY SMTT(30) DEF Init, SuccessIsDurable, TransactionsAllOrNothing
<1>2. SuccessIsDurable /\ TransactionsAllOrNothing => WritesAreWhole
  BY DEF WritesAreWhole
<1> QED
  BY <1>1, <1>2, ConnectionInv, HistoryInv, DurableNext, WholeNext, PTL DEF Spec

\* The reads of a holder see one state of the database, a query sees every write
\* delayed before it, and callbacks run once, in the order of the calls.
THEOREM ResultsCorrect == Spec => []ResultsInOrder
<1>1. Init => HolderReadsOneState /\ QuerySeesEarlierWrites
  BY SMTT(30) DEF Init, HolderReadsOneState, QuerySeesEarlierWrites
<1>2. Init => CallbacksInOrder
  <2> SUFFICES ASSUME Init PROVE CallbacksInOrder
    OBVIOUS
  <2>1. called = << >> /\ resultQueue = << >> /\ finished = << >> /\ called \o resultQueue = << >>
    BY ConcatEmptySeq, SMTT(30) DEF Init
  <2>2. QueriesUpTo(0, << >>) = {}
    BY SMTT(30) DEF QueriesUpTo
  <2> QED
    BY <2>1, <2>2, FS_EmptySet, SMTT(30) DEF CallbacksInOrder, AnswersInOrder
<1>3. HolderReadsOneState /\ QuerySeesEarlierWrites /\ CallbacksInOrder => ResultsInOrder
  BY DEF ResultsInOrder
<1> QED
  BY <1>1, <1>2, <1>3, ConnectionInv, HistoryInv, ReadsNext, EarlierWritesNext, CallbacksNext, PTL DEF Spec
=============================================================================
