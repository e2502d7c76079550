------------------------ MODULE JudgePipelineProofs ------------------------
(* The pipeline for any number of submissions, API handlers, sweepers,
   consumers, judge slots and faults: its state stays well typed, and all its
   steps do to the evaluation tables is what EvaluationSpec allows, so that every
   theorem about the tables holds of the pipeline.                           *)
EXTENDS JudgePipeline, AttemptsProofs

-----------------------------------------------------------------------------
(* Local states of the threads *)

ThreadsOK == thread \in [Thread -> ThreadState]

LEMMA ThreadFields ==
  ASSUME ThreadsOK, NEW t \in Thread
  PROVE  /\ thread[t] \in ThreadState /\ thread[t] \in ThreadRow
         /\ thread[t].pc \in RunPc => thread[t].run \in AttemptId
         /\ thread[t].pc \in MsgPc => thread[t].msg \in Result
  BY DEF ThreadsOK, ThreadState

\* A thread may go to any program point whose run or message it has.
LEMMA GotoOK ==
  ASSUME ThreadsOK, NEW t \in Thread, NEW pc \in ThreadPc, Goto(t, pc),
         pc \in RunPc => thread[t].run \in AttemptId,
         pc \in MsgPc => thread[t].msg \in Result
  PROVE  ThreadsOK'
<1>1. [thread[t] EXCEPT !.pc = pc] \in ThreadState
  BY ThreadFields DEF ThreadState, ThreadRow
<1> QED
  BY <1>1 DEF ThreadsOK, Goto

LEMMA IdleOK == IdleThread \in ThreadState /\ NoMsg \notin Result
  BY DEF IdleThread, ThreadState, ThreadRow, ThreadPc, RunPc, MsgPc, Ref,
         NoMsg, Result, ResultKind

\* A recovery that ends leaves its thread idle or with the message it holds.
LEMMA FinishedOK ==
  ASSUME ThreadsOK, NEW t \in Thread, Finished(t)
  PROVE  ThreadsOK'
<1>1. [thread[t] EXCEPT !.pc = "ack"] \in ThreadRow
  BY ThreadFields DEF ThreadRow, ThreadPc
<1>2. ASSUME thread[t].msg # NoMsg
      PROVE  [thread[t] EXCEPT !.pc = "ack"] \in ThreadState
  <2>1. thread[t].msg \in Result
    BY <1>2, ThreadFields DEF ThreadRow
  <2> QED
    BY <1>1, <2>1, ThreadFields DEF ThreadState, ThreadRow, RunPc
<1>3. AfterDispatch(t) \in ThreadState
  BY <1>2, IdleOK DEF AfterDispatch
<1> QED
  BY <1>3 DEF ThreadsOK, Finished

-----------------------------------------------------------------------------
(* What the steps of the pipeline do to the tables *)

\* Each of these steps is one transaction of the tables or leaves them alone.
LEMMA DispatchTables ==
  ASSUME ThreadsOK, NEW t \in Thread, DispatchStep(t) \/ ThreadFault(t)
  PROVE  [EvaluationNext]_dbVars
<1> DEFINE a == thread[t].run
           Goal == [EvaluationNext]_dbVars
<1>1. ASSUME a \in AttemptId, RecordRun(a), UNCHANGED <<att, verdict, outbox>>
      PROVE  Goal
  BY <1>1 DEF EvaluationNext
<1>2. CASE Push(t) \/ PushBreaks(t)
  <2>1. a \in AttemptId
    BY <1>2, ThreadFields DEF Push, PushBreaks, Pushing, RunPc, ThreadPc
  <2>2. \/ UNCHANGED dbVars
        \/ RecordRun(a) /\ UNCHANGED <<att, verdict, outbox>>
    BY <1>2 DEF Push, PushBreaks, dbVars
  <2> QED
    BY <1>1, <2>1, <2>2
<1>3. CASE MarkJudging(t)
  <2>1. a \in AttemptId /\ Owner(a) \in Submission
    BY <1>3, ThreadFields, Pair DEF MarkJudging, RunPc, ThreadPc
  <2>2. CASE Marks(t)
    <3>1. sub[Owner(a)].status \in {"pending", "judging"}
      BY <2>2 DEF Marks, ExpectedStatus
    <3>2. StartJudging(Owner(a))
      BY <1>3, <2>2, <3>1 DEF MarkJudging, StartJudging
    <3> QED
      BY <2>1, <3>2 DEF EvaluationNext
  <2>3. CASE ~Marks(t)
    BY <1>3, <2>3 DEF MarkJudging, dbVars
  <2> QED
    BY <2>2, <2>3
<1>4. CASE FailAttempt(t)
  <2>1. a \in AttemptId
    BY <1>4, ThreadFields DEF FailAttempt, RunPc, ThreadPc
  <2> QED
    BY <1>4, <2>1 DEF FailAttempt, EvaluationNext
<1>5. CASE UNCHANGED dbVars
  BY <1>5
<1> QED
  BY <1>2, <1>3, <1>4, <1>5
  DEF DispatchStep, ThreadFault, PushTooLarge, Probe, Scan, Note, Claim, Look,
      Rebuild, Release, MarkFails, ClaimFails, RebuildFails, FailBreaks, SaveFails,
      AckFails, ThreadDies

LEMMA ConsumerTables ==
  ASSUME ThreadsOK, NEW t \in Thread, ConsumerStep(t)
  PROVE  [EvaluationNext]_dbVars
<1> DEFINE a == thread[t].msg.run
<1>1. CASE SaveResult(t)
  <2>1. a \in AttemptId
    BY <1>1, ThreadFields DEF SaveResult, MsgPc, Result
  <2>2. \/ UNCHANGED dbVars
        \/ ApplyGraded(a) \/ ApplyPlatformError(a)
        \/ \E b \in AttemptId : ApplyRetry(a, b)
    BY <1>1 DEF SaveResult
  <2> QED
    BY <2>1, <2>2 DEF EvaluationNext
<1>2. CASE UNCHANGED dbVars
  BY <1>2
<1> QED
  BY <1>1, <1>2
  DEF ConsumerStep, TakeResult, ClearMarker, Redispatch, AckResult, Requeue, Unlist

LEMMA PipelineTables ==
  ASSUME ThreadsOK, [Next]_vars
  PROVE  [EvaluationNext]_dbVars
<1>1. ASSUME NEW t \in Api, NEW s \in Submission, CreateSubmission(t, s)
      PROVE  [EvaluationNext]_dbVars
  BY <1>1 DEF CreateSubmission, EvaluationNext
<1>2. ASSUME NEW t \in Sweeper, NEW s \in Submission,
             SelectPending(t, s) \/ SelectStale(t, s)
      PROVE  UNCHANGED dbVars
  BY <1>2 DEF SelectPending, SelectStale
<1>3. ASSUME NEW t \in Consumer, ConsumerStep(t)
      PROVE  [EvaluationNext]_dbVars
  BY <1>3, ConsumerTables DEF Thread
<1>4. ASSUME NEW w \in Worker, WorkerStep(w) \/ WorkerFault(w)
      PROVE  UNCHANGED dbVars
  BY <1>4 DEF WorkerStep, WorkerFault, TakeTask, Evaluate, Report, AckTask, Decline,
              ReportUnheard, ReportFails, WorkerDies
<1>5. ASSUME NEW a \in AttemptId, ExpireMarker(a) \/ Replay(a)
      PROVE  UNCHANGED dbVars
  BY <1>5 DEF ExpireMarker, Replay
<1>6. ASSUME NEW a \in AttemptId, Revoke(a)
      PROVE  [EvaluationNext]_dbVars
  BY <1>6 DEF Revoke, EvaluationNext
<1>7. ASSUME NEW m, SweepTask(m) \/ SweepResult(m)
      PROVE  UNCHANGED dbVars
  BY <1>7 DEF SweepTask, SweepResult
<1>8. CASE Quiescent \/ UNCHANGED vars
  BY <1>8 DEF Quiescent, vars
<1> QED
  BY <1>1, <1>2, <1>3, <1>4, <1>5, <1>6, <1>7, <1>8, DispatchTables DEF Next

-----------------------------------------------------------------------------
(* Threads stay well formed *)

LEMMA DispatchThreads ==
  ASSUME ThreadsOK, NEW t \in Thread, DispatchStep(t)
  PROVE  ThreadsOK'
<1>1. ASSUME NEW pc \in RunPc \ {"redispatch"}, thread[t].run \in AttemptId, Goto(t, pc)
      PROVE  ThreadsOK'
  BY <1>1, GotoOK DEF RunPc, MsgPc
<1>2. thread[t].pc \in RunPc => thread[t].run \in AttemptId
  BY ThreadFields
<1>3. CASE Push(t)
  BY <1>1, <1>2, <1>3, FinishedOK DEF Push, Pushing, Deferred, RunPc, ThreadPc
<1>4. CASE PushTooLarge(t)
  BY <1>1, <1>2, <1>4 DEF PushTooLarge, Pushing, RunPc, ThreadPc
<1>5. CASE MarkJudging(t)
  BY <1>5, FinishedOK DEF MarkJudging
<1>6. CASE Probe(t)
  BY <1>1, <1>2, <1>6, FinishedOK DEF Probe, RunPc, ThreadPc
<1>7. CASE Scan(t)
  <2> DEFINE p == thread[t].pc
  <2>1. p \in DOMAIN NextList /\ p \in RunPc /\ NextList[p] \in RunPc \ {"redispatch"}
    BY <1>7 DEF Scan, NextList, RunPc, ThreadPc
  <2>2. "note" \in RunPc \ {"redispatch"}
    BY DEF RunPc, ThreadPc
  <2>3. Goto(t, "note") \/ Goto(t, NextList[p])
    BY <1>7 DEF Scan
  <2> QED
    BY <1>1, <1>2, <2>1, <2>2, <2>3
<1>8. CASE Note(t)
  BY <1>8, FinishedOK DEF Note
<1>9. CASE Claim(t)
  BY <1>1, <1>2, <1>9, FinishedOK DEF Claim, RunPc, ThreadPc
<1>10. CASE Rebuild(t)
  BY <1>1, <1>2, <1>10 DEF Rebuild, RunPc, ThreadPc
<1>11. CASE Release(t)
  BY <1>1, <1>2, <1>11, FinishedOK DEF Release, RunPc, ThreadPc
<1>12. CASE FailAttempt(t)
  BY <1>12, FinishedOK DEF FailAttempt
<1>13. CASE Look(t)
  BY <1>1, <1>2, <1>13, FinishedOK DEF Look, RunPc, ThreadPc
<1> QED
  BY <1>3, <1>4, <1>5, <1>6, <1>7, <1>8, <1>9, <1>10, <1>11, <1>12, <1>13
  DEF DispatchStep

LEMMA FaultThreads ==
  ASSUME ThreadsOK, NEW t \in Thread, ThreadFault(t)
  PROVE  ThreadsOK'
<1>1. ASSUME NEW pc \in RunPc \ {"redispatch"}, thread[t].run \in AttemptId, Goto(t, pc)
      PROVE  ThreadsOK'
  BY <1>1, GotoOK DEF RunPc, MsgPc
<1>2. /\ thread[t].pc \in RunPc => thread[t].run \in AttemptId
      /\ thread[t].pc \in MsgPc => thread[t].msg \in Result
  BY ThreadFields
<1>3. CASE PushBreaks(t)
  BY <1>1, <1>2, <1>3, FinishedOK DEF PushBreaks, Pushing, Deferred, RunPc, ThreadPc
<1>4. CASE MarkFails(t)
  BY <1>1, <1>2, <1>4, FinishedOK DEF MarkFails, Deferred, RunPc, ThreadPc
<1>5. CASE ClaimFails(t)
  BY <1>5, FinishedOK DEF ClaimFails
<1>6. CASE RebuildFails(t)
  BY <1>1, <1>2, <1>6 DEF RebuildFails, RunPc, ThreadPc
<1>7. CASE FailBreaks(t)
  BY <1>7, FinishedOK DEF FailBreaks
<1>8. CASE SaveFails(t) \/ AckFails(t)
  <2>1. thread[t].msg \in Result /\ Goto(t, "requeue")
    BY <1>2, <1>8 DEF SaveFails, AckFails, MsgPc
  <2> QED
    BY <2>1, GotoOK DEF RunPc, ThreadPc
<1>9. CASE ThreadDies(t)
  BY <1>9, IdleOK DEF ThreadDies, ThreadsOK
<1> QED
  BY <1>3, <1>4, <1>5, <1>6, <1>7, <1>8, <1>9 DEF ThreadFault

LEMMA ConsumerThreads ==
  ASSUME ThreadsOK, results \in Seq(Result), NEW t \in Thread, ConsumerStep(t)
  PROVE  ThreadsOK'
<1>1. /\ thread[t].pc \in RunPc => thread[t].run \in AttemptId
      /\ thread[t].pc \in MsgPc => thread[t].msg \in Result
      /\ thread[t] \in ThreadRow
  BY ThreadFields
<1>2. CASE TakeResult(t)
  <2> DEFINE r == Head(results)
             new == [IdleThread EXCEPT !.pc = "save", !.msg = r]
  <2>1. r \in Result
    BY <1>2 DEF TakeResult
  <2>2. new \in ThreadState
    BY <2>1 DEF IdleThread, ThreadState, ThreadRow, ThreadPc, RunPc, MsgPc, Ref
  <2> HIDE DEF new
  <2>3. thread' = [thread EXCEPT ![t] = new]
    BY <1>2 DEF TakeResult, new
  <2> QED
    BY <2>2, <2>3 DEF ThreadsOK
<1>3. CASE SaveResult(t)
  <2>1. thread[t].pc = "save" /\ thread[t].msg \in Result
    BY <1>1, <1>3 DEF SaveResult, MsgPc
  <2>2. CASE Goto(t, "ack")
    BY <2>1, <2>2, GotoOK DEF RunPc, ThreadPc
  <2>3. ASSUME NEW b \in Ref, thread' = [thread EXCEPT ![t].pc = "clear", ![t].run = b]
        PROVE  ThreadsOK'
    <3> DEFINE new == [thread[t] EXCEPT !.pc = "clear", !.run = b]
    <3>1. new \in ThreadRow /\ new.pc = "clear" /\ new.msg = thread[t].msg
      BY <1>1 DEF ThreadRow, ThreadPc
    <3> HIDE DEF new
    <3>2. new \in ThreadState
      BY <2>1, <3>1 DEF ThreadState, RunPc
    <3>3. thread' = [thread EXCEPT ![t] = new]
      BY <2>3 DEF new
    <3> QED
      BY <3>2, <3>3 DEF ThreadsOK
  <2> QED
    BY <1>3, <2>2, <2>3 DEF SaveResult, Ref
<1>4. CASE ClearMarker(t)
  BY <1>1, <1>4, GotoOK DEF ClearMarker, RunPc, MsgPc, ThreadPc, ThreadRow, Ref
<1>5. CASE Redispatch(t)
  <2>1. /\ thread[t].pc = "redispatch"
        /\ thread[t].run \in AttemptId /\ thread[t].msg \in Result
    BY <1>1, <1>5 DEF Redispatch, RunPc, MsgPc, ThreadPc
  <2>2. CASE Goto(t, "ack")
    BY <2>1, <2>2, GotoOK DEF RunPc, ThreadPc
  <2>3. CASE thread' = [thread EXCEPT ![t].pc = "claim", ![t].mode = "pending"]
    <3> DEFINE new == [thread[t] EXCEPT !.pc = "claim", !.mode = "pending"]
    <3>1. /\ new \in ThreadRow /\ new.pc = "claim" /\ new.run = thread[t].run
      BY <1>1 DEF ThreadRow, ThreadPc
    <3> HIDE DEF new
    <3>2. new \in ThreadState
      BY <2>1, <3>1 DEF ThreadState, MsgPc
    <3>3. thread' = [thread EXCEPT ![t] = new]
      BY <2>3 DEF new
    <3> QED
      BY <3>2, <3>3 DEF ThreadsOK
  <2> QED
    BY <1>5, <2>2, <2>3 DEF Redispatch
<1>6. CASE Requeue(t)
  BY <1>1, <1>6, GotoOK DEF Requeue, RunPc, MsgPc, ThreadPc
<1>7. CASE AckResult(t) \/ Unlist(t)
  BY <1>7, IdleOK DEF AckResult, Unlist, ThreadsOK
<1> QED
  BY <1>2, <1>3, <1>4, <1>5, <1>6, <1>7 DEF ConsumerStep

\* An API handler or a sweeper starts on an attempt.
LEMMA StartThreads ==
  ASSUME ThreadsOK, NEW t \in Thread, NEW a \in AttemptId, NEW pc \in RunPc \ {"redispatch"},
         NEW mode \in {"create", "pending", "judging"},
         thread' = [thread EXCEPT ![t] =
                      [IdleThread EXCEPT !.pc = pc, !.run = a, !.mode = mode]]
  PROVE  ThreadsOK'
<1>1. [IdleThread EXCEPT !.pc = pc, !.run = a, !.mode = mode] \in ThreadState
  BY DEF IdleThread, ThreadState, ThreadRow, RunPc, MsgPc, Ref
<1> QED
  BY <1>1 DEF ThreadsOK

LEMMA PipelineThreads ==
  ASSUME TypeOK, TablesOK, [Next]_vars
  PROVE  ThreadsOK'
<1>0. ThreadsOK /\ results \in Seq(Result)
  BY DEF TypeOK, RedisTypeOK, ThreadsOK
<1>1. ASSUME NEW t \in Api, NEW s \in Submission, CreateSubmission(t, s)
      PROVE  ThreadsOK'
  BY <1>0, <1>1, StartThreads DEF CreateSubmission, Thread, RunPc, ThreadPc
<1>2. ASSUME NEW t \in Sweeper, NEW s \in Submission,
             SelectPending(t, s) \/ SelectStale(t, s)
      PROVE  ThreadsOK'
  <2>1. sub[s].status \in {"pending", "judging"} /\ sub[s].active \in AttemptId
    BY <1>2 DEF SelectPending, SelectStale, TablesOK, ActiveConsistent, HasActive
  <2>2. PICK pc \in {"claim", "probe"} : Selected(t, s, pc)
    BY <1>2 DEF SelectPending, SelectStale
  <2> QED
    BY <1>0, <2>1, <2>2, StartThreads DEF Selected, Thread, RunPc, ThreadPc
<1>3. ASSUME NEW t \in Consumer, ConsumerStep(t)
      PROVE  ThreadsOK'
  BY <1>0, <1>3, ConsumerThreads DEF Thread
<1>4. ASSUME NEW w \in Worker, WorkerStep(w) \/ WorkerFault(w)
      PROVE  UNCHANGED thread
  BY <1>4 DEF WorkerStep, WorkerFault, TakeTask, Evaluate, Report, AckTask, Decline,
              ReportUnheard, ReportFails, WorkerDies
<1>5. ASSUME NEW a \in AttemptId,
             ExpireMarker(a) \/ Replay(a) \/ Revoke(a)
      PROVE  UNCHANGED thread
  BY <1>5 DEF ExpireMarker, Replay, Revoke
<1>6. ASSUME NEW m, SweepTask(m) \/ SweepResult(m)
      PROVE  UNCHANGED thread
  BY <1>6 DEF SweepTask, SweepResult
<1>7. CASE UNCHANGED thread
  BY <1>0, <1>7 DEF ThreadsOK
<1>8. Quiescent \/ UNCHANGED vars => UNCHANGED thread
  BY DEF Quiescent, vars
<1> QED
  BY <1>0, <1>1, <1>2, <1>3, <1>4, <1>5, <1>6, <1>7, <1>8, DispatchThreads, FaultThreads
  DEF Next

-----------------------------------------------------------------------------
(* Redis and the judges stay well typed *)

LEMMA WorkerFields ==
  ASSUME JudgeTypeOK, NEW w \in Worker
  PROVE  /\ worker[w] \in WorkerState
         /\ worker[w].pc # "idle" => worker[w].task \in Task
         /\ worker[w].pc \in {"report", "ack"} => worker[w].res \in Result
  BY DEF JudgeTypeOK, WorkerState, IdleWorker

LEMMA RemoveOneType ==
  ASSUME NEW S, NEW list \in [S -> Nat], NEW m \in S
  PROVE  RemoveOne(list, m) \in [S -> Nat]
<1>1. list[m] \in Nat
  OBVIOUS
<1>2. (IF list[m] > 0 THEN list[m] - 1 ELSE 0) \in Nat
  BY <1>1
<1> QED
  BY <1>2 DEF RemoveOne

\* One more copy in a processing list, one more try, or all copies removed.
LEMMA CountType ==
  ASSUME NEW S, NEW f \in [S -> Nat], NEW m \in S
  PROVE  /\ [f EXCEPT ![m] = @ + 1] \in [S -> Nat]
         /\ [f EXCEPT ![m] = 0] \in [S -> Nat]
<1>1. f[m] + 1 \in Nat
  OBVIOUS
<1> QED
  BY <1>1

LEMMA ListType ==
  ASSUME NEW S, NEW list \in Seq(S), NEW m \in S
  PROVE  /\ Append(list, m) \in Seq(S)
         /\ <<m>> \o list \in Seq(S)
  OBVIOUS

LEMMA HeadType ==
  ASSUME NEW S, NEW list \in Seq(S), list # <<>>
  PROVE  Head(list) \in S /\ Tail(list) \in Seq(S)
  OBVIOUS

LEMMA WorkerTypes ==
  ASSUME RedisTypeOK, JudgeTypeOK, NEW w \in Worker, WorkerStep(w) \/ WorkerFault(w)
  PROVE  RedisTypeOK' /\ JudgeTypeOK'
<1>0. /\ worker[w] \in WorkerState /\ IdleWorker \in WorkerState
      /\ worker[w].pc # "idle" => worker[w].task \in Task
      /\ worker[w].pc \in {"report", "ack"} => worker[w].res \in Result
  BY WorkerFields DEF WorkerState
<1>1. /\ tasks \in Seq(Task) /\ results \in Seq(Result)
      /\ taskProc \in [Task -> Nat] /\ tries \in [AttemptId -> Nat]
      /\ worker \in [Worker -> WorkerState]
      /\ fallback \in [AttemptId -> Result \cup {NoMsg}]
      /\ reported \in [AttemptId -> SUBSET ResultKind]
  BY DEF RedisTypeOK, JudgeTypeOK
<1>2. CASE TakeTask(w)
  <2> DEFINE m == Head(tasks)
             new == [pc |-> "eval", task |-> m, res |-> NoMsg]
  <2>1. m \in Task /\ Tail(tasks) \in Seq(Task)
    BY <1>1, <1>2, HeadType DEF TakeTask
  <2>2. new \in WorkerState
    BY <2>1 DEF WorkerState
  <2> HIDE DEF new
  <2>3. worker' = [worker EXCEPT ![w] = new] /\ worker' \in [Worker -> WorkerState]
    BY <1>1, <1>2, <2>2 DEF TakeTask, new
  <2>4. taskProc' \in [Task -> Nat]
    BY <1>1, <1>2, <2>1, CountType DEF TakeTask
  <2> QED
    BY <1>2, <2>1, <2>3, <2>4 DEF TakeTask, RedisTypeOK, JudgeTypeOK
<1>3. ASSUME NEW k \in ResultKind, Evaluate(w, k)
      PROVE  RedisTypeOK' /\ JudgeTypeOK'
  <2> DEFINE m == worker[w].task
             a == m.run
             new(b) == [pc |-> "report", task |-> m,
                        res |-> [run |-> a, kind |-> k, bytes |-> b]]
  <2>1. m \in Task /\ a \in AttemptId
    BY <1>0, <1>3 DEF Evaluate, Task
  <2>2. ASSUME NEW b \in Bytes
        PROVE  new(b) \in WorkerState
    <3>1. [run |-> a, kind |-> k, bytes |-> b] \in Result
      BY <2>1 DEF Result
    <3> QED
      BY <2>1, <3>1 DEF WorkerState
  <2>3. /\ tasks' \in Seq(Task)
        /\ taskProc' \in [Task -> Nat] /\ tries' \in [AttemptId -> Nat]
    <3>1. Append(tasks, m) \in Seq(Task)
      BY <1>1, <2>1, ListType
    <3>2. /\ [taskProc EXCEPT ![m] = 0] \in [Task -> Nat]
          /\ [tries EXCEPT ![a] = @ + 1] \in [AttemptId -> Nat]
      BY <1>1, <2>1, CountType
    <3>3. \/ UNCHANGED <<taskProc, tries, tasks>>
          \/ /\ taskProc' = [taskProc EXCEPT ![m] = 0]
             /\ tries' = [tries EXCEPT ![a] = @ + 1]
             /\ tasks' = Append(tasks, m)
      BY <1>3 DEF Evaluate, CountTry
    <3> QED
      BY <1>1, <3>1, <3>2, <3>3
  <2>4. \/ worker' = [worker EXCEPT ![w] = IdleWorker]
        \/ \E b \in Bytes : worker' = [worker EXCEPT ![w] = new(b)]
    BY <1>3 DEF Evaluate
  <2> HIDE DEF new
  <2>5. worker' \in [Worker -> WorkerState]
    BY <1>0, <1>1, <2>2, <2>4
  <2> QED
    BY <1>3, <2>3, <2>5 DEF Evaluate, RedisTypeOK, JudgeTypeOK
<1>4. ASSUME worker[w].res \in Result, Reports(w)
      PROVE  reported' \in [AttemptId -> SUBSET ResultKind]
  <2>1. worker[w].res.run \in AttemptId /\ worker[w].res.kind \in ResultKind
    BY <1>4 DEF Result
  <2> QED
    BY <1>1, <1>4, <2>1 DEF Reports
<1>5. CASE Report(w) \/ ReportUnheard(w)
  <2> DEFINE r == worker[w].res
             new == [worker[w] EXCEPT !.pc = "ack"]
  <2>1. r \in Result /\ worker[w].pc = "report"
    BY <1>0, <1>5 DEF Report, ReportUnheard
  <2>2. worker[w] = [pc |-> "report", task |-> worker[w].task, res |-> r]
    BY <1>0, <2>1 DEF WorkerState, IdleWorker
  <2>3. new = [pc |-> "ack", task |-> worker[w].task, res |-> r]
    BY <2>2
  <2>4. new \in WorkerState
    BY <1>0, <2>1, <2>3 DEF WorkerState
  <2> HIDE DEF new
  <2>5. worker' = worker \/ worker' = [worker EXCEPT ![w] = new]
    BY <1>5 DEF Report, ReportUnheard, new
  <2>6. worker' \in [Worker -> WorkerState]
    BY <1>1, <2>4, <2>5
  <2>7. reported' \in [AttemptId -> SUBSET ResultKind]
    BY <1>4, <1>5, <2>1 DEF Report, ReportUnheard
  <2>8. results' \in Seq(Result)
    <3>1. Append(results, r) \in Seq(Result)
      BY <1>1, <2>1, ListType
    <3>2. results' = Append(results, r)
      BY <1>5 DEF Report, ReportUnheard
    <3> QED
      BY <3>1, <3>2
  <2> QED
    BY <1>5, <2>6, <2>7, <2>8 DEF Report, ReportUnheard, RedisTypeOK, JudgeTypeOK
<1>6. CASE AckTask(w) \/ Decline(w)
  <2> DEFINE m == worker[w].task
  <2>1. m \in Task
    BY <1>0, <1>6 DEF AckTask, Decline
  <2>2. taskProc' \in [Task -> Nat]
    <3>1. taskProc' = RemoveOne(taskProc, m)
      BY <1>6 DEF AckTask, Decline
    <3> QED
      BY <1>1, <2>1, <3>1, RemoveOneType
  <2>3. tasks' \in Seq(Task)
    <3>1. tasks' = tasks \/ tasks' = Append(tasks, m)
      BY <1>6 DEF AckTask, Decline
    <3>2. Append(tasks, m) \in Seq(Task)
      BY <1>1, <2>1, ListType
    <3> QED
      BY <1>1, <3>1, <3>2
  <2>4. worker' \in [Worker -> WorkerState]
    BY <1>0, <1>1, <1>6 DEF AckTask, Decline
  <2> QED
    BY <1>6, <2>2, <2>3, <2>4 DEF AckTask, Decline, RedisTypeOK, JudgeTypeOK
<1>7. CASE ReportFails(w)
  <2> DEFINE r == worker[w].res
  <2>1. r \in Result /\ r.run \in AttemptId
    BY <1>0, <1>7 DEF ReportFails, Result
  <2>2. reported' \in [AttemptId -> SUBSET ResultKind]
    BY <1>4, <1>7, <2>1 DEF ReportFails
  <2>3. worker' \in [Worker -> WorkerState]
    BY <1>0, <1>1, <1>7 DEF ReportFails
  <2>4. fallback' = fallback \/ fallback' = [fallback EXCEPT ![r.run] = r]
    BY <1>7 DEF ReportFails
  <2> HIDE DEF r
  <2>5. fallback' \in [AttemptId -> Result \cup {NoMsg}]
    BY <1>1, <2>1, <2>4
  <2> QED
    BY <1>7, <2>2, <2>3, <2>5 DEF ReportFails, RedisTypeOK, JudgeTypeOK, redisVars
<1>8. CASE WorkerDies(w)
  BY <1>0, <1>1, <1>8 DEF WorkerDies, RedisTypeOK, JudgeTypeOK, redisVars
<1> QED
  BY <1>2, <1>3, <1>5, <1>6, <1>7, <1>8, PipelineAssumption DEF WorkerStep, WorkerFault

\* What a noj-core thread does to the lists, processing lists and markers.
LEMMA DispatchTypes ==
  ASSUME RedisTypeOK, JudgeTypeOK, ThreadsOK, NEW t \in Thread,
         DispatchStep(t) \/ ThreadFault(t)
  PROVE  RedisTypeOK' /\ JudgeTypeOK'
<1> DEFINE a == thread[t].run
<1>1. JudgeTypeOK'
  <2>1. UNCHANGED judgeVars
    BY DEF DispatchStep, ThreadFault, Push, PushTooLarge, MarkJudging, Probe, Scan,
           Note, Claim, Look, Rebuild, Release, FailAttempt, PushBreaks, MarkFails,
           ClaimFails, RebuildFails, FailBreaks, SaveFails, AckFails, ThreadDies
  <2> QED
    BY <2>1 DEF JudgeTypeOK, judgeVars
<1>2. thread[t].pc \in RunPc => a \in AttemptId
  BY ThreadFields
<1>3. /\ tasks \in Seq(Task)
      /\ marker \in [AttemptId -> {"none", "dispatching", "queued"}]
  BY DEF RedisTypeOK
<1>4. ASSUME a \in AttemptId, EnqueueRun(a)
      PROVE  RedisTypeOK'
  <2>1. PICK m \in Task : m.run = a /\ Enqueue(m)
    BY <1>4 DEF EnqueueRun, Task
  <2>2. tasks' \in Seq(Task)
    BY <1>3, <2>1 DEF Enqueue
  <2>3. marker' \in [AttemptId -> {"none", "dispatching", "queued"}]
    BY <1>3, <1>4, <2>1 DEF Enqueue
  <2> QED
    BY <2>1, <2>2, <2>3 DEF Enqueue, RedisTypeOK
<1>5. CASE UNCHANGED redisVars
  BY <1>1, <1>5 DEF RedisTypeOK, redisVars
<1>6. ASSUME marker' \in [AttemptId -> {"none", "dispatching", "queued"}],
             UNCHANGED <<tasks, taskProc, tries, results, resultProc>>
      PROVE  RedisTypeOK'
  BY <1>6 DEF RedisTypeOK
<1>7. CASE Push(t) \/ PushBreaks(t)
  <2>1. a \in AttemptId
    BY <1>2, <1>7 DEF Push, PushBreaks, Pushing, RunPc, ThreadPc
  <2>2. EnqueueRun(a) \/ UNCHANGED redisVars
    BY <1>7 DEF Push, PushBreaks, redisVars
  <2> QED
    BY <1>1, <1>4, <1>5, <2>1, <2>2
<1>8. CASE Note(t) \/ Claim(t) \/ ClaimFails(t) \/ Release(t)
  <2>1. a \in AttemptId
    BY <1>2, <1>8 DEF Note, Claim, ClaimFails, Release, RunPc, ThreadPc
  <2>2. \/ UNCHANGED marker
        \/ \E v \in {"none", "dispatching", "queued"} : marker' = [marker EXCEPT ![a] = v]
    BY <1>3, <1>8, <2>1 DEF Note, Claim, ClaimFails, Release
  <2>3. marker' \in [AttemptId -> {"none", "dispatching", "queued"}]
    BY <1>3, <2>1, <2>2
  <2> QED
    BY <1>1, <1>6, <1>8, <2>3 DEF Note, Claim, ClaimFails, Release
<1> QED
  BY <1>1, <1>5, <1>7, <1>8
  DEF DispatchStep, ThreadFault, PushTooLarge, MarkJudging, Probe, Scan, Look,
      Rebuild, FailAttempt, MarkFails, RebuildFails, FailBreaks, SaveFails, AckFails, ThreadDies

LEMMA ConsumerTypes ==
  ASSUME RedisTypeOK, JudgeTypeOK, ThreadsOK, NEW t \in Thread, ConsumerStep(t)
  PROVE  RedisTypeOK' /\ JudgeTypeOK'
<1> DEFINE r == thread[t].msg
<1>1. JudgeTypeOK'
  <2>1. UNCHANGED judgeVars
    BY DEF ConsumerStep, TakeResult, SaveResult, ClearMarker, Redispatch, AckResult,
           Requeue, Unlist
  <2> QED
    BY <2>1 DEF JudgeTypeOK, judgeVars
<1>2. thread[t].pc \in MsgPc => r \in Result /\ r.run \in AttemptId
  BY ThreadFields DEF Result
<1>3. /\ results \in Seq(Result) /\ resultProc \in [Result -> Nat]
      /\ marker \in [AttemptId -> {"none", "dispatching", "queued"}]
  BY DEF RedisTypeOK
<1>4. CASE TakeResult(t)
  <2> DEFINE h == Head(results)
  <2>1. h \in Result /\ Tail(results) \in Seq(Result)
    BY <1>3, <1>4, HeadType DEF TakeResult
  <2>2. [resultProc EXCEPT ![h] = @ + 1] \in [Result -> Nat]
    BY <1>3, <2>1, CountType
  <2> QED
    BY <1>1, <1>4, <2>1, <2>2 DEF TakeResult, RedisTypeOK
<1>5. CASE ClearMarker(t)
  <2>1. marker' \in [AttemptId -> {"none", "dispatching", "queued"}]
    BY <1>2, <1>3, <1>5 DEF ClearMarker, MsgPc
  <2> QED
    BY <1>1, <1>5, <2>1 DEF ClearMarker, RedisTypeOK
<1>6. CASE AckResult(t) \/ Unlist(t)
  <2>1. r \in Result
    BY <1>2, <1>6 DEF AckResult, Unlist, MsgPc
  <2>2. resultProc' = RemoveOne(resultProc, r)
    BY <1>6 DEF AckResult, Unlist
  <2>3. resultProc' \in [Result -> Nat]
    BY <1>3, <2>1, <2>2, RemoveOneType
  <2> QED
    BY <1>1, <1>6, <2>3 DEF AckResult, Unlist, RedisTypeOK
<1>7. CASE Requeue(t)
  <2>1. r \in Result
    BY <1>2, <1>7 DEF Requeue, MsgPc
  <2>2. <<r>> \o results \in Seq(Result)
    BY <1>3, <2>1, ListType
  <2> QED
    BY <1>1, <1>7, <2>2 DEF Requeue, RedisTypeOK
<1>8. CASE UNCHANGED redisVars
  BY <1>1, <1>8 DEF RedisTypeOK, redisVars
<1> QED
  BY <1>4, <1>5, <1>6, <1>7, <1>8 DEF ConsumerStep, SaveResult, Redispatch

\* Sweeps of the two processing lists.
LEMMA SweepTypes ==
  ASSUME RedisTypeOK, JudgeTypeOK
  PROVE  /\ \A m \in Task : SweepTask(m) => RedisTypeOK' /\ JudgeTypeOK'
         /\ \A r \in Result : SweepResult(r) => RedisTypeOK' /\ JudgeTypeOK'
<1>1. ASSUME NEW m \in Task, SweepTask(m)
      PROVE  RedisTypeOK' /\ JudgeTypeOK'
  <2>1. tasks' \in Seq(Task)
    BY <1>1, ListType DEF SweepTask, RedisTypeOK
  <2>2. taskProc' \in [Task -> Nat]
    BY <1>1, CountType DEF SweepTask, RedisTypeOK
  <2> QED
    BY <1>1, <2>1, <2>2 DEF SweepTask, RedisTypeOK, JudgeTypeOK, judgeVars
<1>2. ASSUME NEW r \in Result, SweepResult(r)
      PROVE  RedisTypeOK' /\ JudgeTypeOK'
  <2>1. results' \in Seq(Result)
    BY <1>2, ListType DEF SweepResult, RedisTypeOK
  <2>2. resultProc' \in [Result -> Nat]
    BY <1>2, CountType DEF SweepResult, RedisTypeOK
  <2> QED
    BY <1>2, <2>1, <2>2 DEF SweepResult, RedisTypeOK, JudgeTypeOK, judgeVars
<1> QED
  BY <1>1, <1>2

\* Expired markers and replayed result files.
LEMMA ExpiryTypes ==
  ASSUME RedisTypeOK, JudgeTypeOK, NEW a \in AttemptId, ExpireMarker(a) \/ Replay(a)
  PROVE  RedisTypeOK' /\ JudgeTypeOK'
<1>1. CASE ExpireMarker(a)
  BY <1>1 DEF ExpireMarker, RedisTypeOK, JudgeTypeOK, judgeVars
<1>2. CASE Replay(a)
  <2>1. fallback[a] \in Result
    BY <1>2 DEF Replay, JudgeTypeOK
  <2>2. Append(results, fallback[a]) \in Seq(Result)
    BY <2>1, ListType DEF RedisTypeOK
  <2>3. fallback' \in [AttemptId -> Result \cup {NoMsg}]
    BY <1>2 DEF Replay, JudgeTypeOK
  <2> QED
    BY <1>2, <2>2, <2>3 DEF Replay, RedisTypeOK, JudgeTypeOK
<1> QED
  BY <1>1, <1>2

-----------------------------------------------------------------------------
(* The type invariant of the pipeline, and its steps as steps of the tables *)

\* Every fault takes one unit of the budget.
LEMMA FaultBudget ==
  ASSUME faults \in 0..MaxFaults, [Next]_vars
  PROVE  faults' \in 0..MaxFaults
<1>1. CASE UNCHANGED faults
  BY <1>1
<1>2. CASE Fault
  BY <1>2, PipelineAssumption DEF Fault
<1>3. ASSUME NEW t \in Thread, DispatchStep(t) \/ ThreadFault(t)
      PROVE  UNCHANGED faults \/ Fault
  BY <1>3
  DEF DispatchStep, ThreadFault, Push, PushTooLarge, MarkJudging, Probe, Scan, Note,
      Claim, Look, Rebuild, Release, FailAttempt, PushBreaks, MarkFails, ClaimFails,
      RebuildFails, FailBreaks, SaveFails, AckFails, ThreadDies, NoFault
<1>4. ASSUME NEW t \in Consumer, ConsumerStep(t)
      PROVE  UNCHANGED faults \/ Fault
  BY <1>4 DEF ConsumerStep, TakeResult, SaveResult, ClearMarker, Redispatch, AckResult,
              Requeue, Unlist, NoFault
<1>5. ASSUME NEW w \in Worker, WorkerStep(w) \/ WorkerFault(w)
      PROVE  UNCHANGED faults \/ Fault
  BY <1>5 DEF WorkerStep, WorkerFault, TakeTask, Evaluate, Report, AckTask, Decline,
              ReportUnheard, ReportFails, WorkerDies, NoFault
<1>6. ASSUME NEW a \in AttemptId,
             ExpireMarker(a) \/ Replay(a) \/ Revoke(a)
      PROVE  UNCHANGED faults \/ Fault
  BY <1>6 DEF ExpireMarker, Replay, Revoke, NoFault
<1>7. ASSUME NEW m, SweepTask(m) \/ SweepResult(m)
      PROVE  UNCHANGED faults \/ Fault
  BY <1>7 DEF SweepTask, SweepResult, NoFault
<1>8. ASSUME NEW t, NEW s,
             CreateSubmission(t, s) \/ SelectPending(t, s) \/ SelectStale(t, s)
      PROVE  UNCHANGED faults
  BY <1>8 DEF CreateSubmission, SelectPending, SelectStale
<1>9. Quiescent \/ UNCHANGED vars => UNCHANGED faults
  BY DEF Quiescent, vars
<1> QED
  BY <1>1, <1>2, <1>3, <1>4, <1>5, <1>6, <1>7, <1>8, <1>9 DEF Next

LEMMA PipelineQueues ==
  ASSUME RedisTypeOK, JudgeTypeOK, ThreadsOK, [Next]_vars
  PROVE  RedisTypeOK' /\ JudgeTypeOK'
<1>1. ASSUME UNCHANGED redisVars, UNCHANGED judgeVars
      PROVE  RedisTypeOK' /\ JudgeTypeOK'
  BY <1>1 DEF RedisTypeOK, JudgeTypeOK, redisVars, judgeVars
<1>2. ASSUME NEW t, NEW s,
             CreateSubmission(t, s) \/ SelectPending(t, s) \/ SelectStale(t, s)
      PROVE  UNCHANGED redisVars /\ UNCHANGED judgeVars
  BY <1>2 DEF CreateSubmission, SelectPending, SelectStale
<1>3. ASSUME NEW t \in Consumer, ConsumerStep(t)
      PROVE  RedisTypeOK' /\ JudgeTypeOK'
  BY <1>3, ConsumerTypes DEF Thread
<1>4. ASSUME NEW a \in AttemptId, ExpireMarker(a) \/ Replay(a)
      PROVE  RedisTypeOK' /\ JudgeTypeOK'
  BY <1>4, ExpiryTypes
<1>5. /\ \A m \in Task : SweepTask(m) => RedisTypeOK' /\ JudgeTypeOK'
      /\ \A r \in Result : SweepResult(r) => RedisTypeOK' /\ JudgeTypeOK'
  BY SweepTypes
<1>6. ASSUME NEW a \in AttemptId, Revoke(a)
      PROVE  UNCHANGED redisVars /\ UNCHANGED judgeVars
  BY <1>6 DEF Revoke
<1>7. Quiescent \/ UNCHANGED vars => UNCHANGED redisVars /\ UNCHANGED judgeVars
  BY DEF Quiescent, vars
<1> QED
  BY <1>1, <1>2, <1>3, <1>4, <1>5, <1>6, <1>7, DispatchTypes, WorkerTypes DEF Next

\* What the theorems below rest on: types, the tables and the threads.
PipelineOK == TypeOK /\ TablesOK

LEMMA PipelineInit == Init => PipelineOK
<1> SUFFICES ASSUME Init PROVE PipelineOK
  OBVIOUS
<1>1. TablesOK
  BY TablesInit DEF Init
<1>2. RedisTypeOK
  BY DEF Init, RedisTypeOK
<1>3. JudgeTypeOK
  BY DEF Init, JudgeTypeOK, WorkerState
<1>4. thread \in [Thread -> ThreadState]
  BY IdleOK DEF Init
<1>5. faults \in 0..MaxFaults
  BY PipelineAssumption DEF Init
<1> QED
  BY <1>1, <1>2, <1>3, <1>4, <1>5 DEF PipelineOK, TypeOK, TablesOK

LEMMA PipelineStep ==
  ASSUME PipelineOK, [Next]_vars
  PROVE  PipelineOK' /\ [EvaluationNext]_dbVars /\ [DbNext]_dbVars
<1>1. TypeOK /\ TablesOK /\ ThreadsOK /\ RedisTypeOK /\ JudgeTypeOK
  BY DEF PipelineOK, TypeOK, ThreadsOK
<1>2. [EvaluationNext]_dbVars /\ [DbNext]_dbVars
  BY <1>1, PipelineTables DEF DbNext
<1>3. TablesOK'
  BY <1>1, <1>2, TablesStep
<1>4. ThreadsOK'
  BY <1>1, PipelineThreads
<1>5. RedisTypeOK' /\ JudgeTypeOK'
  BY <1>1, PipelineQueues
<1>6. faults' \in 0..MaxFaults
  BY <1>1, FaultBudget DEF TypeOK
<1> QED
  BY <1>2, <1>3, <1>4, <1>5, <1>6 DEF PipelineOK, TypeOK, ThreadsOK, TablesOK

LEMMA PipelineInvariant == Spec => []PipelineOK
<1>1. PipelineOK /\ [Next]_vars => PipelineOK'
  BY PipelineStep
<1> QED
  BY <1>1, PipelineInit, PTL DEF Spec

\* Threads, queues, processing lists, markers, judges and tables hold what they
\* are declared to hold, whatever is lost, duplicated, delayed or restarted.
THEOREM TypeCorrect == Spec => []TypeOK
<1>1. PipelineOK => TypeOK
  BY DEF PipelineOK
<1> QED
  BY <1>1, PipelineInvariant, PTL

\* The pipeline implements the tables: every step of an API handler, sweeper,
\* consumer, judge, TTL or fault is one transaction of Attempts or leaves the
\* tables alone, stale reads of a recovery included.
THEOREM PipelineImplementsAttempts == Spec => EvaluationSpec
<1>1. Init => DbInit
  BY DEF Init
<1>2. PipelineOK /\ [Next]_vars => [EvaluationNext]_dbVars
  BY PipelineStep
<1> QED
  BY <1>1, <1>2, PipelineInvariant, PTL DEF Spec, EvaluationSpec

\* No interleaving of the pipeline leaves `status` and `active_attempt_id` at
\* odds or a submission with two open attempts.
THEOREM PipelineKeepsActiveConsistent == Spec => []ActiveConsistent
BY PipelineImplementsAttempts, EvaluationOfAttempts, ActiveAttemptConsistent, PTL

\* However results are duplicated or redelivered, no attempt row is written after
\* its attempt ended, and a submission is retried at most MaxRetries times.
THEOREM PipelineWritesOnce == Spec => WrittenOnce /\ []RetryChain
BY PipelineImplementsAttempts, EvaluationOfAttempts, ResultsAreWrittenOnce,
   RetriesFormAChain, PTL

\* The whole pipeline implements the ledger of evaluations.
THEOREM PipelineImplementsLedger == Spec => LedgerSpec
BY PipelineImplementsAttempts, EvaluationImplementsLedger, PTL

-----------------------------------------------------------------------------
(* Verdicts come from judges *)

\* The results some judge reported.
Known == {r \in Result : r.kind \in reported[r.run]}

\* Whatever a queue, a processing list, a consumer or a judge's disk holds was
\* reported by a judge: redelivery, sweeping and replay only move results.
ReportsKnown ==
  /\ results \in Seq(Known)
  /\ \A r \in Result : resultProc[r] > 0 => r \in Known
  /\ \A t \in Thread : thread[t].msg \in Known \cup {NoMsg}
  /\ \A a \in AttemptId : fallback[a] \in Known \cup {NoMsg}

LEMMA SeqSubset ==
  ASSUME NEW S, NEW T, S \subseteq T, NEW list \in Seq(S)
  PROVE  list \in Seq(T)
  OBVIOUS

\* Reports are never taken back.
LEMMA KnownGrows ==
  ASSUME JudgeTypeOK, [Next]_vars
  PROVE  /\ \A a \in AttemptId : reported[a] \subseteq reported'[a]
         /\ Known \subseteq Known'
<1> DEFINE Grows == \A a \in AttemptId : reported[a] \subseteq reported'[a]
<1>1. ASSUME UNCHANGED reported
      PROVE  Grows
  BY <1>1
<1>2. ASSUME NEW w \in Worker, Reports(w)
      PROVE  Grows
  BY <1>2 DEF Reports, JudgeTypeOK
<1>3. ASSUME NEW w \in Worker, WorkerStep(w) \/ WorkerFault(w)
      PROVE  UNCHANGED reported \/ Reports(w)
  BY <1>3 DEF WorkerStep, WorkerFault, TakeTask, Evaluate, Report, AckTask, Decline,
              ReportUnheard, ReportFails, WorkerDies
<1>4. ASSUME NEW t \in Thread, DispatchStep(t) \/ ThreadFault(t)
      PROVE  UNCHANGED reported
  BY <1>4
  DEF DispatchStep, ThreadFault, Push, PushTooLarge, MarkJudging, Probe, Scan, Note,
      Claim, Look, Rebuild, Release, FailAttempt, PushBreaks, MarkFails, ClaimFails,
      RebuildFails, FailBreaks, SaveFails, AckFails, ThreadDies, judgeVars
<1>5. ASSUME NEW t \in Consumer, ConsumerStep(t)
      PROVE  UNCHANGED reported
  BY <1>5 DEF ConsumerStep, TakeResult, SaveResult, ClearMarker, Redispatch, AckResult,
              Requeue, Unlist, judgeVars
<1>6. ASSUME NEW a \in AttemptId,
             ExpireMarker(a) \/ Replay(a) \/ Revoke(a)
      PROVE  UNCHANGED reported
  BY <1>6 DEF ExpireMarker, Replay, Revoke, judgeVars
<1>7. ASSUME NEW m, SweepTask(m) \/ SweepResult(m)
      PROVE  UNCHANGED reported
  BY <1>7 DEF SweepTask, SweepResult, judgeVars
<1>8. ASSUME NEW t, NEW s,
             CreateSubmission(t, s) \/ SelectPending(t, s) \/ SelectStale(t, s)
      PROVE  UNCHANGED reported
  BY <1>8 DEF CreateSubmission, SelectPending, SelectStale, judgeVars
<1>9. Quiescent \/ UNCHANGED vars => UNCHANGED reported
  BY DEF Quiescent, vars, judgeVars
<1>10. Grows
  BY <1>1, <1>2, <1>3, <1>4, <1>5, <1>6, <1>7, <1>8, <1>9 DEF Next
<1>11. ASSUME NEW r \in Known
       PROVE  r \in Known'
  <2>1. r \in Result /\ r.run \in AttemptId /\ r.kind \in reported[r.run]
    BY DEF Known, Result
  <2>2. r.kind \in reported'[r.run]
    BY <1>10, <2>1
  <2> QED
    BY <2>1, <2>2 DEF Known
<1>12. Known \subseteq Known'
  BY <1>11
<1> QED
  BY <1>10, <1>12

\* A thread keeps its message or drops it, except when it takes one.
LEMMA DispatchKeepsMessages ==
  ASSUME ThreadsOK, NEW t \in Thread, DispatchStep(t) \/ ThreadFault(t)
  PROVE  \A u \in Thread : thread'[u].msg \in {thread[u].msg, NoMsg}
<1> DEFINE Kept == \A u \in Thread : thread'[u].msg \in {thread[u].msg, NoMsg}
<1>1. ASSUME NEW pc, Goto(t, pc)
      PROVE  Kept
  BY <1>1 DEF Goto, ThreadsOK, ThreadState, ThreadRow
<1>2. CASE thread' = [thread EXCEPT ![t] = IdleThread]
  BY <1>2 DEF ThreadsOK, IdleThread
<1>3. CASE Finished(t)
  <2>1. CASE thread[t].msg = NoMsg
    BY <1>2, <1>3, <2>1 DEF Finished, AfterDispatch
  <2>2. CASE thread[t].msg # NoMsg
    <3>1. thread' = [thread EXCEPT ![t] = [thread[t] EXCEPT !.pc = "ack"]]
      BY <1>3, <2>2 DEF Finished, AfterDispatch
    <3> QED
      BY <3>1 DEF ThreadsOK, ThreadState, ThreadRow
  <2> QED
    BY <2>1, <2>2
<1>4. \/ \E pc : Goto(t, pc)
      \/ Finished(t)
      \/ thread' = [thread EXCEPT ![t] = IdleThread]
  BY DEF DispatchStep, ThreadFault, Push, PushTooLarge, MarkJudging, Probe, Scan, Note,
         Claim, Look, Rebuild, Release, FailAttempt, PushBreaks, MarkFails, ClaimFails,
         RebuildFails, FailBreaks, SaveFails, AckFails, ThreadDies, Deferred, ThreadPc
<1> QED
  BY <1>1, <1>2, <1>3, <1>4

\* Moving a result from one place to another keeps it known.
LEMMA MessagesKept ==
  ASSUME JudgeTypeOK, ReportsKnown, [Next]_vars,
         UNCHANGED <<results, resultProc, fallback>>,
         \A u \in Thread : thread'[u].msg \in {thread[u].msg, NoMsg}
  PROVE  ReportsKnown'
<1>1. Known \subseteq Known' /\ \A a \in AttemptId : reported[a] \subseteq reported'[a]
  BY KnownGrows
<1>2. results' \in Seq(Known')
  BY <1>1, SeqSubset DEF ReportsKnown
<1>3. \A r \in Result : resultProc'[r] > 0 => r \in Known'
  BY <1>1 DEF ReportsKnown
<1>4. \A t \in Thread : thread'[t].msg \in Known' \cup {NoMsg}
  BY <1>1 DEF ReportsKnown
<1>5. \A a \in AttemptId : fallback'[a] \in Known' \cup {NoMsg}
  BY <1>1 DEF ReportsKnown
<1> QED
  BY <1>2, <1>3, <1>4, <1>5 DEF ReportsKnown

\* Adding, taking and sweeping known results.
LEMMA KnownLists ==
  ASSUME JudgeTypeOK, RedisTypeOK, ThreadsOK, ReportsKnown, [Next]_vars
  PROVE  /\ Known \subseteq Known'
         /\ results \in Seq(Known')
         /\ \A r \in Result : resultProc[r] > 0 => r \in Known'
         /\ \A t \in Thread : thread[t].msg \in Known' \cup {NoMsg}
         /\ \A a \in AttemptId : fallback[a] \in Known' \cup {NoMsg}
<1>1. Known \subseteq Known' /\ \A a \in AttemptId : reported[a] \subseteq reported'[a]
  BY KnownGrows
<1>2. results \in Seq(Known')
  BY <1>1, SeqSubset DEF ReportsKnown
<1> QED
  BY <1>1, <1>2 DEF ReportsKnown

LEMMA ConsumerReports ==
  ASSUME JudgeTypeOK, RedisTypeOK, ThreadsOK, ReportsKnown, [Next]_vars,
         NEW t \in Thread, ConsumerStep(t)
  PROVE  ReportsKnown'
<1>1. /\ results \in Seq(Known')
      /\ \A r \in Result : resultProc[r] > 0 => r \in Known'
      /\ \A u \in Thread : thread[u].msg \in Known' \cup {NoMsg}
      /\ \A a \in AttemptId : fallback[a] \in Known' \cup {NoMsg}
  BY KnownLists
<1>2. \A a \in AttemptId : fallback'[a] \in Known' \cup {NoMsg}
  <2>1. UNCHANGED fallback
    BY DEF ConsumerStep, TakeResult, SaveResult, ClearMarker, Redispatch, AckResult,
           Requeue, Unlist, judgeVars
  <2> QED
    BY <1>1, <2>1
<1>3. resultProc \in [Result -> Nat] /\ results \in Seq(Result)
  BY DEF RedisTypeOK
<1>4. CASE TakeResult(t)
  <2> DEFINE r == Head(results)
             new == [IdleThread EXCEPT !.pc = "save", !.msg = r]
  <2>1. r \in Known' /\ Tail(results) \in Seq(Known') /\ r \in Result
    BY <1>1, <1>3, <1>4, HeadType DEF TakeResult
  <2>2. new.msg = r
    BY DEF IdleThread
  <2>3. /\ thread' = [thread EXCEPT ![t] = new]
        /\ resultProc' = [resultProc EXCEPT ![r] = @ + 1]
        /\ results' = Tail(results)
    BY <1>4 DEF TakeResult
  <2> HIDE DEF new, r
  <2>4. \A u \in Thread : thread'[u].msg \in Known' \cup {NoMsg}
    BY <1>1, <2>1, <2>2, <2>3 DEF ThreadsOK
  <2>5. \A x \in Result : x # r => resultProc'[x] = resultProc[x]
    BY <1>3, <2>3
  <2>6. \A x \in Result : resultProc'[x] > 0 => x \in Known'
    BY <1>1, <2>1, <2>5
  <2> QED
    BY <1>2, <2>1, <2>3, <2>4, <2>6 DEF ReportsKnown
<1>5. ASSUME \A u \in Thread : thread'[u].msg \in {thread[u].msg, NoMsg}
      PROVE  \A u \in Thread : thread'[u].msg \in Known' \cup {NoMsg}
  BY <1>1, <1>5
<1>6. ASSUME NEW pc, Goto(t, pc)
      PROVE  \A u \in Thread : thread'[u].msg \in {thread[u].msg, NoMsg}
  BY <1>6 DEF Goto, ThreadsOK, ThreadState, ThreadRow
<1>7. CASE AckResult(t) \/ Unlist(t)
  <2> DEFINE r == thread[t].msg
  <2>1. \A u \in Thread : thread'[u].msg \in {thread[u].msg, NoMsg}
    BY <1>7 DEF AckResult, Unlist, ThreadsOK, IdleThread
  <2>2. r \in Result /\ resultProc' = RemoveOne(resultProc, r)
    BY <1>7, ThreadFields DEF AckResult, Unlist, MsgPc
  <2> HIDE DEF r
  <2>3. \A x \in Result : resultProc'[x] > 0 => resultProc[x] > 0
    <3> SUFFICES ASSUME NEW x \in Result, resultProc'[x] > 0 PROVE resultProc[x] > 0
      OBVIOUS
    <3>1. CASE x = r
      BY <1>3, <2>2, <3>1 DEF RemoveOne
    <3>2. CASE x # r
      BY <1>3, <2>2, <3>2 DEF RemoveOne
    <3> QED
      BY <3>1, <3>2
  <2>4. results' = results
    BY <1>7 DEF AckResult, Unlist
  <2> QED
    BY <1>1, <1>2, <1>5, <2>1, <2>3, <2>4 DEF ReportsKnown
<1>8. CASE Requeue(t)
  <2>1. thread[t].msg \in Known'
    <3>1. thread[t].msg \in Result
      BY <1>8, ThreadFields DEF Requeue, MsgPc
    <3> QED
      BY <1>1, <3>1, IdleOK
  <2>2. <<thread[t].msg>> \o results \in Seq(Known')
    BY <1>1, <2>1, ListType
  <2>3. \A u \in Thread : thread'[u].msg \in {thread[u].msg, NoMsg}
    BY <1>6, <1>8 DEF Requeue
  <2> QED
    BY <1>1, <1>2, <1>5, <1>8, <2>2, <2>3 DEF Requeue, ReportsKnown
<1>9. CASE SaveResult(t) \/ ClearMarker(t) \/ Redispatch(t)
  <2>1. UNCHANGED <<results, resultProc, fallback>>
    BY <1>9 DEF SaveResult, ClearMarker, Redispatch, redisVars, judgeVars
  <2>2. ASSUME NEW b, thread' = [thread EXCEPT ![t].pc = "clear", ![t].run = b]
        PROVE  \A u \in Thread : thread'[u].msg \in {thread[u].msg, NoMsg}
    BY <2>2 DEF ThreadsOK, ThreadState, ThreadRow
  <2>3. ASSUME thread' = [thread EXCEPT ![t].pc = "claim", ![t].mode = "pending"]
        PROVE  \A u \in Thread : thread'[u].msg \in {thread[u].msg, NoMsg}
    BY <2>3 DEF ThreadsOK, ThreadState, ThreadRow
  <2>4. \/ \E pc \in ThreadPc : Goto(t, pc)
        \/ \E b \in Ref : thread' = [thread EXCEPT ![t].pc = "clear", ![t].run = b]
        \/ thread' = [thread EXCEPT ![t].pc = "claim", ![t].mode = "pending"]
    BY <1>9 DEF SaveResult, ClearMarker, Redispatch, ThreadPc, Ref
  <2>5. \A u \in Thread : thread'[u].msg \in {thread[u].msg, NoMsg}
    BY <1>6, <2>2, <2>3, <2>4
  <2> QED
    BY <2>1, <2>5, MessagesKept
<1> QED
  BY <1>4, <1>7, <1>8, <1>9 DEF ConsumerStep

LEMMA WorkerReports ==
  ASSUME JudgeTypeOK, RedisTypeOK, ThreadsOK, ReportsKnown, [Next]_vars,
         NEW w \in Worker, WorkerStep(w) \/ WorkerFault(w)
  PROVE  ReportsKnown'
<1> DEFINE r == worker[w].res
<1>1. /\ results \in Seq(Known')
      /\ \A x \in Result : resultProc[x] > 0 => x \in Known'
      /\ \A u \in Thread : thread[u].msg \in Known' \cup {NoMsg}
      /\ \A a \in AttemptId : fallback[a] \in Known' \cup {NoMsg}
  BY KnownLists
<1>2. UNCHANGED <<thread, resultProc>>
  BY DEF WorkerStep, WorkerFault, TakeTask, Evaluate, Report, AckTask, Decline,
         ReportUnheard, ReportFails, WorkerDies, redisVars
<1>3. CASE UNCHANGED <<results, fallback>>
  BY <1>1, <1>2, <1>3 DEF ReportsKnown
<1>4. ASSUME worker[w].pc = "report", Reports(w)
      PROVE  r \in Known' /\ r.run \in AttemptId
  <2>1. r \in Result /\ r.run \in AttemptId /\ r.kind \in ResultKind
    BY <1>4, WorkerFields DEF Result
  <2>2. r.kind \in reported'[r.run]
    BY <1>4, <2>1 DEF Reports, JudgeTypeOK
  <2> QED
    BY <2>1, <2>2 DEF Known
<1>5. CASE Report(w) \/ ReportUnheard(w)
  <2>1. r \in Known'
    BY <1>4, <1>5 DEF Report, ReportUnheard
  <2>2. Append(results, r) \in Seq(Known')
    BY <1>1, <2>1, ListType
  <2>3. UNCHANGED fallback /\ results' = Append(results, r)
    BY <1>5 DEF Report, ReportUnheard
  <2> QED
    BY <1>1, <1>2, <2>2, <2>3 DEF ReportsKnown
<1>6. CASE ReportFails(w)
  <2>1. r \in Known' /\ r.run \in AttemptId
    BY <1>4, <1>6 DEF ReportFails
  <2>2. UNCHANGED results
    BY <1>6 DEF ReportFails, redisVars
  <2>3. fallback' = fallback \/ fallback' = [fallback EXCEPT ![r.run] = r]
    BY <1>6 DEF ReportFails
  <2> HIDE DEF r
  <2>4. \A a \in AttemptId : fallback'[a] \in Known' \cup {NoMsg}
    BY <1>1, <2>1, <2>3 DEF JudgeTypeOK
  <2> QED
    BY <1>1, <1>2, <2>2, <2>4 DEF ReportsKnown
<1> QED
  BY <1>3, <1>5, <1>6
  DEF WorkerStep, WorkerFault, TakeTask, Evaluate, AckTask, Decline, WorkerDies,
      redisVars

LEMMA QueueReports ==
  ASSUME JudgeTypeOK, RedisTypeOK, ThreadsOK, ReportsKnown, [Next]_vars,
         NEW a \in AttemptId, Replay(a) \/ \E r \in Result : SweepResult(r)
  PROVE  ReportsKnown'
<1>1. /\ results \in Seq(Known')
      /\ \A x \in Result : resultProc[x] > 0 => x \in Known'
      /\ \A u \in Thread : thread[u].msg \in Known' \cup {NoMsg}
      /\ \A b \in AttemptId : fallback[b] \in Known' \cup {NoMsg}
  BY KnownLists
<1>2. ASSUME NEW r \in Result, SweepResult(r)
      PROVE  ReportsKnown'
  <2>1. Append(results, r) \in Seq(Known')
    BY <1>1, <1>2, ListType DEF SweepResult
  <2>2. \A x \in Result : resultProc'[x] > 0 => resultProc[x] > 0
    BY <1>2 DEF SweepResult, RedisTypeOK
  <2> QED
    BY <1>1, <1>2, <2>1, <2>2 DEF SweepResult, ReportsKnown, judgeVars
<1>3. CASE Replay(a)
  <2> DEFINE r == fallback[a]
  <2>1. r \in Known'
    BY <1>1, <1>3 DEF Replay
  <2>2. Append(results, r) \in Seq(Known')
    BY <1>1, <2>1, ListType
  <2>3. results' = Append(results, r) /\ UNCHANGED <<thread, resultProc>>
    BY <1>3 DEF Replay
  <2>4. \A b \in AttemptId : fallback'[b] \in Known' \cup {NoMsg}
    BY <1>1, <1>3 DEF Replay, JudgeTypeOK
  <2> QED
    BY <1>1, <2>2, <2>3, <2>4 DEF ReportsKnown
<1> QED
  BY <1>2, <1>3

LEMMA ReportsStep ==
  ASSUME JudgeTypeOK, RedisTypeOK, ThreadsOK, ReportsKnown, [Next]_vars
  PROVE  ReportsKnown'
<1>1. ASSUME NEW t \in Thread, DispatchStep(t) \/ ThreadFault(t)
      PROVE  ReportsKnown'
  <2>1. UNCHANGED <<results, resultProc, fallback>>
    BY <1>1
    DEF DispatchStep, ThreadFault, Push, PushTooLarge, MarkJudging, Probe, Scan, Note,
        Claim, Look, Rebuild, Release, FailAttempt, PushBreaks, MarkFails, ClaimFails,
        RebuildFails, FailBreaks, SaveFails, AckFails, ThreadDies, EnqueueRun, Enqueue,
        redisVars, judgeVars
  <2> QED
    BY <1>1, <2>1, DispatchKeepsMessages, MessagesKept
<1>2. ASSUME NEW t \in Consumer, ConsumerStep(t)
      PROVE  ReportsKnown'
  BY <1>2, ConsumerReports DEF Thread
<1>3. ASSUME NEW w \in Worker, WorkerStep(w) \/ WorkerFault(w)
      PROVE  ReportsKnown'
  BY <1>3, WorkerReports
<1>4. ASSUME NEW t \in Api \cup Sweeper, NEW s \in Submission,
             CreateSubmission(t, s) \/ SelectPending(t, s) \/ SelectStale(t, s)
      PROVE  ReportsKnown'
  <2>1. UNCHANGED <<results, resultProc, fallback>>
    BY <1>4 DEF CreateSubmission, SelectPending, SelectStale, redisVars, judgeVars
  <2>2. \A u \in Thread : thread'[u].msg \in {thread[u].msg, NoMsg}
    BY <1>4 DEF CreateSubmission, SelectPending, SelectStale, Selected, IdleThread,
                Thread, ThreadsOK
  <2> QED
    BY <2>1, <2>2, MessagesKept
<1>5. ASSUME NEW m, SweepTask(m) \/ ExpireMarker(m) \/ Revoke(m)
      PROVE  ReportsKnown'
  <2>1. UNCHANGED <<results, resultProc, fallback, thread>>
    BY <1>5 DEF SweepTask, ExpireMarker, Revoke, redisVars, judgeVars
  <2> QED
    BY <2>1, MessagesKept
<1>6. ASSUME NEW a \in AttemptId, Replay(a)
      PROVE  ReportsKnown'
  BY <1>6, QueueReports
<1>7. ASSUME NEW r \in Result, SweepResult(r)
      PROVE  ReportsKnown'
  <2>1. r.run \in AttemptId
    BY DEF Result
  <2> QED
    BY <1>7, <2>1, QueueReports
<1>8. CASE Quiescent \/ UNCHANGED vars
  <2>1. UNCHANGED <<results, resultProc, fallback, thread>>
    BY <1>8 DEF Quiescent, vars, redisVars, judgeVars
  <2> QED
    BY <2>1, MessagesKept
<1> QED
  BY <1>1, <1>2, <1>3, <1>4, <1>5, <1>6, <1>7, <1>8 DEF Next

\* Only ApplyGraded makes an attempt `finished`, and only its own.
LEMMA OnlyGradedFinishes ==
  ASSUME DbTypeOK, NEW a \in AttemptId, NEW c \in AttemptId, att'[a].state = "finished"
  PROVE  /\ ApplyPlatformError(c) => att[a].state = "finished"
         /\ \A b \in AttemptId : ApplyRetry(c, b) => att[a].state = "finished"
         /\ \A s \in Submission, v \in Version :
              InsertSubmission(s, c, v) => att[a].state = "finished"
         /\ ApplyGraded(c) => att[a].state = "finished" \/ a = c
<1>0. att \in [AttemptId -> AttemptRow]
  BY DEF DbTypeOK
<1>1. ASSUME att' = Finish(c, "error")
      PROVE  att[a].state = "finished"
  BY <1>0, <1>1 DEF Finish, AttemptRow
<1>2. ASSUME NEW b \in AttemptId, ApplyRetry(c, b)
      PROVE  att[a].state = "finished"
  <2> DEFINE new == QueuedAttempt(Owner(c), att[c].version, att[c].retries + 1)
  <2>1. att' = [Finish(c, "error") EXCEPT ![b] = new]
    BY <1>2 DEF ApplyRetry
  <2>2. new.state = "queued"
    BY DEF QueuedAttempt
  <2>3. Finish(c, "error") \in [AttemptId -> AttemptRow]
    BY <1>0, FinishRow
  <2> HIDE DEF new
  <2>4. a # b /\ att'[a] = Finish(c, "error")[a]
    BY <2>1, <2>2, <2>3
  <2> QED
    BY <1>0, <2>4 DEF Finish, AttemptRow
<1>3. ASSUME NEW s \in Submission, NEW v \in Version, InsertSubmission(s, c, v)
      PROVE  att[a].state = "finished"
  <2> DEFINE new == QueuedAttempt(s, v, 0)
  <2>1. att' = [att EXCEPT ![c] = new]
    BY <1>3 DEF InsertSubmission, CreateAttempt
  <2>2. new.state = "queued"
    BY DEF QueuedAttempt
  <2> HIDE DEF new
  <2> QED
    BY <1>0, <2>1, <2>2
<1>4. ASSUME ApplyGraded(c)
      PROVE  att[a].state = "finished" \/ a = c
  BY <1>0, <1>4 DEF ApplyGraded, Finish
<1> QED
  BY <1>1, <1>2, <1>3, <1>4 DEF ApplyPlatformError

LEMMA FinishedByVerdict ==
  ASSUME PipelineOK, [Next]_vars, NEW a \in AttemptId,
         att[a].state # "finished", att'[a].state = "finished"
  PROVE  \E t \in Consumer : /\ thread[t].msg \in Result
                             /\ thread[t].msg.run = a /\ thread[t].msg.kind = "graded"
<1> DEFINE Goal == \E t \in Consumer : /\ thread[t].msg \in Result
                                       /\ thread[t].msg.run = a
                                       /\ thread[t].msg.kind = "graded"
<1>1. DbTypeOK /\ ThreadsOK
  BY DEF PipelineOK, TypeOK, ThreadsOK
<1>2. ~UNCHANGED att
  OBVIOUS
<1>3. ASSUME NEW t \in Consumer, SaveResult(t)
      PROVE  Goal
  <2> DEFINE r == thread[t].msg
  <2>1. r \in Result /\ r.run \in AttemptId
    BY <1>1, <1>3, ThreadFields DEF SaveResult, MsgPc, Thread, Result
  <2>2. \/ UNCHANGED att
        \/ IsVerdict(r) /\ ApplyGraded(r.run)
        \/ ApplyPlatformError(r.run)
        \/ \E b \in AttemptId : ApplyRetry(r.run, b)
    BY <1>3 DEF SaveResult, dbVars
  <2>3. IsVerdict(r) /\ a = r.run
    BY <1>1, <1>2, <2>1, <2>2, OnlyGradedFinishes
  <2> QED
    BY <2>1, <2>3 DEF IsVerdict
<1>4. ASSUME NEW t \in Thread, DispatchStep(t) \/ ThreadFault(t)
      PROVE  FALSE
  <2>1. UNCHANGED att \/ (thread[t].pc = "fail" /\ ApplyPlatformError(thread[t].run))
    BY <1>4
    DEF DispatchStep, ThreadFault, Push, PushTooLarge, MarkJudging, Probe, Scan, Note,
        Claim, Look, Rebuild, Release, FailAttempt, PushBreaks, MarkFails, ClaimFails,
        RebuildFails, FailBreaks, SaveFails, AckFails, ThreadDies, dbVars
  <2>2. thread[t].pc = "fail" => thread[t].run \in AttemptId
    BY <1>1, ThreadFields DEF RunPc, ThreadPc
  <2> QED
    BY <1>1, <1>2, <2>1, <2>2, OnlyGradedFinishes
<1>5. ASSUME NEW t, NEW s \in Submission, CreateSubmission(t, s)
      PROVE  FALSE
  <2>1. PICK c \in AttemptId, v \in Version : InsertSubmission(s, c, v)
    BY <1>5 DEF CreateSubmission
  <2> QED
    BY <1>1, <2>1, OnlyGradedFinishes
<1>6. ASSUME NEW t, NEW s, SelectPending(t, s) \/ SelectStale(t, s)
      PROVE  UNCHANGED att
  BY <1>6 DEF SelectPending, SelectStale, dbVars
<1>7. ASSUME NEW t \in Consumer, ConsumerStep(t)
      PROVE  UNCHANGED att \/ SaveResult(t)
  BY <1>7 DEF ConsumerStep, TakeResult, ClearMarker, Redispatch, AckResult, Requeue,
              Unlist, dbVars
<1>8. ASSUME NEW w \in Worker, WorkerStep(w) \/ WorkerFault(w)
      PROVE  UNCHANGED att
  BY <1>8 DEF WorkerStep, WorkerFault, TakeTask, Evaluate, Report, AckTask, Decline,
              ReportUnheard, ReportFails, WorkerDies, dbVars
<1>9. ASSUME NEW b \in AttemptId,
             ExpireMarker(b) \/ Replay(b) \/ Revoke(b)
      PROVE  UNCHANGED att
  BY <1>9 DEF ExpireMarker, Replay, Revoke, RevokeTokens, dbVars
<1>10. ASSUME NEW m, SweepTask(m) \/ SweepResult(m)
       PROVE  UNCHANGED att
  BY <1>10 DEF SweepTask, SweepResult, dbVars
<1>11. Quiescent \/ UNCHANGED vars => UNCHANGED att
  BY DEF Quiescent, vars, dbVars
<1> QED
  BY <1>2, <1>3, <1>4, <1>5, <1>6, <1>7, <1>8, <1>9, <1>10, <1>11 DEF Next

LEMMA VerdictsReportedStep ==
  ASSUME PipelineOK, ReportsKnown, VerdictsWereReported, [Next]_vars
  PROVE  VerdictsWereReported'
<1> SUFFICES ASSUME NEW a \in AttemptId, att'[a].state = "finished"
             PROVE  "graded" \in reported'[a]
  BY DEF VerdictsWereReported
<1>1. reported[a] \subseteq reported'[a]
  BY KnownGrows DEF PipelineOK, TypeOK
<1>2. CASE att[a].state = "finished"
  BY <1>1, <1>2 DEF VerdictsWereReported
<1>3. CASE att[a].state # "finished"
  <2>1. PICK t \in Consumer : /\ thread[t].msg \in Result
                              /\ thread[t].msg.run = a /\ thread[t].msg.kind = "graded"
    BY <1>3, FinishedByVerdict
  <2>2. thread[t].msg \in Known
    BY <2>1, IdleOK DEF ReportsKnown, Thread
  <2> QED
    BY <1>1, <2>1, <2>2 DEF Known
<1> QED
  BY <1>2, <1>3

\* Only a judge's verdict on this very attempt makes it `finished`, however
\* results are lost, duplicated, swept, replayed or delivered late.
THEOREM VerdictsComeFromJudges == Spec => []VerdictsWereReported
<1>1. Init => ReportsKnown
  BY DEF Init, ReportsKnown, IdleThread
<1>2. Init => VerdictsWereReported
  BY DEF Init, DbInit, AbsentAttempt, VerdictsWereReported
<1>3. PipelineOK /\ ReportsKnown /\ [Next]_vars => ReportsKnown'
  BY ReportsStep DEF PipelineOK, TypeOK, ThreadsOK
<1>4. PipelineOK /\ ReportsKnown /\ VerdictsWereReported /\ [Next]_vars
        => VerdictsWereReported'
  BY VerdictsReportedStep
<1> QED
  BY <1>1, <1>2, <1>3, <1>4, PipelineInvariant, PTL DEF Spec

-----------------------------------------------------------------------------
(* A queued marker speaks of a message *)

\* A result that a consumer is giving back, between the two commands of that, is
\* in nobody else's hands.  A sweep may put it there: then one of the two removes
\* the copy the other one relies on (see ReliableConsumer).
GivesBackAlone ==
  \A c, d \in Consumer : c # d /\ thread[c].pc = "unlist" => thread[d].msg # thread[c].msg

\* The attempts that have a row, and their tasks.
Rows == {a \in AttemptId : Exists(a)}
Sent == {m \in Task : m.run \in Rows}

\* Whatever a queue, a judge, a thread or a marker speaks of has a row.
Named ==
  /\ tasks \in Seq(Sent)
  /\ \A m \in Task : taskProc[m] > 0 => m \in Sent
  /\ \A w \in Worker : worker[w].pc # "idle" => worker[w].task \in Sent
  /\ \A w \in Worker :
       worker[w].pc \in {"report", "ack"} => worker[w].res.run = worker[w].task.run
  /\ \A t \in Thread : thread[t].run \in Rows \cup {NoAttempt}
  /\ \A a \in AttemptId : reported[a] # {} \/ marker[a] = "queued" => a \in Rows

Answer(a) == InResults(a) \/ InResultProc(a)
Kept(a) == Open(a) => InLists(a)

\* A marker is set, and noted, only with a message; a judge acknowledges its
\* task only with a result, which stays until the attempt is over.
Honest ==
  /\ \A a \in AttemptId : marker[a] = "queued" => Kept(a)
  /\ \A t \in Thread : thread[t].pc = "note" => Kept(thread[t].run)
  /\ \A w \in Worker :
       worker[w].pc = "ack" => (Open(worker[w].task.run) => Answer(worker[w].task.run))

\* A consumer past its transaction holds a result that no longer matters, and
\* one about to clean up has put its result back.
BeforeSave == {"save", "requeue", "unlist"}
MessageOK(t) ==
  /\ t \notin Consumer => thread[t].msg = NoMsg
  /\ thread[t].msg # NoMsg /\ thread[t].pc \notin BeforeSave => ~Open(thread[t].msg.run)
  /\ thread[t].pc = "unlist" => \E i \in 1..Len(results) : results[i] = thread[t].msg
MessagesOK == \A t \in Thread : MessageOK(t)

MarkerInv == PipelineOK /\ ReportsKnown /\ Named /\ Honest /\ MessagesOK

LEMMA Appended ==
  ASSUME NEW S, NEW list \in Seq(S), NEW m \in S
  PROVE  /\ Len(Append(list, m)) \in Nat
         /\ 1..Len(list) \subseteq 1..Len(Append(list, m))
         /\ \A i \in 1..Len(list) : Append(list, m)[i] = list[i]
         /\ \E i \in 1..Len(Append(list, m)) : Append(list, m)[i] = m
<1>1. /\ Len(list) \in Nat /\ Len(Append(list, m)) = Len(list) + 1
      /\ \A i \in 1..Len(list) : Append(list, m)[i] = list[i]
      /\ Append(list, m)[Len(list) + 1] = m
  OBVIOUS
<1>2. Len(list) + 1 \in 1..Len(Append(list, m))
  BY <1>1
<1> QED
  BY <1>1, <1>2

LEMMA Taken ==
  ASSUME NEW S, NEW list \in Seq(S), list # <<>>, NEW i \in 1..Len(list)
  PROVE  \/ list[i] = Head(list)
         \/ \E j \in 1..Len(Tail(list)) : Tail(list)[j] = list[i]
<1>1. Len(list) \in Nat /\ Len(Tail(list)) = Len(list) - 1 /\ Head(list) = list[1]
  OBVIOUS
<1>2. CASE i # 1
  <2>1. i - 1 \in 1..Len(Tail(list)) /\ Tail(list)[i - 1] = list[i]
    BY <1>1, <1>2
  <2> QED
    BY <2>1
<1> QED
  BY <1>1, <1>2

LEMMA Prefixed ==
  ASSUME NEW S, NEW list \in Seq(S), NEW m \in S
  PROVE  /\ \E i \in 1..Len(<<m>> \o list) : (<<m>> \o list)[i] = m
         /\ \A i \in 1..Len(list) :
              \E j \in 1..Len(<<m>> \o list) : (<<m>> \o list)[j] = list[i]
<1> DEFINE new == <<m>> \o list
<1>1. /\ Len(list) \in Nat /\ Len(new) = Len(list) + 1 /\ new[1] = m
      /\ \A i \in 1..Len(list) : new[i + 1] = list[i]
  OBVIOUS
<1>2. 1 \in 1..Len(new)
  BY <1>1
<1>3. ASSUME NEW i \in 1..Len(list)
      PROVE  \E j \in 1..Len(new) : new[j] = list[i]
  <2>1. i + 1 \in 1..Len(new)
    BY <1>1
  <2> QED
    BY <1>1, <2>1
<1> QED
  BY <1>1, <1>2, <1>3

\* Rows stay, and an attempt that is over stays over.
LEMMA RowsStay ==
  ASSUME PipelineOK, [Next]_vars, NEW a \in AttemptId, Exists(a)
  PROVE  Exists(a)' /\ (Open(a)' => Open(a))
<1>1. TablesOK /\ [DbNext]_dbVars
  BY PipelineStep DEF PipelineOK
<1>2. att'[a] = att[a] \/ Open(a)
  BY <1>1, AttemptRowsStep
<1>3. att'[a] = att[a] \/ att'[a].state \in {"finished", "error"}
  BY <1>1, AttemptRowsStep
<1> QED
  BY <1>2, <1>3 DEF Exists, Open, Terminal

LEMMA SentGrows ==
  ASSUME PipelineOK, [Next]_vars
  PROVE  Rows \subseteq Rows' /\ Sent \subseteq Sent'
<1>1. Rows \subseteq Rows'
  BY RowsStay DEF Rows
<1> QED
  BY <1>1 DEF Sent

\* The run of a thread: kept or dropped, except where a thread starts on one.
LEMMA RunsKept ==
  ASSUME ThreadsOK, NEW t \in Thread, DispatchStep(t) \/ ThreadFault(t)
  PROVE  \A u \in Thread : thread'[u].run \in {thread[u].run, NoAttempt}
<1> DEFINE Same == \A u \in Thread : thread'[u].run \in {thread[u].run, NoAttempt}
<1>1. ASSUME NEW pc, Goto(t, pc)
      PROVE  Same
  BY <1>1 DEF Goto, ThreadsOK, ThreadState, ThreadRow
<1>2. CASE thread' = [thread EXCEPT ![t] = IdleThread]
  BY <1>2 DEF ThreadsOK, IdleThread
<1>3. CASE Finished(t)
  <2>1. CASE thread[t].msg = NoMsg
    BY <1>2, <1>3, <2>1 DEF Finished, AfterDispatch
  <2>2. CASE thread[t].msg # NoMsg
    <3>1. thread' = [thread EXCEPT ![t] = [thread[t] EXCEPT !.pc = "ack"]]
      BY <1>3, <2>2 DEF Finished, AfterDispatch
    <3> QED
      BY <3>1 DEF ThreadsOK, ThreadState, ThreadRow
  <2> QED
    BY <2>1, <2>2
<1>4. \/ \E pc : Goto(t, pc)
      \/ Finished(t)
      \/ thread' = [thread EXCEPT ![t] = IdleThread]
  BY DEF DispatchStep, ThreadFault, Push, PushTooLarge, MarkJudging, Probe, Scan, Note,
         Claim, Look, Rebuild, Release, FailAttempt, PushBreaks, MarkFails, ClaimFails,
         RebuildFails, FailBreaks, SaveFails, AckFails, ThreadDies, Deferred, ThreadPc
<1> QED
  BY <1>1, <1>2, <1>3, <1>4

\* What a step keeps as it is stays named.
LEMMA NamedKept ==
  ASSUME PipelineOK, Named, [Next]_vars
  PROVE  /\ Rows \subseteq Rows' /\ Sent \subseteq Sent' /\ tasks \in Seq(Sent')
         /\ \A m \in Task : taskProc[m] > 0 => m \in Sent'
         /\ \A w \in Worker : worker[w].pc # "idle" => worker[w].task \in Sent'
         /\ \A t \in Thread : thread[t].run \in Rows' \cup {NoAttempt}
         /\ \A a \in AttemptId : reported[a] # {} \/ marker[a] = "queued" => a \in Rows'
<1>1. Rows \subseteq Rows' /\ Sent \subseteq Sent'
  BY SentGrows
<1>2. tasks \in Seq(Sent')
  BY <1>1, SeqSubset DEF Named
<1> QED
  BY <1>1, <1>2 DEF Named

LEMMA DispatchNamed ==
  ASSUME PipelineOK, Named, [Next]_vars, NEW t \in Thread, DispatchStep(t) \/ ThreadFault(t)
  PROVE  Named'
<1> DEFINE a == thread[t].run
<1>0. ThreadsOK /\ RedisTypeOK
  BY DEF PipelineOK, TypeOK, ThreadsOK
<1>1. UNCHANGED <<taskProc, worker, reported>>
  BY DEF DispatchStep, ThreadFault, Push, PushTooLarge, MarkJudging, Probe, Scan, Note,
         Claim, Look, Rebuild, Release, FailAttempt, PushBreaks, MarkFails, ClaimFails,
         RebuildFails, FailBreaks, SaveFails, AckFails, ThreadDies, EnqueueRun, Enqueue,
         redisVars, judgeVars
<1>2. thread[t].pc \in {"push", "note"} => a \in AttemptId /\ a \in Rows'
  <2>1. thread[t].pc \in {"push", "note"} => a \in AttemptId
    BY <1>0, ThreadFields DEF RunPc, ThreadPc
  <2> QED
    BY <2>1, NamedKept, AttemptsAssumption
<1>3. \/ UNCHANGED tasks
      \/ thread[t].pc = "push" /\ \E b \in Bytes : tasks' = Append(tasks, [run |-> a, bytes |-> b])
  BY DEF DispatchStep, ThreadFault, Push, PushTooLarge, MarkJudging, Probe, Scan, Note,
         Claim, Look, Rebuild, Release, FailAttempt, PushBreaks, MarkFails, ClaimFails,
         RebuildFails, FailBreaks, SaveFails, AckFails, ThreadDies, EnqueueRun, Enqueue,
         redisVars, Pushing
<1>4. tasks' \in Seq(Sent')
  <2>1. ASSUME NEW b \in Bytes, thread[t].pc = "push"
        PROVE  Append(tasks, [run |-> a, bytes |-> b]) \in Seq(Sent')
    <3>1. [run |-> a, bytes |-> b] \in Sent'
      BY <1>2, <2>1 DEF Sent, Task
    <3> QED
      BY <3>1, NamedKept, ListType
  <2> QED
    BY <1>3, <2>1, NamedKept
<1>5. \A c \in AttemptId :
        marker'[c] = "queued" =>
          marker[c] = "queued" \/ (thread[t].pc \in {"push", "note"} /\ c = a)
  BY <1>0
  DEF DispatchStep, ThreadFault, Push, PushTooLarge, MarkJudging, Probe, Scan, Note,
      Claim, Look, Rebuild, Release, FailAttempt, PushBreaks, MarkFails, ClaimFails,
      RebuildFails, FailBreaks, SaveFails, AckFails, ThreadDies, EnqueueRun, Enqueue,
      redisVars, Pushing, RedisTypeOK
<1>6. \A c \in AttemptId : reported'[c] # {} \/ marker'[c] = "queued" => c \in Rows'
  BY <1>1, <1>2, <1>5, NamedKept
<1>7. \A u \in Thread : thread'[u].run \in Rows' \cup {NoAttempt}
  <2>1. \A u \in Thread : thread'[u].run \in {thread[u].run, NoAttempt}
    BY <1>0, RunsKept
  <2> QED
    BY <2>1, NamedKept
<1>8. /\ \A m \in Task : taskProc'[m] > 0 => m \in Sent'
      /\ \A w \in Worker : worker'[w].pc # "idle" => worker'[w].task \in Sent'
      /\ \A w \in Worker :
           worker'[w].pc \in {"report", "ack"} => worker'[w].res.run = worker'[w].task.run
  BY <1>1, NamedKept DEF Named
<1> QED
  BY <1>4, <1>6, <1>7, <1>8 DEF Named

LEMMA CreateNamed ==
  ASSUME PipelineOK, Named, [Next]_vars, NEW t \in Api \cup Sweeper, NEW s \in Submission,
         CreateSubmission(t, s) \/ SelectPending(t, s) \/ SelectStale(t, s)
  PROVE  Named'
<1>0. ThreadsOK
  BY DEF PipelineOK, TypeOK, ThreadsOK
<1>1. UNCHANGED <<tasks, taskProc, worker, reported, marker>>
  <2>1. UNCHANGED redisVars /\ UNCHANGED judgeVars
    BY DEF CreateSubmission, SelectPending, SelectStale
  <2> QED
    BY <2>1 DEF redisVars, judgeVars
<1>2. PICK new : new.run \in Rows' /\ thread' = [thread EXCEPT ![t] = new]
  <2>1. CASE CreateSubmission(t, s)
    <3> DEFINE new(a) == [IdleThread EXCEPT !.pc = "push", !.run = a, !.mode = "create"]
    <3>0. \A a : new(a).run = a
      BY DEF IdleThread
    <3>1. PICK a \in AttemptId, v \in Version :
            InsertSubmission(s, a, v) /\ thread' = [thread EXCEPT ![t] = new(a)]
      BY <2>1, Zenon DEF CreateSubmission
    <3> HIDE DEF new
    <3>2. a \in Rows'
      <4>1. att' = [att EXCEPT ![a] = QueuedAttempt(s, v, 0)] /\ att \in [AttemptId -> AttemptRow]
        BY <3>1 DEF InsertSubmission, CreateAttempt, PipelineOK, TypeOK, DbTypeOK
      <4>2. att'[a].state = "queued"
        BY <4>1 DEF QueuedAttempt
      <4> QED
        BY <4>2 DEF Rows, Exists
    <3> QED
      BY <3>0, <3>1, <3>2
  <2>2. CASE SelectPending(t, s) \/ SelectStale(t, s)
    <3>1. sub[s].active \in Rows
      BY <2>2 DEF SelectPending, SelectStale, PipelineOK, TablesOK, ActiveConsistent,
                  HasActive, Rows, Open
    <3>2. sub[s].active \in Rows'
      BY <3>1, NamedKept
    <3>3. \E new : new.run = sub[s].active /\ thread' = [thread EXCEPT ![t] = new]
      BY <2>2 DEF SelectPending, SelectStale, Selected, IdleThread
    <3> QED
      BY <3>2, <3>3
  <2> QED
    BY <2>1, <2>2
<1>3. \A u \in Thread : thread'[u].run \in Rows' \cup {NoAttempt}
  BY <1>0, <1>2, NamedKept DEF ThreadsOK
<1>4. /\ \A m \in Task : taskProc'[m] > 0 => m \in Sent'
      /\ \A w \in Worker : worker'[w].pc # "idle" => worker'[w].task \in Sent'
      /\ \A w \in Worker :
           worker'[w].pc \in {"report", "ack"} => worker'[w].res.run = worker'[w].task.run
      /\ \A b \in AttemptId : reported'[b] # {} \/ marker'[b] = "queued" => b \in Rows'
  BY <1>1, NamedKept DEF Named
<1> QED
  BY <1>1, <1>3, <1>4, NamedKept DEF Named

LEMMA ConsumerNamed ==
  ASSUME PipelineOK, Named, [Next]_vars, NEW t \in Consumer, ConsumerStep(t)
  PROVE  Named'
<1>0. ThreadsOK /\ t \in Thread /\ thread \in [Thread -> ThreadState]
  BY DEF PipelineOK, TypeOK, ThreadsOK, Thread
<1>1. UNCHANGED <<tasks, taskProc, worker, reported>>
  BY DEF ConsumerStep, TakeResult, SaveResult, ClearMarker, Redispatch, AckResult,
         Requeue, Unlist, redisVars, judgeVars
<1>2. \A b \in AttemptId : marker'[b] = "queued" => marker[b] = "queued"
  BY DEF ConsumerStep, TakeResult, SaveResult, ClearMarker, Redispatch, AckResult,
         Requeue, Unlist, redisVars, PipelineOK, TypeOK, RedisTypeOK
<1>3. \A u \in Thread : thread'[u].run \in Rows' \cup {NoAttempt}
  <2> DEFINE Goal == \A u \in Thread : thread'[u].run \in Rows' \cup {NoAttempt}
  <2>1. ASSUME NEW pc, Goto(t, pc)
        PROVE  Goal
    <3>1. \A u \in Thread : thread'[u].run = thread[u].run
      BY <1>0, <2>1 DEF Goto, ThreadState, ThreadRow
    <3> QED
      BY <3>1, NamedKept
  <2>2. ASSUME NEW b \in Rows' \cup {NoAttempt},
               thread' = [thread EXCEPT ![t].pc = "clear", ![t].run = b]
        PROVE  Goal
    <3>1. \A u \in Thread : thread'[u].run \in {thread[u].run, b}
      BY <1>0, <2>2 DEF ThreadState, ThreadRow
    <3> QED
      BY <2>2, <3>1, NamedKept
  <2>3. ASSUME thread' = [thread EXCEPT ![t].pc = "claim", ![t].mode = "pending"]
        PROVE  Goal
    <3>1. \A u \in Thread : thread'[u].run = thread[u].run
      BY <1>0, <2>3 DEF ThreadState, ThreadRow
    <3> QED
      BY <3>1, NamedKept
  <2>4. CASE TakeResult(t) \/ AckResult(t) \/ Unlist(t)
    <3>1. PICK new : new.run = NoAttempt /\ thread' = [thread EXCEPT ![t] = new]
      BY <2>4 DEF TakeResult, AckResult, Unlist, IdleThread
    <3> QED
      BY <1>0, <3>1, NamedKept
  <2>5. CASE SaveResult(t)
    <3>1. thread[t].msg.run \in AttemptId
      BY <1>0, <2>5, ThreadFields DEF SaveResult, MsgPc, Result
    <3>2. ASSUME NEW b \in AttemptId, ApplyRetry(thread[t].msg.run, b)
          PROVE  b \in Rows'
      <4> DEFINE a == thread[t].msg.run
                 new == QueuedAttempt(Owner(a), att[a].version, att[a].retries + 1)
      <4>1. att' = [Finish(a, "error") EXCEPT ![b] = new]
        BY <3>2 DEF ApplyRetry
      <4>2. Finish(a, "error") \in [AttemptId -> AttemptRow] /\ new.state = "queued"
        BY <3>1, FinishRow DEF QueuedAttempt, PipelineOK, TypeOK
      <4> HIDE DEF new
      <4>3. att'[b].state = "queued"
        BY <4>1, <4>2
      <4> QED
        BY <4>3 DEF Rows, Exists
    <3>3. \/ Goto(t, "ack")
          \/ thread' = [thread EXCEPT ![t].pc = "clear", ![t].run = NoAttempt]
          \/ \E b \in AttemptId : /\ ApplyRetry(thread[t].msg.run, b)
                                  /\ thread' = [thread EXCEPT ![t].pc = "clear", ![t].run = b]
      BY <2>5 DEF SaveResult
    <3> QED
      BY <2>1, <2>2, <3>2, <3>3
  <2> QED
    BY <2>1, <2>3, <2>4, <2>5 DEF ConsumerStep, ClearMarker, Redispatch, Requeue
<1>4. /\ \A m \in Task : taskProc'[m] > 0 => m \in Sent'
      /\ \A w \in Worker : worker'[w].pc # "idle" => worker'[w].task \in Sent'
      /\ \A w \in Worker :
           worker'[w].pc \in {"report", "ack"} => worker'[w].res.run = worker'[w].task.run
      /\ \A b \in AttemptId : reported'[b] # {} \/ marker'[b] = "queued" => b \in Rows'
  BY <1>1, <1>2, NamedKept DEF Named
<1> QED
  BY <1>1, <1>3, <1>4, NamedKept DEF Named

LEMMA WorkerNamed ==
  ASSUME PipelineOK, Named, [Next]_vars, NEW w \in Worker, WorkerStep(w) \/ WorkerFault(w)
  PROVE  Named'
<1> DEFINE m == worker[w].task
<1>0. /\ JudgeTypeOK /\ RedisTypeOK /\ worker \in [Worker -> WorkerState]
      /\ taskProc \in [Task -> Nat] /\ tasks \in Seq(Task)
  BY DEF PipelineOK, TypeOK, JudgeTypeOK, RedisTypeOK
<1>1. UNCHANGED <<thread, marker>>
  BY DEF WorkerStep, WorkerFault, TakeTask, Evaluate, Report, AckTask, Decline,
         ReportUnheard, ReportFails, WorkerDies, redisVars
<1>2. worker[w].pc # "idle" => m \in Sent' /\ m \in Task
  BY <1>0, WorkerFields, NamedKept
<1>3. tasks # <<>> => Head(tasks) \in Sent' /\ Tail(tasks) \in Seq(Sent')
  BY NamedKept, HeadType
<1>4. tasks' \in Seq(Sent')
  <2>1. \/ UNCHANGED tasks
        \/ tasks # <<>> /\ tasks' = Tail(tasks)
        \/ worker[w].pc # "idle" /\ tasks' = Append(tasks, m)
    BY DEF WorkerStep, WorkerFault, TakeTask, Evaluate, Report, AckTask, Decline,
           ReportUnheard, ReportFails, WorkerDies, redisVars
  <2>2. worker[w].pc # "idle" => Append(tasks, m) \in Seq(Sent')
    BY <1>2, NamedKept, ListType
  <2> QED
    BY <1>3, <2>1, <2>2, NamedKept
<1>5. \A x \in Task : taskProc'[x] > 0 => x \in Sent'
  <2>1. CASE TakeTask(w)
    <3>1. taskProc' = [taskProc EXCEPT ![Head(tasks)] = @ + 1] /\ tasks # <<>>
      BY <2>1 DEF TakeTask
    <3>2. \A x \in Task : x # Head(tasks) => taskProc'[x] = taskProc[x]
      BY <1>0, <3>1
    <3> QED
      BY <1>3, <3>1, <3>2, NamedKept
  <2>2. CASE worker[w].pc # "idle" /\ taskProc' = RemoveOne(taskProc, m)
    <3>1. \A x \in Task : x # m => taskProc'[x] = taskProc[x]
      BY <1>0, <2>2 DEF RemoveOne
    <3> QED
      BY <1>2, <2>2, <3>1, NamedKept
  <2>3. CASE worker[w].pc # "idle" /\ taskProc' = [taskProc EXCEPT ![m] = 0]
    <3>1. \A x \in Task : x # m => taskProc'[x] = taskProc[x]
      BY <1>0, <2>3
    <3> QED
      BY <1>2, <2>3, <3>1, NamedKept
  <2>4. CASE UNCHANGED taskProc
    BY <2>4, NamedKept
  <2> QED
    BY <2>1, <2>2, <2>3, <2>4
    DEF WorkerStep, WorkerFault, Evaluate, Report, AckTask, Decline,
        ReportUnheard, ReportFails, WorkerDies, redisVars
<1>6. \A v \in Worker :
        /\ worker'[v].pc # "idle" => worker'[v].task \in Sent'
        /\ worker'[v].pc \in {"report", "ack"} => worker'[v].res.run = worker'[v].task.run
  <2> DEFINE Good(x) == /\ x.pc # "idle" => x.task \in Sent'
                        /\ x.pc \in {"report", "ack"} => x.res.run = x.task.run
  <2>1. \A v \in Worker : Good(worker[v])
    BY NamedKept DEF Named
  <2>2. \A v \in Worker : v # w => worker'[v] = worker[v]
    BY <1>0
    DEF WorkerStep, WorkerFault, TakeTask, Evaluate, Report, AckTask, Decline,
        ReportUnheard, ReportFails, WorkerDies
  <2>3. Good(worker'[w])
    <3>1. CASE TakeTask(w)
      <4>1. /\ worker' = [worker EXCEPT ![w] = [pc |-> "eval", task |-> Head(tasks), res |-> NoMsg]]
            /\ tasks # <<>>
        BY <3>1 DEF TakeTask
      <4>2. worker'[w] = [pc |-> "eval", task |-> Head(tasks), res |-> NoMsg]
        BY <1>0, <4>1
      <4> QED
        BY <1>3, <4>1, <4>2
    <3>2. CASE worker' = [worker EXCEPT ![w] = IdleWorker]
      BY <1>0, <3>2 DEF IdleWorker
    <3>3. ASSUME NEW k, NEW b, worker[w].pc = "eval",
                 worker' = [worker EXCEPT ![w] =
                   [pc |-> "report", task |-> m, res |-> [run |-> m.run, kind |-> k, bytes |-> b]]]
          PROVE  Good(worker'[w])
      <4>1. worker'[w] = [pc |-> "report", task |-> m,
                          res |-> [run |-> m.run, kind |-> k, bytes |-> b]]
        BY <1>0, <3>3
      <4> QED
        BY <1>2, <3>3, <4>1
    <3>4. CASE worker[w].pc = "report" /\ worker' = [worker EXCEPT ![w].pc = "ack"]
      <4>1. worker'[w] = [worker[w] EXCEPT !.pc = "ack"]
        BY <1>0, <3>4
      <4>2. worker[w] = [pc |-> "report", task |-> m, res |-> worker[w].res]
        BY <1>0, <3>4 DEF WorkerState, IdleWorker
      <4>3. worker'[w] = [pc |-> "ack", task |-> m, res |-> worker[w].res]
        BY <4>1, <4>2
      <4> QED
        BY <2>1, <3>4, <4>3
    <3>5. CASE UNCHANGED worker
      BY <2>1, <3>5
    <3>6. \/ TakeTask(w)
          \/ worker' = [worker EXCEPT ![w] = IdleWorker]
          \/ worker[w].pc = "eval" /\ \E k \in ResultKind, b \in Bytes :
                worker' = [worker EXCEPT ![w] =
                   [pc |-> "report", task |-> m, res |-> [run |-> m.run, kind |-> k, bytes |-> b]]]
          \/ worker[w].pc = "report" /\ worker' = [worker EXCEPT ![w].pc = "ack"]
          \/ UNCHANGED worker
      BY PipelineAssumption
      DEF WorkerStep, WorkerFault, Evaluate, Report, AckTask, Decline,
          ReportUnheard, ReportFails, WorkerDies
    <3> QED
      BY <3>1, <3>2, <3>3, <3>4, <3>5, <3>6
  <2> QED
    BY <2>1, <2>2, <2>3
<1>7. \A a \in AttemptId : reported'[a] # {} \/ marker'[a] = "queued" => a \in Rows'
  <2>1. CASE UNCHANGED reported
    BY <1>1, <2>1, NamedKept
  <2>2. CASE worker[w].pc = "report" /\ Reports(w)
    <3>1. worker[w].res.run \in AttemptId /\ worker[w].res.run \in Rows'
      BY <1>0, <1>2, <2>2, WorkerFields DEF Named, Sent, Result
    <3>2. \A a \in AttemptId : a # worker[w].res.run => reported'[a] = reported[a]
      BY <1>0, <2>2, <3>1 DEF Reports, JudgeTypeOK
    <3> QED
      BY <1>1, <3>1, <3>2, NamedKept
  <2> QED
    BY <2>1, <2>2
    DEF WorkerStep, WorkerFault, TakeTask, Evaluate, Report, AckTask, Decline,
        ReportUnheard, ReportFails, WorkerDies
<1>8. \A u \in Thread : thread'[u].run \in Rows' \cup {NoAttempt}
  BY <1>1, NamedKept
<1> QED
  BY <1>4, <1>5, <1>6, <1>7, <1>8 DEF Named

LEMMA NamedStep ==
  ASSUME PipelineOK, Named, [Next]_vars
  PROVE  Named'
<1>1. ASSUME NEW m \in Task, SweepTask(m)
      PROVE  Named'
  <2>1. m \in Sent'
    BY <1>1, NamedKept DEF SweepTask
  <2>2. tasks' \in Seq(Sent')
    <3>1. Append(tasks, m) \in Seq(Sent')
      BY <2>1, NamedKept, ListType
    <3> QED
      BY <1>1, <3>1 DEF SweepTask
  <2>3. \A x \in Task : taskProc'[x] > 0 => x \in Sent'
    <3>1. taskProc \in [Task -> Nat]
      BY DEF PipelineOK, TypeOK, RedisTypeOK
    <3>2. \A x \in Task : taskProc'[x] > 0 => taskProc[x] > 0
      BY <1>1, <3>1 DEF SweepTask
    <3> QED
      BY <3>2, NamedKept
  <2>4. UNCHANGED <<worker, thread, reported, marker>>
    BY <1>1 DEF SweepTask, judgeVars
  <2>5. /\ \A w \in Worker : worker'[w].pc # "idle" => worker'[w].task \in Sent'
        /\ \A w \in Worker :
             worker'[w].pc \in {"report", "ack"} => worker'[w].res.run = worker'[w].task.run
        /\ \A t \in Thread : thread'[t].run \in Rows' \cup {NoAttempt}
        /\ \A b \in AttemptId : reported'[b] # {} \/ marker'[b] = "queued" => b \in Rows'
    BY <2>4, NamedKept DEF Named
  <2> QED
    BY <2>2, <2>3, <2>5 DEF Named
<1>2. ASSUME UNCHANGED <<tasks, taskProc, worker, thread, reported>>,
             \A b \in AttemptId : marker'[b] = "queued" => marker[b] = "queued"
      PROVE  Named'
  <2>1. /\ \A m \in Task : taskProc'[m] > 0 => m \in Sent'
        /\ \A w \in Worker : worker'[w].pc # "idle" => worker'[w].task \in Sent'
        /\ \A w \in Worker :
             worker'[w].pc \in {"report", "ack"} => worker'[w].res.run = worker'[w].task.run
        /\ \A t \in Thread : thread'[t].run \in Rows' \cup {NoAttempt}
        /\ \A b \in AttemptId : reported'[b] # {} \/ marker'[b] = "queued" => b \in Rows'
    BY <1>2, NamedKept DEF Named
  <2>2. tasks' \in Seq(Sent')
    BY <1>2, NamedKept
  <2> QED
    BY <2>1, <2>2 DEF Named
<1>3. ASSUME NEW r \in Result, SweepResult(r)
      PROVE  Named'
  <2>1. UNCHANGED <<tasks, taskProc, worker, thread, reported>>
    BY <1>3 DEF SweepResult, redisVars, judgeVars
  <2>2. \A b \in AttemptId : marker'[b] = "queued" => marker[b] = "queued"
    BY <1>3 DEF SweepResult, redisVars, PipelineOK, TypeOK,
              RedisTypeOK
  <2> QED
    BY <1>2, <2>1, <2>2
<1>4. CASE Quiescent \/ UNCHANGED vars
  BY <1>2, <1>4 DEF Quiescent, vars, redisVars, judgeVars
<1>5. ASSUME NEW a \in AttemptId, ExpireMarker(a) \/ Replay(a) \/ Revoke(a)
      PROVE  Named'
  <2>1. UNCHANGED <<tasks, taskProc, worker, thread, reported>>
    BY <1>5 DEF ExpireMarker, Replay, Revoke, redisVars, judgeVars
  <2>2. \A b \in AttemptId : marker'[b] = "queued" => marker[b] = "queued"
    BY <1>5 DEF ExpireMarker, Replay, Revoke, redisVars, PipelineOK, TypeOK,
              RedisTypeOK
  <2> QED
    BY <1>2, <2>1, <2>2
<1>6. ASSUME NEW t \in Api \cup Sweeper, NEW s \in Submission,
             CreateSubmission(t, s) \/ SelectPending(t, s) \/ SelectStale(t, s)
      PROVE  Named'
  BY <1>6, CreateNamed
<1>7. ASSUME NEW t \in Thread, DispatchStep(t) \/ ThreadFault(t)
      PROVE  Named'
  BY <1>7, DispatchNamed
<1>8. ASSUME NEW t \in Consumer, ConsumerStep(t)
      PROVE  Named'
  BY <1>8, ConsumerNamed
<1>9. ASSUME NEW w \in Worker, WorkerStep(w) \/ WorkerFault(w)
      PROVE  Named'
  BY <1>9, WorkerNamed
<1> QED
  BY <1>1, <1>3, <1>4, <1>5, <1>6, <1>7, <1>8, <1>9 DEF Next

-----------------------------------------------------------------------------
(* Messages stay until their attempt is over *)

\* What a step does to the results: nothing, add one or move it to the queue,
\* or a consumer at work.
LEMMA ResultMoves ==
  ASSUME PipelineOK, ReportsKnown, [Next]_vars
  PROVE  \/ UNCHANGED <<results, resultProc>>
         \/ \E r \in Result : /\ results' = Append(results, r)
                              /\ \A x \in Result : x # r => resultProc'[x] = resultProc[x]
         \/ \E t \in Consumer : TakeResult(t) \/ AckResult(t) \/ Requeue(t) \/ Unlist(t)
<1> DEFINE Added == \E r \in Result :
                       /\ results' = Append(results, r)
                       /\ \A x \in Result : x # r => resultProc'[x] = resultProc[x]
<1>0. JudgeTypeOK /\ resultProc \in [Result -> Nat]
  BY DEF PipelineOK, TypeOK, RedisTypeOK
<1>1. ASSUME NEW t \in Thread, DispatchStep(t) \/ ThreadFault(t)
      PROVE  UNCHANGED <<results, resultProc>>
  BY <1>1
  DEF DispatchStep, ThreadFault, Push, PushTooLarge, MarkJudging, Probe, Scan, Note,
      Claim, Look, Rebuild, Release, FailAttempt, PushBreaks, MarkFails, ClaimFails,
      RebuildFails, FailBreaks, SaveFails, AckFails, ThreadDies, EnqueueRun, Enqueue,
      redisVars
<1>2. ASSUME NEW t \in Consumer, ConsumerStep(t)
      PROVE  \/ UNCHANGED <<results, resultProc>>
             \/ TakeResult(t) \/ AckResult(t) \/ Requeue(t) \/ Unlist(t)
  BY <1>2 DEF ConsumerStep, SaveResult, ClearMarker, Redispatch, redisVars
<1>3. ASSUME NEW w \in Worker, WorkerStep(w) \/ WorkerFault(w)
      PROVE  UNCHANGED <<results, resultProc>> \/ Added
  <2>1. worker[w].pc = "report" => worker[w].res \in Result
    BY <1>0, WorkerFields
  <2>2. CASE Report(w) \/ ReportUnheard(w)
    BY <2>1, <2>2 DEF Report, ReportUnheard
  <2> QED
    BY <1>3, <2>2 DEF WorkerStep, WorkerFault, TakeTask, Evaluate, AckTask, Decline,
                      ReportFails, WorkerDies, redisVars
<1>4. ASSUME NEW r \in Result, SweepResult(r)
      PROVE  Added
  BY <1>0, <1>4 DEF SweepResult
<1>5. ASSUME NEW a \in AttemptId, Replay(a)
      PROVE  Added
  BY <1>0, <1>5 DEF Replay, JudgeTypeOK
<1>6. ASSUME NEW m, SweepTask(m) \/ ExpireMarker(m) \/ Revoke(m)
      PROVE  UNCHANGED <<results, resultProc>>
  BY <1>6 DEF SweepTask, ExpireMarker, Revoke, redisVars
<1>7. ASSUME NEW t, NEW s, CreateSubmission(t, s) \/ SelectPending(t, s) \/ SelectStale(t, s)
      PROVE  UNCHANGED <<results, resultProc>>
  <2>1. UNCHANGED redisVars
    BY <1>7 DEF CreateSubmission, SelectPending, SelectStale
  <2> QED
    BY <2>1 DEF redisVars
<1>8. CASE Quiescent \/ UNCHANGED vars
  BY <1>8 DEF Quiescent, vars, redisVars
<1> QED
  BY <1>1, <1>2, <1>3, <1>4, <1>5, <1>6, <1>7, <1>8 DEF Next

LEMMA AnswersStay ==
  ASSUME MarkerInv, [Next]_vars, NEW a \in AttemptId, Answer(a), Open(a)
  PROVE  Answer(a)'
<1>0. /\ results \in Seq(Result) /\ resultProc \in [Result -> Nat] /\ ThreadsOK
      /\ PipelineOK /\ ReportsKnown /\ MessagesOK
  BY DEF MarkerInv, PipelineOK, TypeOK, RedisTypeOK, ThreadsOK
<1>1. CASE UNCHANGED <<results, resultProc>>
  BY <1>1 DEF Answer, InResults, InResultProc
<1>2. ASSUME NEW r \in Result, results' = Append(results, r),
             \A x \in Result : x # r => resultProc'[x] = resultProc[x]
      PROVE  Answer(a)'
  <2>1. /\ 1..Len(results) \subseteq 1..Len(results')
        /\ \A i \in 1..Len(results) : results'[i] = results[i]
        /\ \E i \in 1..Len(results') : results'[i] = r
    BY <1>0, <1>2, Appended
  <2>2. CASE InResults(a)
    BY <2>1, <2>2 DEF Answer, InResults
  <2>3. CASE InResultProc(a)
    <3>1. PICK x \in Result : x.run = a /\ resultProc[x] > 0
      BY <2>3 DEF InResultProc
    <3>2. x = r => InResults(a)'
      BY <2>1, <3>1 DEF InResults
    <3>3. x # r => InResultProc(a)'
      BY <1>2, <3>1 DEF InResultProc
    <3> QED
      BY <3>2, <3>3 DEF Answer
  <2> QED
    BY <2>2, <2>3 DEF Answer
<1>3. ASSUME NEW t \in Consumer, TakeResult(t)
      PROVE  Answer(a)'
  <2> DEFINE r == Head(results)
  <2>1. results # <<>> /\ results' = Tail(results) /\ resultProc' = [resultProc EXCEPT ![r] = @ + 1]
    BY <1>3 DEF TakeResult
  <2>2. r \in Result
    BY <1>0, <2>1, HeadType
  <2> HIDE DEF r
  <2>3. resultProc'[r] > 0 /\ \A x \in Result : resultProc[x] > 0 => resultProc'[x] > 0
    BY <1>0, <2>1, <2>2
  <2>4. CASE InResults(a)
    <3>1. PICK i \in 1..Len(results) : results[i].run = a
      BY <2>4 DEF InResults
    <3>2. results[i] = r \/ \E j \in 1..Len(results') : results'[j] = results[i]
      BY <1>0, <2>1, Taken DEF r
    <3> QED
      BY <2>2, <2>3, <3>1, <3>2 DEF Answer, InResults, InResultProc
  <2>5. CASE InResultProc(a)
    BY <2>3, <2>5 DEF Answer, InResultProc
  <2> QED
    BY <2>4, <2>5 DEF Answer
<1>4. ASSUME NEW t \in Consumer, AckResult(t) \/ Unlist(t)
      PROVE  Answer(a)'
  <2> DEFINE r == thread[t].msg
  <2>1. t \in Thread /\ thread[t].pc \in {"ack", "unlist"} /\ r \in Result
    BY <1>0, <1>4, ThreadFields DEF AckResult, Unlist, MsgPc, Thread
  <2>2. results' = results /\ resultProc' = RemoveOne(resultProc, r)
    BY <1>4 DEF AckResult, Unlist
  <2>3. \A x \in Result : x # r => resultProc'[x] = resultProc[x]
    BY <1>0, <2>1, <2>2 DEF RemoveOne
  <2>4. CASE InResults(a)
    BY <2>2, <2>4 DEF Answer, InResults
  <2>5. ASSUME NEW x \in Result, x.run = a, resultProc[x] > 0, x = r
        PROVE  InResults(a)
    <3>1. thread[t].pc # "ack"
      BY <1>0, <2>1, <2>5, IdleOK DEF MessagesOK, MessageOK, BeforeSave
    <3> QED
      BY <1>0, <2>1, <2>5, <3>1 DEF MessagesOK, MessageOK, InResults
  <2>6. CASE InResultProc(a) /\ ~InResults(a)
    BY <2>3, <2>5, <2>6 DEF Answer, InResultProc
  <2> QED
    BY <2>4, <2>6 DEF Answer
<1>5. ASSUME NEW t \in Consumer, Requeue(t)
      PROVE  Answer(a)'
  <2>1. thread[t].msg \in Result
    BY <1>0, <1>5, ThreadFields DEF Requeue, MsgPc, Thread
  <2>2. /\ results' = <<thread[t].msg>> \o results /\ UNCHANGED resultProc
    BY <1>5 DEF Requeue
  <2>3. \A i \in 1..Len(results) : \E j \in 1..Len(results') : results'[j] = results[i]
    <3> DEFINE r == thread[t].msg
    <3>1. r \in Result /\ results \in Seq(Result)
      BY <1>0, <2>1
    <3>2. results' = <<r>> \o results
      BY <2>2
    <3> HIDE DEF r
    <3>3. \A i \in 1..Len(results) :
            \E j \in 1..Len(<<r>> \o results) : (<<r>> \o results)[j] = results[i]
      BY <3>1, Prefixed
    <3> QED
      BY <3>2, <3>3, Zenon
  <2>4. CASE InResults(a)
    BY <2>3, <2>4 DEF Answer, InResults
  <2>5. CASE InResultProc(a)
    BY <2>2, <2>5 DEF Answer, InResultProc
  <2> QED
    BY <2>4, <2>5 DEF Answer
<1> QED
  BY <1>0, <1>1, <1>2, <1>3, <1>4, <1>5, ResultMoves

\* What a step does to the tasks: nothing, add one or move it to the queue, or a
\* judge takes or acknowledges one.
LEMMA TaskMoves ==
  ASSUME PipelineOK, [Next]_vars
  PROVE  \/ UNCHANGED <<tasks, taskProc>>
         \/ \E m \in Task : /\ tasks' = Append(tasks, m)
                            /\ \A x \in Task : x # m => taskProc'[x] = taskProc[x]
         \/ \E w \in Worker : \/ TakeTask(w)
                              \/ AckTask(w)
                              \/ /\ taskProc[worker[w].task] = 0 /\ worker[w].task \in Task
                                 /\ tasks' = tasks
                                 /\ taskProc' = RemoveOne(taskProc, worker[w].task)
<1> DEFINE Added == \E m \in Task :
                       /\ tasks' = Append(tasks, m)
                       /\ \A x \in Task : x # m => taskProc'[x] = taskProc[x]
<1>0. JudgeTypeOK /\ RedisTypeOK /\ ThreadsOK /\ taskProc \in [Task -> Nat]
  BY DEF PipelineOK, TypeOK, RedisTypeOK, ThreadsOK
<1>1. ASSUME NEW t \in Thread, DispatchStep(t) \/ ThreadFault(t)
      PROVE  UNCHANGED <<tasks, taskProc>> \/ Added
  <2>1. thread[t].pc = "push" => thread[t].run \in AttemptId
    BY <1>0, ThreadFields DEF RunPc, ThreadPc
  <2>2. \/ UNCHANGED <<tasks, taskProc>>
        \/ /\ thread[t].pc = "push" /\ taskProc' = taskProc
           /\ \E b \in Bytes : tasks' = Append(tasks, [run |-> thread[t].run, bytes |-> b])
    BY <1>1
    DEF DispatchStep, ThreadFault, Push, PushTooLarge, MarkJudging, Probe, Scan, Note,
        Claim, Look, Rebuild, Release, FailAttempt, PushBreaks, MarkFails, ClaimFails,
        RebuildFails, FailBreaks, SaveFails, AckFails, ThreadDies, EnqueueRun, Enqueue,
        redisVars, Pushing
  <2> QED
    BY <2>1, <2>2 DEF Task
<1>2. ASSUME NEW t \in Consumer, ConsumerStep(t)
      PROVE  UNCHANGED <<tasks, taskProc>>
  BY <1>2 DEF ConsumerStep, TakeResult, SaveResult, ClearMarker, Redispatch, AckResult,
              Requeue, Unlist, redisVars
<1>3. ASSUME NEW w \in Worker, WorkerStep(w) \/ WorkerFault(w)
      PROVE  \/ UNCHANGED <<tasks, taskProc>>
             \/ Added
             \/ TakeTask(w) \/ AckTask(w)
             \/ /\ taskProc[worker[w].task] = 0 /\ worker[w].task \in Task
                /\ tasks' = tasks /\ taskProc' = RemoveOne(taskProc, worker[w].task)
  <2> DEFINE m == worker[w].task
  <2>1. worker[w].pc = "eval" => m \in Task
    BY <1>0, WorkerFields
  <2>2. CASE Decline(w)
    <3>1. /\ m \in Task /\ taskProc' = RemoveOne(taskProc, m)
          /\ tasks' = IF taskProc[m] > 0 THEN Append(tasks, m) ELSE tasks
      BY <2>1, <2>2 DEF Decline
    <3>2. \A x \in Task : x # m => taskProc'[x] = taskProc[x]
      BY <1>0, <3>1 DEF RemoveOne
    <3>3. CASE taskProc[m] > 0
      BY <3>1, <3>2, <3>3
    <3>4. CASE ~(taskProc[m] > 0)
      <4>1. taskProc[m] = 0
        BY <1>0, <3>1, <3>4
      <4> QED
        BY <3>1, <3>4, <4>1
    <3> QED
      BY <3>3, <3>4
  <2>3. ASSUME NEW k, Evaluate(w, k)
        PROVE  UNCHANGED <<tasks, taskProc>> \/ Added
    <3>1. \/ UNCHANGED <<tasks, taskProc>>
          \/ m \in Task /\ tasks' = Append(tasks, m) /\ taskProc' = [taskProc EXCEPT ![m] = 0]
      BY <2>1, <2>3 DEF Evaluate
    <3> QED
      BY <1>0, <3>1
  <2>4. CASE Report(w) \/ ReportUnheard(w) \/ ReportFails(w) \/ WorkerDies(w)
    BY <2>4 DEF Report, ReportUnheard, ReportFails, WorkerDies, redisVars
  <2> QED
    BY <1>3, <2>2, <2>3, <2>4 DEF WorkerStep, WorkerFault
<1>4. ASSUME NEW m \in Task, SweepTask(m)
      PROVE  Added
  BY <1>0, <1>4 DEF SweepTask
<1>5. ASSUME NEW m, SweepResult(m) \/ ExpireMarker(m) \/ Replay(m) \/ Revoke(m)
      PROVE  UNCHANGED <<tasks, taskProc>>
  BY <1>5 DEF SweepResult, ExpireMarker, Replay, Revoke, redisVars
<1>6. ASSUME NEW t, NEW s, CreateSubmission(t, s) \/ SelectPending(t, s) \/ SelectStale(t, s)
      PROVE  UNCHANGED <<tasks, taskProc>>
  <2>1. UNCHANGED redisVars
    BY <1>6 DEF CreateSubmission, SelectPending, SelectStale
  <2> QED
    BY <2>1 DEF redisVars
<1>7. CASE Quiescent \/ UNCHANGED vars
  BY <1>7 DEF Quiescent, vars, redisVars
<1> HIDE DEF Added
<1> QED
  BY <1>1, <1>2, <1>3, <1>4, <1>5, <1>6, <1>7 DEF Next, Added

LEMMA ListsStay ==
  ASSUME MarkerInv, [Next]_vars, NEW a \in AttemptId, InLists(a), Open(a)
  PROVE  InLists(a)'
<1> DEFINE Asked == InTasks(a) \/ InTaskProc(a)
<1>0. /\ tasks \in Seq(Task) /\ taskProc \in [Task -> Nat] /\ JudgeTypeOK
      /\ PipelineOK /\ Honest
  BY DEF MarkerInv, PipelineOK, TypeOK, RedisTypeOK
<1>1. CASE Answer(a)
  BY <1>1, AnswersStay DEF Answer, InLists
<1>2. ASSUME UNCHANGED <<tasks, taskProc>>, Asked
      PROVE  Asked'
  BY <1>2 DEF InTasks, InTaskProc
<1>3. ASSUME NEW m \in Task, tasks' = Append(tasks, m),
             \A x \in Task : x # m => taskProc'[x] = taskProc[x], Asked
      PROVE  Asked'
  <2>1. /\ 1..Len(tasks) \subseteq 1..Len(tasks')
        /\ \A i \in 1..Len(tasks) : tasks'[i] = tasks[i]
        /\ \E i \in 1..Len(tasks') : tasks'[i] = m
    BY <1>0, <1>3, Appended
  <2>2. CASE InTasks(a)
    BY <2>1, <2>2 DEF InTasks
  <2>3. CASE InTaskProc(a)
    <3>1. PICK x \in Task : x.run = a /\ taskProc[x] > 0
      BY <2>3 DEF InTaskProc
    <3>2. x = m => InTasks(a)'
      BY <2>1, <3>1 DEF InTasks
    <3>3. x # m => InTaskProc(a)'
      BY <1>3, <3>1 DEF InTaskProc
    <3> QED
      BY <3>2, <3>3
  <2> QED
    BY <1>3, <2>2, <2>3
<1>4. ASSUME NEW w \in Worker, TakeTask(w), Asked
      PROVE  Asked'
  <2> DEFINE m == Head(tasks)
  <2>1. tasks # <<>> /\ tasks' = Tail(tasks) /\ taskProc' = [taskProc EXCEPT ![m] = @ + 1]
    BY <1>4 DEF TakeTask
  <2>2. m \in Task
    BY <1>0, <2>1, HeadType
  <2> HIDE DEF m
  <2>3. taskProc'[m] > 0 /\ \A x \in Task : taskProc[x] > 0 => taskProc'[x] > 0
    BY <1>0, <2>1, <2>2
  <2>4. CASE InTasks(a)
    <3>1. PICK i \in 1..Len(tasks) : tasks[i].run = a
      BY <2>4 DEF InTasks
    <3>2. tasks[i] = m \/ \E j \in 1..Len(tasks') : tasks'[j] = tasks[i]
      BY <1>0, <2>1, Taken DEF m
    <3> QED
      BY <2>2, <2>3, <3>1, <3>2 DEF InTasks, InTaskProc
  <2>5. CASE InTaskProc(a)
    BY <2>3, <2>5 DEF InTaskProc
  <2> QED
    BY <1>4, <2>4, <2>5
<1>5. ASSUME NEW w \in Worker, AckTask(w), Asked, ~Answer(a)
      PROVE  Asked'
  <2> DEFINE m == worker[w].task
  <2>1. m \in Task /\ m.run # a
    BY <1>0, <1>5, WorkerFields DEF AckTask, Honest
  <2>2. tasks' = tasks /\ taskProc' = RemoveOne(taskProc, m)
    BY <1>5 DEF AckTask
  <2>3. \A x \in Task : x # m => taskProc'[x] = taskProc[x]
    BY <1>0, <2>1, <2>2 DEF RemoveOne
  <2> QED
    BY <1>5, <2>1, <2>2, <2>3 DEF InTasks, InTaskProc
<1>6. ASSUME NEW w \in Worker, taskProc[worker[w].task] = 0, worker[w].task \in Task,
             tasks' = tasks, taskProc' = RemoveOne(taskProc, worker[w].task), Asked
      PROVE  Asked'
  <2>1. taskProc' = taskProc
    BY <1>0, <1>6 DEF RemoveOne
  <2> QED
    BY <1>2, <1>6, <2>1
<1>7. Asked \/ Answer(a)
  BY DEF InLists, Answer
<1>8. Asked' => InLists(a)'
  BY DEF InLists
<1> HIDE DEF Asked
<1> QED
  BY <1>0, <1>1, <1>2, <1>3, <1>4, <1>5, <1>6, <1>7, <1>8, TaskMoves

\* With a message, an attempt keeps one until it is over.
LEMMA KeptStays ==
  ASSUME MarkerInv, [Next]_vars, NEW a \in AttemptId, Exists(a)
  PROVE  /\ Kept(a) => Kept(a)'
         /\ (Open(a) => Answer(a)) => (Open(a) => Answer(a))'
<1>1. Open(a)' => Open(a)
  BY RowsStay DEF MarkerInv
<1> QED
  BY <1>1, ListsStay, AnswersStay DEF Kept

-----------------------------------------------------------------------------
(* What the threads hold *)

\* A thread that steps keeps its message or drops it, except where a consumer
\* takes one; only the transaction brings a message past it, only a requeue to
\* the clean-up, and only a list that holds its run makes a scan note it.
Moves(t) ==
  /\ thread'[t].msg \in {thread[t].msg, NoMsg} /\ thread'[t].pc # "unlist"
  /\ \/ thread[t].pc \notin BeforeSave
     \/ thread'[t].pc \in BeforeSave
     \/ thread'[t].msg = NoMsg
  /\ thread'[t].pc = "note" =>
       /\ Scan(t) /\ Seen(thread[t].pc, thread[t].run)
       /\ thread'[t].run = thread[t].run

LEMMA WorkMoves ==
  ASSUME ThreadsOK, NEW t \in Thread,
         \/ DispatchStep(t) \/ ThreadFault(t)
         \/ ClearMarker(t) \/ Redispatch(t) \/ AckResult(t) \/ Unlist(t)
  PROVE  Moves(t) /\ \A u \in Thread : u # t => thread'[u] = thread[u]
<1> DEFINE Goal == Moves(t) /\ \A u \in Thread : u # t => thread'[u] = thread[u]
<1>0. thread \in [Thread -> ThreadState] /\ thread[t] \in ThreadRow
  BY ThreadFields DEF ThreadsOK
<1>1. ASSUME NEW pc, Goto(t, pc), pc \notin {"unlist", "note"},
             thread[t].pc \notin BeforeSave \/ pc = "requeue"
      PROVE  Goal
  <2>1. thread' = [thread EXCEPT ![t] = [thread[t] EXCEPT !.pc = pc]]
    BY <1>1 DEF Goto
  <2>2. thread'[t].msg = thread[t].msg /\ thread'[t].pc = pc
    BY <1>0, <2>1 DEF ThreadRow
  <2> QED
    BY <1>0, <1>1, <2>1, <2>2 DEF Moves, BeforeSave
<1>2. CASE thread' = [thread EXCEPT ![t] = IdleThread]
  BY <1>0, <1>2 DEF IdleThread, Moves
<1>3. CASE Finished(t) /\ thread[t].pc \notin BeforeSave
  <2>1. CASE thread[t].msg = NoMsg
    BY <1>2, <1>3, <2>1 DEF Finished, AfterDispatch
  <2>2. CASE thread[t].msg # NoMsg
    <3>1. thread' = [thread EXCEPT ![t] = [thread[t] EXCEPT !.pc = "ack"]]
      BY <1>3, <2>2 DEF Finished, AfterDispatch
    <3>2. thread'[t].msg = thread[t].msg /\ thread'[t].pc = "ack"
      BY <1>0, <3>1 DEF ThreadRow
    <3> QED
      BY <1>0, <1>3, <3>1, <3>2 DEF Moves
  <2> QED
    BY <2>1, <2>2
<1>4. CASE Scan(t)
  <2>1. CASE Seen(thread[t].pc, thread[t].run)
    <3>1. thread' = [thread EXCEPT ![t] = [thread[t] EXCEPT !.pc = "note"]]
      BY <1>4, <2>1 DEF Scan, Goto
    <3>2. /\ thread'[t].msg = thread[t].msg /\ thread'[t].pc = "note"
          /\ thread'[t].run = thread[t].run
      BY <1>0, <3>1 DEF ThreadRow
    <3>3. thread[t].pc \notin BeforeSave
      BY <1>4 DEF Scan, NextList, BeforeSave
    <3> QED
      BY <1>0, <1>4, <2>1, <3>1, <3>2, <3>3 DEF Moves
  <2>2. CASE ~Seen(thread[t].pc, thread[t].run)
    <3>1. /\ thread[t].pc \notin BeforeSave /\ Goto(t, NextList[thread[t].pc])
          /\ NextList[thread[t].pc] \notin {"unlist", "note"}
      BY <1>4, <2>2 DEF Scan, NextList, BeforeSave
    <3> QED
      BY <1>1, <3>1
  <2> QED
    BY <2>1, <2>2
<1>5. CASE ClearMarker(t) \/ Redispatch(t)
  <2>1. CASE thread' = [thread EXCEPT ![t].pc = "claim", ![t].mode = "pending"]
    <3>1. thread[t].pc \notin BeforeSave
      BY <1>5 DEF ClearMarker, Redispatch, BeforeSave
    <3>2. thread'[t].msg = thread[t].msg /\ thread'[t].pc = "claim"
      BY <1>0, <2>1 DEF ThreadRow
    <3> QED
      BY <1>0, <2>1, <3>1, <3>2 DEF Moves
  <2>2. \/ thread' = [thread EXCEPT ![t].pc = "claim", ![t].mode = "pending"]
        \/ thread[t].pc \notin BeforeSave /\ \E pc \in {"ack", "redispatch"} : Goto(t, pc)
    BY <1>5 DEF ClearMarker, Redispatch, BeforeSave
  <2> QED
    BY <1>1, <2>1, <2>2
<1>6. CASE DispatchStep(t) \/ ThreadFault(t)
  <2>1. \/ Scan(t)
        \/ thread' = [thread EXCEPT ![t] = IdleThread]
        \/ Finished(t) /\ thread[t].pc \notin BeforeSave
        \/ \E pc \in ThreadPc : /\ Goto(t, pc) /\ pc \notin {"unlist", "note"}
                                /\ thread[t].pc \notin BeforeSave \/ pc = "requeue"
    BY <1>6
    DEF DispatchStep, ThreadFault, Push, PushTooLarge, MarkJudging, Probe, Note,
        Claim, Look, Rebuild, Release, FailAttempt, PushBreaks, MarkFails, ClaimFails,
        RebuildFails, FailBreaks, SaveFails, AckFails, ThreadDies, Deferred, ThreadPc,
        BeforeSave, Pushing
  <2> QED
    BY <1>1, <1>2, <1>3, <1>4, <2>1
<1>7. CASE AckResult(t) \/ Unlist(t)
  BY <1>2, <1>7 DEF AckResult, Unlist
<1> QED
  BY <1>5, <1>6, <1>7

LEMMA ThreadMoves ==
  ASSUME ThreadsOK, [Next]_vars, NEW t \in Thread
  PROVE  \/ thread'[t] = thread[t]
         \/ Moves(t)
         \/ t \in Consumer /\ (TakeResult(t) \/ SaveResult(t) \/ Requeue(t))
<1> DEFINE Goal == \/ thread'[t] = thread[t]
                   \/ Moves(t)
                   \/ t \in Consumer /\ (TakeResult(t) \/ SaveResult(t) \/ Requeue(t))
<1>1. ASSUME NEW u \in Thread, DispatchStep(u) \/ ThreadFault(u)
      PROVE  Goal
  BY <1>1, WorkMoves
<1>2. ASSUME NEW u \in Consumer, ConsumerStep(u)
      PROVE  Goal
  <2>1. CASE TakeResult(u) \/ SaveResult(u) \/ Requeue(u)
    <3>1. u # t => thread'[t] = thread[t]
      BY <2>1 DEF TakeResult, SaveResult, Requeue, Goto, ThreadsOK
    <3> QED
      BY <2>1, <3>1
  <2>2. CASE ClearMarker(u) \/ Redispatch(u) \/ AckResult(u) \/ Unlist(u)
    BY <2>2, WorkMoves DEF Thread
  <2> QED
    BY <1>2, <2>1, <2>2 DEF ConsumerStep
<1>3. ASSUME NEW u \in Api \cup Sweeper, NEW s \in Submission,
             CreateSubmission(u, s) \/ SelectPending(u, s) \/ SelectStale(u, s)
      PROVE  Goal
  <2>1. \E new : /\ thread' = [thread EXCEPT ![u] = new]
                 /\ new.msg = NoMsg /\ new.pc \in {"push", "claim", "probe"}
    <3>1. CASE CreateSubmission(u, s)
      <4> DEFINE new(a) == [IdleThread EXCEPT !.pc = "push", !.run = a, !.mode = "create"]
      <4>1. \A a : new(a).msg = NoMsg /\ new(a).pc = "push"
        BY DEF IdleThread
      <4>2. PICK a \in AttemptId : thread' = [thread EXCEPT ![u] = new(a)]
        BY <3>1, Zenon DEF CreateSubmission
      <4> HIDE DEF new
      <4> QED
        BY <4>1, <4>2
    <3>2. ASSUME NEW pc \in {"claim", "probe"}, Selected(u, s, pc)
          PROVE  \E new : /\ thread' = [thread EXCEPT ![u] = new]
                          /\ new.msg = NoMsg /\ new.pc \in {"push", "claim", "probe"}
      <4> DEFINE new == [IdleThread EXCEPT !.pc = pc, !.run = sub[s].active,
                                           !.mode = sub[s].status]
      <4>1. new.msg = NoMsg /\ new.pc = pc
        BY DEF IdleThread
      <4>2. thread' = [thread EXCEPT ![u] = new]
        BY <3>2, Zenon DEF Selected
      <4> HIDE DEF new
      <4> QED
        BY <4>1, <4>2
    <3>3. SelectPending(u, s) \/ SelectStale(u, s)
            => Selected(u, s, "claim") \/ Selected(u, s, "probe")
      BY DEF SelectPending, SelectStale
    <3> QED
      BY <1>3, <3>1, <3>2, <3>3
  <2>2. CASE u = t
    BY <2>1, <2>2 DEF Moves, ThreadsOK
  <2> QED
    BY <2>1, <2>2 DEF ThreadsOK
<1>4. ASSUME NEW w \in Worker, WorkerStep(w) \/ WorkerFault(w)
      PROVE  Goal
  BY <1>4 DEF WorkerStep, WorkerFault, TakeTask, Evaluate, Report, AckTask, Decline,
              ReportUnheard, ReportFails, WorkerDies
<1>5. ASSUME NEW m, SweepTask(m) \/ SweepResult(m) \/ ExpireMarker(m) \/ Replay(m) \/ Revoke(m)
      PROVE  Goal
  BY <1>5 DEF SweepTask, SweepResult, ExpireMarker, Replay, Revoke
<1>6. ASSUME Quiescent \/ UNCHANGED vars
      PROVE  Goal
  BY <1>6 DEF Quiescent, vars
<1> HIDE DEF Goal
<1>7. Goal
  BY <1>1, <1>2, <1>3, <1>4, <1>5, <1>6 DEF Next
<1> QED
  BY <1>7 DEF Goal


\* The result a consumer handled in its transaction no longer matters.
LEMMA SavedIsOver ==
  ASSUME PipelineOK, NEW t \in Consumer, SaveResult(t), NEW a \in AttemptId,
         a = thread[t].msg.run
  PROVE  ~Open(a)'
<1>0. DbTypeOK /\ ActiveConsistent
  BY DEF PipelineOK, TypeOK, TablesOK
<1>1. Open(a) => EnvelopeMatches(thread[t].msg) /\ Applies(a)
  <2>1. Owner(a) \in Submission
    BY DEF AttemptId, Owner
  <2>2. Open(a) => HasActive(Owner(a), sub[Owner(a)].active)
    BY <1>0, <2>1 DEF ActiveConsistent, HasNone
  <2> QED
    BY <2>2 DEF HasActive, EnvelopeMatches, Applies, Open
<1>2. CASE UNCHANGED dbVars /\ ~Open(a)
  BY <1>2 DEF dbVars, Open, Exists, Terminal
<1>3. ASSUME NEW state \in {"finished", "error"}, att' = Finish(a, state)
      PROVE  ~Open(a)'
  <2>1. att'[a].state = state
    BY <1>0, <1>3, FinishRow
  <2> QED
    BY <2>1 DEF Open, Terminal
<1>4. ASSUME NEW b \in AttemptId, ApplyRetry(a, b)
      PROVE  ~Open(a)'
  <2> DEFINE new == QueuedAttempt(Owner(a), att[a].version, att[a].retries + 1)
  <2>1. att' = [Finish(a, "error") EXCEPT ![b] = new] /\ a # b
    BY <1>4 DEF ApplyRetry, Applies, Open, Fresh
  <2>2. Finish(a, "error") \in [AttemptId -> AttemptRow] /\ Finish(a, "error")[a].state = "error"
    BY <1>0, FinishRow
  <2> HIDE DEF new
  <2>3. att'[a].state = "error"
    BY <2>1, <2>2
  <2> QED
    BY <2>3 DEF Open, Terminal
<1>5. \/ UNCHANGED dbVars /\ ~Open(a)
      \/ \E state \in {"finished", "error"} : att' = Finish(a, state)
      \/ \E b \in AttemptId : ApplyRetry(a, b)
  BY <1>1 DEF SaveResult, ApplyGraded, ApplyPlatformError
<1> QED
  BY <1>2, <1>3, <1>4, <1>5

LEMMA MessagesStep ==
  ASSUME MarkerInv, GivesBackAlone', [Next]_vars
  PROVE  MessagesOK'
<1> DEFINE Over == {a \in AttemptId : ~Open(a)}
<1>0. /\ PipelineOK /\ ReportsKnown /\ Named /\ ThreadsOK /\ results \in Seq(Result)
      /\ thread \in [Thread -> ThreadState]
  BY DEF MarkerInv, PipelineOK, TypeOK, ThreadsOK, RedisTypeOK
<1> SUFFICES ASSUME NEW t \in Thread
             PROVE  MessageOK(t)'
  BY DEF MessagesOK
<1> DEFINE r == thread[t].msg
<1>1. MessageOK(t)
  BY DEF MarkerInv, MessagesOK
<1>2. r # NoMsg => r \in Result /\ r.run \in AttemptId /\ r.run \in Rows
  <2>1. r # NoMsg => r \in Result /\ r.kind \in reported[r.run]
    BY <1>0, ThreadFields DEF ReportsKnown, Known
  <2> QED
    BY <1>0, <2>1 DEF Named, Result
<1>3. r # NoMsg /\ ~Open(r.run) => r.run \in Over'
  <2>1. \A a \in AttemptId : a \in Rows /\ ~Open(a) => a \in Over'
    BY <1>0, RowsStay DEF Rows
  <2> QED
    BY <1>2, <2>1
<1>4. ASSUME thread[t].pc = "unlist", thread'[t] = thread[t]
      PROVE  \E i \in 1..Len(results') : results'[i] = r
  <2>1. r \in Result /\ r # NoMsg
    BY <1>0, <1>4, ThreadFields, IdleOK DEF MsgPc
  <2>2. t \in Consumer
    BY <1>1, <2>1 DEF MessageOK
  <2>3. PICK i \in 1..Len(results) : results[i] = r
    BY <1>1, <1>4 DEF MessageOK
  <2>4. ASSUME NEW u \in Consumer,
               TakeResult(u) \/ AckResult(u) \/ Requeue(u) \/ Unlist(u)
        PROVE  \E j \in 1..Len(results') : results'[j] = results[i]
    <3>1. CASE UNCHANGED results
      BY <2>3, <3>1
    <3>2. CASE TakeResult(u)
      <4>1. /\ results # <<>> /\ results' = Tail(results) /\ thread[u].pc = "idle"
            /\ thread'[u].msg = Head(results)
        BY <1>0, <3>2 DEF TakeResult, Thread
      <4>2. u # t /\ thread'[t].pc = "unlist" /\ thread'[t].msg = r
        BY <1>4, <4>1
      <4>3. thread'[u].msg # thread'[t].msg
        BY <2>2, <4>2 DEF GivesBackAlone
      <4>4. results[i] # Head(results)
        BY <2>3, <4>1, <4>2, <4>3
      <4> QED
        BY <1>0, <2>3, <4>1, <4>4, Taken
    <3>3. CASE Requeue(u)
      <4>1. PICK x : x = thread[u].msg
        OBVIOUS
      <4>2. x \in Result
        BY <1>0, <3>3, <4>1, ThreadFields DEF Requeue, MsgPc, Thread
      <4>3. results' = <<x>> \o results
        BY <3>3, <4>1 DEF Requeue
      <4>4. results \in Seq(Result)
        BY <1>0
      <4>5. \A k \in 1..Len(results) :
              \E j \in 1..Len(<<x>> \o results) : (<<x>> \o results)[j] = results[k]
        BY <4>2, <4>4, Prefixed
      <4>6. \A k \in 1..Len(results) : \E j \in 1..Len(results') : results'[j] = results[k]
        BY <4>3, <4>5, Zenon
      <4> QED
        BY <2>3, <4>6
    <3> QED
      BY <2>4, <3>1, <3>2, <3>3 DEF AckResult, Unlist
  <2>5. ASSUME NEW x \in Result, results' = Append(results, x)
        PROVE  i \in 1..Len(results') /\ results'[i] = results[i]
    BY <1>0, <2>5, Appended
  <2> QED
    BY <1>0, <2>3, <2>4, <2>5, ResultMoves
<1>5. CASE thread'[t] = thread[t]
  BY <1>1, <1>3, <1>4, <1>5 DEF MessageOK
<1>6. CASE Moves(t)
  BY <1>1, <1>3, <1>6 DEF MessageOK, Moves
<1>7. CASE t \in Consumer /\ TakeResult(t)
  <2>1. thread'[t] = [IdleThread EXCEPT !.pc = "save", !.msg = Head(results)]
    BY <1>0, <1>7 DEF TakeResult
  <2>2. thread'[t].pc = "save"
    BY <2>1 DEF IdleThread
  <2> QED
    BY <1>7, <2>2 DEF MessageOK, BeforeSave
<1>8. CASE t \in Consumer /\ SaveResult(t)
  <2>1. r \in Result /\ r.run \in AttemptId
    BY <1>0, <1>8, ThreadFields DEF SaveResult, MsgPc, Result
  <2>2. r.run \in Over'
    BY <1>0, <1>8, <2>1, SavedIsOver
  <2>3. thread'[t].msg = r /\ thread'[t].pc \in {"ack", "clear"}
    <3>1. ASSUME NEW b, thread' = [thread EXCEPT ![t].pc = "clear", ![t].run = b]
          PROVE  thread'[t].msg = r /\ thread'[t].pc = "clear"
      BY <1>0, <3>1 DEF ThreadState, ThreadRow
    <3>2. ASSUME Goto(t, "ack")
          PROVE  thread'[t].msg = r /\ thread'[t].pc = "ack"
      BY <1>0, <3>2 DEF Goto, ThreadState, ThreadRow
    <3> QED
      BY <1>8, <3>1, <3>2 DEF SaveResult
  <2> QED
    BY <1>8, <2>2, <2>3 DEF MessageOK
<1>9. CASE t \in Consumer /\ Requeue(t)
  <2>1. r \in Result
    BY <1>0, <1>9, ThreadFields DEF Requeue, MsgPc
  <2>2. thread'[t].msg = r /\ thread'[t].pc = "unlist"
    BY <1>0, <1>9 DEF Requeue, Goto, ThreadState, ThreadRow
  <2>3. \E i \in 1..Len(results') : results'[i] = r
    <3>1. results' = <<r>> \o results
      BY <1>9 DEF Requeue
    <3> HIDE DEF r
    <3> QED
      BY <1>0, <2>1, <3>1, Prefixed
  <2> QED
    BY <1>9, <2>2, <2>3 DEF MessageOK, BeforeSave
<1> QED
  BY <1>0, <1>5, <1>6, <1>7, <1>8, <1>9, ThreadMoves

\* Where a marker, a note or a judge about to acknowledge comes from.
LEMMA MarkerMoves ==
  ASSUME PipelineOK, [Next]_vars, NEW a \in AttemptId, marker'[a] = "queued"
  PROVE  \/ marker[a] = "queued"
         \/ \E t \in Thread : thread[t].pc = "note" /\ thread[t].run = a
         \/ \E b \in Bytes : tasks' = Append(tasks, [run |-> a, bytes |-> b])
<1> DEFINE Goal == \/ marker[a] = "queued"
                   \/ \E t \in Thread : thread[t].pc = "note" /\ thread[t].run = a
                   \/ \E b \in Bytes : tasks' = Append(tasks, [run |-> a, bytes |-> b])
<1>0. RedisTypeOK /\ marker \in [AttemptId -> {"none", "dispatching", "queued"}]
  BY DEF PipelineOK, TypeOK, RedisTypeOK
<1>1. ASSUME NEW t \in Thread, DispatchStep(t) \/ ThreadFault(t)
      PROVE  Goal
  <2>1. CASE Note(t)
    BY <1>0, <2>1 DEF Note
  <2>2. ASSUME NEW b \in Bytes, NEW c, Enqueue([run |-> c, bytes |-> b])
        PROVE  Goal
    BY <1>0, <2>2 DEF Enqueue
  <2>3. CASE marker'[a] = marker[a]
    BY <2>3
  <2>4. \/ Note(t)
        \/ marker'[a] = marker[a]
        \/ \E b \in Bytes : Enqueue([run |-> thread[t].run, bytes |-> b])
    BY <1>0, <1>1
    DEF DispatchStep, ThreadFault, Push, PushTooLarge, MarkJudging, Probe, Scan,
        Claim, Look, Rebuild, Release, FailAttempt, PushBreaks, MarkFails, ClaimFails,
        RebuildFails, FailBreaks, SaveFails, AckFails, ThreadDies, EnqueueRun, redisVars
  <2> QED
    BY <2>1, <2>2, <2>3, <2>4
<1>2. ASSUME NEW t \in Consumer, ConsumerStep(t)
      PROVE  Goal
  BY <1>0, <1>2 DEF ConsumerStep, TakeResult, SaveResult, ClearMarker, Redispatch, AckResult,
                    Requeue, Unlist, redisVars
<1>3. ASSUME NEW w \in Worker, WorkerStep(w) \/ WorkerFault(w)
      PROVE  Goal
  BY <1>3 DEF WorkerStep, WorkerFault, TakeTask, Evaluate, Report, AckTask, Decline,
              ReportUnheard, ReportFails, WorkerDies, redisVars
<1>4. ASSUME NEW m, SweepTask(m) \/ SweepResult(m) \/ Replay(m) \/ Revoke(m)
      PROVE  Goal
  BY <1>4 DEF SweepTask, SweepResult, Replay, Revoke, redisVars
<1>5. ASSUME NEW b \in AttemptId, ExpireMarker(b)
      PROVE  Goal
  BY <1>0, <1>5 DEF ExpireMarker
<1>6. ASSUME NEW t, NEW s, CreateSubmission(t, s) \/ SelectPending(t, s) \/ SelectStale(t, s)
      PROVE  Goal
  <2>1. UNCHANGED redisVars
    BY <1>6 DEF CreateSubmission, SelectPending, SelectStale
  <2> QED
    BY <2>1 DEF redisVars
<1>7. ASSUME Quiescent \/ UNCHANGED vars
      PROVE  Goal
  BY <1>7 DEF Quiescent, vars, redisVars
<1> HIDE DEF Goal
<1>8. Goal
  BY <1>1, <1>2, <1>3, <1>4, <1>5, <1>6, <1>7 DEF Next
<1> QED
  BY <1>8 DEF Goal

LEMMA AckMoves ==
  ASSUME PipelineOK, Named, [Next]_vars, NEW w \in Worker, worker'[w].pc = "ack"
  PROVE  \/ worker'[w] = worker[w]
         \/ /\ worker'[w].task = worker[w].task
            /\ \E r \in Result : results' = Append(results, r) /\ r.run = worker[w].task.run
<1> DEFINE Goal == \/ worker'[w] = worker[w]
                   \/ /\ worker'[w].task = worker[w].task
                      /\ \E r \in Result : /\ results' = Append(results, r)
                                           /\ r.run = worker[w].task.run
<1>0. JudgeTypeOK /\ worker \in [Worker -> WorkerState]
  BY DEF PipelineOK, TypeOK, JudgeTypeOK
<1>1. ASSUME NEW v \in Worker, WorkerStep(v) \/ WorkerFault(v)
      PROVE  Goal
  <2>1. v # w => worker'[w] = worker[w]
    BY <1>0, <1>1 DEF WorkerStep, WorkerFault, TakeTask, Evaluate, Report, AckTask, Decline,
                      ReportUnheard, ReportFails, WorkerDies
  <2>2. CASE v = w
    <3>1. CASE Report(w)
      <4>1. worker'[w] = [worker[w] EXCEPT !.pc = "ack"] /\ worker[w].pc = "report"
        BY <1>0, <3>1 DEF Report
      <4>2. worker[w] = [pc |-> "report", task |-> worker[w].task, res |-> worker[w].res]
        BY <1>0, <4>1 DEF WorkerState, IdleWorker
      <4>3. worker'[w] = [pc |-> "ack", task |-> worker[w].task, res |-> worker[w].res]
        BY <4>1, <4>2
      <4>4. worker[w].res \in Result /\ worker[w].res.run = worker[w].task.run
        BY <1>0, <4>1, WorkerFields DEF Named
      <4> QED
        BY <3>1, <4>3, <4>4 DEF Report
    <3>2. CASE worker' = [worker EXCEPT ![w] = IdleWorker]
      BY <1>0, <3>2 DEF IdleWorker
    <3>3. ASSUME NEW new, new.pc \in {"eval", "report"}, worker' = [worker EXCEPT ![w] = new]
          PROVE  Goal
      BY <1>0, <3>3
    <3>4. CASE UNCHANGED worker
      BY <3>4
    <3>5. CASE TakeTask(w)
      <4> DEFINE new == [pc |-> "eval", task |-> Head(tasks), res |-> NoMsg]
      <4>1. worker' = [worker EXCEPT ![w] = new] /\ new.pc = "eval"
        BY <3>5 DEF TakeTask
      <4> HIDE DEF new
      <4> QED
        BY <3>3, <4>1
    <3>6. ASSUME NEW k, Evaluate(w, k)
          PROVE  Goal
      <4>1. ASSUME NEW b, worker' = [worker EXCEPT ![w] =
                      [pc |-> "report", task |-> worker[w].task,
                       res |-> [run |-> worker[w].task.run, kind |-> k, bytes |-> b]]]
            PROVE  Goal
        <5> DEFINE new == [pc |-> "report", task |-> worker[w].task,
                           res |-> [run |-> worker[w].task.run, kind |-> k, bytes |-> b]]
        <5>1. worker' = [worker EXCEPT ![w] = new] /\ new.pc = "report"
          BY <4>1
        <5> HIDE DEF new
        <5> QED
          BY <3>3, <5>1
      <4> QED
        BY <3>2, <3>6, <4>1 DEF Evaluate
    <3>7. WorkerStep(w) \/ WorkerFault(w)
      BY <1>1, <2>2
    <3> QED
      BY <3>1, <3>2, <3>4, <3>5, <3>6, <3>7
      DEF WorkerStep, WorkerFault, AckTask, Decline, ReportUnheard, ReportFails, WorkerDies
  <2> QED
    BY <2>1, <2>2
<1>2. ASSUME NEW t \in Thread, DispatchStep(t) \/ ThreadFault(t)
      PROVE  Goal
  BY <1>2
  DEF DispatchStep, ThreadFault, Push, PushTooLarge, MarkJudging, Probe, Scan, Note,
      Claim, Look, Rebuild, Release, FailAttempt, PushBreaks, MarkFails, ClaimFails,
      RebuildFails, FailBreaks, SaveFails, AckFails, ThreadDies, judgeVars
<1>3. ASSUME NEW t \in Consumer, ConsumerStep(t)
      PROVE  Goal
  BY <1>3 DEF ConsumerStep, TakeResult, SaveResult, ClearMarker, Redispatch, AckResult,
              Requeue, Unlist, judgeVars
<1>4. ASSUME NEW m, SweepTask(m) \/ SweepResult(m) \/ ExpireMarker(m) \/ Replay(m) \/ Revoke(m)
      PROVE  Goal
  BY <1>4 DEF SweepTask, SweepResult, ExpireMarker, Replay, Revoke, judgeVars
<1>5. ASSUME NEW t, NEW s, CreateSubmission(t, s) \/ SelectPending(t, s) \/ SelectStale(t, s)
      PROVE  Goal
  <2>1. UNCHANGED judgeVars
    BY <1>5 DEF CreateSubmission, SelectPending, SelectStale
  <2> QED
    BY <2>1 DEF judgeVars
<1>6. ASSUME Quiescent \/ UNCHANGED vars
      PROVE  Goal
  BY <1>6 DEF Quiescent, vars, judgeVars
<1> HIDE DEF Goal
<1>7. Goal
  BY <1>1, <1>2, <1>3, <1>4, <1>5, <1>6 DEF Next
<1> QED
  BY <1>7 DEF Goal

LEMMA HonestStep ==
  ASSUME MarkerInv, [Next]_vars
  PROVE  Honest'
<1>0. PipelineOK /\ Named /\ Honest /\ ThreadsOK
      /\ tasks \in Seq(Task) /\ results \in Seq(Result) /\ JudgeTypeOK
  BY DEF MarkerInv, PipelineOK, TypeOK, ThreadsOK, RedisTypeOK
<1>1. ASSUME NEW a \in AttemptId, a \in Rows, Kept(a)
      PROVE  Kept(a)'
  BY <1>1, KeptStays DEF Rows
<1>2. ASSUME NEW a \in AttemptId, marker'[a] = "queued"
      PROVE  Kept(a)'
  <2>1. CASE marker[a] = "queued"
    BY <1>0, <1>1, <2>1 DEF Named, Honest
  <2>2. ASSUME NEW t \in Thread, thread[t].pc = "note", thread[t].run = a
        PROVE  Kept(a)'
    <3>1. a \in Rows
      BY <1>0, <2>2, AttemptsAssumption DEF Named
    <3> QED
      BY <1>0, <1>1, <2>2, <3>1 DEF Honest
  <2>3. ASSUME NEW b \in Bytes, tasks' = Append(tasks, [run |-> a, bytes |-> b])
        PROVE  Kept(a)'
    <3> DEFINE m == [run |-> a, bytes |-> b]
    <3>1. m \in Task /\ m.run = a /\ tasks' = Append(tasks, m)
      BY <2>3 DEF Task
    <3> HIDE DEF m
    <3>2. \E i \in 1..Len(tasks') : tasks'[i] = m
      BY <1>0, <3>1, Appended
    <3> QED
      BY <3>1, <3>2 DEF Kept, InLists, InTasks
  <2> QED
    BY <1>0, <1>2, <2>1, <2>2, <2>3, MarkerMoves
<1>3. ASSUME NEW t \in Thread, thread'[t].pc = "note", NEW a, a = thread'[t].run
      PROVE  Kept(a)'
  <2>1. CASE thread'[t] = thread[t]
    <3>1. thread[t].pc = "note" /\ a = thread[t].run
      BY <1>3, <2>1
    <3>2. a \in AttemptId
      BY <1>0, <3>1, ThreadFields DEF RunPc, ThreadPc
    <3>3. a \in Rows /\ Kept(a)
      BY <1>0, <3>1, <3>2, AttemptsAssumption DEF Named, Honest
    <3> QED
      BY <1>1, <3>2, <3>3
  <2>2. CASE Moves(t)
    <3>1. Scan(t) /\ Seen(thread[t].pc, a)
      BY <1>3, <2>2 DEF Moves
    <3>2. InLists(a)
      BY <3>1 DEF Seen, InLists
    <3>3. UNCHANGED redisVars
      BY <3>1 DEF Scan
    <3>4. InLists(a)'
      BY <3>2, <3>3 DEF redisVars, InLists, InTasks, InTaskProc, InResults, InResultProc
    <3> QED
      BY <3>4 DEF Kept
  <2>3. CASE t \in Consumer /\ (TakeResult(t) \/ SaveResult(t) \/ Requeue(t))
    <3>1. thread \in [Thread -> ThreadState] /\ thread[t] \in ThreadRow
      BY <1>0, ThreadFields DEF ThreadsOK
    <3>2. ASSUME NEW b, thread' = [thread EXCEPT ![t].pc = "clear", ![t].run = b]
          PROVE  thread'[t].pc = "clear"
      BY <3>1, <3>2 DEF ThreadRow
    <3>3. ASSUME NEW pc, Goto(t, pc)
          PROVE  thread'[t].pc = pc
      BY <3>1, <3>3 DEF Goto, ThreadRow
    <3>4. TakeResult(t) => thread'[t].pc = "save"
      BY <3>1 DEF TakeResult, IdleThread
    <3> QED
      BY <1>3, <2>3, <3>2, <3>3, <3>4 DEF SaveResult, Requeue
  <2> QED
    BY <1>0, <2>1, <2>2, <2>3, ThreadMoves
<1>4. ASSUME NEW w \in Worker, worker'[w].pc = "ack", NEW a, a = worker'[w].task.run
      PROVE  (Open(a) => Answer(a))'
  <2>1. CASE worker'[w] = worker[w]
    <3>1. worker[w].pc = "ack" /\ a = worker[w].task.run
      BY <1>4, <2>1
    <3>2. a \in AttemptId /\ a \in Rows
      BY <1>0, <3>1 DEF Named, Sent, Task
    <3>3. Open(a) => Answer(a)
      BY <1>0, <3>1 DEF Honest
    <3> QED
      BY <3>2, <3>3, KeptStays DEF Rows
  <2>2. ASSUME NEW r \in Result, results' = Append(results, r), r.run = a
        PROVE  Answer(a)'
    <3>1. \E i \in 1..Len(results') : results'[i] = r
      BY <1>0, <2>2, Appended
    <3> QED
      BY <2>2, <3>1 DEF Answer, InResults
  <2> QED
    BY <1>0, <1>4, <2>1, <2>2, AckMoves
<1> QED
  BY <1>2, <1>3, <1>4 DEF Honest

LEMMA MarkerInit == Init => MarkerInv
<1> SUFFICES ASSUME Init
             PROVE  MarkerInv
  OBVIOUS
<1>1. PipelineOK
  BY PipelineInit
<1>2. ReportsKnown
  <2>1. results = <<>> /\ <<>> \in Seq(Known)
    BY DEF Init
  <2> QED
    BY <2>1 DEF Init, ReportsKnown, IdleThread
<1>3. Named
  <2>1. tasks = <<>> /\ <<>> \in Seq(Sent)
    BY DEF Init
  <2> QED
    BY <2>1 DEF Init, Named, IdleThread, IdleWorker
<1>4. Honest
  BY DEF Init, Honest, IdleThread, IdleWorker
<1>5. MessagesOK
  BY DEF Init, MessagesOK, MessageOK, IdleThread
<1> QED
  BY <1>1, <1>2, <1>3, <1>4, <1>5 DEF MarkerInv

LEMMA MarkerStep ==
  ASSUME MarkerInv, GivesBackAlone', [Next]_vars
  PROVE  MarkerInv'
<1>1. PipelineOK'
  BY PipelineStep DEF MarkerInv
<1>2. ReportsKnown'
  BY ReportsStep DEF MarkerInv, PipelineOK, TypeOK, ThreadsOK
<1>3. Named'
  BY NamedStep DEF MarkerInv
<1> QED
  BY <1>1, <1>2, <1>3, HonestStep, MessagesStep DEF MarkerInv

\* For any number of result consumers: while each gives its results back alone,
\* a `queued` marker of an attempt that is still open always speaks of a message in
\* one of the four lists, through any number of faults, so the sweeper that leaves
\* such a row alone never leaves it stranded.
THEOREM MarkersAreHonest == Spec /\ []GivesBackAlone => []MarkerHonest
<1>1. MarkerInv /\ GivesBackAlone' /\ [Next]_vars => MarkerInv'
  BY MarkerStep
<1>2. MarkerInv => MarkerHonest
  BY DEF MarkerInv, Honest, Kept, MarkerHonest
<1> QED
  BY <1>1, <1>2, MarkerInit, PTL DEF Spec
=============================================================================
