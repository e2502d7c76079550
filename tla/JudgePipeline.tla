---------------------------- MODULE JudgePipeline ----------------------------
(* The evaluation pipeline of Neuro-OJ: a submission is stored and its task
   pushed to Redis (noj-core API), a judge worker takes the task and reports a
   result (noj-judge), a result consumer stores it (noj-core), and a sweeper
   recovers whatever a crash, a lost reply or a full queue left behind.

   Processes are API handlers, sweepers and result consumers of any number of
   noj-core replicas, and judge worker slots.  Between two steps of a process
   every other process may run; a step is one PostgreSQL transaction or one
   atomic Redis command or script.  A task message carries the run_id of its
   attempt; version, sequence and frozen configuration are immutable columns of
   that attempt, so the run stands for them.  Signed URLs and credentials are
   fresh in every build, and a result holds measurements: `bytes` tells apart
   messages that say the same, since LREM compares bytes.

   The judge's three priority queues and three pools are one list here; batch
   job items are absent (no submission_job_items row exists), so
   NO_OPEN_JOB_ITEM_FOR_ACTIVE_ATTEMPT holds and `via_job` is false.         *)
EXTENDS Attempts, Sequences

CONSTANTS Api, Sweeper, Consumer,  \* noj-core threads
          Worker,                  \* judge worker slots
          Bytes,                   \* bound: the renderings of one message
          Capacity,                \* judge queue capacity
          JudgeRetries,            \* MAX_PLATFORM_ERROR_RETRIES of the judge
          Outcome,                 \* bound: the results judges may come to
          Oversized,               \* submissions whose task may exceed 16 MB
          MaxFaults                \* bound: faults in one behaviour

\* What a judge reports.  `graded` is a verdict; `invalid` a verdict whose score
\* core rejects; `transient` a platform error of the retry whitelist and
\* `permanent` any other one.
ResultKind == {"graded", "invalid", "transient", "permanent"}

Thread == Api \cup Sweeper \cup Consumer

ASSUME PipelineAssumption ==
  /\ Capacity \in Nat \ {0} /\ JudgeRetries \in Nat /\ MaxFaults \in Nat
  /\ MaxAttempt > MaxRetries
  /\ Oversized \subseteq Submission /\ Outcome \subseteq ResultKind
  /\ Api \cap (Sweeper \cup Consumer) = {} /\ Sweeper \cap Consumer = {}

VARIABLES tasks,       \* noj:judge:queue:*, next to be taken first
          taskProc,    \* :processing list, copies per message
          tries,       \* the judge's platform-retries counter of a run
          results,     \* noj:judge:results
          resultProc,  \* its :processing list, copies per message
          marker,      \* dispatch marker of a run
          thread,      \* local state of the noj-core threads
          worker,      \* local state of the judge slots
          fallback,    \* result files on the judge's disk
          reported,    \* history: what judges reported for a run
          faults       \* faults spent

redisVars == <<tasks, taskProc, tries, results, resultProc, marker>>
judgeVars == <<worker, fallback, reported>>
vars == <<dbVars, redisVars, judgeVars, thread, faults>>

PlatformError == {"transient", "permanent"}
Task == [run : AttemptId, bytes : Bytes]
Result == [run : AttemptId, kind : ResultKind, bytes : Bytes]
NoTask == [run |-> NoAttempt, bytes |-> "none"]
NoMsg == [run |-> NoAttempt, kind |-> "none", bytes |-> "none"]

IdleThread == [pc |-> "idle", run |-> NoAttempt, mode |-> "none", msg |-> NoMsg]
IdleWorker == [pc |-> "idle", task |-> NoTask, res |-> NoMsg]

ThreadPc ==
  {"idle", "push", "mark", "sync", "probe", "scanTasks", "scanTaskProc",
   "scanResults", "scanResultProc", "note", "claim", "look", "rebuild",
   "release", "releaseFail", "fail", "save", "clear", "redispatch", "ack", "requeue",
   "unlist"}

\* A thread that works on a run knows it, one that holds a result has it.
RunPc == ThreadPc \ {"idle", "save", "clear", "ack", "requeue", "unlist"}
MsgPc == {"save", "clear", "redispatch", "ack", "requeue", "unlist"}
ThreadRow == [pc : ThreadPc, run : Ref, mode : {"none", "create", "pending", "judging"},
              msg : Result \cup {NoMsg}]
ThreadState == {r \in ThreadRow : /\ r.pc \in RunPc => r.run \in AttemptId
                                  /\ r.pc \in MsgPc => r.msg \in Result}
WorkerState == {IdleWorker}
  \cup [pc : {"eval"}, task : Task, res : {NoMsg}]
  \cup [pc : {"report", "ack"}, task : Task, res : Result]

RedisTypeOK ==
  /\ tasks \in Seq(Task)
  /\ taskProc \in [Task -> Nat]
  /\ tries \in [AttemptId -> Nat]
  /\ results \in Seq(Result)
  /\ resultProc \in [Result -> Nat]
  /\ marker \in [AttemptId -> {"none", "dispatching", "queued"}]

JudgeTypeOK ==
  /\ worker \in [Worker -> WorkerState]
  /\ fallback \in [AttemptId -> Result \cup {NoMsg}]
  /\ reported \in [AttemptId -> SUBSET ResultKind]

TypeOK ==
  /\ DbTypeOK /\ RedisTypeOK /\ JudgeTypeOK
  /\ thread \in [Thread -> ThreadState]
  /\ faults \in 0..MaxFaults

Init ==
  /\ DbInit
  /\ tasks = <<>> /\ results = <<>>
  /\ taskProc = [m \in Task |-> 0]
  /\ tries = [a \in AttemptId |-> 0]
  /\ resultProc = [r \in Result |-> 0]
  /\ marker = [a \in AttemptId |-> "none"]
  /\ thread = [t \in Thread |-> IdleThread]
  /\ worker = [w \in Worker |-> IdleWorker]
  /\ fallback = [a \in AttemptId |-> NoMsg]
  /\ reported = [a \in AttemptId |-> {}]
  /\ faults = 0

-----------------------------------------------------------------------------
(* Helpers *)

\* A fault of the environment: one unit of the budget.
Fault == faults < MaxFaults /\ faults' = faults + 1
NoFault == UNCHANGED faults

\* LREM key 1 value: removes one copy, if there is one.
RemoveOne(list, m) == [list EXCEPT ![m] = IF @ > 0 THEN @ - 1 ELSE 0]

Goto(t, pc) == thread' = [thread EXCEPT ![t].pc = pc]

\* A recovery is over: a consumer that dispatched a retry goes on to
\* acknowledge its message, any other thread is free again.
AfterDispatch(t) ==
  IF thread[t].msg # NoMsg THEN [thread[t] EXCEPT !.pc = "ack"] ELSE IdleThread
Finished(t) == thread' = [thread EXCEPT ![t] = AfterDispatch(t)]

\* Whether some list of Redis holds a message of run a.
InTasks(a) == \E i \in 1..Len(tasks) : tasks[i].run = a
InTaskProc(a) == \E m \in Task : m.run = a /\ taskProc[m] > 0
InResults(a) == \E i \in 1..Len(results) : results[i].run = a
InResultProc(a) == \E r \in Result : r.run = a /\ resultProc[r] > 0
InLists(a) == InTasks(a) \/ InTaskProc(a) \/ InResults(a) \/ InResultProc(a)

-----------------------------------------------------------------------------
(* API: createSubmission *)

\* The transaction that stores the submission and its initial attempt.
CreateSubmission(t, s) ==
  /\ thread[t].pc = "idle"
  /\ \E a \in AttemptId, v \in Version :
       /\ InsertSubmission(s, a, v)
       /\ thread' = [thread EXCEPT ![t] =
            [IdleThread EXCEPT !.pc = "push", !.run = a, !.mode = "create"]]
  /\ UNCHANGED <<redisVars, judgeVars, faults>>

-----------------------------------------------------------------------------
(* pushJudgeTask, as the API, the sweeper and the retry dispatch call it *)

\* A retryable push error: the API gives up, a recovery drops its claim first.
Deferred(t) ==
  IF thread[t].mode = "create" THEN Finished(t) ELSE Goto(t, "release")

\* Mutant: a full queue silently loses its oldest task.
EnqueueDropping(m) ==
  /\ tasks' = Append(IF Len(tasks) < Capacity THEN tasks ELSE Tail(tasks), m)
  /\ marker' = [marker EXCEPT ![m.run] = "queued"]
  /\ UNCHANGED <<taskProc, tries, results, resultProc>>

\* The capacity script accepts the task: LPUSH and marker in one step.
Enqueue(m) ==
  /\ Len(tasks) < Capacity
  /\ tasks' = Append(tasks, m)
  /\ marker' = [marker EXCEPT ![m.run] = "queued"]
  /\ UNCHANGED <<taskProc, tries, results, resultProc>>

Pushing(t) == thread[t].pc = "push"
\* The size of a task is that of this rendering, with its fresh URLs and tokens.
MayExceed(a) == Owner(a) \in Oversized
EnqueueRun(a) == \E b \in Bytes : Enqueue([run |-> a, bytes |-> b])

\* The update of judge_run_id and the script are one step: the update only
\* writes what an active run's row already holds, so nobody sees it alone.
Push(t) ==
  LET a == thread[t].run IN
  /\ Pushing(t)
  /\ RecordRun(a)
  /\ \/ EnqueueRun(a) /\ Goto(t, "mark")
     \/ /\ Len(tasks) >= Capacity   \* -1: capacity error
        /\ Deferred(t) /\ UNCHANGED redisVars
  /\ UNCHANGED <<att, verdict, outbox, judgeVars, faults>>

\* A network error: before the script, or after it when its reply is lost.
PushBreaks(t) ==
  LET a == thread[t].run IN
  /\ Pushing(t) /\ Fault
  /\ \/ UNCHANGED <<sub, redisVars>>
     \/ RecordRun(a) /\ (EnqueueRun(a) \/ UNCHANGED redisVars)
  /\ Deferred(t)
  /\ UNCHANGED <<att, verdict, outbox, judgeVars>>

\* The message is too large: permanent.
PushTooLarge(t) ==
  /\ Pushing(t) /\ MayExceed(thread[t].run)
  /\ Goto(t, IF thread[t].mode = "create" THEN "fail" ELSE "releaseFail")
  /\ UNCHANGED <<dbVars, redisVars, judgeVars, faults>>

\* The status a row must still have for the conditional update to judging.
ExpectedStatus(t) == IF thread[t].mode = "judging" THEN "judging" ELSE "pending"

\* Mutant: the update to judging names the submission only.
MarksAlways(t) == TRUE
Marks(t) == sub[Owner(thread[t].run)].status = ExpectedStatus(t)

\* After the push: UPDATE ... SET status = 'judging' WHERE id AND status.
MarkJudging(t) ==
  LET s == Owner(thread[t].run) IN
  /\ thread[t].pc \in {"mark", "sync"}
  /\ sub' = IF Marks(t) THEN [sub EXCEPT ![s].status = "judging"] ELSE sub
  /\ Finished(t)
  /\ UNCHANGED <<att, verdict, outbox, redisVars, judgeVars, faults>>

\* The update fails: after a push the error counts as a retryable push error,
\* after an already queued marker it only ends this row.
MarkFails(t) ==
  /\ thread[t].pc \in {"mark", "sync"} /\ Fault
  /\ IF thread[t].pc = "mark" THEN Deferred(t) ELSE Finished(t)
  /\ UNCHANGED <<dbVars, redisVars, judgeVars>>

-----------------------------------------------------------------------------
(* Sweeper: recoverPendingSubmissions and reconcileStaleJudgingSubmissions *)

\* The row as the query read it; `run` is its active_attempt_id at that time.
Selected(t, s, pc) ==
  thread' = [thread EXCEPT ![t] =
    [IdleThread EXCEPT !.pc = pc, !.run = sub[s].active,
                       !.mode = sub[s].status]]

SelectPending(t, s) ==
  /\ thread[t].pc = "idle" /\ sub[s].status = "pending"
  /\ Selected(t, s, "claim")
  /\ UNCHANGED <<dbVars, redisVars, judgeVars, faults>>

SelectStale(t, s) ==
  /\ thread[t].pc = "idle" /\ sub[s].status = "judging"
  /\ sub[s].active # NoAttempt /\ Open(sub[s].active)
  /\ Selected(t, s, "probe")
  /\ UNCHANGED <<dbVars, redisVars, judgeVars, faults>>

\* findJudgeTaskMarkers: a row whose marker is there is not an orphan.
Probe(t) ==
  /\ thread[t].pc = "probe"
  /\ IF marker[thread[t].run] = "none" THEN Goto(t, "scanTasks") ELSE Finished(t)
  /\ UNCHANGED <<dbVars, redisVars, judgeVars, faults>>

\* markInFlightJudgeTasks reads list after list; it misses a message that is
\* requeued from a list it has not read to one it has.
Seen(pc, a) ==
  \/ pc = "scanTasks" /\ InTasks(a)
  \/ pc = "scanTaskProc" /\ InTaskProc(a)
  \/ pc = "scanResults" /\ InResults(a)
  \/ pc = "scanResultProc" /\ InResultProc(a)
NextList == [scanTasks |-> "scanTaskProc", scanTaskProc |-> "scanResults",
             scanResults |-> "scanResultProc", scanResultProc |-> "claim"]
Scan(t) ==
  LET pc == thread[t].pc IN
  /\ pc \in DOMAIN NextList
  /\ Goto(t, IF Seen(pc, thread[t].run) THEN "note" ELSE NextList[pc])
  /\ UNCHANGED <<dbVars, redisVars, judgeVars, faults>>

\* ... and then notes what it found: SET key queued NX.
Note(t) ==
  LET a == thread[t].run IN
  /\ thread[t].pc = "note"
  /\ marker' = [marker EXCEPT ![a] = IF @ = "none" THEN "queued" ELSE @]
  /\ Finished(t)
  /\ UNCHANGED <<dbVars, tasks, taskProc, tries, results, resultProc,
                 judgeVars, faults>>

\* claimJudgeTaskDispatch: SET key dispatching NX ...
Claim(t) ==
  LET a == thread[t].run IN
  /\ thread[t].pc = "claim"
  /\ IF marker[a] = "none"
     THEN marker' = [marker EXCEPT ![a] = "dispatching"] /\ Goto(t, "rebuild")
     ELSE UNCHANGED marker /\ Goto(t, "look")
  /\ UNCHANGED <<dbVars, tasks, taskProc, tries, results, resultProc,
                 judgeVars, faults>>

\* ... then GET: a queued pending row only lacks its status, any other row is
\* left to its dispatcher or, if the marker has gone meanwhile, to a later round.
Look(t) ==
  /\ thread[t].pc = "look"
  /\ IF marker[thread[t].run] = "queued" /\ thread[t].mode = "pending"
     THEN Goto(t, "sync") ELSE Finished(t)
  /\ UNCHANGED <<dbVars, redisVars, judgeVars, faults>>

\* A request or the reply of the claim is lost: the row waits for a later round.
ClaimFails(t) ==
  LET a == thread[t].run IN
  /\ thread[t].pc \in {"claim", "look"} /\ Fault
  /\ \/ UNCHANGED marker
     \/ /\ thread[t].pc = "claim" /\ marker[a] = "none"
        /\ marker' = [marker EXCEPT ![a] = "dispatching"]
  /\ Finished(t)
  /\ UNCHANGED <<dbVars, tasks, taskProc, tries, results, resultProc, judgeVars>>

\* rebuildPendingTask refuses an attempt that is no longer open (permanent).
Rebuild(t) ==
  /\ thread[t].pc = "rebuild"
  /\ Goto(t, IF Open(thread[t].run) THEN "push" ELSE "releaseFail")
  /\ UNCHANGED <<dbVars, redisVars, judgeVars, faults>>

\* A version, artifact or provider is unreachable (deferred) or gone (permanent).
RebuildFails(t) ==
  /\ thread[t].pc = "rebuild" /\ Fault
  /\ \/ Goto(t, "release")
     \/ Goto(t, "releaseFail")
  /\ UNCHANGED <<dbVars, redisVars, judgeVars>>

\* releaseJudgeTaskDispatch: deletes the marker only while it is `dispatching`.
\* An error there is swallowed, the claim then lives until its TTL.
Release(t) ==
  LET a == thread[t].run IN
  /\ thread[t].pc \in {"release", "releaseFail"}
  /\ \/ NoFault /\ marker' = IF marker[a] = "dispatching"
                              THEN [marker EXCEPT ![a] = "none"] ELSE marker
     \/ Fault /\ UNCHANGED marker
  /\ IF thread[t].pc = "release" THEN Finished(t) ELSE Goto(t, "fail")
  /\ UNCHANGED <<dbVars, tasks, taskProc, tries, results, resultProc, judgeVars>>

\* DISPATCH_FAILED or RECOVERY_FAILED: a platform error without auto-retry,
\* ignored when the attempt is no longer the active open one.
FailAttempt(t) ==
  LET a == thread[t].run IN
  /\ thread[t].pc = "fail"
  /\ \/ ApplyPlatformError(a)
     \/ ~Applies(a) /\ UNCHANGED dbVars
  /\ Finished(t)
  /\ UNCHANGED <<redisVars, judgeVars, faults>>

\* The transaction fails: the error leaves the handler or the recovery round.
FailBreaks(t) ==
  /\ thread[t].pc = "fail" /\ Fault
  /\ Finished(t)
  /\ UNCHANGED <<dbVars, redisVars, judgeVars>>

\* sweepProcessingQueue over the task list: LREM all copies, LPUSH one.  The
\* timeout expires for a message nobody works on, or (a fault) too early.
HeldByWorker(m) == \E w \in Worker : worker[w].task = m
SweepTask(m) ==
  /\ taskProc[m] > 0
  /\ IF HeldByWorker(m) THEN Fault ELSE NoFault
  /\ taskProc' = [taskProc EXCEPT ![m] = 0]
  /\ tasks' = Append(tasks, m)
  /\ UNCHANGED <<dbVars, tries, results, resultProc, marker, judgeVars, thread>>

\* The same over the result list, two minutes after a consumer took it.
HeldByConsumer(r) == \E t \in Consumer : thread[t].msg = r
SweepResult(r) ==
  /\ resultProc[r] > 0
  /\ IF HeldByConsumer(r) THEN Fault ELSE NoFault
  /\ resultProc' = [resultProc EXCEPT ![r] = 0]
  /\ results' = Append(results, r)
  /\ UNCHANGED <<dbVars, tasks, taskProc, tries, marker, judgeVars, thread>>

\* Marker TTLs: 60 s for a claim whose holder is gone (or, a fault, too slow),
\* 24 h for a queued marker.
ClaimHeld(a) ==
  \E t \in Thread : /\ thread[t].run = a /\ thread[t].mode # "create"
                    /\ thread[t].pc \in {"rebuild", "push", "release", "releaseFail"}
ExpireMarker(a) ==
  /\ marker[a] # "none"
  /\ IF marker[a] = "dispatching" /\ ~ClaimHeld(a) THEN NoFault ELSE Fault
  /\ marker' = [marker EXCEPT ![a] = "none"]
  /\ UNCHANGED <<dbVars, tasks, taskProc, tries, results, resultProc,
                 judgeVars, thread>>

-----------------------------------------------------------------------------
(* Judge worker *)

\* RPOPLPUSH from the queue into its processing list.
TakeTask(w) ==
  /\ worker[w].pc = "idle" /\ tasks # <<>>
  /\ LET m == Head(tasks) IN
     /\ worker' = [worker EXCEPT ![w] = [pc |-> "eval", task |-> m, res |-> NoMsg]]
     /\ taskProc' = [taskProc EXCEPT ![m] = @ + 1]
  /\ tasks' = Tail(tasks)
  /\ UNCHANGED <<dbVars, tries, results, resultProc, marker, fallback, reported,
                 thread, faults>>

\* Another slot may hold the memory or evaluate for the same user; without one
\* the claim of a dead slot or a lack of memory (a fault) makes a slot decline.
Crowded(w) == \E v \in Worker \ {w} : worker[v].pc # "idle"

\* Mutant: the declined message is acknowledged.
DeclineLosing(w) ==
  /\ worker[w].pc = "eval"
  /\ IF Crowded(w) THEN NoFault ELSE Fault
  /\ taskProc' = RemoveOne(taskProc, worker[w].task)
  /\ worker' = [worker EXCEPT ![w] = IdleWorker]
  /\ UNCHANGED <<dbVars, tasks, tries, results, resultProc, marker, fallback,
                 reported, thread>>

\* requeue_task: one copy goes back to the end of the queue, if it is still there.
Decline(w) ==
  LET m == worker[w].task IN
  /\ worker[w].pc = "eval"
  /\ IF Crowded(w) THEN NoFault ELSE Fault
  /\ taskProc' = RemoveOne(taskProc, m)
  /\ tasks' = IF taskProc[m] > 0 THEN Append(tasks, m) ELSE tasks
  /\ worker' = [worker EXCEPT ![w] = IdleWorker]
  /\ UNCHANGED <<dbVars, tries, results, resultProc, marker, fallback, reported,
                 thread>>

TriesLeft(a) == tries[a] < JudgeRetries

\* Mutant: the INCR of the retry script is lost.
CountNothing(a) == tries
CountTry(a) == [tries EXCEPT ![a] = @ + 1]

\* The evaluation ends; retry_platform_error moves a platform error back to the
\* queue while the run has retries left, and drops it when the message is gone.
Evaluate(w, kind) ==
  LET m == worker[w].task
      again == kind \in PlatformError /\ taskProc[m] > 0 /\ TriesLeft(m.run)
      moved == kind \in PlatformError /\ taskProc[m] = 0
  IN
  /\ worker[w].pc = "eval"
  /\ IF again
     THEN /\ taskProc' = [taskProc EXCEPT ![m] = 0]
          /\ tries' = CountTry(m.run)
          /\ tasks' = Append(tasks, m)
     ELSE UNCHANGED <<taskProc, tries, tasks>>
  /\ IF again \/ moved
     THEN worker' = [worker EXCEPT ![w] = IdleWorker]
     ELSE \E b \in Bytes :
            worker' = [worker EXCEPT ![w] =
              [pc |-> "report", task |-> m,
               res |-> [run |-> m.run, kind |-> kind, bytes |-> b]]]
  /\ UNCHANGED <<dbVars, results, resultProc, marker, fallback, reported,
                 thread, faults>>

\* push_result_with_retry.
Reports(w) ==
  LET r == worker[w].res IN
  reported' = [reported EXCEPT ![r.run] = @ \cup {r.kind}]

Report(w) ==
  /\ worker[w].pc = "report"
  /\ Reports(w)
  /\ results' = Append(results, worker[w].res)
  /\ worker' = [worker EXCEPT ![w].pc = "ack"]
  /\ UNCHANGED <<dbVars, tasks, taskProc, tries, resultProc, marker, fallback,
                 thread, faults>>

\* The push arrived but its reply did not: the judge pushes again.
ReportUnheard(w) ==
  /\ worker[w].pc = "report" /\ Fault
  /\ Reports(w)
  /\ results' = Append(results, worker[w].res)
  /\ UNCHANGED <<dbVars, tasks, taskProc, tries, resultProc, marker, worker,
                 fallback, thread>>

\* Its pushes failed: the result goes to a file, which may fail as well, and
\* the task is not acknowledged.
ReportFails(w) ==
  LET r == worker[w].res IN
  /\ worker[w].pc = "report" /\ Fault
  /\ Reports(w)
  /\ fallback' = [fallback EXCEPT ![r.run] = r] \/ UNCHANGED fallback
  /\ worker' = [worker EXCEPT ![w] = IdleWorker]
  /\ UNCHANGED <<dbVars, redisVars, thread>>

\* ack_task: LREM one copy of the message.
AckTask(w) ==
  /\ worker[w].pc = "ack"
  /\ taskProc' = RemoveOne(taskProc, worker[w].task)
  /\ worker' = [worker EXCEPT ![w] = IdleWorker]
  /\ UNCHANGED <<dbVars, tasks, tries, results, resultProc, marker, fallback,
                 reported, thread, faults>>

\* The slot dies, is drained on shutdown, or cannot acknowledge: the message
\* stays in the processing list.
WorkerDies(w) ==
  /\ worker[w].pc # "idle" /\ Fault
  /\ worker' = [worker EXCEPT ![w] = IdleWorker]
  /\ UNCHANGED <<dbVars, redisVars, fallback, reported, thread>>

\* replay_fallback_results when a judge starts; the file may survive its replay.
Replay(a) ==
  /\ fallback[a] # NoMsg
  /\ results' = Append(results, fallback[a])
  /\ \/ fallback' = [fallback EXCEPT ![a] = NoMsg] /\ NoFault
     \/ UNCHANGED fallback /\ Fault
  /\ UNCHANGED <<dbVars, tasks, taskProc, tries, resultProc, marker, worker,
                 reported, thread>>

-----------------------------------------------------------------------------
(* Result consumer: createConsumer around handleResultMessage *)

TakeResult(t) ==
  /\ thread[t].pc = "idle" /\ results # <<>>
  /\ LET r == Head(results) IN
     /\ thread' = [thread EXCEPT ![t] = [IdleThread EXCEPT !.pc = "save", !.msg = r]]
     /\ resultProc' = [resultProc EXCEPT ![r] = @ + 1]
  /\ results' = Tail(results)
  /\ UNCHANGED <<dbVars, tasks, taskProc, tries, marker, judgeVars, faults>>

\* The envelope check of saveEvaluationResult against attempt and submission.
EnvelopeMatches(r) ==
  LET row == sub[Owner(r.run)] IN
  /\ Exists(r.run)
  /\ att[r.run].seq = row.rejudgeSeq
  /\ row.active = r.run /\ row.run = r.run

\* Mutant: the score of a verdict is not validated.
IsVerdictUnchecked(r) == r.kind \in {"graded", "invalid"}
IsVerdict(r) == r.kind = "graded"

\* saveEvaluationResult: one transaction.  `run` remembers the retry attempt
\* the consumer has to dispatch.
SaveResult(t) ==
  LET r == thread[t].msg
      a == r.run
      next(b) == thread' = [thread EXCEPT ![t].pc = "clear", ![t].run = b]
      final == r.kind # "transient" \/ ~MayRetry(a)
  IN
  /\ thread[t].pc = "save"
  /\ \/ /\ ~(EnvelopeMatches(r) /\ Applies(a))
        /\ Goto(t, "ack") /\ UNCHANGED dbVars
     \/ /\ EnvelopeMatches(r) /\ IsVerdict(r)
        /\ ApplyGraded(a) /\ next(NoAttempt)
     \/ /\ EnvelopeMatches(r) /\ ~IsVerdict(r) /\ final
        /\ ApplyPlatformError(a) /\ next(NoAttempt)
     \/ /\ EnvelopeMatches(r) /\ r.kind = "transient"
        /\ \E b \in AttemptId : ApplyRetry(a, b) /\ next(b)
  /\ UNCHANGED <<redisVars, judgeVars, faults>>

\* handleResultMessage throws: the transaction rolled back, or a step after its
\* commit failed, so that the redelivered result is stale.
SaveFails(t) ==
  /\ thread[t].pc \in {"save", "clear"} /\ Fault
  /\ Goto(t, "requeue")
  /\ UNCHANGED <<dbVars, redisVars, judgeVars>>

\* clearResultTaskMarker; its own failure is swallowed.
ClearMarker(t) ==
  /\ thread[t].pc = "clear"
  /\ \/ marker' = [marker EXCEPT ![thread[t].msg.run] = "none"] /\ NoFault
     \/ UNCHANGED marker /\ Fault
  /\ Goto(t, IF thread[t].run = NoAttempt THEN "ack" ELSE "redispatch")
  /\ UNCHANGED <<dbVars, tasks, taskProc, tries, results, resultProc, judgeVars>>

\* dispatchAutoRetryAttempt: only while the retry is still active and pending.
Redispatch(t) ==
  LET s == Owner(thread[t].run) IN
  /\ thread[t].pc = "redispatch"
  /\ IF sub[s].status = "pending" /\ sub[s].active = thread[t].run
     THEN thread' = [thread EXCEPT ![t].pc = "claim", ![t].mode = "pending"]
     ELSE Goto(t, "ack")
  /\ UNCHANGED <<dbVars, redisVars, judgeVars, faults>>

\* LREM of the handled message; an error there is handled like a failed message.
AckResult(t) ==
  /\ thread[t].pc = "ack"
  /\ resultProc' = RemoveOne(resultProc, thread[t].msg)
  /\ thread' = [thread EXCEPT ![t] = IdleThread]
  /\ UNCHANGED <<dbVars, tasks, taskProc, tries, results, marker, judgeVars,
                 faults>>

AckFails(t) ==
  /\ thread[t].pc = "ack" /\ Fault
  /\ Goto(t, "requeue")
  /\ UNCHANGED <<dbVars, redisVars, judgeVars>>

\* requeueOnError: RPUSH (next to be taken), then LREM, in two commands.
Requeue(t) ==
  /\ thread[t].pc = "requeue"
  /\ results' = <<thread[t].msg>> \o results
  /\ Goto(t, "unlist")
  /\ UNCHANGED <<dbVars, tasks, taskProc, tries, resultProc, marker, judgeVars,
                 faults>>

Unlist(t) ==
  /\ thread[t].pc = "unlist"
  /\ resultProc' = RemoveOne(resultProc, thread[t].msg)
  /\ thread' = [thread EXCEPT ![t] = IdleThread]
  /\ UNCHANGED <<dbVars, tasks, taskProc, tries, results, marker, judgeVars,
                 faults>>

-----------------------------------------------------------------------------

\* The noj-core process of a thread dies; only its local state is lost.
ThreadDies(t) ==
  /\ thread[t].pc # "idle" /\ Fault
  /\ thread' = [thread EXCEPT ![t] = IdleThread]
  /\ UNCHANGED <<dbVars, redisVars, judgeVars>>

\* attemptTokenRevocationNow after a commit, or runPendingTokenRevocations.
Revoke(a) == RevokeTokens(a) /\ UNCHANGED <<redisVars, judgeVars, thread, faults>>

\* Nothing is left to do once every submission is settled.
Settled(s) == sub[s].status \in {"finished", "error"}
Quiescent ==
  /\ \A s \in Submission : Settled(s)
  /\ \A t \in Thread : thread[t].pc = "idle"
  /\ \A w \in Worker : worker[w].pc = "idle"
  /\ tasks = <<>> /\ results = <<>>
  /\ UNCHANGED vars

\* What a thread does on its own once it has started something.
DispatchStep(t) ==
  \/ Push(t) \/ PushTooLarge(t) \/ MarkJudging(t) \/ Probe(t) \/ Scan(t)
  \/ Note(t) \/ Claim(t) \/ Look(t) \/ Rebuild(t) \/ Release(t) \/ FailAttempt(t)
ConsumerStep(t) ==
  \/ TakeResult(t) \/ SaveResult(t) \/ ClearMarker(t) \/ Redispatch(t)
  \/ AckResult(t) \/ Requeue(t) \/ Unlist(t)
ThreadFault(t) ==
  \/ PushBreaks(t) \/ MarkFails(t) \/ ClaimFails(t) \/ RebuildFails(t)
  \/ FailBreaks(t) \/ SaveFails(t) \/ AckFails(t) \/ ThreadDies(t)
WorkerStep(w) ==
  TakeTask(w) \/ (\E k \in Outcome : Evaluate(w, k)) \/ Report(w) \/ AckTask(w)
WorkerFault(w) == Decline(w) \/ ReportUnheard(w) \/ ReportFails(w) \/ WorkerDies(w)

Next ==
  \/ \E t \in Api, s \in Submission : CreateSubmission(t, s)
  \/ \E t \in Sweeper, s \in Submission : SelectPending(t, s) \/ SelectStale(t, s)
  \/ \E t \in Consumer : ConsumerStep(t)
  \/ \E t \in Thread : DispatchStep(t) \/ ThreadFault(t)
  \/ \E w \in Worker : WorkerStep(w) \/ WorkerFault(w)
  \/ \E m \in Task : SweepTask(m)
  \/ \E r \in Result : SweepResult(r)
  \/ \E a \in AttemptId : ExpireMarker(a) \/ Replay(a) \/ Revoke(a)
  \/ Quiescent

Spec == Init /\ [][Next]_vars

(* Fairness.  A process that has started a row or a message runs on (its event
   loop or task keeps being scheduled); the sweeper's 30 s rounds visit every
   selectable row and every timed-out message; a TTL expires.  Nothing forces a
   fault, a new submission or the replay of a fallback file.                 *)
Fairness ==
  /\ \A t \in Consumer : WF_vars(ConsumerStep(t))
  /\ \A t \in Thread : WF_vars(DispatchStep(t))
  /\ \A w \in Worker : WF_vars(WorkerStep(w))
  /\ \A t \in Sweeper, s \in Submission :
       SF_vars(SelectPending(t, s) \/ SelectStale(t, s))
  /\ \A m \in Task : WF_vars(SweepTask(m) /\ NoFault)
  /\ \A a \in AttemptId : WF_vars(ExpireMarker(a) /\ NoFault) /\ WF_vars(Revoke(a))
  /\ \A r \in Result : WF_vars(SweepResult(r) /\ NoFault)

FairSpec == Spec /\ Fairness

-----------------------------------------------------------------------------
(* Properties *)

\* What Redis or a judge still holds of a run.
InFlight(a) ==
  \/ InLists(a)
  \/ \E w \in Worker : worker[w].task.run = a
  \/ \E t \in Consumer : thread[t].msg.run = a

\* A `queued` marker keeps the sweeper away from an attempt, so it must mean
\* that a message of the attempt exists: otherwise the submission would hang
\* until the 24 h TTL.
MarkerHonest ==
  \A a \in AttemptId : marker[a] = "queued" /\ Open(a) => InLists(a)

\* Only a judge's verdict on this very attempt makes it `finished`: a late
\* result of an earlier attempt, a rejected score or a recovery failure never do.
VerdictsWereReported ==
  \A a \in AttemptId : att[a].state = "finished" => "graded" \in reported[a]

\* Every submission that was accepted gets its verdict or error.
EveryOneSettles ==
  \A s \in Submission : sub[s].status \in {"pending", "judging"} ~> Settled(s)

\* The LLM tokens of every attempt that ended are revoked in the end.
TokensRevoked == \A a \in AttemptId : Terminal(a) ~> outbox[a] = "done"

=============================================================================
