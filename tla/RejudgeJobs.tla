----------------------------- MODULE RejudgeJobs -----------------------------
(* Rejudge and upgrade jobs of noj-core on top of the attempt tables: their
   items are claimed under a lease, given an attempt of their own, pushed to the
   judges and ended by the result of that attempt.

   A step is one transaction, one Redis command or the code between two awaits.
   A worker here is one round of the background worker: rounds overlap, within
   a process and between replicas, and each has a lease owner of its own.  What
   happens to a pushed attempt (JudgePipeline) is only seen by its result.   *)
EXTENDS Attempts

CONSTANTS Job, Upgrade,   \* the jobs, and those that may be of kind `upgrade`
          Worker, NoWorker, NoItem,
          Original,       \* submissions users create; the others are copies
          MaxTries,       \* DISPATCH_BACKOFF_SECONDS.length
          MaxFaults       \* bound: faults in one behaviour

Item == Job \X Submission

ASSUME JobsAssumption ==
  /\ Upgrade \subseteq Job /\ Original \subseteq Submission
  /\ NoWorker \notin Worker /\ NoItem \notin Item
  /\ MaxTries \in Nat /\ MaxFaults \in Nat

VARIABLES item,     \* submission_job_items row
          request,  \* kind of the job and target_version_id of its items
          job,      \* submission_jobs.status
          pushed,   \* attempts that ever were in the task queue
          worker,   \* local state of the workers
          round,    \* jobs whose status the round of a worker refreshes
          faults    \* faults spent

jobVars == <<item, request, job, pushed>>
vars == <<dbVars, jobVars, worker, round, faults>>

OpenStatus == {"pending", "preparing", "dispatched"}
EndStatus == {"succeeded", "failed", "skipped"}
FinishedState == {"completed", "completed_with_errors"}
JobState == {"absent", "queued", "running"} \cup FinishedState

\* `live` is lease_until > now.
ItemRow == [status : {"absent"} \cup OpenStatus \cup EndStatus, owner : Worker \cup {NoWorker},
            live : BOOLEAN, attempt : Ref, tries : 0..MaxTries]
WorkerPc == {"idle", "claimed", "looking", "ensuring", "renewing", "pushing", "marking",
             "updating", "skipping", "failing", "backingOff", "returning"}

\* `refreshing` the jobs whose leases it ended, counting the items of one before
\* it writes the status; `claiming`, from when on it remembers the jobs it touches;
\* `closing`, which refreshes these.
RoundRow == [step : {"refreshing", "claiming", "closing"}, jobs : SUBSET Job,
             counted : SUBSET (Job \X JobState)]

JobTypeOK ==
  /\ DbTypeOK
  /\ item \in [Item -> ItemRow]
  /\ request \in [Job -> [upgrade : BOOLEAN, version : Version \cup {0}]]
  /\ job \in [Job -> JobState]
  /\ pushed \subseteq AttemptId
  /\ worker \in [Worker -> [pc : WorkerPc, item : Item \cup {NoItem}, attempt : Ref]]
  /\ faults \in 0..MaxFaults

TypeOK == JobTypeOK /\ round \in [Worker -> RoundRow]

NewItem(status) ==
  [status |-> status, owner |-> NoWorker, live |-> FALSE, attempt |-> NoAttempt, tries |-> 0]
Idle == [pc |-> "idle", item |-> NoItem, attempt |-> NoAttempt]
NewRound == [step |-> "claiming", jobs |-> {}, counted |-> {}]

Init ==
  /\ DbInit
  /\ item = [i \in Item |-> NewItem("absent")]
  /\ request = [j \in Job |-> [upgrade |-> FALSE, version |-> 0]]
  /\ job = [j \in Job |-> "absent"]
  /\ pushed = {}
  /\ worker = [w \in Worker |-> Idle]
  /\ round = [w \in Worker |-> NewRound]
  /\ faults = 0

-----------------------------------------------------------------------------
(* Helpers *)

Fault == faults < MaxFaults /\ faults' = faults + 1

Mine(w) == worker[w].item
Source(i) == i[2]
IsOpen(i) == item[i].status \in OpenStatus
Goto(w, pc) == worker' = [worker EXCEPT ![w].pc = pc]
Rest(w) == worker' = [worker EXCEPT ![w] = Idle]

\* The condition of every write of a worker.
Holds(w) == /\ item[Mine(w)].status = "preparing"
            /\ item[Mine(w)].owner = w /\ item[Mine(w)].live

\* Item rows as the writes leave them, without their lease.
Released(row, status) == [row EXCEPT !.status = status, !.owner = NoWorker, !.live = FALSE]

\* Mutant: items under a lease are not counted as open.
StatusOfUnleased(j, items) ==
  LET statuses == {items[i].status : i \in {k \in Item : k[1] = j}}
  IN  CASE "dispatched" \in statuses -> "running"
        [] "dispatched" \notin statuses /\ "pending" \in statuses -> "queued"
        [] statuses \cap {"dispatched", "pending"} = {} /\ "failed" \in statuses -> "completed_with_errors"
        [] OTHER -> "completed"

\* refreshJobStatus: the status that the items of job j amount to.
StatusOf(j, items) ==
  LET statuses == {items[i].status : i \in {k \in Item : k[1] = j}}
  IN  CASE "dispatched" \in statuses -> "running"
        [] "dispatched" \notin statuses /\ statuses \cap OpenStatus # {} -> "queued"
        [] statuses \cap OpenStatus = {} /\ "failed" \in statuses -> "completed_with_errors"
        [] OTHER -> "completed"

\* Mutant: the job is left to the end of the round.
RefreshNothing(j) == UNCHANGED job

\* Count and update in the transaction that wrote the items.
Refresh(j) == job' = [job EXCEPT ![j] = StatusOf(j, item')]
SetItem(i, row) == item' = [item EXCEPT ![i] = row]

\* Mutant: only an item that was marked is looked for.
DispatchedItemsOf(a) == {i \in Item : item[i].status = "dispatched" /\ item[i].attempt = a}

\* completeAttemptJobItem: the open item of attempt a, if it has one.
OpenItemsOf(a) == {i \in Item : IsOpen(i) /\ item[i].attempt = a}
EndItemOf(a, status) ==
  /\ item' = [i \in Item |-> IF i \in OpenItemsOf(a) THEN Released(item[i], status) ELSE item[i]]
  /\ job' = [j \in Job |-> IF \E i \in OpenItemsOf(a) : i[1] = j
                           THEN StatusOf(j, item') ELSE job[j]]

-----------------------------------------------------------------------------
(* Users and administrators *)

\* createSubmission; its push is Recover's.
Submit(s, v) ==
  /\ s \in Original /\ InsertSubmission(s, <<s, 1>>, v)
  /\ UNCHANGED <<jobVars, worker, round, faults>>

\* acceptRejudgeJob and the upgrade request: the items of `skipped` are over at once.
Accept(j, chosen, skipped, upgrade, v) ==
  /\ job[j] = "absent" /\ chosen # {} /\ (upgrade => j \in Upgrade)
  /\ \A s \in chosen : sub[s].status # "absent"
  /\ item' = [i \in Item |-> IF i[1] # j \/ i[2] \notin chosen THEN item[i]
                             ELSE NewItem(IF i[2] \in skipped THEN "skipped" ELSE "pending")]
  /\ request' = [request EXCEPT ![j] = [upgrade |-> upgrade, version |-> v]]
  /\ job' = [job EXCEPT ![j] = IF chosen \subseteq skipped THEN "completed" ELSE "queued"]
  /\ UNCHANGED <<dbVars, pushed, worker, round, faults>>

\* Mutant: the row is copied with its attempt.
Copied(row) == [row EXCEPT !.status = "pending"]

\* The new item keeps nothing of the old one but its source and target.
Again(row) == NewItem("pending")

\* retryRejudgeJob: the failed and skipped items of job p again, as job j.
Retry(j, p) ==
  LET again == {s \in Submission : item[<<p, s>>].status \in {"failed", "skipped"}} IN
  /\ job[j] = "absent" /\ job[p] # "absent" /\ ~request[p].upgrade /\ again # {}
  /\ item' = [i \in Item |-> IF i[1] = j /\ i[2] \in again
                             THEN Again(item[<<p, i[2]>>]) ELSE item[i]]
  /\ request' = [request EXCEPT ![j] = request[p]]
  /\ job' = [job EXCEPT ![j] = "queued"]
  /\ UNCHANGED <<dbVars, pushed, worker, round, faults>>

-----------------------------------------------------------------------------
(* The round of a worker: runSubmissionJobWorkerOnce *)

BetweenItems(w) == worker[w].pc = "idle"

\* requeueExpiredLeases, at the start of a round: one statement for all items ...
RequeueExpired(w) ==
  LET over == {i \in Item : item[i].status = "preparing" /\ ~item[i].live} IN
  /\ BetweenItems(w) /\ round[w] = NewRound /\ over # {}
  /\ item' = [i \in Item |-> IF i \in over THEN Released(item[i], "pending") ELSE item[i]]
  /\ round' = [round EXCEPT ![w].step = "refreshing", ![w].jobs = {i[1] : i \in over}]
  /\ UNCHANGED <<dbVars, request, job, pushed, worker, faults>>

\* ... then refreshJobStatus of each job, outside any transaction: the row lock
\* ends with the statement that takes it, the items are counted ...
CountItems(w, j) ==
  /\ round[w].step = "refreshing" /\ round[w].counted = {} /\ j \in round[w].jobs
  /\ round' = [round EXCEPT ![w].counted = {<<j, StatusOf(j, item)>>}]
  /\ UNCHANGED <<dbVars, jobVars, worker, faults>>

\* ... and the status is written whatever has happened to them since.
WriteStatus(w, j) ==
  LET rest == round[w].jobs \ {j} IN
  /\ \E status \in JobState : /\ <<j, status>> \in round[w].counted
                              /\ job' = [job EXCEPT ![j] = status]
  /\ round' = [round EXCEPT ![w] = IF rest = {} THEN NewRound
                                   ELSE [@ EXCEPT !.jobs = rest, !.counted = {}]]
  /\ UNCHANGED <<dbVars, item, request, pushed, worker, faults>>

\* The end of the round: refreshJobStatus of the jobs it claimed items of, each in
\* a transaction of its own.
CloseRound(w, j) ==
  LET rest == round[w].jobs \ {j} IN
  /\ BetweenItems(w) /\ round[w].step \in {"claiming", "closing"} /\ j \in round[w].jobs
  /\ job' = [job EXCEPT ![j] = StatusOf(j, item)]
  /\ round' = [round EXCEPT ![w] = IF rest = {} THEN NewRound
                                   ELSE [@ EXCEPT !.step = "closing", !.jobs = rest]]
  /\ UNCHANGED <<dbVars, item, request, pushed, worker, faults>>

-----------------------------------------------------------------------------
(* One item: dispatchJobItem *)

Claimable(i) == item[i].status = "pending" \/ (item[i].status = "preparing" /\ ~item[i].live)

\* claimJobItems, one item at a time.
Claim(w, i) ==
  /\ BetweenItems(w) /\ round[w].step = "claiming" /\ Claimable(i)
  /\ SetItem(i, [item[i] EXCEPT !.status = "preparing", !.owner = w, !.live = TRUE])
  /\ worker' = [worker EXCEPT ![w] = [pc |-> "claimed", item |-> i, attempt |-> item[i].attempt]]
  /\ round' = [round EXCEPT ![w].jobs = @ \cup {i[1]}]
  /\ UNCHANGED <<dbVars, request, job, pushed, faults>>

\* renewJobItemLease, before the source is read and before the push.
Renew(w) ==
  /\ worker[w].pc \in {"claimed", "renewing"} /\ Holds(w)
  /\ Goto(w, IF worker[w].pc = "claimed" THEN "looking" ELSE "pushing")
  /\ UNCHANGED <<dbVars, jobVars, round, faults>>

\* A lost lease ends the work without a trace: `deferred`, JOB_LEASE_LOST, or a
\* write whose condition fails.
Defer(w) ==
  /\ worker[w].pc \in {"claimed", "ensuring", "renewing", "skipping", "failing",
                       "backingOff", "returning"}
  /\ ~Holds(w)
  /\ Rest(w)
  /\ UNCHANGED <<dbVars, jobVars, round, faults>>

\* The source as it is read here is evaluated by somebody else.
Contended(w) ==
  LET active == sub[Source(Mine(w))].active IN active # NoAttempt /\ active # worker[w].attempt

\* The checks before an attempt is made.  An unknown or already reached target
\* skips an item that has no attempt; versions, packages and artifacts may fail.
Look(w) ==
  /\ worker[w].pc = "looking"
  /\ \/ Contended(w) /\ Goto(w, "skipping")
     \/ ~Contended(w) /\ worker[w].attempt = NoAttempt /\ Goto(w, "skipping")
     \/ ~Contended(w) /\ Goto(w, "failing")
     \/ ~Contended(w) /\ Goto(w, "ensuring")
  /\ UNCHANGED <<dbVars, jobVars, round, faults>>

\* ensureJobAttempt, when the item has its attempt already.
Reuse(w) ==
  /\ worker[w].pc = "ensuring" /\ Holds(w)
  /\ item[Mine(w)].attempt # NoAttempt
  /\ worker' = [worker EXCEPT ![w].pc = "renewing", ![w].attempt = item[Mine(w)].attempt]
  /\ UNCHANGED <<dbVars, jobVars, round, faults>>

\* The source row is locked, and busy.
FindBusy(w) ==
  /\ worker[w].pc = "ensuring" /\ Holds(w) /\ item[Mine(w)].attempt = NoAttempt
  /\ sub[Source(Mine(w))].active # NoAttempt
  /\ Goto(w, "skipping")
  /\ UNCHANGED <<dbVars, jobVars, round, faults>>

\* A rejudge creates the attempt on the source, an upgrade on a new copy of it.
Create(w, a) ==
  LET i == Mine(w) IN
  /\ worker[w].pc = "ensuring" /\ Holds(w) /\ item[i].attempt = NoAttempt
  /\ sub[Source(i)].active = NoAttempt
  /\ IF request[i[1]].upgrade
       THEN Owner(a) \notin Original /\ InsertSubmission(Owner(a), a, request[i[1]].version)
       ELSE Owner(a) = Source(i) /\ CreateAttempt(Owner(a), a, request[i[1]].version, 0)
  /\ SetItem(i, [item[i] EXCEPT !.attempt = a])
  /\ worker' = [worker EXCEPT ![w].pc = "renewing", ![w].attempt = a]
  /\ UNCHANGED <<request, job, pushed, round, faults>>

\* The upgrade quota of the user is used up: the transaction is rolled back.
OverQuota(w) ==
  /\ worker[w].pc = "ensuring" /\ Holds(w) /\ item[Mine(w)].attempt = NoAttempt
  /\ request[Mine(w)[1]].upgrade /\ Fault
  /\ Goto(w, "returning")
  /\ UNCHANGED <<dbVars, jobVars, round>>

\* Mutant: a full queue counts as accepted.
PushAccepted(w) ==
  /\ worker[w].pc = "pushing"
  /\ pushed' \in {pushed, pushed \cup {worker[w].attempt}}
  /\ Goto(w, "marking")
  /\ UNCHANGED <<dbVars, item, request, job, round, faults>>

\* pushJudgeTask; judge_run_id holds the attempt already.
Push(w) ==
  /\ worker[w].pc = "pushing"
  /\ pushed' = pushed \cup {worker[w].attempt}
  /\ Goto(w, "marking")
  /\ UNCHANGED <<dbVars, item, request, job, round, faults>>

\* The queue is full, or refuses the task for good.
PushRefused(w) ==
  /\ worker[w].pc = "pushing"
  /\ \/ Fault /\ Goto(w, "returning")
     \/ UNCHANGED faults /\ Goto(w, "failing")
  /\ UNCHANGED <<dbVars, jobVars, round>>

\* Mutant: the item is marked whoever holds it.
MarksUnheld(w) == TRUE
Marks(w) == Holds(w)

\* markJobItemDispatched.
MarkDispatched(w) ==
  LET i == Mine(w) IN
  /\ worker[w].pc = "marking"
  /\ IF Marks(w)
       THEN /\ SetItem(i, [Released(item[i], "dispatched") EXCEPT !.attempt = worker[w].attempt])
            /\ Refresh(i[1])
       ELSE UNCHANGED <<item, job>>
  /\ Goto(w, "updating")
  /\ UNCHANGED <<dbVars, request, pushed, round, faults>>

\* UPDATE submissions SET status = 'judging', bound to the attempt.
MarkJudging(w) ==
  LET a == worker[w].attempt
      s == Owner(a)
  IN
  /\ worker[w].pc = "updating"
  /\ IF sub[s].active = a /\ sub[s].status = "pending" THEN StartJudging(s) ELSE UNCHANGED dbVars
  /\ Rest(w)
  /\ UNCHANGED <<jobVars, round, faults>>

\* completeJobItem: skipped.
Skip(w) ==
  LET i == Mine(w) IN
  /\ worker[w].pc = "skipping" /\ Holds(w)
  /\ SetItem(i, Released(item[i], "skipped"))
  /\ Refresh(i[1])
  /\ Rest(w)
  /\ UNCHANGED <<dbVars, request, pushed, round, faults>>

\* Mutant: the attempt of a failed item is left open.
FailItemOnly(i) == /\ SetItem(i, Released(item[i], "failed"))
                   /\ UNCHANGED dbVars

\* Mutant: the submission keeps the failed attempt as its active one.
FailItemHalf(i) ==
  LET a == item[i].attempt IN
  /\ SetItem(i, Released(item[i], "failed"))
  /\ att' = IF a # NoAttempt THEN Finish(a, "error") ELSE att
  /\ UNCHANGED <<sub, verdict, outbox>>

\* The item fails and takes its attempt with it.
FailItem(i) ==
  LET a == item[i].attempt IN
  /\ SetItem(i, Released(item[i], "failed"))
  /\ IF a # NoAttempt THEN ApplyPlatformError(a) ELSE UNCHANGED dbVars

\* completeJobItem: failed.
Fail(w) ==
  /\ worker[w].pc = "failing" /\ Holds(w)
  /\ FailItem(Mine(w))
  /\ Refresh(Mine(w)[1])
  /\ Rest(w)
  /\ UNCHANGED <<request, pushed, round, faults>>

\* scheduleDispatchRetryOrFail.
BackOff(w) ==
  LET i == Mine(w) IN
  /\ worker[w].pc = "backingOff" /\ Holds(w)
  /\ IF item[i].tries < MaxTries
       THEN /\ SetItem(i, [Released(item[i], "pending") EXCEPT !.tries = @ + 1])
            /\ UNCHANGED <<dbVars, job>>
       ELSE FailItem(i) /\ Refresh(i[1])
  /\ Rest(w)
  /\ UNCHANGED <<request, pushed, round, faults>>

\* requeueJobItem: back in the line, no try counted.
GiveBack(w) ==
  /\ worker[w].pc = "returning" /\ Holds(w)
  /\ SetItem(Mine(w), Released(item[Mine(w)], "pending"))
  /\ Rest(w)
  /\ UNCHANGED <<dbVars, request, job, pushed, round, faults>>

\* A database, storage or queue error: the statement before it may have worked.
Throw(w) ==
  /\ worker[w].pc \notin {"idle", "backingOff"} /\ Fault
  /\ Goto(w, "backingOff")
  /\ UNCHANGED <<dbVars, jobVars, round>>

\* The process dies, or an error outside the work on an item ends the round.
Crash(w) ==
  /\ worker[w] # Idle \/ round[w] # NewRound
  /\ Fault
  /\ Rest(w)
  /\ round' = [round EXCEPT ![w] = NewRound]
  /\ UNCHANGED <<dbVars, jobVars>>

-----------------------------------------------------------------------------
(* Leases *)

\* Renewed by the heartbeat while its worker is at it; else it runs out, as it
\* does under a worker that is held up for long.
Expire(i) ==
  LET tended == \E w \in Worker : worker[w].pc # "idle" /\ Mine(w) = i /\ item[i].owner = w IN
  /\ item[i].status = "preparing" /\ item[i].live
  /\ IF tended THEN Fault ELSE UNCHANGED faults
  /\ SetItem(i, [item[i] EXCEPT !.live = FALSE])
  /\ UNCHANGED <<dbVars, request, job, pushed, worker, round>>

-----------------------------------------------------------------------------
(* The rest of the pipeline *)

\* The API, the retry dispatch or the sweeper push a pending attempt, unless an
\* open item looks after it, and mark the submission.
Recover(a) ==
  /\ Open(a) /\ sub[Owner(a)].active = a /\ a \notin pushed
  /\ OpenItemsOf(a) = {}
  /\ pushed' = pushed \cup {a}
  /\ StartJudging(Owner(a))
  /\ UNCHANGED <<item, request, job, worker, round, faults>>

\* A result of a pushed attempt ends its item in the same transaction.
ResultGraded(a) ==
  /\ a \in pushed /\ ApplyGraded(a)
  /\ EndItemOf(a, "succeeded")
  /\ UNCHANGED <<request, pushed, worker, round, faults>>

ResultError(a) ==
  /\ a \in pushed /\ ApplyPlatformError(a)
  /\ EndItemOf(a, "failed")
  /\ UNCHANGED <<request, pushed, worker, round, faults>>

\* scheduleAutoRetryInTx: the open item follows the retry and starts again.
ResultRetry(a, b) ==
  /\ a \in pushed /\ ApplyRetry(a, b)
  /\ item' = [i \in Item |-> IF i \in OpenItemsOf(a)
                             THEN [Released(item[i], "pending") EXCEPT !.attempt = b] ELSE item[i]]
  /\ job' = [j \in Job |-> IF \E i \in OpenItemsOf(a) : i[1] = j
                           THEN StatusOf(j, item') ELSE job[j]]
  /\ UNCHANGED <<request, pushed, worker, round, faults>>

Result(a) ==
  ResultGraded(a) \/ ResultError(a) \/ \E b \in AttemptId : ResultRetry(a, b)

-----------------------------------------------------------------------------
WorkerStep(w) ==
  \/ RequeueExpired(w)
  \/ \E j \in Job : CountItems(w, j) \/ WriteStatus(w, j) \/ CloseRound(w, j)
  \/ \E i \in Item : Claim(w, i)
  \/ Renew(w) \/ Defer(w) \/ Look(w) \/ Reuse(w) \/ FindBusy(w)
  \/ \E a \in AttemptId : Create(w, a)
  \/ Push(w) \/ MarkDispatched(w) \/ MarkJudging(w)
  \/ Skip(w) \/ Fail(w) \/ BackOff(w) \/ GiveBack(w)

Request ==
  \/ \E s \in Submission, v \in Version : Submit(s, v)
  \/ \E j \in Job, chosen, skipped \in SUBSET Submission, upgrade \in BOOLEAN, v \in Version :
       skipped \subseteq chosen /\ Accept(j, chosen, skipped, upgrade, v)
  \/ \E j, p \in Job : Retry(j, p)

Next ==
  \/ Request
  \/ \E w \in Worker : WorkerStep(w) \/ OverQuota(w) \/ PushRefused(w) \/ Throw(w) \/ Crash(w)
  \/ \E i \in Item : Expire(i)
  \/ \E a \in AttemptId : Recover(a) \/ Result(a)

Spec == Init /\ [][Next]_vars

\* The worker's timer fires every three seconds, leases run out, and every pushed
\* attempt has a result in the end (EveryOneSettles of JudgePipeline).
Fairness ==
  /\ \A w \in Worker : WF_vars(WorkerStep(w))
  /\ WF_vars(\E i \in Item : Expire(i))
  /\ WF_vars(\E a \in AttemptId : Recover(a))
  /\ WF_vars(\E a \in AttemptId : Result(a))

FairSpec == Spec /\ Fairness

-----------------------------------------------------------------------------
(* Properties *)

\* Items and attempts agree: success is a verdict, failure never leaves its
\* attempt to be evaluated later, and what counts as dispatched was pushed and
\* is not over yet, although results overtake the marks of the workers.
ItemHonest ==
  \A i \in Item :
    LET a == item[i].attempt IN
    /\ item[i].status = "succeeded" => a # NoAttempt /\ att[a].state = "finished"
    /\ item[i].status = "failed" /\ a # NoAttempt => att[a].state = "error"
    /\ item[i].status = "dispatched" => a \in pushed
    /\ IsOpen(i) /\ a # NoAttempt => Open(a)

\* No two items share an attempt, so a result knows the item it ends
\* (result-write.ts looks for one).
AttemptHasOneItem ==
  \A i, k \in Item : item[i].attempt = item[k].attempt /\ i # k => item[i].attempt = NoAttempt

\* A job that is reported as finished is finished, and says truly whether items
\* failed, although the round that ends leases writes counts of the past.
JobHonest ==
  \A j \in Job :
    LET all == {item[i].status : i \in {k \in Item : k[1] = j}} IN
    /\ job[j] \in FinishedState => all \cap OpenStatus = {}
    /\ job[j] = "completed" => "failed" \notin all
    /\ job[j] = "completed_with_errors" => "failed" \in all

\* Whoever changes items leaves the status as they have it then: once it is right
\* it stays so, but for the late write of a round that ended leases.
UpToDate(j) == job[j] # "absent" => job[j] = StatusOf(j, item)
StatusFollows ==
  [][\A j \in Job : UpToDate(j) => UpToDate(j)' \/ \E w \in Worker : WriteStatus(w, j)]_vars

\* rejudge-jobs.ts:789-792: a count that is out of date never takes a finished job
\* back.
FinishedStays == [][\A j \in Job : job[j] \in FinishedState => job'[j] = job[j]]_vars

\* The jobs implement the ledger.
Outcome == [i \in Item |-> IF IsOpen(i) THEN "open" ELSE item[i].status]
Rounds == [i \in Item |->
             IF item[i].attempt = NoAttempt THEN 0 ELSE att[item[i].attempt].retries + 1]
Batch == INSTANCE JobLedger WITH
           Place <- Submission, MaxRounds <- MaxRetries + 1,
           outcome <- Outcome, round <- Rounds,
           reported <- {j \in Job : job[j] \in FinishedState}
JobLedgerSpec == Batch!JobLedgerSpec

\* An item retries with its own attempt (job-attempt.ts:128), so it is never
\* skipped once it has one.
OwnAttemptNotSkipped ==
  \A i \in Item : item[i].status = "skipped" => item[i].attempt = NoAttempt

\* Every item ends, whatever single worker dies, stalls or is refused.
EveryItemEnds == \A i \in Item : IsOpen(i) ~> item[i].status \in EndStatus

\* Every attempt ends too, those included whose item gave up on them.
EveryAttemptEnds == \A a \in AttemptId : Open(a) ~> Terminal(a)
=============================================================================
