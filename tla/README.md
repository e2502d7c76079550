# Neuro-OJ in TLA+

Neuro-OJ is an online judge. Its web API (`noj-core`, TypeScript) stores
submissions in PostgreSQL and hands them to judge processes (`noj-judge`, Rust)
through Redis lists; results come back through another list. This directory
models the parts where processes, queues and crashes meet, model-checks them with
TLC and proves the safety of the core for every size of the system with TLAPS.

Contents: [1 Inventory](#1-inventory) · [2 Modules](#2-modules) ·
[3 From the code to the model](#3-from-the-code-to-the-model) ·
[4 Properties](#4-properties) · [5 Runs, bounds, fairness](#5-runs-bounds-and-fairness) ·
[6 Proofs](#6-proofs) · [7 Disagreements](#7-where-code-and-documentation-disagree) ·
[8 Left out](#8-what-is-not-modelled) · [9 Plan](#9-plan)

## 1 Inventory

| component (code) | state it keeps | operations | hard behaviour | what makes it correct |
|---|---|---|---|---|
| **Evaluation attempts and results** (`noj-core/src/domains/submission/services/versioning/{attempts,result-write,auto-retry}.ts`) | rows `submissions`, `evaluation_attempts`, `submission_version_results`, `llm_token_revocations` | createAttempt, finishAttempt, applyAttemptResult, scheduleAutoRetryInTx, token revocation | checks before a row lock, duplicated and late results, retries | status and active attempt agree, one open attempt, results are written once, retries are bounded |
| **Submission creation, result intake** (`services/submissions/*`) | the same rows | createSubmission, saveEvaluationResult | crash between commit, push and status update | every accepted submission is decided |
| **Task dispatch and recovery** (`mq/{producer,task-marker,sweeper,pending-recovery}.ts`) | judge queues, `:processing` lists, dispatch markers with TTLs, an in-memory first-seen clock | capacity push, claim, release, probe, sweep, recover pending, reconcile judging | several replicas sweep at once; markers that lie; lists read one by one | no task is lost, a marker never hides an attempt nobody will evaluate |
| **Result consumer** (`mq/consumer.ts`) | the message of a result in `:processing` | store, clear marker, dispatch the retry, acknowledge | failure after the commit, redelivery | at-least-once delivery becomes at-most-once effect |
| **Queue consumers and their sweep** (`shared/mq/base-consumer.ts`, `mq/sweeper.ts`) | a queue, its `:processing` and dead-letter lists, the first-seen table of each replica | connect, startup requeue, take, acknowledge, give back, bury, shut down, sweep | commands that are not atomic together, removal by value, a clock that forgets late | at-least-once delivery: no unhandled message is ever without a copy |
| **Judge loop** (`noj-judge/src/{mq.rs,main.rs,judge/retry.rs}`) | the message of each slot, `platform-retries` counters, fallback files | take, decline, evaluate, retry, report, acknowledge, replay | ambiguous push errors, death, drain | only judged attempts get verdicts, retry counter bounds the work |
| **Judge scheduling and leases** (`scheduling.rs`, `user_claim.rs`, `drain.rs`, `oi/resource_lease.rs`) | leases of task slots, memory, compile and run slots; requests and turns; user claims | acquire, resize, shrink, stage, release, claim, purge | lost replies, threads that outlive their evaluation, expiry, memory held while waiting for memory | one evaluation per user, capacity never exceeded by what runs, no task starves |
| **Rejudge and upgrade jobs** (`versioning/{rejudge-jobs,job-worker,dispatch-job-item,upgrade-jobs,job-attempt}.ts`) | jobs, items with owner and lease | create, claim, heartbeat, dispatch, back off, fail, refresh the job | expired leases, double dispatch | an item is dispatched by its lease's owner, a job ends when its items do |
| **Effective results and policies** (`versioning/{effective-policy,projection,submission-version}.ts`, `shared/versioning/effective-results.ts`, `query/services/rankings.ts`) | policies and pinned versions with revisions, the projection in each submission, revisions of scopes, the materialized ranking | apply a result, submit, set a policy, upgrade a pinned version, a batch of policies, read and refresh the ranking | transactions that lock rows one by one at READ COMMITTED; a ranking that time alone makes stale | the projection is what the policy in force selects, a trusted ranking is the one that would be computed, the lock order has no cycle |
| Self tests (`services/self-tests.ts`) | own table, cancel flag, same queues | create, cancel, finish | cancel races result | cancelled tests stay cancelled |
| Queue migrations (`mq/{legacy-judge-queue,pool-judge-queue}.ts`) | old and new lists, a lock | move messages | crash half way | no message lost |
| **LLM gateway** (`noj-llm-gateway/src/{provider-throttle,limits,billing}.ts`, `routes/llm.ts`) | per provider a queue with heartbeats and a sliding window of requests and tokens; counters per evaluation, user, problem and day | acquire, leave, reserve, release, answer, settle | concurrent calls between reservation and settlement, replicas that die in the queue, lost replies, midnight | the provider and the quotas get no more than they allow, no call waits for ever |
| **Contests** (`domains/contest`; in part) | times, weight in the global ranking, problems with pinned versions; frozen rankings | edit, delete; register, rank, freeze | editing and deleting during submissions and policy changes | submissions enter on the pinned version, the global ranking follows the end of a contest |
| Objective exercises (`domains/objective`) | attempts graded in core | submit, grade | – | a score matches its version |
| Content review (`domains/content-review`) | review queue | enqueue, claim, decide | claim expiry | every content is decided once |
| SSE event bus, rate limits (`shared/sse`, `shared/rate-limit`) | event log, sequence, fan-out; counters | append, replay, subscribe; count | gaps between replay and live events | no event is missed |
| Other domains (admin, catalog, community, gateway, identity, legal, messaging, observability, query, search, system) | single tables | request handlers | little beyond one transaction | – |
| `noj-ui`, `noj-cli`, `noj-lmcc-extension`, `noj-docs`, `noj-tests`, `scripts`, `deploy` | – | presentation, operations, tests | – | – |

How the core parts interact:

```
 API --- createSubmission ---> PostgreSQL <--- saveEvaluationResult --- consumer
  |                              ^   ^                                    ^  |
  | pushJudgeTask                |   | recover / reconcile                |  | retry
  v                              |   |                                    |  v dispatch
 judge queue + marker <----------+- sweeper -----> processing lists       |
  |  RPOPLPUSH                                                            |
  v                                                                       |
 judge slot --- evaluate --- report --> result queue ---------------------+
                    (fallback file, replayed when a judge starts)
```

`PROJECT.json` lists the hazards of this code at their lines, with the property
that would catch each.

## 2 Modules

| module | role |
|---|---|
| `EvaluationLedger` | abstract: a submission is opened once, evaluated in at most `MaxRetries + 1` rounds, decided once and for good (`LedgerSpec`), or until a rejudge opens it again (`RejudgedLedgerSpec`) |
| `Attempts` | the tables; each operator is one committed transaction. Every component of noj-core that touches an evaluation goes through these |
| `JudgePipeline` | EXTENDS `Attempts` with Redis, the threads of noj-core, the judge slots, crashes and lost replies |
| `ReliableConsumer` | consumers of one queue in every replica, and the sweep behind them, command by command |
| `JobLedger` | abstract: an item of a batch job is accepted once, ends once, succeeds only after an evaluation; the end of the last item reports the job as finished, nothing does before, and a report may be taken back |
| `RejudgeJobs` | EXTENDS `Attempts` with jobs, items, leases and the background worker |
| `JudgeScheduling` | leases, turns and user claims of the judges of one resource group, with the main loop and the evaluation around them |
| `LlmCalls` | slots of an LLM provider and quotas, and the requests that go through both |
| `EffectiveResults` | the transactions that decide which results count, lock by lock, and the ranking built on them |
| `MC...` | instances for TLC; the `.cfg` files give the constants. `MCJudgeTurns` adds a history variable |
| `AttemptsProofs`, `JudgePipelineProofs`, `ReliableConsumerProofs`, `RejudgeJobsProofs`, `JudgeSchedulingProofs`, `LlmCallsProofs`, `EffectiveResultsProofs` | the theorems |
| `SumFacts` | lemmas on least elements and on sums over finite sets, used by three of them |

Refinements: `JudgePipeline!Spec => EvaluationSpec => LedgerSpec`; `RejudgeJobs!Spec => AttemptsSpec => RejudgedLedgerSpec`;
`RejudgeJobs!Spec => JobLedgerSpec`. All are proved; those of the pipeline and of the jobs are checked by runs too. `Attempts` also stands
alone: `EvaluationNext` allows the transactions of submissions, results and automatic retries in every order, and `DbNext` adds the one that only batch jobs
run, a new attempt on a submission that was decided. What is proved of `AttemptsSpec` therefore does not depend on
who calls them, and both `JudgePipeline` and `RejudgeJobs` use the same operators.

How the modules fit together: `JudgePipeline` treats the delivery of a result as one take and one
acknowledgement with faults; `ReliableConsumer` is that delivery in detail. `RejudgeJobs` sees a pushed
attempt only by its result, which `JudgePipeline!EveryOneSettles` provides. `JudgePipeline` lets a
slot decline or evaluate a task at will; `JudgeScheduling` says when it does. `LlmCalls` is independent of all but the
revocation of tokens. `Attempts` takes a transaction as one step and stops at the current result per version; `EffectiveResults` opens up the
transactions that read these results, in which locks are taken one after the other, and lets a result arrive whenever `Attempts` allows one.

## 3 From the code to the model

`PROJECT.json` maps every definition to its lines. The main correspondences:

**Tables.** `sub` is a `submissions` row (`status`, `active` = active_attempt_id,
`run` = judge_run_id, `latest` = latest_attempt_id, `rejudgeSeq`), `att` an
`evaluation_attempts` row (`state`, sequence, auto-retry count, bound version),
`verdict[s][v]` the current attempt of `submission_version_results`, `outbox` a
`llm_token_revocations` row. `absent` is a row that does not exist. The
transactions lock the submission row `FOR UPDATE`, so one transaction is one
step. What the code read before the lock is not trusted by the model: the
guards are those that hold at the write (`Applies`).

Attempt ids are random UUIDs in the code. In the model the *n*-th attempt of
submission *s* is `<<s, n>>`; nothing compares ids for anything but equality.

**Redis.** `tasks` and `results` are lists with the head taken first (the code
pushes with LPUSH and takes with RPOPLPUSH; a requeue by RPUSH goes to the
head). A `:processing` list is only removed from by value (LREM), so it is the
number of copies of each message. What a task message says is named by its attempt, all
else being immutable columns of that attempt; but every build signs new URLs
and asks for new credentials, every evaluation measures anew, and LREM compares bytes.
`bytes` tells such messages apart. `marker` is the dispatch marker: none, `dispatching`
(60 s) or `queued` (24 h). The capacity script, the claim and each other script
or command is one step.

**Threads** (`thread[t]`) are handlers of any number of noj-core replicas: API requests, sweeper
rounds, result consumers. A thread has a program counter, the run it works on,
the status its row had when it was read (`mode`) and, for a consumer, its message. All local
state is what the code keeps in local variables across an `await`.

| code | actions |
|---|---|
| createSubmission | `CreateSubmission`, then `Push`, `MarkJudging` or `FailAttempt` |
| pushJudgeTask | `Push` (accepted, or full), `PushBreaks` (request or reply lost), `PushTooLarge` |
| the conditional update to judging | `MarkJudging`, `MarkFails` |
| recoverPendingSubmissions | `SelectPending`, `Claim`, `Look`, `Rebuild`, `Push`, `MarkJudging`, `Release`, `FailAttempt` |
| reconcileStaleJudgingSubmissions | `SelectStale`, `Probe`, `Scan` (one step per list), `Note`, then as above |
| sweepProcessingQueue | `SweepTask`, `SweepResult` |
| Redis TTL of markers | `ExpireMarker` |
| judge take, requeue_task, evaluate with retry_platform_error, push_result_with_retry, ack_task, replay_fallback_results | `TakeTask`, `Decline`, `Evaluate`, `Report`/`ReportUnheard`/`ReportFails`, `AckTask`, `Replay` |
| createConsumer and handleResultMessage | `TakeResult`, `SaveResult`, `ClearMarker`, `Redispatch` (and the dispatch actions), `AckResult`, `Requeue`, `Unlist` |
| attemptTokenRevocationNow, runPendingTokenRevocations | `Revoke` |

**Faults.** Actions with the conjunct `Fault` spend one unit of `MaxFaults`: a crash of
a noj-core thread or a judge slot at any step, a lost request or reply at any
network call, a push of a result that arrived but is repeated, a result that only
reaches the fallback file or not even that, a sweep before its time, a marker that expires while
its holder works. A judge slot declines a task for free while another slot is busy (memory, or
the same user); with no other slot busy it takes a dead slot's user claim, and is a fault. An early sweep happens in the code: the
sweeper's first-seen time of a message is kept when the message leaves the processing list,
and a startup requeue takes the messages of consumers that are already running.

**ReliableConsumer.** The queue is a sequence; `:processing` counts copies per message, since only LREM by value
and the sweep read it. `consumer[c].pc` names the await the consumer is at: `Connect`, `RequeueStale`/`RequeueDone` (the
startup requeue, bounded by `MAX_STALE_REQUEUE_PER_START`), `Take`, `HandlerReturns`/`HandlerThrows`,
`Acknowledge`, `GiveBack` in its two commands, `Bury` for malformed messages, `Exit`. `firstSeen[p]` is the sweeper's `_firstSeen`
as ages that saturate; `StartSweep` reads the list, `SweepOne` is the requeue script. `Crash` kills a replica with all its consumers and its table,
`Shutdown` stops consumers and is followed by `Exit`.

**RejudgeJobs.** `item` is a `submission_job_items` row (`live` is `lease_until > now`), `job` the status column,
`worker[w]` one round of the background worker with the item it claimed and the attempt it read. Every write of a worker is
conditional on `Holds` (status `preparing`, owner, live lease), as in the code; a failed condition is `Defer`. `refreshJobStatus`
runs in the same transaction as the write of the item (`Refresh`, and in `EndItemOf`), with one exception: `requeueExpiredLeases` at the start of a round gives
the items back in one statement and hands the root connection on, so that the count of the items and the update of each job are statements of their own
(`CountItems`, `WriteStatus`; its row lock ends with the statement that takes it). `round[w]` is what the round remembers between items: the jobs to refresh after it gave
leases back, the count it has just made, and later the jobs it claimed items of, whose status it refreshes at its end, each in a transaction (`CloseRound`).

| code | actions |
|---|---|
| acceptRejudgeJob, retryRejudgeJob | `Accept`, `Retry` |
| requeueExpiredLeases; the end of runSubmissionJobWorkerOnce | `RequeueExpired`, `CountItems`, `WriteStatus`; `CloseRound` |
| claimJobItems, renewJobItemLease | `Claim`, `Renew`, `Expire` |
| dispatchClaimedJobItem | `Look`, then `Reuse`/`FindBusy`/`Create`/`OverQuota` (ensureJobAttempt), `Push`/`PushRefused`, `MarkDispatched`, `MarkJudging` |
| completeJobItem, scheduleDispatchRetryOrFail, requeueJobItem | `Skip`, `Fail`, `BackOff`, `GiveBack` |
| the rest of the pipeline | `Recover`, `ResultGraded`, `ResultError`, `ResultRetry` |

**JudgeScheduling.** `lease` and `stageLease` are the entries of the group's hash, `request` and `score` the hash of requests and
the sorted set of turns: a member has score 0 once it asked for a stage, and a number above all others when it used its turn up; Redis takes the least score first, among equals the
least name. `Ranked` gives the scores that are left the numbers 1, 2, ..., since only their order is ever read. `Permitted` is the test of the ACQUIRE script, `Poll` one call of it for a stage, `Acquire` for a task. `eval[p]` is the
main loop and the evaluation that holds permit `p`; `stage[i]` is the thread of a compile or run stage, which holds its own lease
and that of its task (`StageLease`) until it ends, whatever became of the future that waits for it. Deletions sent from `Drop` and expiry are the
same action (`Release`, `ReleaseStage`, `Forget`, `Unclaim`): both happen some time after nobody holds the entry. A lease that is in use does not
expire in the model: the code notices a failed renewal after 15 s at most, and the entry lives 60 s.

| code | actions |
|---|---|
| next_pool_admission, try_task | `Acquire`, `AcquireUnheard` |
| try_pull_task_priority, try_resize_task, try_claim_user | `Pull`, `PullNothing`, `Resize`, `ResizeUnheard`, `Claim`, `ClaimUnheard` |
| requeue_task, retry_platform_error | `Requeue`, `FinishFailed` |
| shrink_base, Scheduler::stage, spawn_blocking | `Shrink`, `PollHeard`, `PollUnheard`, `StageEnds` |
| wait_lost, push_result and ack_task | `Abandon`, `Finish` |

**LlmCalls.** `rpm` and `tpm` are the two sorted sets of the window (their members always agree: one script adds, one removes, both
expire together), `recent` their order in time, so that `Expire` is the passing of time. `queue` is the sorted set of tickets, `stale` the waiters
whose heartbeat is older than five seconds. `meter` holds one counter per element of `Meter`; the code's 25 counters differ only in
what they count, their limit and their period, which `PerCall`, `Limit` and `Daily` say. `booked` and `late` are history: which calls a counter was charged for since it started, and which
were settled on it though they were charged before. The provider's answer is chosen when its slot is settled.

| code | actions |
|---|---|
| acquireProviderSlot | `Poll`, `PollUnheard` (fail-open), `Leave` |
| enforceAndCount | `Reserve`, `Refuse`, `ReserveUnheard`, then `Release` |
| fetch, releaseFailedReservation, settle of the slot | `Answer` |
| settleUsage | `SettleQuota` |

**EffectiveResults.** A transaction is the list of what it has still to do (`todo`): locks, which wait, and steps that read and compute. At READ COMMITTED a step reads
the committed tables and the writes of its own transaction (`writes`), which `Commit` publishes together; `Close` is any rollback. `row[s].shown` is the projection in a `submissions` row
(`is_valid`, `effective_attempt_id` and so on, both for the problem and for the contest, with the two revisions), `row[s].results` its `submission_version_results` with their attempts, `binding` is
`contest_problems`. `data` and `view` are the row `global` of `query_projection_revisions` and the materialized view it speaks of. Raising a revision is a row lock held to the commit, like any `UPDATE`.
Rows whose order no `ORDER BY` fixes are locked in every order. `now` is the database's clock; `tx[t].start` is `transaction_timestamp()`.

| code | actions |
|---|---|
| lockProjectionHosts, lockEffectivePolicyHosts, lockSubmissionRow, bumpProjectionRevision | the programs of `Programs(q)`, `Acquire`, `ReadContest` |
| applyAttemptResult (graded), recomputeSubmissionProjection | `applyAttemptResult` |
| createSubmission, resolveSubmissionVersion; deleteSubmission | `createSubmission`; `deleteSubmission` |
| setProblemEffectiveVersionPolicy, recomputeProblemProjections | `setProblemPolicy` |
| setContestProblemEffectiveVersionPolicy, upgradeContestProblemPinnedVersion, recomputeContestProblemProjections | `setContestPolicy` |
| acceptRejudgeJob (its policy changes) | both, in the order of `InOrder` |
| updateContest, deleteContest, conversion of problems to P | `updateContest`, `cascadeContest` and `Afterwards`, locks only |
| inspectRankingView, scheduleRankingsRefresh, refreshRankingsView | `Trusted`, `scheduleRankingsRefresh`, `tryRefresh` and `refreshRankingsView` |
| PostgreSQL | `Begin`, `Commit`, `DeadlockAbort`, `Crash`, `Tick` |

**Not written by the program.** The attempt states `judging` and `superseded` belong to
the schema's type, and `markAttemptStarted`, `supersedeAttempt` and
`updateSubmissionStatus` exist but have no caller; the model has no action for them.

## 4 Properties

Each is stated with a comment where it is defined.

- `ActiveConsistent`: a pending or judging submission has an active attempt; it
  is its newest, the only open one, and the one its envelope fields name. A
  settled submission has none.
- `SequencesOrdered`: sequences grow with the attempts and never exceed
  `rejudge_seq`, so a result's envelope names one attempt.
- `VerdictIsGraded`: a current verdict is a finished attempt of that submission
  and version (proved, not in a run).
- `WrittenOnce` (action property): a terminal attempt row never changes again,
  and a current verdict is only replaced by a newer attempt. It is checked in `rejudge_jobs`, where rejudges of decided
  submissions do replace verdicts.
- `RetryChain`: while nothing is rejudged, attempts form one chain in which every attempt but the last ended in
  a platform error, of at most `MaxRetries` retries.
- `LedgerSpec`, `EvaluationSpec`, `AttemptsSpec`: the refinements. `EvaluationSpec` is the tables without rejudges.
- `MarkerHonest`: a `queued` marker of an open attempt implies that Redis holds a task or a
  result of it. Without this a submission hangs for the 24 hours of the marker.
- `VerdictsWereReported`: an attempt is `finished` only after a judge reported a
  verdict on this very attempt.
- `EveryOneSettles`, `TokensRevoked` (liveness): an accepted submission gets a
  verdict or an error; the tokens of an ended attempt are revoked.
- `NoMessageAbandoned`: a message that was sent and not handled is in the queue, in `:processing`, or in the hands of a live consumer
  of it. `EveryMessageHandled` (liveness).
- `ItemHonest`: an item succeeded only with a verdict, a failed item leaves no attempt to be evaluated, an item counted as dispatched was pushed;
  results overtake the marks of the workers. `AttemptHasOneItem`: a result knows the item it ends. `JobHonest`: a job that is reported
  as finished is, and with failures exactly when it says so. `StatusFollows` (action property): a right status stays right, but for the late write of the refresh after expired
  leases. `JobLedgerSpec`: the refinement. `EveryItemEnds`, `EveryAttemptEnds` (liveness).
- `FinishedStays`: a finished job is never taken back; violated, see section 7.
- `OwnAttemptNotSkipped`: an item with an attempt is never skipped; violated, see section 7.
- `LeasesWithinCapacity`: entries never promise more memory or slots than there are, although tasks resize, shrink and
  lend their room to stages. `RunsWithinCapacity`: what really runs keeps within it, threads that outlive their evaluation included.
  `OneEvaluationPerUser`: two evaluations never have the same pool, kind and user. `EveryTaskEnds` (liveness): no memory deadlock, no
  starvation by dead entries, turns or claims.
- `RunSlotsRotate`: what the documentation says of run slots; violated, see section 7.
- `RatesKept`: in no window is more sent to a provider than its limits allow, by the estimates, one oversize call apart. `QuotaKept`: what the
  calls booked on a counter cost stays within its limit, but for answers longer than estimated and what calls of the day before give back.
  `EveryCallEnds` (liveness): waiting alone, without the time-out, brings a call to its turn.

- `GlobalProjectionCurrent`, `ContestProjectionCurrent`: what a row shows is what the policy in force selects from its results, under every interleaving of results, policy changes,
  edits and deletions; for contests, whenever the stored revision is that of the binding. `CreatedOnPinned`: a submission enters a contest on the version pinned at that moment.
  `NoLostPolicyChange`: the policy of a problem is only replaced by someone who saw it. `ViewHonest`: a ranking that readers trust is the one they would compute, ends of contests included.
  `LockOrder`: every cycle of waits contains a contest deletion or a conversion of problems, which lock rows in no fixed order; the others never make one by themselves.

Definitions marked `Mutant` in a comment are plausible mistakes (a
dropped guard, a lost message, an off-by-one). They are used by no specification; each
property of each run is known to fail when one replaces the original.

## 5 Runs, bounds and fairness

| run | instance | states | question |
|---|---|---|---|
| `pipeline_settles` | 1 submission, every result kind, judge retry, 1 fault, fair | 308 000 | does everything settle after any one fault, are tokens revoked, is only a reported verdict stored, and is each step one of the tables? |
| `retry_settles` | 1 retry in core, 1 in the judge, queue of 1, fair | 159 000 | do the two levels of retries end, is what a full queue refuses recovered, and do attempts, sequences and rounds keep their order? |
| `reliable_consumer` | 2 consumers, 1 malformed message, 2 faults, fair | 577 000 | is every message handled and none lost? |
| `consumer_loses` | 3 consumers, 2 faults | (violation) | the same with one consumer more |
| `rejudge_jobs` | 2 jobs on one source, 1 may upgrade, 2 overlapping rounds, 1 fault | 805 000 | do items, attempts and jobs agree, are verdicts only replaced by newer ones, is each step one of the tables? |
| `rejudge_settles` | 1 job with retries, 1 fault, fair | 33 000 | does every item and every attempt end? |
| `rejudge_reopened` | as `rejudge_jobs` | (violation) | is a finished job ever taken back? |
| `rejudge_skipped` | as `rejudge_jobs` | (violation) | is an item with an attempt ever skipped? |
| `judge_scheduling` | 2 tasks, 2 permits, 1 compile and 2 run slots, memory for one and a half, 1 fault, fair | 133 000 | is capacity kept, are users evaluated one at a time, does every task end? |
| `judge_turns` | 2 tasks of 4 cases, 2 run slots, no faults | (violation) | do run slots rotate? |
| `llm_calls` | 3 calls, one above the token limit, 2 replicas, 1 fault, 1 midnight, fair | 575 000 | are rates and quotas kept, does every call end? |
| `effective_results` | 3 submissions, 2 problems, 1 contest, 2 versions; any 3 of 13 requests, 2 transactions at a time, crashes | 2 409 000 | do projections follow the policies, is a trusted ranking right, is the lock order free of cycles? |

The transactions of `Attempts` are checked through the runs of the pipeline; without it they are the subject of the proofs.
Deadlock is checked except where everything may be over and nothing polls (`CHECK_DEADLOCK FALSE`): the jobs, the calls and the requests of `effective_results`. `Quiescent` is the
stuttering of a pipeline with nothing left to do: every submission settled, every thread and slot idle, the queues empty.

**Bounds.**
`MaxAttempt` bounds the attempts of a submission; it is larger than `MaxRetries`, so it
is never the bound that stops a retry. `MaxRetries` and `JudgeRetries` are settings of the
program (`platform_error_max_retries`, `MAX_PLATFORM_ERROR_RETRIES`); one retry already has an old
and a new attempt whose messages mix.
`MaxFaults` is 1 in most runs with faults: every action is tried with a fault once, in every
interleaving of the processes; a lost message needs two in `ReliableConsumer`. More faults in the pipeline are covered by the proofs, which hold for every
`MaxFaults`, except for liveness. The pipeline runs have one result consumer, where a replica has four by default
(`RESULT_CONSUMER_CONCURRENCY`, `consumer.ts:35`): with two the liveness run takes too long. What is safety does not rest on that: `EvaluationSpec`, `ActiveConsistent` and `VerdictsWereReported` are proved for any number.
`MarkerHonest` is the exception. A check of safety alone, with `Interchangeable` as symmetry, finds no violation with four consumers and one fault (192 000 states, no run of the project), nor with two consumers and two faults (1 400 000), but one with
three consumers and two faults: a consumer puts its message back, a sweep merges the copies, and the clean-up takes the copy of a sibling, the loss of `consumer_loses`. The theorem therefore has a hypothesis, see section 6.
`Capacity` is 1 where the full queue is the question. `Outcome` limits the results judges
come to where the kinds are not the question. `Oversized` names the
submissions whose task exceeds the 16 MB limit.
`Timeout`, `ForgetAfter` and `TableLimit` of the consumers are the smallest values in the order they have in the code, so that an entry
of the first-seen table is stale, forgotten and full within a run.
In the jobs, two overlapping rounds suffice for every takeover of an item, and two jobs for a source that somebody else evaluates; the liveness run has one job, because
the retries of its attempts multiply the states, and the safety run has no retries in turn (`MaxRetries` is 0: what a retry does to items and jobs is covered by the proofs). `MaxTries` is 1: the back-off is either left or not.
In `judge_scheduling` the memory lets both tasks in but only one stage of them at a time beyond what they reserved, one
task is sequential and one parallel, and the compile slot is shared; one judge runs both, since the leases, turns and claims are all in Redis
and a second judge (320 000 states) shows nothing else. The two slots of the run kind are one too many for a task alone and one too few for both.
`MaxRollovers` is one midnight, between any two steps of a call. Symmetry is used in safety runs of the jobs and of the transactions only.
In `effective_results` two transactions at a time make every conflict of two requests; a third request meets what the two left behind, or follows one of them while the other still runs; the refreshes and announcements that
follow a commit do not count. Crashes are not bounded, since each only takes a transaction away. The clock passes one end of a contest, which an edit may also move to the present. Two problems and two rows of one problem are the least for an order of locks; there is one contest, since
a batch locks several contests in the order of their IDs exactly as it does problems.

**Fairness** (`Fairness` in `JudgePipeline`). Weak fairness of the steps of a consumer, a
dispatching thread and a judge slot: their loops await one operation after the other and never block on each other.
Strong fairness for the selection of a row by the sweeper, since its rounds (every 30 s) visit every selectable row again and again while the
thread is busy with other rows in between. Weak fairness of the sweeping of an abandoned message, of the
expiry of an abandoned claim and of the token revocation worker, which are timers. There is no fairness for faults,
for new submissions, or for replaying fallback files, which happens only when a judge starts.
A push that meets a full queue is a `Push` step too, so fairness does not hide it.

Consumers, sweepers, restarts and time are weakly fair in `ReliableConsumer`; faults are not. In `RejudgeJobs` the steps of a round, the running out of a
lease and the result of a pushed attempt are. In `JudgeScheduling` weak fairness holds for each loop, each evaluation, each thread and,
per permit, the deletion or expiry of what nobody holds: these are loops that poll (25 to 100 ms), threads with an epoch limit, and TTLs. In `LlmCalls`
requests that are served go on (a waiter polls every second at least, the upstream has a time-out of 120 s), time passes, and heartbeats of the dead grow old; nothing makes a
waiter leave, so that the queue itself must let it through. `EffectiveResults` states safety only and no fairness: that a stale ranking is refreshed depends on readers, who may stay away.

## 6 Proofs

All theorems hold for every value of the constants that satisfies the named assumptions of their modules. `AttemptsAssumption`
and `PipelineAssumption` say: a finite set of submissions; `NoAttempt` is no attempt; numbers are naturals and the
capacity is positive; `MaxAttempt > MaxRetries`; the thread roles are disjoint. `JobsAssumption`: jobs may be any set, numbers are naturals, `NoItem` is no
item. `SchedulingAssumption`: finitely many permits, numbered; every pool has a slot; a stage needs memory, and no more than the headroom its task was admitted with.
`CallsAssumption`: finitely many calls, with tokens and limits that are numbers. `EffectiveAssumption`: problems and contests have numbers for IDs, there are finitely many rows and transactions,
any finite or infinite set of requests of the kinds the model lists.

**`AttemptsProofs`** — `AttemptsSpec => []TablesOK`. `ActiveConsistent` alone is not
inductive: a retry must get a sequence above every old one. `Numbered` adds what
this needs: attempts are numbered without gaps; sequences grow with the number and stay below
`rejudge_seq`. Each transaction, the attempts of rejudges included, has a lemma that it preserves
`TablesOK`. From it follow `ActiveAttemptConsistent`, `SequencesOrderAttempts`,
`VerdictsAreGraded`, the action property `ResultsAreWrittenOnce` (a verdict gives way to the active attempt, whose sequence is above all others) and
`TablesImplementLedger` (each transaction is a step of the ledger with reopening or leaves its variables alone). Of `EvaluationSpec`, which is `AttemptsSpec`
without rejudges, two more things are proved: `RetriesFormAChain`, with an invariant on retries and errors along the chain, and `EvaluationImplementsLedger`.

**`JudgePipelineProofs`** — first the types: `ThreadState` says which program counters
know a run or hold a result, which is what makes the type invariant `TypeCorrect` inductive. Then
each action is shown to be a transaction of `Attempts` or to leave the tables alone. Two steps need more than
types: a thread that marks judging must find a row the tables call pending or judging, and a
retry attempt to dispatch must exist. The result is
`PipelineImplementsAttempts`, through which every theorem of the tables becomes one of the pipeline
(`PipelineKeepsActiveConsistent`, `PipelineWritesOnce`, `PipelineImplementsLedger`).
`VerdictsComeFromJudges` needs an invariant of its own, `ReportsKnown`: every result that exists
anywhere, in a list, a processing list, a consumer, a slot about to acknowledge or a fallback file, was reported.

Its last theorem, `MarkersAreHonest`, needs another one. `Named`: whatever a queue, a judge, a thread or a marker speaks of has a row. `Honest`: a thread about to write a marker has seen a message, and a
judge acknowledges its task only with a result in a list. `MessagesOK`: a consumer past its transaction holds a result that no longer matters. The theorem is about any number of result consumers, and its
hypothesis `GivesBackAlone` is about states, not about their number: no consumer holds a result whose give-back another consumer is in the middle of. A replica has four consumers by default (`consumer.ts:35`), so the
code does not guarantee it: it takes a sweep and a sibling between two commands to break it, and section 5 says what happens then. Without such a state the markers are honest whatever else fails.

**`ReliableConsumerProofs`** — `ConsumerTypeCorrect`: the counts of `:processing` never go below zero, for any number of replicas,
consumers, messages and faults. For a queue with a single consumer (`OnlyConsumer`) and requeueOnError, `OneConsumerLosesNothing`: no message is lost. The inductive
invariant `SafeQueue` adds `Places`: a message in `:processing` or at work was sent, one to acknowledge was handled, and one given back and not yet cleaned up is in the
queue again. The hypothesis is needed: with three consumers the run `consumer_loses` violates it.

**`RejudgeJobsProofs`** — the inductive invariant `JobsInv` joins `TablesOK` of the tables, whose lemmas are cited for every transaction the jobs run, with the
types, `AttemptHasOneItem` and three parts. `ItemOK`: the attempt of an item exists, is open while the item is, and is `finished` or `error` when the item is
`succeeded` or `failed`; a dispatched item was pushed. `WorkerOK`: a worker that *holds* its item (`preparing`, owner, live lease) goes on with the attempt of that item. This is
what makes a late write of a worker harmless: whoever takes the item over, or a retry that moves it to a new attempt, ends the hold first. `JobOK`: a finished status is
what the items amount to, which says nothing of an unfinished one, since a late refresh can make that wrong. `RoundsOK` is the same for the counts that rounds remember: one that found the job finished stays true, because items that
ended never open again (`EndedStays`), so that writing it late cannot report too much. `ItemsAreHonest`, `ItemsOwnTheirAttempts`, `JobsAreHonest`, `JobsKeepActiveConsistent` and `JobsTypeCorrect` follow, and the action property `StatusesFollow`.
`JobsImplementLedger` proves the refinement: accepting, and retrying, a job is `AcceptJob`; creating an attempt for an item and the retry of one are `StartRound`; everything that
ends an item is `EndItem`, and reports the job with the last of them; a refresh of a job whose items are over is `Report`, which may also take the report back; the rest leaves what the ledger sees alone (the lemmas `Sees...` and `Quiet...`).
`JobsImplementAttempts` is the refinement of the tables; with `ResultsAreWrittenOnce` it gives `JobsWriteOnce`.

**`JudgeSchedulingProofs`** — `SchedulingInv`: beside the types, a permit in use knows its task and judge (`HasTask`); nobody takes the entry of a lease in use, or the lease under a running
thread (`LeasesHeld`); the claim of an evaluation is in Redis with its judge and its task until it ends (`ClaimsHeld`), which keeps `OneEvaluationPerUser`, since a key holds one claim and only a free one is taken; and the
entries of each kind, stages included, stay within its slots (`SlotsKept`), from which `ThreadsWithinCapacity` follows, since a thread that runs has an entry. The count of
entries is bounded by mapping a step's entries into those before it (`UsedLess`) or adding one. `LeasesKept` adds the memory: an entry only grows in a script that has just
counted all of them, and shrinking, dropping and expiry reserve no more than before. `SchedulingTypeCorrect` has the turns: scores are 0 or the ranks of fewer members than there are permits.

**`LlmCallsProofs`** — `LlmInv` is what makes `RatesKept` and `QuotaKept` inductive. `CallsOK`: until a call is sent nobody answers it. `WindowOK`: what was sent with a slot is still in the window, with
its estimate or with what it took, until the passing of time takes it out. `RateOK`: the slots of the window, at no more than their estimates, are within the limits, or there is one alone (the oversize call).
`BookedOK`: a call is booked once and settled once. `MetersOK`: what the calls booked on a counter stand for is no more than the counter and what calls of the day before gave back,
and what they may cost is within the limit and the same credit. The sums of `RatesKept` and `QuotaKept` range over sent calls and actual costs; each is bounded term by term by a sum of the invariant.

**`SumFacts`** — a sum over a finite set does not depend on the order it is taken in, depends on the values only, is monotone and grows by the value of an element that is added.
The definition of the fold is recursive; the facts are proved by the least counterexample, from the well-foundedness of numbers and of finite sets.

**`EffectiveResultsProofs`** — `IInv` says what the committed tables are between the transactions, and what each open transaction is about to write under the locks it holds.
`Exclusive`: locks that conflict are never held together (`TypeOK` follows). `BaseLocked`: a transaction that has computed something holds the locks of its hosts; `RowContestLocked`: it still holds the lock of the contest that
the row has, although the row was read before it was locked. The `...Ready` parts: the policies, bindings and projections that a transaction has written but not committed are what the policies in force select, where "in force" is what is
committed and what it wrote itself. Nobody else can change these inputs in the meantime, because each is written under a lock that conflicts with the one held: one lemma per step shows this for its own transaction, and one lemma per kind of commit for all the others.
`ProjectionsOK` is then `GlobalProjectionsCurrent` and `ContestProjectionsCurrent`. `ViewOK` and `BumpsOK` count the raises of `global`: whoever is about to change what the ranking reads holds the row lock of the revision and has a raise to publish, so a refresh
under that lock, or one that compared revisions, is never ahead; `ViewIsHonest` follows. The two action properties follow from `CreateReady` and from `SeenOK`.
Sorted enumerations of finite sets exist (`SortedEnumeration`), which is what the `CHOOSE` of `Ascending` and `InOrder` needs.

`LocksInOrder` adds `OrderInv`, on what a transaction holds and has still to lock. The order is problems by ID, contests by ID, submissions, revisions of problems, of contests, of everything (`Level`, `Precedes`). Not every transaction keeps it: a batch raises
revisions for one change and then locks the submissions of the next one. What all keep is that hosts come in order and before anything else (`InLine`), and that who locks a submission or a revision already holds the hosts of it (`Covered`). Requests for one row keep the order
to the end. A change, batch or edit therefore never waits for a submission or the revision of a host: the other one would have the same hosts locked (`NoRowWait`, `NoRevisionWait`). It waits for hosts or, at the end, for the revision of everything (`WaitsAtTheEnd`), and whoever waits wants something that comes before what the one it waits for wants (`WishesClimb`). In a finite set of transactions that
cannot go round. The run has two transactions at a time; the theorem has any number, with cycles of any length.

**Only model-checked**: `MarkerHonest` without its hypothesis, in `pipeline_settles` with one consumer, where that holds by itself (section 5 on more consumers); and the liveness properties. Liveness under
fairness, and ENABLED, are out of the reach of TLAPS. No module with theorems, nor any it
extends, has a RECURSIVE operator.

## 7 Where code and documentation disagree

**`consumer_loses` violates `NoMessageAbandoned`**: a consumer whose handler failed pushes its message back and removes a copy from
`:processing` in two commands (`base-consumer.ts:284-285`). A sweep and a sibling in between make it remove the sibling's copy; the sibling dies, and the
message is gone. The comment at `base-consumer.ts:282` promises at-least-once. Three consumers and two faults are needed.

**`rejudge_reopened` violates `FinishedStays`** in twelve steps: a round gives back an expired item (`requeueExpiredLeases`, called without executor at `dispatch-job-item.ts:887`) and hands the root connection to
`refreshJobStatus` (`job-worker.ts:804`), which takes a given executor for a transaction (`rejudge-jobs.ts:798-800`). The row lock, the count (line 805) and the update of the job (808-821) commit one by one. Another round takes the item and ends it after
the count: the job is `completed`, and the late update writes `queued` over it and erases `finished_at`. The comment at `rejudge-jobs.ts:789-792` asks for one transaction under the row lock, so that an old count “can no longer be written back”. Every other caller passes a transaction or none at all. A round that
claimed an item of the job and ends later repairs it; if the late write comes after that, no open item is left that would bring anybody back, and the job stays `queued`. `JobHonest` still holds: nothing is reported as finished that is not.

**`rejudge_skipped` violates `OwnAttemptNotSkipped`**: `dispatch-job-item.ts:271-281` compares the source's active attempt with the item's. The attempt of
an upgrade belongs to the copy, so an upgrade item that comes back after a full queue or a lost lease while its source is rejudged is skipped with
`SOURCE_JUDGING`; its copy is evaluated later without the item. `job-attempt.ts:136` says that a retry reuses attempt and copy.

**`judge_turns` violates `RunSlotsRotate`**: a poll for a run slot drops the turn of every submission without a request (`scheduling.rs:223`), and a submission
that runs its cases one after the other has none between two of them. It comes back with score 0 (line 224), ahead of the one that kept the turn it used up.
`judge-resource-pools.md:72` says that run slots rotate among the prepared submissions. `EveryTaskEnds` still holds: cases are finitely many.

Observations without a run:
- The update to `judging` after a push (`submissions-crud.ts:696-698`, `sweeper.ts:448-455`) names the submission and its status, not the attempt. When the first attempt has come to a transient error and its retry is stored before that update, the update marks
  the *retry* as judging although it is not queued. The retry dispatch and the pending sweep both require `pending`, so it waits for the judging reconciliation, after the full processing timeout; `consumer.ts:279-282` says that the submission stays
  pending and the sweeper recovers the retry after two minutes. `MarkJudging` does this in the model, and `retry_settles` shows that the submission still settles.
- `base-consumer.ts:67-68` says that the startup requeue runs once per process; the flag is checked at `:112` and set at `:133`, after awaits, so consumers that start together all run it.
- `dispatch-job-item.ts:678` has a branch that no state of the tables reaches.
- `main.rs:444`: a failed requeue of a task that does not fit ends the judge process with all its evaluations, where the same failure at line 491 is logged.
- `reset_group_config` in `scheduling.rs` deletes a key `:sequence`; the script counts turns in `:turn-sequence`.
- `user_claim.rs:5` and `main.rs:455-457` speak of one evaluation per user; the claim key contains pool and kind, so it is one per user, pool and kind, and `OneEvaluationPerUser` is stated so.
- `scheduling.rs:242` gives the counter of turns a TTL of its own, renewed when a turn is used up, while every poll renews that of the sorted set (line 224). After two minutes of polls without a turn the counter starts at 1 again, and the next
  turn used up sorts before older ones. The order of turns is a matter of fairness only.
- A claim whose reply is lost stays until its TTL (an hour by default) and blocks the user meanwhile (`ClaimUnheard`); `EveryTaskEnds` holds since it expires.
- `limits.ts:628`: `settleUsage` computes the day when it runs. A call that was reserved before midnight gives its difference to the counters of the new day, which then
  allow as much more (`late` in `QuotaKept`); the clamp at line 388 keeps them from going negative, and its `SET` drops the TTL of the key until the next reservation.
- `llm.ts:185` checks revocation before the queue only: a call that waits while its evaluation ends is still sent.
- `contests.ts:682-693`: `deleteContest` raises the revision `global` in a statement of its own after the deletion (the comment at :690-692 says at once). A process that dies in between leaves the ranking and the
  caches trusted although the submissions now count without a contest; the next result, submission or policy change repairs it. `ViewHonest` leaves out this interval (`unannounced`).
- `catalog.ts:421-427`: the conversion to P problems locks them `FOR UPDATE` without `ORDER BY`, where section 5.1 of `dev-docs/problem-version-management-handbook.md` asks for the order of IDs. With a batch over the same
  problems it can make a cycle; so can the cascade of a contest deletion with a policy change of a problem. PostgreSQL aborts one of the two and nothing is lost; `LockOrder` exempts exactly these two.
- `contests.ts:641-666`: a problem that is removed from a contest and added again starts with the policy that accepts every version and revision 0, and the projections stored before are not recomputed; only their
  `contest_policy_revision` tells them, and an `expected_revision` of the earlier binding may match again. `ContestProjectionCurrent` holds, since revision 0 always comes with that policy and every other is followed by a recomputation;
  but `contest-ranking.ts:379-395` ranks by the stored projection without comparing the revision, so a result that the earlier `exact` policy left out stays out of the
  ranking until its row is written again. Without the premise on the revision TLC refutes the property with four requests: a result, an `exact` policy of another version, an edit without the problem, an edit with it.
  The handbook says at line 31 that a change of policy takes effect with its commit.

## 8 What is not modelled

Pipeline: priorities and pools of the queues (one list; which task goes first is no matter of its properties); batch job items, which are in `RejudgeJobs`;
objective submissions; deletion of submissions; progress events and SSE; the clocks behind timeouts (a timeout is an action that may happen once nobody holds the message, or, as a fault,
earlier); the content of tasks, scores and reports.

Jobs: objective items, deleted sources, changes of policy, idempotency keys, permissions of upgrades, losing the task of a dispatched item when Redis loses data.

Scheduling: admission refused by RSS, the TTL of a request apart from that of its lease (they are the same length), the lock and reset of the group's configuration, the 4:2:1 levels within a pool,
cancellation by the user, the go-judge lease (`oi/resource_lease.rs`), a process frozen for longer than the TTL that wakes up and goes on.

LLM gateway: verification and revocation of tokens, the windows of the rate counters (a refusal is nondeterministic), cost counters, which are settled like token counters, usage records,
administration of providers.

Effective results: objective submissions, which take the same path; the publication of versions (`Latest` is fixed), the deletion and the other writers of problems and contests; the rankings of contests and the
caches keyed by the revisions of problems and contests; `start_time`; users, of whom the ranking is a sum over the submissions that `Standing` holds; the checks of the database, which only refuse what the code already refused.

The other components of section 1 are planned or left out as `PROJECT.json` says for each: the sandboxes, the UI, the CLI and most other domains have no protocol of their own worth a model. They
make up most of the repository's lines.

## 9 Plan

1. **Done.** `Attempts`, `EvaluationLedger`, `JudgePipeline`, `ReliableConsumer`, `RejudgeJobs`, `JobLedger`, `JudgeScheduling`, `LlmCalls` and `EffectiveResults`, with
   instances and proofs.
2. `SelfTests`: cancel against result.
3. Contest settlement, content review queue, SSE replay, queue migrations.
4. Further theorems: a bound on the losses of several consumers.
