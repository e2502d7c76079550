--------------------------- MODULE JudgeScheduling ---------------------------
(* Admission of evaluations by the judges of one resource group: leases on task
   slots, memory, compile and run slots, and the claim of a user.

   A step is one Redis script or the code between two awaits.  A lease that its
   holder drops or leaves behind goes by a command sent from Drop or by its
   expiry: some time later either way.  A lease in use is renewed; when that
   fails its evaluation is abandoned, in time: 15 s after the last renewal the
   holder knows, after 60 s the entry expires.                               *)
EXTENDS Integers, Sequences, FiniteSets, Functions

CONSTANTS
  Judge, NoJudge,   \* worker processes
  Task, NoTask,     \* messages of the task queues
  Pools,            \* settings.enabled, a sequence
  PoolOf, KeyOf,    \* pool of a task; pool, kind and user of its claim
  Cases,            \* run stages of a task; none if it is not judged in stages
  Sequential,       \* tasks scored by min or max: one case at a time
  Base, Headroom,   \* task_memory_reservation
  Data,             \* what is left of Base once the package is loaded
  CompileMemory, CaseMemory,
  Slots,            \* capacity of every kind of lease
  Budget,           \* memory_mb
  Permit,           \* bound: task leases there can be at a time
  JudgeRetries,     \* MAX_PLATFORM_ERROR_RETRIES
  MaxCases, MaxFaults   \* bounds: cases of a task, faults

Pool == Range(Pools)
Key == Range(KeyOf)
Stage == Permit \X (0..MaxCases)   \* 0 is the compile stage
Kind == Pool \cup {"compile", "run"}

ASSUME SchedulingAssumption ==
  /\ NoJudge \notin Judge /\ NoTask \notin Task
  /\ Pools \in Seq({"oi-wasm", "oi-native", "ai"}) /\ Pools # <<>>
  /\ PoolOf \in [Task -> Pool] /\ DOMAIN KeyOf = Task
  /\ Cases \in [Task -> 0..MaxCases] /\ Sequential \subseteq Task
  /\ Base \in [Task -> Nat] /\ Headroom \in [Task -> Nat] /\ Data \in [Task -> Nat]
  /\ CompileMemory \in Nat \ {0} /\ CaseMemory \in [Task -> Nat \ {0}]
  /\ \A t \in Task : Cases[t] > 0 => CompileMemory <= Headroom[t] /\ CaseMemory[t] <= Headroom[t]
  /\ Slots \in [Kind -> Nat \ {0}] /\ Budget \in Nat
  /\ IsFiniteSet(Permit) /\ Permit \subseteq Nat /\ MaxCases \in Nat
  /\ JudgeRetries \in Nat /\ MaxFaults \in Nat

VARIABLES
  \* Redis
  queue,     \* per pool, oldest first
  processing,
  done,      \* tasks whose result was pushed
  tries,     \* retries of a task after platform errors
  lease,     \* entries of task leases
  stageLease,  \* entries of stage leases: their memory, or 0
  request,   \* run stages in the requests hash
  score,     \* the sorted set of turns: the score of a parent, or NoScore
  claim,     \* active_users
  \* judges
  cursor,    \* pool_cursor
  eval,      \* the main loop and the evaluation around a permit
  stage,     \* threads
  faults

redis == <<queue, processing, done, tries, lease, stageLease, request, score, claim>>
turns == <<request, score>>
tasks == <<queue, processing, done, tries>>
vars == <<queue, processing, done, tries, lease, stageLease, request, score, claim,
          cursor, eval, stage, faults>>

NoLease == [pool |-> "none", base |-> 0, headroom |-> 0]
NoClaim == <<NoJudge, NoTask>>
NoScore == -1
Lease == [pool : Pool, base : Nat, headroom : Nat]
EvalPc == {"free", "pulling", "pulled", "admitted", "refused", "busy", "evaluating"}

TypeOK ==
  /\ queue \in [Pool -> Seq(Task)]
  /\ processing \subseteq Task /\ done \subseteq Task /\ tries \in [Task -> 0..JudgeRetries]
  /\ lease \in [Permit -> Lease \cup {NoLease}]
  /\ stageLease \in [Stage -> Nat]
  /\ request \subseteq Stage
  /\ score \in [Permit -> Nat \cup {NoScore}]
  /\ claim \in [Key -> (Judge \X Task) \cup {NoClaim}]
  /\ cursor \in [Judge -> 1..Len(Pools)]
  /\ eval \in [Permit -> [pc : EvalPc, judge : Judge \cup {NoJudge},
                          task : Task \cup {NoTask}, failed : BOOLEAN]]
  /\ stage \in [Stage -> {"todo", "running", "over", "error"}]
  /\ faults \in 0..MaxFaults

Free == [pc |-> "free", judge |-> NoJudge, task |-> NoTask, failed |-> FALSE]

Init ==
  /\ queue \in {q \in [Pool -> UNION {[1..n -> Task] : n \in 0..Cardinality(Task)}] :
                  \A l \in Pool : IsInjective(q[l]) /\ Range(q[l]) = {t \in Task : PoolOf[t] = l}}
  /\ processing = {} /\ done = {} /\ tries = [t \in Task |-> 0]
  /\ lease = [p \in Permit |-> NoLease] /\ stageLease = [i \in Stage |-> 0]
  /\ request = {} /\ score = [p \in Permit |-> NoScore]
  /\ claim = [k \in Key |-> NoClaim]
  /\ cursor = [j \in Judge |-> 1]
  /\ eval = [p \in Permit |-> Free]
  /\ stage = [i \in Stage |-> "todo"]
  /\ faults = 0

-----------------------------------------------------------------------------
(* ACQUIRE: the leases of task entries L and stage entries S *)

Fault == faults < MaxFaults /\ faults' = faults + 1

KindOf(i) == IF i[2] = 0 THEN "compile" ELSE "run"
Entries(L) == {p \in DOMAIN L : L[p] # NoLease}
StageEntries(S) == {i \in DOMAIN S : S[i] # 0}

Used(L, S, kind) ==
  IF kind \in Pool THEN Cardinality({p \in Entries(L) : L[p].pool = kind})
                   ELSE Cardinality({i \in StageEntries(S) : KindOf(i) = kind})

Larger(m, n) == IF m >= n THEN m ELSE n

\* Mutant: the stages count beside the room that is reserved for them.
ReservedTwice(L, S) ==
  SumFunction([p \in Permit |-> L[p].base + L[p].headroom]) + SumFunction(S)

\* A task reserves room for a stage; only what its stages use beyond it counts
\* on top.  Stages may outlive the entry of their task.
Reserved(L, S) ==
  LET children == [p \in Permit |-> SumFunctionOnSet(S, {i \in Stage : i[1] = p})] IN
  SumFunction([p \in Permit |-> L[p].base + Larger(L[p].headroom, children[p])])

\* Mutant: the slots are counted without the new entry.
PermittedLate(L, S) == /\ Reserved(L, S) <= Budget
                       /\ \A kind \in Kind : Used(L, S, kind) <= Slots[kind] + 1

Permitted(L, S) == /\ Reserved(L, S) <= Budget
                   /\ \A kind \in Kind : Used(L, S, kind) <= Slots[kind]

-----------------------------------------------------------------------------
(* Who holds what *)

Running(p) == {k \in 0..MaxCases : stage[<<p, k>>] = "running"}

\* The main loop, the evaluation, or threads it left hold the lease.
Held(p) == eval[p].pc \notin {"free", "busy"} \/ Running(p) # {}

\* A lease id that is not in use any more can stand for a new one.
Unused(p) ==
  /\ eval[p].pc = "free" /\ lease[p] = NoLease
  /\ \A k \in 0..MaxCases : stageLease[<<p, k>>] = 0 /\ stage[<<p, k>>] # "running"

Looping(j) == \E p \in Permit : eval[p].judge = j /\ eval[p].pc \notin {"free", "evaluating"}

Goto(p, pc) == eval' = [eval EXCEPT ![p].pc = pc]

\* The permit is dropped; the process of threads that go on is remembered.
Leave(p) ==
  /\ eval' = [eval EXCEPT ![p] = IF Running(p) = {} THEN Free
                                 ELSE [Free EXCEPT !.judge = eval[p].judge]]
  /\ stage' = [i \in Stage |-> IF i[1] = p /\ stage[i] # "running" THEN "todo" ELSE stage[i]]

Requeued(t) == queue' = [queue EXCEPT ![PoolOf[t]] = Append(@, t)]

-----------------------------------------------------------------------------
(* The main loop *)

NewLease(pool) == [pool |-> pool, base |-> 0, headroom |-> 0]

\* next_pool_admission: the pools that have a slot, from the cursor on.
Admissible(pool, p) == Permitted([lease EXCEPT ![p] = NewLease(pool)], stageLease)
Turn(j, n) == ((cursor[j] + n - 1) % Len(Pools)) + 1
FirstAdmissible(j, n, p) ==
  /\ Admissible(Pools[Turn(j, n)], p)
  /\ \A m \in 0..(n - 1) : ~Admissible(Pools[Turn(j, m)], p)

\* Mutant: the cursor runs over the end.
CursorPast(j, n) == Turn(j, n) + 1
CursorAfter(j, n) == (Turn(j, n) % Len(Pools)) + 1

\* A turn is numbered higher than all before (INCR); only the order matters,
\* and numbers are reused in the model.
Ranked(s) ==
  [p \in Permit |-> IF s[p] > 0 THEN Cardinality({q \in Permit : 0 < s[q] /\ s[q] <= s[p]})
                               ELSE s[p]]

\* The new lease starts without turn and requests.
AddLease(p, pool) ==
  /\ lease' = [lease EXCEPT ![p] = NewLease(pool)]
  /\ request' = {i \in request : i[1] # p}
  /\ score' = Ranked([score EXCEPT ![p] = NoScore])

Acquire(j, p) ==
  /\ ~Looping(j) /\ Unused(p)
  /\ \E n \in 0..(Len(Pools) - 1) :
       /\ FirstAdmissible(j, n, p)
       /\ cursor' = [cursor EXCEPT ![j] = CursorAfter(j, n)]
       /\ AddLease(p, Pools[Turn(j, n)])
  /\ eval' = [eval EXCEPT ![p] = [Free EXCEPT !.pc = "pulling", !.judge = j]]
  /\ UNCHANGED <<tasks, stageLease, claim, stage, faults>>

\* The entry is made, but its reply is lost or not waited for.
AcquireUnheard(p) ==
  /\ Unused(p) /\ Fault
  /\ \E pool \in Pool : Admissible(pool, p) /\ AddLease(p, pool)
  /\ UNCHANGED <<tasks, stageLease, claim, cursor, eval, stage>>

\* try_pull_task_priority; its three levels are one queue here.
Pull(p) ==
  LET waiting == queue[lease[p].pool] IN
  /\ eval[p].pc = "pulling" /\ waiting # <<>>
  /\ queue' = [queue EXCEPT ![lease[p].pool] = Tail(@)]
  /\ processing' = processing \cup {Head(waiting)}
  /\ eval' = [eval EXCEPT ![p].pc = "pulled", ![p].task = Head(waiting)]
  /\ UNCHANGED <<done, tries, lease, stageLease, turns, claim, cursor, stage, faults>>

PullNothing(p) ==
  /\ eval[p].pc = "pulling" /\ queue[lease[p].pool] = <<>>
  /\ Leave(p)
  /\ UNCHANGED <<redis, cursor, faults>>

\* try_resize_task.  A demand beyond the whole budget fails the task.
Resize(p) ==
  LET t == eval[p].task
      wanted == [lease EXCEPT ![p].base = Base[t], ![p].headroom = Headroom[t]]
      tooMuch == Base[t] + Headroom[t] > Budget
  IN
  /\ eval[p].pc = "pulled"
  /\ IF ~tooMuch /\ Permitted(wanted, stageLease) THEN lease' = wanted ELSE UNCHANGED lease
  /\ eval' = [eval EXCEPT ![p].failed = tooMuch,
                          ![p].pc = IF tooMuch \/ Permitted(wanted, stageLease)
                                    THEN "admitted" ELSE "refused"]
  /\ UNCHANGED <<tasks, stageLease, turns, claim, cursor, stage, faults>>

\* Its reply is lost, or the lease: the task fails.
ResizeUnheard(p) ==
  LET t == eval[p].task
      wanted == [lease EXCEPT ![p].base = Base[t], ![p].headroom = Headroom[t]]
  IN
  /\ eval[p].pc = "pulled" /\ Fault
  /\ \/ lease' = wanted /\ Permitted(wanted, stageLease)
     \/ UNCHANGED lease
  /\ eval' = [eval EXCEPT ![p].pc = "admitted", ![p].failed = TRUE]
  /\ UNCHANGED <<tasks, stageLease, turns, claim, cursor, stage>>

\* Mutant: somebody else's claim does not count.
ClaimableByAny(k) == TRUE
Claimable(k) == claim[k] = NoClaim

\* try_claim_user; a busy user's task goes back, its permit first.
Claim(p) ==
  LET k == KeyOf[eval[p].task] IN
  /\ eval[p].pc = "admitted"
  /\ IF Claimable(k)
       THEN claim' = [claim EXCEPT ![k] = <<eval[p].judge, eval[p].task>>] /\ Goto(p, "evaluating")
       ELSE Goto(p, "busy") /\ UNCHANGED claim
  /\ UNCHANGED <<tasks, lease, stageLease, turns, cursor, stage, faults>>

\* The reply is lost: the task goes back, and a claim it made stays.
ClaimUnheard(p) ==
  LET k == KeyOf[eval[p].task] IN
  /\ eval[p].pc = "admitted" /\ Claimable(k) /\ Fault
  /\ claim' = [claim EXCEPT ![k] = <<eval[p].judge, eval[p].task>>]
  /\ Goto(p, "busy")
  /\ UNCHANGED <<tasks, lease, stageLease, turns, cursor, stage>>

\* requeue_task, unless the sweeper has moved the message.
Requeue(p) ==
  LET t == eval[p].task IN
  /\ eval[p].pc \in {"refused", "busy"}
  /\ IF t \in processing THEN Requeued(t) ELSE UNCHANGED queue
  /\ processing' = processing \ {t}
  /\ Leave(p)
  /\ UNCHANGED <<done, tries, lease, stageLease, turns, claim, cursor, faults>>

-----------------------------------------------------------------------------
(* The evaluation *)

Evaluating(p) == eval[p].pc = "evaluating" /\ ~eval[p].failed

\* adjust_data_memory.
Shrink(p) ==
  /\ Evaluating(p) /\ Cases[eval[p].task] > 0
  /\ lease[p].base > Data[eval[p].task]
  /\ lease' = [lease EXCEPT ![p].base = Data[eval[p].task]]
  /\ UNCHANGED <<tasks, stageLease, turns, claim, cursor, eval, stage, faults>>

\* The stage is waited for: the compile stage once the package is loaded, the
\* cases after it, one by one or as many as there are run slots.
Ready(i) ==
  LET p == i[1]
      t == eval[p].task
  IN
  /\ Evaluating(p) /\ Cases[t] > 0 /\ i[2] <= Cases[t] /\ stage[i] = "todo"
  /\ lease[p].base <= Data[t]
  /\ i[2] > 0 => stage[<<p, 0>>] = "over"
  /\ \A k \in 1..(i[2] - 1) : stage[<<p, k>>] # "todo"
  /\ IF t \in Sequential THEN Running(p) = {} ELSE Cardinality(Running(p)) < Slots["run"]

StageMemory(i) == IF i[2] = 0 THEN CompileMemory ELSE CaseMemory[eval[i[1]].task]
WithStage(i) == [stageLease EXCEPT ![i] = StageMemory(i)]

\* Requests and turns as a poll for run stage i finds them, its own included.
Requests(i) == {r \in request : lease[r[1]] # NoLease} \cup {i}
Live(i) == {r[1] : r \in Requests(i)}
Score(i) ==
  [p \in Permit |-> IF p \notin Live(i) THEN NoScore
                   ELSE IF p = i[1] /\ score[p] = NoScore THEN 0 ELSE score[p]]

\* The least score comes first; parents of equal score by name.
First(i) ==
  \A p \in Permit : Score(i)[p] # NoScore =>
    \/ Score(i)[i[1]] < Score(i)[p]
    \/ Score(i)[i[1]] = Score(i)[p] /\ i[1] <= p

\* The turn is used up by a grant, or when only the memory does not suffice.
UsesTurn(i) ==
  First(i) /\ (Permitted(lease, WithStage(i)) \/ Used(lease, WithStage(i), "run") <= Slots["run"])

TakeTurn(i) ==
  score' = Ranked(IF UsesTurn(i) THEN [Score(i) EXCEPT ![i[1]] = Cardinality(Permit) + 1]
                                 ELSE Score(i))

Granted(i) == Permitted(lease, WithStage(i)) /\ (KindOf(i) = "run" => First(i))

\* One poll of Scheduler::stage.
Poll(i) ==
  /\ Ready(i)
  /\ IF KindOf(i) = "run" THEN TakeTurn(i) ELSE UNCHANGED score
  /\ IF Granted(i) THEN stageLease' = WithStage(i) ELSE UNCHANGED stageLease
  /\ request' = IF KindOf(i) # "run" THEN request
                ELSE IF Granted(i) THEN Requests(i) \ {i} ELSE Requests(i)
  /\ UNCHANGED <<tasks, lease, claim, cursor>>

PollHeard(i) ==
  /\ Poll(i)
  /\ stage' = IF Granted(i) THEN [stage EXCEPT ![i] = "running"] ELSE stage
  /\ UNCHANGED <<eval, faults>>

\* The reply of a grant is lost: the stage fails, and its evaluation, but cases
\* that run in parallel are finished first.
PollUnheard(i) ==
  LET atOnce == i[2] = 0 \/ eval[i[1]].task \in Sequential IN
  /\ Poll(i) /\ Granted(i) /\ Fault
  /\ stage' = [stage EXCEPT ![i] = "error"]
  /\ eval' = [eval EXCEPT ![i[1]].failed = atOnce]

\* A thread ends.  It may decide the verdict: the program does not compile, or
\* no case can change the score of a min or max any more.
StageEnds(i) ==
  LET p == i[1] IN
  /\ stage[i] = "running"
  /\ IF eval[p].pc = "evaluating"
       THEN \E decided \in BOOLEAN :
              /\ decided => i[2] = 0 \/ eval[p].task \in Sequential
              /\ stage' = [k \in Stage |-> IF k = i \/ (decided /\ k[1] = p)
                                          THEN "over" ELSE stage[k]]
       ELSE stage' = [stage EXCEPT ![i] = "todo"]
  /\ UNCHANGED <<redis, cursor, eval, faults>>

\* A renewal fails, or the watchdog fires: the future is dropped, its
\* threads go on until they notice.
Abandon(p) ==
  /\ Evaluating(p) /\ Fault
  /\ eval' = [eval EXCEPT ![p].failed = TRUE]
  /\ UNCHANGED <<redis, cursor, stage>>

\* The verdict is pushed.
Finish(p) ==
  LET t == eval[p].task IN
  /\ Evaluating(p)
  /\ Cases[t] > 0 => \A k \in 0..Cases[t] : stage[<<p, k>>] = "over"
  /\ processing' = processing \ {t} /\ done' = done \cup {t}
  /\ Leave(p)
  /\ UNCHANGED <<queue, tries, lease, stageLease, turns, claim, cursor, faults>>

Failed(p) ==
  \/ eval[p].failed
  \/ /\ \A k \in 0..Cases[eval[p].task] : stage[<<p, k>>] \in {"over", "error"}
     /\ \E k \in 0..MaxCases : stage[<<p, k>>] = "error"

\* retry_platform_error: again, or the error is pushed when no try is left.
\* Nothing happens to a task that the sweeper has moved.
FinishFailed(p) ==
  LET t == eval[p].task
      again == t \in processing /\ tries[t] < JudgeRetries
  IN
  /\ eval[p].pc = "evaluating" /\ Failed(p)
  /\ processing' = processing \ {t}
  /\ IF again THEN Requeued(t) /\ tries' = [tries EXCEPT ![t] = @ + 1]
              ELSE UNCHANGED <<queue, tries>>
  /\ done' = IF t \in processing /\ ~again THEN done \cup {t} ELSE done
  /\ Leave(p)
  /\ UNCHANGED <<lease, stageLease, turns, claim, cursor, faults>>

-----------------------------------------------------------------------------
(* What is left behind *)

\* HDEL from Drop, or expiry.
Release(p) ==
  /\ lease[p] # NoLease /\ ~Held(p)
  /\ lease' = [lease EXCEPT ![p] = NoLease]
  /\ UNCHANGED <<tasks, stageLease, turns, claim, cursor, eval, stage, faults>>

\* Mutant: the lease goes with the future that waits for the thread.
HeldByFuture(i) == stage[i] = "running" /\ Evaluating(i[1])
HeldByThread(i) == stage[i] = "running"

ReleaseStage(i) ==
  /\ stageLease[i] # 0 /\ ~HeldByThread(i)
  /\ stageLease' = [stageLease EXCEPT ![i] = 0]
  /\ UNCHANGED <<tasks, lease, turns, claim, cursor, eval, stage, faults>>

\* HDEL from WaitingRequest, or expiry.
Forget(i) ==
  /\ i \in request /\ ~Ready(i)
  /\ request' = request \ {i}
  /\ UNCHANGED <<tasks, lease, stageLease, score, claim, cursor, eval, stage, faults>>

Claims(p, k) ==
  eval[p].pc = "evaluating" /\ KeyOf[eval[p].task] = k /\ claim[k] = <<eval[p].judge, eval[p].task>>

\* release_user, purge_instance_claims, or expiry.
Unclaim(k) ==
  /\ claim[k] # NoClaim /\ \A p \in Permit : ~Claims(p, k)
  /\ claim' = [claim EXCEPT ![k] = NoClaim]
  /\ UNCHANGED <<tasks, lease, stageLease, turns, cursor, eval, stage, faults>>

\* The process dies, with its threads.
Crash(j) ==
  /\ Fault
  /\ \E p \in Permit : eval[p].judge = j
  /\ eval' = [p \in Permit |-> IF eval[p].judge = j THEN Free ELSE eval[p]]
  /\ stage' = [i \in Stage |-> IF eval[i[1]].judge = j THEN "todo" ELSE stage[i]]
  /\ cursor' = [cursor EXCEPT ![j] = 1]
  /\ UNCHANGED redis

\* The sweeper puts back what has been processed for long.
Recover(t) ==
  /\ t \in processing
  /\ IF \E p \in Permit : eval[p].task = t THEN Fault ELSE UNCHANGED faults
  /\ processing' = processing \ {t}
  /\ Requeued(t)
  /\ UNCHANGED <<done, tries, lease, stageLease, turns, claim, cursor, eval, stage>>

-----------------------------------------------------------------------------
LoopStep(j) ==
  \E p \in Permit :
    \/ Acquire(j, p)
    \/ /\ eval[p].judge = j
       /\ Pull(p) \/ PullNothing(p) \/ Resize(p) \/ Claim(p) \/ Requeue(p)

EvaluationStep(p) ==
  \/ Shrink(p) \/ Finish(p) \/ FinishFailed(p)
  \/ \E k \in 0..MaxCases : PollHeard(<<p, k>>)

Cleanup ==
  \/ \E p \in Permit : Release(p)
  \/ \E i \in Stage : ReleaseStage(i) \/ Forget(i)
  \/ \E k \in Key : Unclaim(k)

Next ==
  \/ \E j \in Judge : LoopStep(j) \/ Crash(j)
  \/ \E p \in Permit : EvaluationStep(p) \/ AcquireUnheard(p) \/ ResizeUnheard(p) \/ ClaimUnheard(p)
                       \/ Abandon(p)
  \/ \E i \in Stage : PollUnheard(i) \/ StageEnds(i)
  \/ Cleanup
  \/ \E t \in Task : Recover(t)

Spec == Init /\ [][Next]_vars

\* Loops, polls, threads, deletions, expiry and the sweeper go on.
Fairness ==
  /\ \A j \in Judge : WF_vars(LoopStep(j))
  /\ WF_vars(\E i \in Stage : StageEnds(i))
  /\ \A p \in Permit :
       /\ WF_vars(EvaluationStep(p))
       /\ WF_vars(Release(p))
       /\ WF_vars(\E k \in 0..MaxCases : ReleaseStage(<<p, k>>) \/ Forget(<<p, k>>))
  /\ WF_vars(\E k \in Key : Unclaim(k))
  /\ WF_vars(\E t \in Task : Recover(t))

FairSpec == Spec /\ Fairness

-----------------------------------------------------------------------------
(* Properties *)

\* The entries never promise more than the group has.
LeasesWithinCapacity ==
  /\ Reserved(lease, stageLease) <= Budget
  /\ \A kind \in Kind : Used(lease, stageLease, kind) <= Slots[kind]

\* What really runs stays within it too, threads that outlive their evaluation
\* included (judge-resource-pools.md:58).
RunsWithinCapacity ==
  /\ \A i \in Stage : stage[i] = "running" => stageLease[i] # 0 /\ lease[i[1]] # NoLease
  /\ \A kind \in {"compile", "run"} :
       Cardinality({i \in Stage : stage[i] = "running" /\ KindOf(i) = kind}) <= Slots[kind]

\* At most one evaluation per user, pool and kind.
OneEvaluationPerUser ==
  \A p, q \in Permit :
    eval[p].pc = "evaluating" /\ eval[q].pc = "evaluating" /\ p # q
      => KeyOf[eval[p].task] # KeyOf[eval[q].task]

\* Every task is evaluated in the end.
EveryTaskEnds == \A t \in Task : <>(t \in done)
=============================================================================
