------------------------- MODULE RejudgeJobsProofs -------------------------
(* What holds of the batch jobs for any number of jobs, submissions, workers,
   tries and faults: items, their attempts and the status of their job agree,
   and no two items share an attempt.  What it rests on is that a worker only
   writes under a live lease of its own, whose item then has the attempt the
   worker goes on with, that a result ends the item with its attempt, and that
   what has ended stays as it is, so that a count of items that were all over is
   true whenever it is written.                                              *)
EXTENDS RejudgeJobs, AttemptsProofs

ItemOK(i) ==
  LET a == item[i].attempt IN
  /\ a # NoAttempt => Exists(a)
  /\ item[i].status = "absent" => a = NoAttempt
  /\ item[i].status = "succeeded" => a # NoAttempt /\ att[a].state = "finished"
  /\ item[i].status = "failed" /\ a # NoAttempt => att[a].state = "error"
  /\ item[i].status = "dispatched" => a \in pushed
  /\ IsOpen(i) /\ a # NoAttempt => Open(a)

\* While it holds its item, a worker goes on with the attempt of the item.
WorkerOK(w) ==
  /\ worker[w].pc # "idle" => worker[w].item \in Item
  /\ worker[w].pc \in {"renewing", "pushing", "marking", "updating"} => worker[w].attempt \in AttemptId
  /\ worker[w].pc = "marking" => worker[w].attempt \in pushed
  /\ worker[w].pc \in {"renewing", "pushing", "marking"} /\ Holds(w)
       => item[Mine(w)].attempt = worker[w].attempt

\* A finished status is true, others may be out of date; a job has items, and only
\* a job has.
JobOK(j) ==
  /\ job[j] \in FinishedState => job[j] = StatusOf(j, item)
  /\ job[j] = "absent" => \A i \in Item : i[1] = j => item[i].status = "absent"
  /\ job[j] # "absent" => /\ request[j].version \in Version
                          /\ \E i \in Item : i[1] = j /\ item[i].status # "absent"

\* The jobs of a round exist, and a count that found them finished is still true
\* when it is written: other counts may be out of date.
RoundOK(w) ==
  /\ \A j \in round[w].jobs : job[j] # "absent"
  /\ \A count \in round[w].counted :
       /\ job[count[1]] # "absent" /\ count[2] # "absent"
       /\ count[2] \in FinishedState => count[2] = StatusOf(count[1], item)
RoundsOK == round \in [Worker -> RoundRow] /\ \A w \in Worker : RoundOK(w)

JobsInv ==
  /\ TablesOK /\ JobTypeOK
  /\ \A i \in Item : ItemOK(i)
  /\ \A w \in Worker : WorkerOK(w)
  /\ \A j \in Job : JobOK(j)
  /\ AttemptHasOneItem

-----------------------------------------------------------------------------
(* The status of a job, and what leaves it as it is *)

Has(j, items, status) == \E i \in Item : i[1] = j /\ items[i].status = status

LEMMA StatusFacts ==
  ASSUME NEW j, NEW items
  PROVE  StatusOf(j, items) =
           IF Has(j, items, "dispatched") THEN "running"
           ELSE IF Has(j, items, "pending") \/ Has(j, items, "preparing") THEN "queued"
           ELSE IF Has(j, items, "failed") THEN "completed_with_errors" ELSE "completed"
<1> DEFINE statuses == {items[i].status : i \in {k \in Item : k[1] = j}}
<1>1. \A x : x \in statuses <=> Has(j, items, x)
  BY DEF Has
<1>2. statuses \cap OpenStatus = {} <=>
        ~Has(j, items, "dispatched") /\ ~Has(j, items, "pending") /\ ~Has(j, items, "preparing")
  <2>1. statuses \cap OpenStatus = {} <=>
          "dispatched" \notin statuses /\ "pending" \notin statuses /\ "preparing" \notin statuses
    BY DEF OpenStatus
  <2> QED
    BY <1>1, <2>1
<1>3. StatusOf(j, items) =
        CASE "dispatched" \in statuses -> "running"
          [] "dispatched" \notin statuses /\ statuses \cap OpenStatus # {} -> "queued"
          [] statuses \cap OpenStatus = {} /\ "failed" \in statuses -> "completed_with_errors"
          [] OTHER -> "completed"
  BY DEF StatusOf
<1> HIDE DEF statuses
<1>4. CASE Has(j, items, "dispatched")
  BY <1>1, <1>2, <1>3, <1>4
<1>5. CASE ~Has(j, items, "dispatched") /\ (Has(j, items, "pending") \/ Has(j, items, "preparing"))
  BY <1>1, <1>2, <1>3, <1>5
<1>6. CASE /\ ~Has(j, items, "dispatched")
           /\ ~Has(j, items, "pending") /\ ~Has(j, items, "preparing")
  BY <1>1, <1>2, <1>3, <1>6
<1> QED
  BY <1>4, <1>5, <1>6

LEMMA StatusIsState ==
  ASSUME NEW j, NEW items
  PROVE  StatusOf(j, items) \in JobState /\ StatusOf(j, items) # "absent"
  BY StatusFacts DEF JobState, FinishedState

\* An item that waits or is prepared counts the same.
SameClass(i) ==
  \/ item'[i].status = item[i].status
  \/ item'[i].status \in {"pending", "preparing"} /\ item[i].status \in {"pending", "preparing"}

LEMMA StatusKept ==
  ASSUME NEW j, \A i \in Item : i[1] = j => SameClass(i)
  PROVE  StatusOf(j, item') = StatusOf(j, item)
<1>1. /\ Has(j, item', "dispatched") <=> Has(j, item, "dispatched")
      /\ Has(j, item', "failed") <=> Has(j, item, "failed")
      /\ Has(j, item', "pending") \/ Has(j, item', "preparing")
           <=> Has(j, item, "pending") \/ Has(j, item, "preparing")
  BY DEF Has, SameClass
<1> QED
  BY <1>1, StatusFacts

\* What all steps but the late write of a count do to the status of a job: they
\* leave what it is made of alone, or they make it anew.
Follows(j) ==
  \/ /\ job'[j] = job[j] /\ request'[j] = request[j]
     /\ \A i \in Item : i[1] = j => SameClass(i)
  \/ /\ job'[j] = StatusOf(j, item') /\ request'[j].version \in Version
     /\ \E i \in Item : i[1] = j /\ item'[i].status # "absent"
Followed == \A j \in Job : Follows(j)

LEMMA JobFollows ==
  ASSUME NEW j \in Job, JobOK(j), Follows(j)
  PROVE  JobOK(j)' /\ (UpToDate(j) => UpToDate(j)')
<1>1. CASE /\ job'[j] = job[j] /\ request'[j] = request[j]
           /\ \A i \in Item : i[1] = j => SameClass(i)
  <2>1. StatusOf(j, item') = StatusOf(j, item)
    BY <1>1, StatusKept
  <2>2. \A i \in Item : i[1] = j => (item'[i].status = "absent" <=> item[i].status = "absent")
    BY <1>1 DEF SameClass
  <2> QED
    BY <1>1, <2>1, <2>2 DEF JobOK, UpToDate
<1>2. CASE /\ job'[j] = StatusOf(j, item') /\ request'[j].version \in Version
           /\ \E i \in Item : i[1] = j /\ item'[i].status # "absent"
  BY <1>2, StatusIsState DEF JobOK, UpToDate
<1> QED
  BY <1>1, <1>2 DEF Follows

LEMMA JobKept ==
  ASSUME NEW j \in Job, job'[j] = job[j], request'[j] = request[j],
         \A i \in Item : i[1] = j => SameClass(i)
  PROVE  Follows(j)
  BY DEF Follows

LEMMA JobRefreshed ==
  ASSUME NEW j \in Job, job'[j] = StatusOf(j, item'), request'[j].version \in Version,
         NEW i \in Item, i[1] = j, item'[i].status # "absent"
  PROVE  Follows(j)
  BY DEF Follows

LEMMA OpenItemOfJob ==
  ASSUME JobsInv, NEW i \in Item, IsOpen(i)
  PROVE  /\ i[1] \in Job /\ job[i[1]] # "absent" /\ item[i].status # "absent"
         /\ request[i[1]].version \in Version
  BY DEF JobsInv, JobOK, IsOpen, OpenStatus, Item

-----------------------------------------------------------------------------
(* What leaves items and workers as they are *)

WorkerState == [pc : WorkerPc, item : Item \cup {NoItem}, attempt : Ref]

LEMMA FaultBudget ==
  ASSUME JobTypeOK, Fault \/ UNCHANGED faults
  PROVE  faults' \in 0..MaxFaults
  BY JobsAssumption DEF JobTypeOK, Fault

LEMMA ItemKept ==
  ASSUME NEW i \in Item, ItemOK(i), item'[i] = item[i], pushed \subseteq pushed',
         item[i].attempt # NoAttempt => att'[item[i].attempt] = att[item[i].attempt]
  PROVE  ItemOK(i)'
  BY DEF ItemOK, IsOpen, OpenStatus, Open, Exists, Terminal

LEMMA ItemMoved ==
  ASSUME NEW i \in Item, ItemOK(i), item'[i].attempt = item[i].attempt, UNCHANGED <<att, pushed>>,
         item[i].status \in {"pending", "preparing"}, item'[i].status \in {"pending", "preparing"}
  PROVE  ItemOK(i)' /\ SameClass(i)
  BY DEF ItemOK, IsOpen, OpenStatus, Open, Exists, Terminal, SameClass

LEMMA WorkerKept ==
  ASSUME NEW u \in Worker, WorkerOK(u), worker'[u] = worker[u], pushed \subseteq pushed',
         worker[u].pc # "idle" => LET i == worker[u].item IN
           item'[i].status = "preparing" /\ item'[i].live /\ item'[i].owner = u
             => item[i].status = "preparing" /\ item[i].live /\ item[i].owner = u
                  /\ item'[i].attempt = item[i].attempt
  PROVE  WorkerOK(u)'
  BY DEF WorkerOK, Holds, Mine

LEMMA OneItemKept ==
  ASSUME AttemptHasOneItem, \A i \in Item : item'[i].attempt \in {item[i].attempt, NoAttempt}
  PROVE  AttemptHasOneItem'
  BY DEF AttemptHasOneItem

LEMMA GotoFields ==
  ASSUME JobTypeOK, NEW w \in Worker, NEW pc \in WorkerPc, Goto(w, pc)
  PROVE  /\ worker' \in [Worker -> WorkerState]
         /\ worker'[w].pc = pc /\ worker'[w].item = worker[w].item
         /\ worker'[w].attempt = worker[w].attempt
         /\ \A u \in Worker : u # w => worker'[u] = worker[u]
<1>1. worker \in [Worker -> WorkerState]
  BY DEF JobTypeOK, WorkerState
<1>2. worker[w] \in WorkerState
  BY <1>1
<1>3. /\ [worker[w] EXCEPT !.pc = pc] \in WorkerState
      /\ [worker[w] EXCEPT !.pc = pc].pc = pc
      /\ [worker[w] EXCEPT !.pc = pc].item = worker[w].item
      /\ [worker[w] EXCEPT !.pc = pc].attempt = worker[w].attempt
  BY <1>2 DEF WorkerState
<1>4. worker' = [worker EXCEPT ![w] = [worker[w] EXCEPT !.pc = pc]]
  BY DEF Goto
<1> QED
  BY <1>1, <1>3, <1>4

LEMMA RestFields ==
  ASSUME JobTypeOK, NEW w \in Worker, Rest(w)
  PROVE  /\ worker' \in [Worker -> WorkerState]
         /\ worker'[w].pc = "idle"
         /\ \A u \in Worker : u # w => worker'[u] = worker[u]
<1>1. Idle \in WorkerState /\ Idle.pc = "idle"
  BY DEF Idle, WorkerState, WorkerPc, Ref
<1> QED
  BY <1>1 DEF JobTypeOK, WorkerState, Rest

LEMMA IdleOK ==
  ASSUME NEW w \in Worker, worker'[w].pc = "idle"
  PROVE  WorkerOK(w)'
  BY DEF WorkerOK

\* Steps that only concern the worker itself, and maybe the queue.
LEMMA WorkerOnlyKeeps ==
  ASSUME JobsInv, NEW w \in Worker,
         UNCHANGED <<dbVars, item, request, job>>, Fault \/ UNCHANGED faults,
         pushed \subseteq pushed', pushed' \subseteq AttemptId,
         worker' \in [Worker -> WorkerState],
         \A u \in Worker : u # w => worker'[u] = worker[u],
         WorkerOK(w)'
  PROVE  JobsInv' /\ Followed
<1> USE DEF JobsInv
<1>1. TablesOK'
  BY TablesStep
<1>2. JobTypeOK'
  BY <1>1, FaultBudget DEF JobTypeOK, TablesOK, WorkerState
<1>3. \A i \in Item : ItemOK(i)'
  BY ItemKept DEF dbVars
<1>4. \A u \in Worker : WorkerOK(u)'
  BY WorkerKept
<1>5. Followed
  BY JobKept DEF SameClass, Followed
<1>6. AttemptHasOneItem'
  BY OneItemKept
<1> QED
  BY <1>1, <1>2, <1>3, <1>4, <1>5, <1>6, JobFollows DEF Followed

-----------------------------------------------------------------------------
(* The steps of a worker that leave the tables alone *)

\* A worker goes to a program point that asks for nothing new.
LEMMA GotoKeeps ==
  ASSUME JobsInv, NEW w \in Worker, NEW pc \in WorkerPc, Goto(w, pc),
         worker[w].pc # "idle",
         UNCHANGED <<dbVars, item, request, job>>, Fault \/ UNCHANGED faults,
         pushed \subseteq pushed', pushed' \subseteq AttemptId,
         pc \in {"renewing", "pushing", "marking", "updating"} =>
           worker[w].pc \in {"renewing", "pushing", "marking"},
         pc = "marking" => worker[w].attempt \in pushed'
  PROVE  JobsInv' /\ Followed
<1>1. /\ worker' \in [Worker -> WorkerState]
      /\ worker'[w].pc = pc /\ worker'[w].item = worker[w].item
      /\ worker'[w].attempt = worker[w].attempt
      /\ \A u \in Worker : u # w => worker'[u] = worker[u]
  BY GotoFields DEF JobsInv
<1>2. WorkerOK(w)'
  BY <1>1 DEF JobsInv, WorkerOK, Holds, Mine
<1> QED
  BY <1>1, <1>2, WorkerOnlyKeeps

LEMMA RestKeeps ==
  ASSUME JobsInv, NEW w \in Worker, Rest(w),
         UNCHANGED <<dbVars, item, request, job, pushed>>, Fault \/ UNCHANGED faults
  PROVE  JobsInv' /\ Followed
<1>1. /\ worker' \in [Worker -> WorkerState]
      /\ worker'[w].pc = "idle"
      /\ \A u \in Worker : u # w => worker'[u] = worker[u]
  BY RestFields DEF JobsInv
<1> QED
  BY <1>1, IdleOK, WorkerOnlyKeeps DEF JobsInv, JobTypeOK

LEMMA RenewKeeps ==
  ASSUME JobsInv, NEW w \in Worker, Renew(w)
  PROVE  JobsInv' /\ Followed
<1>1. pushed \subseteq AttemptId
  BY DEF JobsInv, JobTypeOK
<1>2. CASE worker[w].pc = "claimed"
  BY <1>1, <1>2, GotoKeeps DEF Renew, jobVars, WorkerPc
<1>3. CASE worker[w].pc # "claimed"
  BY <1>1, <1>3, GotoKeeps DEF Renew, jobVars, WorkerPc
<1> QED
  BY <1>2, <1>3

LEMMA LookKeeps ==
  ASSUME JobsInv, NEW w \in Worker, Look(w)
  PROVE  JobsInv' /\ Followed
<1>1. PICK pc \in {"skipping", "failing", "ensuring"} : Goto(w, pc)
  BY DEF Look
<1> QED
  BY <1>1, GotoKeeps DEF Look, jobVars, WorkerPc, JobsInv, JobTypeOK

LEMMA FindBusyKeeps ==
  ASSUME JobsInv, NEW w \in Worker, FindBusy(w)
  PROVE  JobsInv' /\ Followed
  BY GotoKeeps DEF FindBusy, jobVars, WorkerPc, JobsInv, JobTypeOK

LEMMA OverQuotaKeeps ==
  ASSUME JobsInv, NEW w \in Worker, OverQuota(w)
  PROVE  JobsInv' /\ Followed
  BY GotoKeeps DEF OverQuota, jobVars, WorkerPc, JobsInv, JobTypeOK

LEMMA PushRefusedKeeps ==
  ASSUME JobsInv, NEW w \in Worker, PushRefused(w)
  PROVE  JobsInv' /\ Followed
<1>1. PICK pc \in {"returning", "failing"} : Goto(w, pc) /\ (Fault \/ UNCHANGED faults)
  BY DEF PushRefused
<1> QED
  BY <1>1, GotoKeeps DEF PushRefused, jobVars, WorkerPc, JobsInv, JobTypeOK

LEMMA ThrowKeeps ==
  ASSUME JobsInv, NEW w \in Worker, Throw(w)
  PROVE  JobsInv' /\ Followed
  BY GotoKeeps DEF Throw, jobVars, WorkerPc, JobsInv, JobTypeOK

LEMMA PushKeeps ==
  ASSUME JobsInv, NEW w \in Worker, Push(w)
  PROVE  JobsInv' /\ Followed
<1>1. worker[w].attempt \in AttemptId
  BY DEF Push, JobsInv, WorkerOK
<1> QED
  BY <1>1, GotoKeeps DEF Push, WorkerPc, JobsInv, JobTypeOK

LEMMA DeferKeeps ==
  ASSUME JobsInv, NEW w \in Worker, Defer(w) \/ Crash(w)
  PROVE  JobsInv' /\ Followed
  BY RestKeeps DEF Defer, Crash, jobVars

LEMMA ReuseKeeps ==
  ASSUME JobsInv, NEW w \in Worker, Reuse(w)
  PROVE  JobsInv' /\ Followed
<1> DEFINE a == item[Mine(w)].attempt
<1>1. worker[w].pc = "ensuring" /\ Holds(w) /\ a # NoAttempt
  BY DEF Reuse
<1>2. Mine(w) \in Item
  BY <1>1 DEF JobsInv, WorkerOK, Mine
<1>3. a \in AttemptId
  BY <1>1, <1>2 DEF JobsInv, JobTypeOK, ItemRow, Ref
<1> HIDE DEF a
<1>4. /\ worker' \in [Worker -> WorkerState]
      /\ worker'[w].pc = "renewing" /\ worker'[w].item = worker[w].item /\ worker'[w].attempt = a
      /\ \A u \in Worker : u # w => worker'[u] = worker[u]
  <2>1. worker \in [Worker -> WorkerState] /\ worker[w] \in WorkerState
    BY DEF JobsInv, JobTypeOK, WorkerState
  <2>2. /\ [worker[w] EXCEPT !.pc = "renewing", !.attempt = a] \in WorkerState
        /\ [worker[w] EXCEPT !.pc = "renewing", !.attempt = a].pc = "renewing"
        /\ [worker[w] EXCEPT !.pc = "renewing", !.attempt = a].item = worker[w].item
        /\ [worker[w] EXCEPT !.pc = "renewing", !.attempt = a].attempt = a
    BY <1>3, <2>1 DEF WorkerState, WorkerPc, Ref
  <2>3. worker' = [worker EXCEPT ![w] = [worker[w] EXCEPT !.pc = "renewing", !.attempt = a]]
    BY <2>1 DEF Reuse, a
  <2> QED
    BY <2>1, <2>2, <2>3
<1>5. WorkerOK(w)'
  BY <1>2, <1>3, <1>4 DEF Reuse, jobVars, WorkerOK, Holds, Mine, a
<1> QED
  BY <1>4, <1>5, WorkerOnlyKeeps DEF Reuse, jobVars, JobsInv, JobTypeOK

-----------------------------------------------------------------------------
(* Items that are claimed and put back *)

LEMMA ReleasedRow ==
  ASSUME NEW row \in ItemRow, NEW status \in OpenStatus \cup EndStatus
  PROVE  /\ Released(row, status) \in ItemRow
         /\ Released(row, status).status = status /\ Released(row, status).live = FALSE
         /\ Released(row, status).owner = NoWorker
         /\ Released(row, status).attempt = row.attempt
         /\ Released(row, status).tries = row.tries
  BY DEF Released, ItemRow

\* The item of a worker that holds it.
LEMMA HeldItem ==
  ASSUME JobsInv, NEW w \in Worker, worker[w].pc # "idle", Holds(w)
  PROVE  /\ Mine(w) \in Item /\ item[Mine(w)] \in ItemRow /\ Mine(w)[1] \in Job
         /\ item[Mine(w)].status = "preparing" /\ IsOpen(Mine(w))
         /\ item[Mine(w)].attempt \in Ref
  BY DEF JobsInv, WorkerOK, Mine, JobTypeOK, Holds, IsOpen, OpenStatus, ItemRow, Item

LEMMA MovedKeeps ==
  ASSUME JobsInv, UNCHANGED <<dbVars, request, job, pushed>>, Fault \/ UNCHANGED faults,
         item' \in [Item -> ItemRow], worker' \in [Worker -> WorkerState],
         \A i \in Item : \/ item'[i] = item[i]
                         \/ /\ item'[i].attempt = item[i].attempt
                            /\ item[i].status \in {"pending", "preparing"}
                            /\ item'[i].status \in {"pending", "preparing"},
         \A u \in Worker : WorkerOK(u)'
  PROVE  JobsInv' /\ Followed
<1> USE DEF JobsInv
<1>1. TablesOK'
  BY TablesStep
<1>2. JobTypeOK'
  BY <1>1, FaultBudget DEF JobTypeOK, TablesOK, WorkerState
<1>3. ASSUME NEW i \in Item
      PROVE  ItemOK(i)' /\ SameClass(i)
  <2>1. CASE item'[i] = item[i]
    BY <2>1, ItemKept DEF dbVars, SameClass
  <2>2. CASE item'[i] # item[i]
    BY <2>2, ItemMoved DEF dbVars
  <2> QED
    BY <2>1, <2>2
<1>4. Followed
  BY <1>3, JobKept DEF Followed
<1>5. \A i \in Item : item'[i].attempt = item[i].attempt
  OBVIOUS
<1>6. AttemptHasOneItem'
  BY <1>5, OneItemKept
<1>7. \A j \in Job : JobOK(j)'
  BY <1>4, JobFollows DEF Followed
<1> QED
  BY <1>1, <1>2, <1>3, <1>4, <1>6, <1>7

LEMMA ClaimKeeps ==
  ASSUME JobsInv, NEW w \in Worker, NEW i \in Item, Claim(w, i)
  PROVE  JobsInv' /\ Followed
<1> USE DEF JobsInv
<1> DEFINE row == [item[i] EXCEPT !.status = "preparing", !.owner = w, !.live = TRUE]
           mine == [pc |-> "claimed", item |-> i, attempt |-> item[i].attempt]
<1>1. /\ item[i] \in ItemRow /\ item[i].status \in {"pending", "preparing"}
      /\ item' = [item EXCEPT ![i] = row] /\ worker' = [worker EXCEPT ![w] = mine]
      /\ UNCHANGED <<dbVars, request, job, pushed, faults>>
  BY DEF Claim, Claimable, SetItem, JobTypeOK
<1>2. /\ row \in ItemRow /\ row.status = "preparing" /\ row.owner = w /\ row.attempt = item[i].attempt
  BY <1>1 DEF ItemRow, OpenStatus
<1>3. mine \in WorkerState /\ mine.pc = "claimed" /\ mine.item = i
  BY <1>1 DEF WorkerState, WorkerPc, ItemRow
<1> HIDE DEF row, mine
<1>4. /\ item' \in [Item -> ItemRow] /\ worker' \in [Worker -> WorkerState]
      /\ item'[i] = row /\ \A k \in Item : k # i => item'[k] = item[k]
      /\ worker'[w] = mine /\ \A u \in Worker : u # w => worker'[u] = worker[u]
  BY <1>1, <1>2, <1>3 DEF JobTypeOK, WorkerState
<1>5. ASSUME NEW u \in Worker
      PROVE  WorkerOK(u)'
  <2>1. CASE u = w
    BY <1>3, <1>4, <2>1 DEF WorkerOK
  <2>2. CASE u # w
    <3>1. ASSUME worker[u].pc # "idle"
          PROVE  worker[u].item \in Item
      BY <3>1 DEF WorkerOK
    <3> QED
      BY <1>1, <1>2, <1>4, <2>2, <3>1, WorkerKept
  <2> QED
    BY <2>1, <2>2
<1>6. \A k \in Item : \/ item'[k] = item[k]
                      \/ /\ item'[k].attempt = item[k].attempt
                         /\ item[k].status \in {"pending", "preparing"}
                         /\ item'[k].status \in {"pending", "preparing"}
  BY <1>1, <1>2, <1>4
<1> QED
  BY <1>1, <1>4, <1>5, <1>6, MovedKeeps

\* Its worker gives an item back.
LEMMA GivenBackKeeps ==
  ASSUME JobsInv, NEW w \in Worker, worker[w].pc # "idle", Holds(w), Rest(w),
         NEW row \in ItemRow, SetItem(Mine(w), row),
         row.status = "pending", row.attempt = item[Mine(w)].attempt,
         UNCHANGED <<dbVars, request, job, pushed, faults>>
  PROVE  JobsInv' /\ Followed
<1> USE DEF JobsInv
<1> DEFINE i == Mine(w)
<1>1. i \in Item /\ item[i].status = "preparing"
  BY HeldItem
<1>2. /\ worker' \in [Worker -> WorkerState]
      /\ worker'[w].pc = "idle"
      /\ \A u \in Worker : u # w => worker'[u] = worker[u]
  BY RestFields
<1> HIDE DEF i
<1>3. /\ item' \in [Item -> ItemRow] /\ item'[i] = row
      /\ \A k \in Item : k # i => item'[k] = item[k]
  BY <1>1 DEF JobTypeOK, SetItem, i
<1>4. ASSUME NEW u \in Worker
      PROVE  WorkerOK(u)'
  <2>1. CASE u = w
    BY <1>2, <2>1, IdleOK
  <2>2. CASE u # w
    <3>1. ASSUME worker[u].pc # "idle"
          PROVE  worker[u].item \in Item
      BY <3>1 DEF WorkerOK
    <3> QED
      BY <1>2, <1>3, <2>2, <3>1, WorkerKept
  <2> QED
    BY <2>1, <2>2
<1>5. \A k \in Item : \/ item'[k] = item[k]
                      \/ /\ item'[k].attempt = item[k].attempt
                         /\ item[k].status \in {"pending", "preparing"}
                         /\ item'[k].status \in {"pending", "preparing"}
  BY <1>1, <1>3 DEF i
<1> QED
  BY <1>2, <1>3, <1>4, <1>5, MovedKeeps

LEMMA GiveBackKeeps ==
  ASSUME JobsInv, NEW w \in Worker, GiveBack(w)
  PROVE  JobsInv' /\ Followed
<1>1. worker[w].pc # "idle" /\ Holds(w)
  BY DEF GiveBack
<1>2. item[Mine(w)] \in ItemRow
  BY <1>1, HeldItem
<1> DEFINE row == Released(item[Mine(w)], "pending")
<1>3. row \in ItemRow /\ row.status = "pending" /\ row.attempt = item[Mine(w)].attempt
  BY <1>2, ReleasedRow DEF OpenStatus
<1>4. SetItem(Mine(w), row) /\ Rest(w) /\ UNCHANGED <<dbVars, request, job, pushed, faults>>
  BY DEF GiveBack
<1> HIDE DEF row
<1> QED
  BY <1>1, <1>3, <1>4, GivenBackKeeps

\* Leases that run out, or are taken off.
LEMMA LeaseOverKeeps ==
  ASSUME JobsInv, UNCHANGED <<dbVars, request, job, pushed, worker>>, Fault \/ UNCHANGED faults,
         item' \in [Item -> ItemRow],
         \A i \in Item : \/ item'[i] = item[i]
                         \/ /\ item'[i].attempt = item[i].attempt /\ ~item'[i].live
                            /\ item[i].status = "preparing"
                            /\ item'[i].status \in {"pending", "preparing"}
  PROVE  JobsInv' /\ Followed
<1> USE DEF JobsInv
<1>1. ASSUME NEW u \in Worker
      PROVE  WorkerOK(u)'
  <2>1. ASSUME worker[u].pc # "idle"
        PROVE  worker[u].item \in Item
    BY <2>1 DEF WorkerOK
  <2> QED
    BY <2>1, WorkerKept
<1>2. worker' \in [Worker -> WorkerState]
  BY DEF JobTypeOK, WorkerState
<1> QED
  BY <1>1, <1>2, MovedKeeps

LEMMA ExpireKeeps ==
  ASSUME JobsInv, NEW i \in Item, Expire(i)
  PROVE  JobsInv' /\ Followed
<1>1. item[i] \in ItemRow /\ item[i].status = "preparing" /\ (Fault \/ UNCHANGED faults)
  BY DEF Expire, JobsInv, JobTypeOK
<1> DEFINE row == [item[i] EXCEPT !.live = FALSE]
<1>2. /\ row \in ItemRow /\ row.status = "preparing" /\ row.attempt = item[i].attempt /\ ~row.live
  BY <1>1 DEF ItemRow
<1>3. item' = [item EXCEPT ![i] = row] /\ UNCHANGED <<dbVars, request, job, pushed, worker>>
  BY DEF Expire, SetItem
<1> HIDE DEF row
<1>4. /\ item' \in [Item -> ItemRow]
      /\ \A k \in Item : \/ item'[k] = item[k]
                         \/ /\ item'[k].attempt = item[k].attempt /\ ~item'[k].live
                            /\ item[k].status = "preparing"
                            /\ item'[k].status \in {"pending", "preparing"}
  BY <1>1, <1>2, <1>3 DEF JobsInv, JobTypeOK
<1> QED
  BY <1>1, <1>3, <1>4, LeaseOverKeeps

LEMMA RequeueExpiredKeeps ==
  ASSUME JobsInv, NEW w \in Worker, RequeueExpired(w)
  PROVE  JobsInv' /\ Followed
<1> DEFINE over == {i \in Item : item[i].status = "preparing" /\ ~item[i].live}
<1>1. /\ item' = [i \in Item |-> IF i \in over THEN Released(item[i], "pending") ELSE item[i]]
      /\ UNCHANGED <<dbVars, request, job, pushed, worker, faults>>
  BY DEF RequeueExpired
<1>2. ASSUME NEW i \in Item
      PROVE  /\ item'[i] \in ItemRow
             /\ \/ item'[i] = item[i]
                \/ /\ item'[i].attempt = item[i].attempt /\ ~item'[i].live
                   /\ item[i].status = "preparing"
                   /\ item'[i].status \in {"pending", "preparing"}
  <2>1. item[i] \in ItemRow
    BY DEF JobsInv, JobTypeOK
  <2>2. /\ Released(item[i], "pending") \in ItemRow
        /\ Released(item[i], "pending").attempt = item[i].attempt
        /\ ~Released(item[i], "pending").live /\ Released(item[i], "pending").status = "pending"
    BY <2>1, ReleasedRow DEF OpenStatus
  <2> QED
    BY <1>1, <2>1, <2>2
<1>3. item' \in [Item -> ItemRow]
  BY <1>1, <1>2
<1> QED
  BY <1>1, <1>2, <1>3, LeaseOverKeeps

-----------------------------------------------------------------------------
(* Workers that end their item *)

LEMMA EndedKeeps ==
  ASSUME JobsInv, NEW w \in Worker, worker[w].pc # "idle", Holds(w),
         NEW i \in Item, i = Mine(w),
         NEW row \in ItemRow, row.status \notin {"preparing", "absent"},
         row.attempt = item[i].attempt,
         SetItem(i, row), Refresh(i[1]), ItemOK(i)',
         TablesOK', \A a \in AttemptId : a # item[i].attempt => att'[a] = att[a],
         UNCHANGED <<request, pushed, faults>>,
         worker' \in [Worker -> WorkerState], WorkerOK(w)',
         \A u \in Worker : u # w => worker'[u] = worker[u]
  PROVE  JobsInv' /\ Followed
<1> USE DEF JobsInv
<1>1. /\ i \in Item /\ i[1] \in Job
      /\ request[i[1]].version \in Version
  BY HeldItem, OpenItemOfJob
<1>2. /\ item' \in [Item -> ItemRow] /\ item'[i] = row
      /\ \A k \in Item : k # i => item'[k] = item[k]
      /\ \A k \in Item : item'[k].attempt = item[k].attempt
  BY <1>1 DEF JobTypeOK, SetItem
<1>3. /\ job'[i[1]] = StatusOf(i[1], item') /\ StatusOf(i[1], item') \in JobState
      /\ \A j \in Job : j # i[1] => job'[j] = job[j]
      /\ job' \in [Job -> JobState]
  BY <1>1, StatusIsState DEF Refresh, JobTypeOK
<1>4. JobTypeOK'
  BY <1>2, <1>3 DEF JobTypeOK, TablesOK, WorkerState
<1>5. ASSUME NEW k \in Item
      PROVE  ItemOK(k)'
  <2>1. CASE k = i
    BY <2>1
  <2>2. CASE k # i
    <3>1. item[k].attempt \in Ref
      BY DEF JobTypeOK, ItemRow
    <3>2. item[k].attempt # NoAttempt => att'[item[k].attempt] = att[item[k].attempt]
      BY <1>1, <2>2, <3>1 DEF AttemptHasOneItem, Ref
    <3> QED
      BY <1>2, <2>2, <3>2, ItemKept
  <2> QED
    BY <2>1, <2>2
<1>6. ASSUME NEW u \in Worker
      PROVE  WorkerOK(u)'
  <2>1. CASE u = w
    BY <2>1
  <2>2. CASE u # w
    <3>1. ASSUME worker[u].pc # "idle"
          PROVE  worker[u].item \in Item
      BY <3>1 DEF WorkerOK
    <3> QED
      BY <1>2, <2>2, <3>1, WorkerKept
  <2> QED
    BY <2>1, <2>2
<1>7. ASSUME NEW j \in Job
      PROVE  Follows(j)
  <2>1. CASE j = i[1]
    BY <1>1, <1>2, <1>3, <2>1, JobRefreshed
  <2>2. CASE j # i[1]
    BY <1>2, <1>3, <2>2, JobKept DEF SameClass
  <2> QED
    BY <2>1, <2>2
<1>8. AttemptHasOneItem'
  BY <1>2, OneItemKept
<1>9. \A j \in Job : JobOK(j)'
  BY <1>7, JobFollows
<1> QED
  BY <1>4, <1>5, <1>6, <1>7, <1>8, <1>9 DEF Followed

LEMMA SkipKeeps ==
  ASSUME JobsInv, NEW w \in Worker, Skip(w)
  PROVE  JobsInv' /\ Followed
<1> USE DEF JobsInv
<1>0. PICK i \in Item : i = Mine(w)
  BY DEF Skip, WorkerOK, Mine
<1> DEFINE row == Released(item[i], "skipped")
<1>1. /\ worker[w].pc # "idle" /\ Holds(w) /\ SetItem(i, row) /\ Refresh(i[1]) /\ Rest(w)
      /\ UNCHANGED <<dbVars, request, pushed, faults>>
  BY <1>0 DEF Skip
<1>2. i \in Item /\ item[i] \in ItemRow /\ item[i].status = "preparing"
  BY <1>0, <1>1, HeldItem
<1>3. row \in ItemRow /\ row.status = "skipped" /\ row.attempt = item[i].attempt
  BY <1>2, ReleasedRow DEF EndStatus
<1> HIDE DEF row
<1>4. item'[i] = row
  BY <1>1, <1>2 DEF SetItem, JobTypeOK
<1>5. ItemOK(i)'
  BY <1>1, <1>2, <1>3, <1>4 DEF ItemOK, IsOpen, OpenStatus, Exists, dbVars
<1>6. TablesOK'
  BY <1>1, TablesStep
<1>7. /\ worker' \in [Worker -> WorkerState]
      /\ worker'[w].pc = "idle"
      /\ \A u \in Worker : u # w => worker'[u] = worker[u]
  BY <1>1, RestFields
<1>8. WorkerOK(w)'
  BY <1>7, IdleOK
<1>9. att' = att
  BY <1>1 DEF dbVars
<1> QED
  BY <1>0, <1>1, <1>3, <1>5, <1>6, <1>7, <1>8, <1>9, EndedKeeps

LEMMA ErrorEnds ==
  ASSUME TablesOK, NEW a \in AttemptId, ApplyPlatformError(a)
  PROVE  /\ TablesOK' /\ Open(a) /\ att'[a].state = "error" /\ att'[a].retries = att[a].retries
         /\ \A b \in AttemptId : b # a => att'[b] = att[b]
  BY PlatformErrorKeepsTables, FinishRow DEF ApplyPlatformError, Applies, TablesOK

LEMMA GradedEnds ==
  ASSUME TablesOK, NEW a \in AttemptId, ApplyGraded(a)
  PROVE  /\ TablesOK' /\ Open(a) /\ att'[a].state = "finished" /\ att'[a].retries = att[a].retries
         /\ \A b \in AttemptId : b # a => att'[b] = att[b]
  BY GradedKeepsTables, FinishRow DEF ApplyGraded, Applies, TablesOK

\* completeJobItem with `failed`, on the way of Fail and of BackOff.
LEMMA FailedItemKeeps ==
  ASSUME JobsInv, NEW w \in Worker, worker[w].pc # "idle", Holds(w),
         FailItem(Mine(w)), Refresh(Mine(w)[1]), Rest(w),
         UNCHANGED <<request, pushed, faults>>
  PROVE  JobsInv' /\ Followed
<1> USE DEF JobsInv
<1>0. PICK i \in Item : i = Mine(w)
  BY DEF WorkerOK, Mine
<1>a. PICK a \in Ref : a = item[i].attempt
  BY <1>0, HeldItem
<1> DEFINE row == Released(item[i], "failed")
<1>1. i \in Item /\ item[i] \in ItemRow
  BY <1>0, HeldItem
<1>2. SetItem(i, row) /\ (IF a # NoAttempt THEN ApplyPlatformError(a) ELSE UNCHANGED dbVars)
  BY <1>0, <1>a DEF FailItem
<1>3. row \in ItemRow /\ row.status = "failed" /\ row.attempt = a
  BY <1>1, <1>a, ReleasedRow DEF EndStatus
<1> HIDE DEF row
<1>4. item'[i] = row
  BY <1>1, <1>2 DEF SetItem, JobTypeOK
<1>5. /\ TablesOK' /\ \A b \in AttemptId : b # a => att'[b] = att[b]
      /\ a # NoAttempt => att'[a].state = "error"
  <2>1. CASE a # NoAttempt
    BY <1>1, <1>2, <2>1, ErrorEnds DEF Ref
  <2>2. CASE a = NoAttempt
    BY <1>2, <2>2, TablesStep DEF dbVars
  <2> QED
    BY <2>1, <2>2
<1>6. ItemOK(i)'
  BY <1>3, <1>4, <1>5 DEF ItemOK, IsOpen, OpenStatus, Exists
<1>7. /\ worker' \in [Worker -> WorkerState]
      /\ worker'[w].pc = "idle"
      /\ \A u \in Worker : u # w => worker'[u] = worker[u]
  BY RestFields
<1>8. WorkerOK(w)'
  BY <1>7, IdleOK
<1> QED
  BY <1>0, <1>a, <1>2, <1>3, <1>5, <1>6, <1>7, <1>8, EndedKeeps

LEMMA FailKeeps ==
  ASSUME JobsInv, NEW w \in Worker, Fail(w)
  PROVE  JobsInv' /\ Followed
  BY FailedItemKeeps DEF Fail

LEMMA BackOffKeeps ==
  ASSUME JobsInv, NEW w \in Worker, BackOff(w)
  PROVE  JobsInv' /\ Followed
<1> DEFINE i == Mine(w)
           put == Released(item[i], "pending")
           row == [put EXCEPT !.tries = @ + 1]
<1>1. worker[w].pc # "idle" /\ Holds(w) /\ Rest(w) /\ UNCHANGED <<request, pushed, faults>>
  BY DEF BackOff
<1>2. item[i] \in ItemRow
  BY <1>1, HeldItem
<1>3. CASE item[i].tries < MaxTries
  <2>1. put \in ItemRow /\ put.status = "pending" /\ put.attempt = item[i].attempt
        /\ put.tries = item[i].tries
    BY <1>2, ReleasedRow DEF OpenStatus
  <2>2. put.tries + 1 \in 0..MaxTries
    BY <1>2, <1>3, <2>1, JobsAssumption DEF ItemRow
  <2>3. SetItem(i, row) /\ UNCHANGED <<dbVars, job>>
    BY <1>3 DEF BackOff
  <2> HIDE DEF put
  <2>4. row \in ItemRow /\ row.status = "pending" /\ row.attempt = item[i].attempt
    BY <2>1, <2>2 DEF ItemRow
  <2> HIDE DEF row
  <2> QED
    BY <1>1, <2>3, <2>4, GivenBackKeeps
<1>4. CASE ~(item[i].tries < MaxTries)
  BY <1>1, <1>4, FailedItemKeeps DEF BackOff
<1> QED
  BY <1>3, <1>4

LEMMA MarkDispatchedKeeps ==
  ASSUME JobsInv, NEW w \in Worker, MarkDispatched(w)
  PROVE  JobsInv' /\ Followed
<1> USE DEF JobsInv
<1>0. PICK i \in Item : i = Mine(w)
  BY DEF MarkDispatched, WorkerOK, Mine
<1>a. PICK a \in AttemptId : a = worker[w].attempt
  BY DEF MarkDispatched, WorkerOK
<1> DEFINE put == Released(item[i], "dispatched")
           row == [put EXCEPT !.attempt = a]
<1>1. /\ worker[w].pc = "marking" /\ Goto(w, "updating")
      /\ UNCHANGED <<dbVars, request, pushed, faults>>
  BY DEF MarkDispatched
<1>2. a \in AttemptId /\ a \in pushed /\ pushed \subseteq AttemptId
  BY <1>1, <1>a DEF WorkerOK, JobTypeOK
<1>3. CASE ~Marks(w)
  <2>1. UNCHANGED <<item, job>>
    BY <1>3 DEF MarkDispatched
  <2> QED
    BY <1>1, <1>2, <1>a, <2>1, GotoKeeps DEF WorkerPc
<1>4. CASE Marks(w)
  <2>1. Holds(w) /\ SetItem(i, row) /\ Refresh(i[1])
    BY <1>0, <1>a, <1>4 DEF MarkDispatched, Marks
  <2>2. i \in Item /\ item[i] \in ItemRow /\ item[i].status = "preparing" /\ IsOpen(i)
    BY <1>0, <1>1, <2>1, HeldItem
  <2>3. item[i].attempt = a
    BY <1>0, <1>a, <1>1, <2>1 DEF WorkerOK
  <2>4. put \in ItemRow /\ put.status = "dispatched" /\ put.attempt = a
    BY <2>2, <2>3, ReleasedRow DEF OpenStatus
  <2> HIDE DEF put
  <2>5. row \in ItemRow /\ row.status = "dispatched" /\ row.attempt = a
    BY <2>4 DEF ItemRow
  <2> HIDE DEF row
  <2>6. item'[i] = row
    BY <2>1, <2>2 DEF SetItem, JobTypeOK
  <2>7. Open(a) /\ a # NoAttempt
    BY <1>2, <2>2, <2>3, AttemptsAssumption DEF ItemOK
  <2>8. ItemOK(i)'
    BY <1>1, <1>2, <2>5, <2>6, <2>7 DEF ItemOK, Open, Exists, Terminal, dbVars
  <2>9. /\ worker' \in [Worker -> WorkerState]
        /\ worker'[w].pc = "updating" /\ worker'[w].item = worker[w].item
        /\ worker'[w].attempt = worker[w].attempt
        /\ \A u \in Worker : u # w => worker'[u] = worker[u]
    BY <1>1, GotoFields DEF WorkerPc
  <2>10. WorkerOK(w)'
    BY <1>0, <1>a, <1>2, <2>2, <2>9 DEF WorkerOK, Mine
  <2>11. TablesOK' /\ att' = att
    BY <1>1, TablesStep DEF dbVars
  <2> QED
    BY <1>0, <1>1, <2>1, <2>3, <2>5, <2>8, <2>9, <2>10, <2>11, EndedKeeps
<1> QED
  BY <1>3, <1>4

-----------------------------------------------------------------------------
(* Steps that change the tables *)

LEMMA CreatedRows ==
  ASSUME TablesOK, NEW s \in Submission, NEW a, NEW v \in Version \cup {0},
         CreateAttempt(s, a, v, 0)
  PROVE  /\ TablesOK' /\ a \in AttemptId /\ ~Exists(a) /\ Open(a)' /\ att'[a].retries = 0
         /\ \A b \in AttemptId : b # a => att'[b] = att[b]
<1>1. /\ a \in AttemptId /\ ~Exists(a) /\ att' = [att EXCEPT ![a] = QueuedAttempt(s, v, 0)]
  BY DEF CreateAttempt, Fresh
<1>2. QueuedAttempt(s, v, 0).state = "queued" /\ QueuedAttempt(s, v, 0).retries = 0
  BY DEF QueuedAttempt
<1>3. /\ att'[a] = QueuedAttempt(s, v, 0)
      /\ \A b \in AttemptId : b # a => att'[b] = att[b]
  BY <1>1 DEF TablesOK, DbTypeOK
<1>4. Open(a)'
  BY <1>2, <1>3 DEF Open, Exists, Terminal
<1> QED
  BY <1>1, <1>2, <1>3, <1>4, CreateKeepsTables

LEMMA ItemAttempt ==
  ASSUME JobsInv, NEW i \in Item
  PROVE  /\ item[i] \in ItemRow /\ item[i].attempt \in Ref
         /\ item[i].attempt # NoAttempt => item[i].attempt \in AttemptId /\ Exists(item[i].attempt)
  BY DEF JobsInv, JobTypeOK, ItemRow, ItemOK, Ref

LEMMA TablesOnlyKeeps ==
  ASSUME JobsInv, TablesOK', \A a \in AttemptId : Exists(a) => att'[a] = att[a],
         UNCHANGED <<item, request, job, faults>>,
         pushed \subseteq pushed', pushed' \subseteq AttemptId,
         worker' \in [Worker -> WorkerState],
         \A u \in Worker : worker'[u] = worker[u] \/ worker'[u].pc = "idle"
  PROVE  JobsInv' /\ Followed
<1> USE DEF JobsInv
<1>1. JobTypeOK'
  BY DEF JobTypeOK, TablesOK, WorkerState
<1>2. ASSUME NEW i \in Item
      PROVE  ItemOK(i)'
  BY ItemAttempt, ItemKept
<1>3. ASSUME NEW u \in Worker
      PROVE  WorkerOK(u)'
  BY WorkerKept, IdleOK
<1>4. Followed
  BY JobKept DEF SameClass, Followed
<1>5. AttemptHasOneItem'
  BY OneItemKept
<1> QED
  BY <1>1, <1>2, <1>3, <1>4, <1>5, JobFollows DEF Followed

LEMMA SubmitKeeps ==
  ASSUME JobsInv, NEW s \in Submission, NEW v \in Version, Submit(s, v)
  PROVE  JobsInv' /\ Followed
<1>1. CreateAttempt(s, <<s, 1>>, v, 0) /\ TablesOK
  BY DEF Submit, InsertSubmission, JobsInv
<1>2. /\ TablesOK' /\ \A b \in AttemptId : Exists(b) => att'[b] = att[b]
  BY <1>1, CreatedRows
<1>3. worker' \in [Worker -> WorkerState]
  BY DEF Submit, JobsInv, JobTypeOK, WorkerState
<1> QED
  BY <1>2, <1>3, TablesOnlyKeeps DEF Submit, jobVars, JobsInv, JobTypeOK

LEMMA MarkJudgingKeeps ==
  ASSUME JobsInv, NEW w \in Worker, MarkJudging(w)
  PROVE  JobsInv' /\ Followed
<1>1. PICK a \in AttemptId : a = worker[w].attempt
  BY DEF MarkJudging, JobsInv, WorkerOK
<1>2. StartJudging(Owner(a)) \/ UNCHANGED dbVars
  BY <1>1 DEF MarkJudging
<1>3. TablesOK' /\ att' = att
  <2>1. CASE StartJudging(Owner(a))
    BY <2>1, Pair, JudgingKeepsTables DEF StartJudging, JobsInv
  <2>2. CASE UNCHANGED dbVars
    BY <2>2, TablesStep DEF dbVars, JobsInv
  <2> QED
    BY <1>2, <2>1, <2>2
<1>4. /\ worker' \in [Worker -> WorkerState]
      /\ worker'[w].pc = "idle"
      /\ \A u \in Worker : u # w => worker'[u] = worker[u]
  BY RestFields DEF MarkJudging, JobsInv
<1> QED
  BY <1>3, <1>4, TablesOnlyKeeps DEF MarkJudging, jobVars, JobsInv, JobTypeOK

LEMMA RecoverKeeps ==
  ASSUME JobsInv, NEW a \in AttemptId, Recover(a)
  PROVE  JobsInv' /\ Followed
<1>1. TablesOK' /\ att' = att
  BY Pair, JudgingKeepsTables DEF Recover, StartJudging, JobsInv
<1>2. worker' \in [Worker -> WorkerState]
  BY DEF Recover, JobsInv, JobTypeOK, WorkerState
<1> QED
  BY <1>1, <1>2, TablesOnlyKeeps DEF Recover, JobsInv, JobTypeOK

LEMMA CreateKeeps ==
  ASSUME JobsInv, NEW w \in Worker, NEW a \in AttemptId, Create(w, a)
  PROVE  JobsInv' /\ Followed
<1> USE DEF JobsInv
<1>0. PICK i \in Item : i = Mine(w)
  BY DEF Create, WorkerOK, Mine
<1> DEFINE row == [item[i] EXCEPT !.attempt = a]
           mine == [worker[w] EXCEPT !.pc = "renewing", !.attempt = a]
<1>1. /\ worker[w].pc = "ensuring" /\ Holds(w) /\ item[i].attempt = NoAttempt
      /\ SetItem(i, row) /\ UNCHANGED <<request, job, pushed, faults>>
      /\ worker' = [worker EXCEPT ![w].pc = "renewing", ![w].attempt = a]
  BY <1>0 DEF Create
<1>2. /\ item[i] \in ItemRow /\ i[1] \in Job
      /\ item[i].status = "preparing" /\ item[i].owner = w /\ worker[w].item = i
  BY <1>0, <1>1, HeldItem DEF Holds, Mine
<1>3. /\ TablesOK' /\ ~Exists(a) /\ Open(a)'
      /\ \A b \in AttemptId : b # a => att'[b] = att[b]
  <2>1. PICK s \in Submission : CreateAttempt(s, a, request[i[1]].version, 0)
    <3>1. Owner(a) \in Submission
      BY Pair
    <3> QED
      BY <1>0, <3>1 DEF Create, InsertSubmission
  <2>2. request[i[1]].version \in Version \cup {0}
    BY <1>2 DEF JobTypeOK
  <2> QED
    BY <2>1, <2>2, CreatedRows
<1>4. row \in ItemRow /\ row.status = "preparing" /\ row.owner = w /\ row.attempt = a
  BY <1>2 DEF ItemRow, Ref
<1>5. worker[w] \in WorkerState /\ worker' = [worker EXCEPT ![w] = mine]
  BY <1>1 DEF JobTypeOK, WorkerState
<1>6. /\ mine \in WorkerState /\ mine.pc = "renewing" /\ mine.attempt = a /\ mine.item = i
  BY <1>2, <1>5 DEF WorkerState, WorkerPc, Ref
<1> HIDE DEF row, mine
<1>7. /\ item' \in [Item -> ItemRow] /\ item'[i] = row
      /\ \A k \in Item : k # i => item'[k] = item[k]
  BY <1>1, <1>4 DEF SetItem, JobTypeOK
<1>8. /\ worker' \in [Worker -> WorkerState] /\ worker'[w] = mine
      /\ \A u \in Worker : u # w => worker'[u] = worker[u]
  BY <1>5, <1>6 DEF JobTypeOK, WorkerState
<1>9. JobTypeOK'
  BY <1>1, <1>3, <1>7, <1>8 DEF JobTypeOK, TablesOK, WorkerState
<1>10. \A k \in Item : k # i => item[k].attempt # a
  BY <1>3, ItemAttempt, AttemptsAssumption
<1>11. ASSUME NEW k \in Item
       PROVE  ItemOK(k)' /\ SameClass(k)
  <2>1. CASE k = i
    <3>1. SameClass(k)
      BY <1>2, <1>4, <1>7, <2>1 DEF SameClass
    <3>2. ItemOK(k)'
      BY <1>3, <1>4, <1>7, <2>1 DEF ItemOK, Open, IsOpen, OpenStatus
    <3> QED
      BY <3>1, <3>2
  <2>2. CASE k # i
    <3>1. item[k].attempt # NoAttempt => att'[item[k].attempt] = att[item[k].attempt]
      BY <1>3, <1>10, <2>2, ItemAttempt
    <3> QED
      BY <1>1, <1>7, <2>2, <3>1, ItemKept DEF SameClass
  <2> QED
    BY <2>1, <2>2
<1>12. ASSUME NEW u \in Worker
       PROVE  WorkerOK(u)'
  <2>1. CASE u = w
    BY <1>4, <1>6, <1>7, <1>8, <2>1 DEF WorkerOK, Mine
  <2>2. CASE u # w
    <3>1. ASSUME worker[u].pc # "idle"
          PROVE  worker[u].item \in Item
      BY <3>1 DEF WorkerOK
    <3> QED
      BY <1>1, <1>4, <1>7, <1>8, <2>2, <3>1, WorkerKept
  <2> QED
    BY <2>1, <2>2
<1>13. Followed
  BY <1>1, <1>11, JobKept DEF Followed
<1>14. AttemptHasOneItem'
  BY <1>4, <1>7, <1>10 DEF AttemptHasOneItem
<1>15. \A j \in Job : JobOK(j)'
  BY <1>13, JobFollows DEF Followed
<1> QED
  BY <1>3, <1>9, <1>11, <1>12, <1>13, <1>14, <1>15

-----------------------------------------------------------------------------
(* Results *)

LEMMA RetryRows ==
  ASSUME TablesOK, NEW a \in AttemptId, NEW b \in AttemptId, ApplyRetry(a, b)
  PROVE  /\ TablesOK' /\ Open(a) /\ ~Exists(b) /\ a # b
         /\ att'[a].state = "error" /\ att'[a].retries = att[a].retries
         /\ Open(b)' /\ att'[b].retries = att[a].retries + 1
         /\ \A c \in AttemptId : c # a /\ c # b => att'[c] = att[c]
<1> DEFINE new == QueuedAttempt(Owner(a), att[a].version, att[a].retries + 1)
<1>1. /\ Open(a) /\ ~Exists(b) /\ att' = [Finish(a, "error") EXCEPT ![b] = new]
  BY DEF ApplyRetry, Applies, Fresh
<1>2. new.state = "queued" /\ new.retries = att[a].retries + 1
  BY DEF QueuedAttempt
<1>3. a # b
  BY <1>1 DEF Open
<1>4. /\ Finish(a, "error") \in [AttemptId -> AttemptRow]
      /\ Finish(a, "error")[a].state = "error"
      /\ Finish(a, "error")[a].retries = att[a].retries
      /\ \A c \in AttemptId : c # a => Finish(a, "error")[c] = att[c]
  BY FinishRow DEF TablesOK
<1> HIDE DEF new
<1>5. /\ att'[b] = new /\ att'[a] = Finish(a, "error")[a]
      /\ \A c \in AttemptId : c # a /\ c # b => att'[c] = att[c]
  BY <1>1, <1>3, <1>4
<1>6. Open(b)'
  BY <1>2, <1>5 DEF Open, Exists, Terminal
<1> QED
  BY <1>1, <1>2, <1>3, <1>4, <1>5, <1>6, RetryKeepsTables

\* A result ends the open items of its attempt, or gives them the next one.
LEMMA ResultKeeps ==
  ASSUME JobsInv, NEW a \in AttemptId, Open(a), TablesOK', Exists(a)',
         \A c \in AttemptId : c # a /\ Exists(c) => att'[c] = att[c],
         item' \in [Item -> ItemRow],
         \A i \in Item : IF i \in OpenItemsOf(a)
                         THEN item'[i].status \notin {"preparing", "absent"} /\ ItemOK(i)'
                         ELSE item'[i] = item[i],
         job' = [j \in Job |-> IF \E i \in OpenItemsOf(a) : i[1] = j
                               THEN StatusOf(j, item') ELSE job[j]],
         AttemptHasOneItem',
         UNCHANGED <<request, pushed, worker, faults>>
  PROVE  JobsInv' /\ Followed
<1> USE DEF JobsInv
<1>1. job' \in [Job -> JobState]
  BY StatusIsState DEF JobTypeOK
<1>2. JobTypeOK'
  BY <1>1 DEF JobTypeOK, TablesOK
<1>3. ASSUME NEW i \in Item
      PROVE  ItemOK(i)'
  <2>1. CASE i \in OpenItemsOf(a)
    BY <2>1
  <2>2. CASE i \notin OpenItemsOf(a) /\ item[i].attempt = a
    <3>1. item'[i] = item[i] /\ ~IsOpen(i) /\ a # NoAttempt
      BY <2>2, AttemptsAssumption DEF OpenItemsOf
    <3>2. item[i].status \notin {"absent", "succeeded", "failed"}
      BY <2>2, <3>1 DEF ItemOK, Open, Terminal
    <3> QED
      BY <2>2, <3>1, <3>2 DEF ItemOK, IsOpen, OpenStatus
  <2>3. CASE i \notin OpenItemsOf(a) /\ item[i].attempt # a
    BY <2>3, ItemAttempt, ItemKept
  <2> QED
    BY <2>1, <2>2, <2>3
<1>4. ASSUME NEW u \in Worker
      PROVE  WorkerOK(u)'
  <2>1. ASSUME worker[u].pc # "idle"
        PROVE  worker[u].item \in Item
    BY <2>1 DEF WorkerOK
  <2> QED
    BY <2>1, WorkerKept
<1>5. ASSUME NEW j \in Job
      PROVE  Follows(j)
  <2>1. CASE \E i \in OpenItemsOf(a) : i[1] = j
    <3>1. PICK i \in Item : i \in OpenItemsOf(a) /\ IsOpen(i) /\ i[1] = j
      BY <2>1 DEF OpenItemsOf
    <3>2. request'[j].version \in Version /\ item'[i].status # "absent"
      BY <3>1, OpenItemOfJob
    <3>3. job'[j] = StatusOf(j, item')
      BY <2>1
    <3> QED
      BY <3>1, <3>2, <3>3, JobRefreshed
  <2>2. CASE ~\E i \in OpenItemsOf(a) : i[1] = j
    <3>1. \A i \in Item : i[1] = j => SameClass(i)
      BY <2>2 DEF SameClass
    <3> QED
      BY <2>2, <3>1, JobKept
  <2> QED
    BY <2>1, <2>2
<1>6. \A j \in Job : JobOK(j)'
  BY <1>5, JobFollows
<1> QED
  BY <1>2, <1>3, <1>4, <1>5, <1>6 DEF Followed

\* The last result of an attempt, graded or not.
LEMMA LastResultKeeps ==
  ASSUME JobsInv, NEW a \in AttemptId, NEW status \in {"succeeded", "failed"},
         Open(a), TablesOK', att'[a].state = IF status = "succeeded" THEN "finished" ELSE "error",
         \A c \in AttemptId : c # a => att'[c] = att[c],
         EndItemOf(a, status),
         UNCHANGED <<request, pushed, worker, faults>>
  PROVE  JobsInv' /\ Followed
<1> USE DEF JobsInv
<1>1. a # NoAttempt /\ Exists(a)'
  BY AttemptsAssumption DEF Exists
<1>2. ASSUME NEW i \in Item
      PROVE  /\ item'[i] \in ItemRow /\ item'[i].attempt = item[i].attempt
             /\ IF i \in OpenItemsOf(a) THEN item'[i].status = status ELSE item'[i] = item[i]
  <2>1. item[i] \in ItemRow
    BY ItemAttempt
  <2>2. /\ Released(item[i], status) \in ItemRow /\ Released(item[i], status).status = status
        /\ Released(item[i], status).attempt = item[i].attempt
    BY <2>1, ReleasedRow DEF EndStatus
  <2>3. item'[i] = IF i \in OpenItemsOf(a) THEN Released(item[i], status) ELSE item[i]
    BY DEF EndItemOf
  <2> QED
    BY <2>1, <2>2, <2>3
<1>3. item' \in [Item -> ItemRow]
  BY <1>2 DEF EndItemOf
<1>4. ASSUME NEW i \in OpenItemsOf(a)
      PROVE  ItemOK(i)'
  <2>1. i \in Item /\ item[i].attempt = a
    BY DEF OpenItemsOf
  <2>2. item'[i].status = status /\ item'[i].attempt = a
    BY <1>2, <2>1
  <2> QED
    BY <1>1, <2>2 DEF ItemOK, IsOpen, OpenStatus
<1>5. AttemptHasOneItem'
  BY <1>2, OneItemKept
<1>6. \A i \in Item : IF i \in OpenItemsOf(a)
                      THEN item'[i].status \notin {"preparing", "absent"} /\ ItemOK(i)'
                      ELSE item'[i] = item[i]
  BY <1>2, <1>4
<1> QED
  BY <1>1, <1>3, <1>5, <1>6, ResultKeeps DEF EndItemOf

LEMMA ResultGradedKeeps ==
  ASSUME JobsInv, NEW a \in AttemptId, ResultGraded(a)
  PROVE  JobsInv' /\ Followed
<1>1. /\ TablesOK' /\ Open(a) /\ att'[a].state = "finished"
      /\ \A b \in AttemptId : b # a => att'[b] = att[b]
  BY GradedEnds DEF ResultGraded, JobsInv
<1> QED
  BY <1>1, LastResultKeeps DEF ResultGraded

LEMMA ResultErrorKeeps ==
  ASSUME JobsInv, NEW a \in AttemptId, ResultError(a)
  PROVE  JobsInv' /\ Followed
<1>1. /\ TablesOK' /\ Open(a) /\ att'[a].state = "error"
      /\ \A b \in AttemptId : b # a => att'[b] = att[b]
  BY ErrorEnds DEF ResultError, JobsInv
<1> QED
  BY <1>1, LastResultKeeps DEF ResultError

LEMMA ResultRetryKeeps ==
  ASSUME JobsInv, NEW a \in AttemptId, NEW b \in AttemptId, ResultRetry(a, b)
  PROVE  JobsInv' /\ Followed
<1> USE DEF JobsInv
<1>1. /\ TablesOK' /\ Open(a) /\ ~Exists(b) /\ a # b
      /\ att'[a].state = "error" /\ Open(b)'
      /\ \A c \in AttemptId : c # a /\ c # b => att'[c] = att[c]
  BY RetryRows DEF ResultRetry
<1>2. Exists(a)' /\ Exists(b)' /\ a # NoAttempt /\ b # NoAttempt
  BY <1>1, AttemptsAssumption DEF Exists, Open
<1>3. ASSUME NEW i \in Item
      PROVE  /\ item'[i] \in ItemRow
             /\ IF i \in OpenItemsOf(a) THEN item'[i].status = "pending" /\ item'[i].attempt = b
                                        ELSE item'[i] = item[i]
  <2> DEFINE put == Released(item[i], "pending")
             row == [put EXCEPT !.attempt = b]
  <2>1. item[i] \in ItemRow
    BY ItemAttempt
  <2>2. put \in ItemRow /\ put.status = "pending"
    BY <2>1, ReleasedRow DEF OpenStatus
  <2>3. item'[i] = IF i \in OpenItemsOf(a) THEN row ELSE item[i]
    BY DEF ResultRetry
  <2> HIDE DEF put
  <2>4. row \in ItemRow /\ row.status = "pending" /\ row.attempt = b
    BY <2>2 DEF ItemRow, Ref
  <2> QED
    BY <2>1, <2>3, <2>4
<1>4. item' \in [Item -> ItemRow]
  BY <1>3 DEF ResultRetry
<1>5. ASSUME NEW i \in OpenItemsOf(a)
      PROVE  ItemOK(i)'
  <2>1. item'[i].status = "pending" /\ item'[i].attempt = b
    BY <1>3 DEF OpenItemsOf
  <2> QED
    BY <1>1, <1>2, <2>1 DEF ItemOK, IsOpen, OpenStatus
<1>6. \A i \in Item : i \in OpenItemsOf(a) => item[i].attempt = a
  BY DEF OpenItemsOf
<1>7. \A i \in Item : item[i].attempt # b
  BY <1>1, <1>2, ItemAttempt
<1>8. AttemptHasOneItem'
  BY <1>2, <1>3, <1>6, <1>7 DEF AttemptHasOneItem
<1>9. \A i \in Item : IF i \in OpenItemsOf(a)
                      THEN item'[i].status \notin {"preparing", "absent"} /\ ItemOK(i)'
                      ELSE item'[i] = item[i]
  BY <1>3, <1>5
<1>10. \A c \in AttemptId : c # a /\ Exists(c) => att'[c] = att[c]
  BY <1>1
<1> QED
  BY <1>1, <1>2, <1>4, <1>8, <1>9, <1>10, ResultKeeps DEF ResultRetry

-----------------------------------------------------------------------------
(* New jobs *)

LEMMA NewRow ==
  ASSUME NEW status \in {"absent", "pending", "skipped"}
  PROVE  /\ NewItem(status) \in ItemRow /\ NewItem(status).status = status
         /\ NewItem(status).attempt = NoAttempt
  BY JobsAssumption DEF NewItem, ItemRow, OpenStatus, EndStatus, Ref

LEMMA NewJobKeeps ==
  ASSUME JobsInv, NEW j \in Job, job[j] = "absent",
         DOMAIN item' = Item, item' = [i \in Item |-> item'[i]],
         \A i \in Item : \/ item'[i] = item[i]
                         \/ i[1] = j /\ item'[i] \in {NewItem("pending"), NewItem("skipped")},
         job' = [job EXCEPT ![j] = StatusOf(j, item')],
         NEW e \in Item, e[1] = j, item'[e].status # "absent",
         NEW kind \in [upgrade : BOOLEAN, version : Version \cup {0}], kind.version \in Version,
         request' = [request EXCEPT ![j] = kind],
         UNCHANGED <<dbVars, pushed, worker, faults>>
  PROVE  JobsInv' /\ Followed
<1> USE DEF JobsInv
<1>1. TablesOK' /\ att' = att
  BY TablesStep DEF dbVars
<1>2. ASSUME NEW i \in Item, item'[i] # item[i]
      PROVE  /\ item'[i] \in ItemRow /\ item'[i].attempt = NoAttempt
             /\ item'[i].status \in {"pending", "skipped"}
  BY <1>2, NewRow
<1>3. item' \in [Item -> ItemRow]
  BY <1>2, ItemAttempt
<1>4. JobTypeOK'
  BY <1>1, <1>3, StatusIsState DEF JobTypeOK, TablesOK
<1>5. ASSUME NEW i \in Item
      PROVE  ItemOK(i)'
  <2>1. CASE item'[i] = item[i]
    BY <1>1, <2>1, ItemKept
  <2>2. CASE item'[i] # item[i]
    BY <1>2, <2>2 DEF ItemOK
  <2> QED
    BY <2>1, <2>2
<1>6. ASSUME NEW u \in Worker
      PROVE  WorkerOK(u)'
  <2>1. ASSUME worker[u].pc # "idle"
        PROVE  worker[u].item \in Item
    BY <2>1 DEF WorkerOK
  <2> QED
    BY <1>2, <2>1, WorkerKept
<1>7. ASSUME NEW k \in Job
      PROVE  Follows(k)
  <2>1. CASE k = j
    <3>1. job'[j] = StatusOf(j, item') /\ request'[j] = kind
      BY DEF JobTypeOK
    <3> QED
      BY <2>1, <3>1, JobRefreshed
  <2>2. CASE k # j
    <3>1. job'[k] = job[k] /\ request'[k] = request[k] /\ \A i \in Item : i[1] = k => SameClass(i)
      BY <2>2 DEF JobTypeOK, SameClass
    <3> QED
      BY <3>1, JobKept
  <2> QED
    BY <2>1, <2>2
<1>8. AttemptHasOneItem'
  BY <1>2, OneItemKept
<1>9. \A k \in Job : JobOK(k)'
  BY <1>7, JobFollows
<1> QED
  BY <1>1, <1>4, <1>5, <1>6, <1>7, <1>8, <1>9 DEF Followed

LEMMA ItemPairs ==
  /\ \A i \in Item : i[1] \in Job /\ i[2] \in Submission /\ i = <<i[1], i[2]>>
  /\ \A j \in Job, s \in Submission : <<j, s>> \in Item /\ <<j, s>>[1] = j /\ <<j, s>>[2] = s
  BY DEF Item

LEMMA AcceptKeeps ==
  ASSUME JobsInv, NEW j \in Job, NEW chosen \in SUBSET Submission, NEW skipped \in SUBSET Submission,
         NEW upgrade \in BOOLEAN, NEW v \in Version, Accept(j, chosen, skipped, upgrade, v)
  PROVE  JobsInv' /\ Followed
<1> USE DEF JobsInv
<1> DEFINE kind == [upgrade |-> upgrade, version |-> v]
<1>1. /\ job[j] = "absent" /\ chosen # {}
      /\ item' = [i \in Item |-> IF i[1] # j \/ i[2] \notin chosen THEN item[i]
                                 ELSE NewItem(IF i[2] \in skipped THEN "skipped" ELSE "pending")]
      /\ request' = [request EXCEPT ![j] = kind]
      /\ job' = [job EXCEPT ![j] = IF chosen \subseteq skipped THEN "completed" ELSE "queued"]
      /\ UNCHANGED <<dbVars, pushed, worker, faults>>
  BY DEF Accept
<1>2. kind \in [upgrade : BOOLEAN, version : Version \cup {0}] /\ kind.version \in Version
  OBVIOUS
<1>3. \A i \in Item : \/ item'[i] = item[i]
                      \/ i[1] = j /\ item'[i] \in {NewItem("pending"), NewItem("skipped")}
  BY <1>1
<1>4. \A i \in Item : i[1] = j =>
        item'[i].status = IF i[2] \notin chosen THEN "absent"
                          ELSE IF i[2] \in skipped THEN "skipped" ELSE "pending"
  BY <1>1, NewRow DEF JobOK
<1>5. ~Has(j, item', "dispatched") /\ ~Has(j, item', "preparing") /\ ~Has(j, item', "failed")
  BY <1>4 DEF Has
<1>p. Has(j, item', "pending") <=> ~(chosen \subseteq skipped)
  <2>1. ASSUME Has(j, item', "pending")
        PROVE  ~(chosen \subseteq skipped)
    <3>1. PICK i \in Item : i[1] = j /\ item'[i].status = "pending"
      BY <2>1 DEF Has
    <3>2. i[2] \in chosen /\ i[2] \notin skipped
      BY <3>1, <1>4
    <3> QED
      BY <3>2
  <2>2. ASSUME ~(chosen \subseteq skipped)
        PROVE  Has(j, item', "pending")
    <3>1. PICK s \in chosen : s \notin skipped
      BY <2>2
    <3>2. <<j, s>> \in Item /\ <<j, s>>[1] = j /\ <<j, s>>[2] = s
      BY ItemPairs
    <3>3. item'[<<j, s>>].status = "pending"
      BY <3>1, <3>2, <1>4
    <3> QED
      BY <3>2, <3>3 DEF Has
  <2> QED
    BY <2>1, <2>2
<1>6. StatusOf(j, item') = IF chosen \subseteq skipped THEN "completed" ELSE "queued"
  BY <1>5, <1>p, StatusFacts
<1>7. DOMAIN item' = Item /\ item' = [i \in Item |-> item'[i]]
  BY <1>1
<1>8. PICK e \in Item : e[1] = j /\ item'[e].status # "absent"
  <2>1. PICK s \in chosen : s \in Submission
    BY <1>1
  <2>2. <<j, s>> \in Item /\ <<j, s>>[1] = j /\ <<j, s>>[2] = s
    BY <2>1, ItemPairs
  <2>3. item'[<<j, s>>].status # "absent"
    BY <1>4, <2>1, <2>2
  <2> QED
    BY <2>2, <2>3
<1> HIDE DEF kind
<1> QED
  BY <1>1, <1>2, <1>3, <1>6, <1>7, <1>8, NewJobKeeps

LEMMA RetryKeeps ==
  ASSUME JobsInv, NEW j \in Job, NEW p \in Job, Retry(j, p)
  PROVE  JobsInv' /\ Followed
<1> USE DEF JobsInv
<1> DEFINE again == {s \in Submission : item[<<p, s>>].status \in {"failed", "skipped"}}
<1>1. /\ job[j] = "absent" /\ job[p] # "absent" /\ again # {}
      /\ item' = [i \in Item |-> IF i[1] = j /\ i[2] \in again
                                 THEN NewItem("pending") ELSE item[i]]
      /\ request' = [request EXCEPT ![j] = request[p]]
      /\ job' = [job EXCEPT ![j] = "queued"]
      /\ UNCHANGED <<dbVars, pushed, worker, faults>>
  BY DEF Retry, Again
<1>2. /\ request[p] \in [upgrade : BOOLEAN, version : Version \cup {0}]
      /\ request[p].version \in Version
  BY <1>1 DEF JobTypeOK, JobOK
<1> HIDE DEF again
<1>3. \A i \in Item : \/ item'[i] = item[i]
                      \/ i[1] = j /\ item'[i] \in {NewItem("pending"), NewItem("skipped")}
  BY <1>1
<1>4. \A i \in Item : i[1] = j => item'[i].status = IF i[2] \in again THEN "pending" ELSE "absent"
  BY <1>1, NewRow DEF JobOK
<1>5. again \subseteq Submission
  BY DEF again
<1>6. ~Has(j, item', "dispatched") /\ Has(j, item', "pending")
  <2>1. ~Has(j, item', "dispatched")
    BY <1>4 DEF Has
  <2>2. PICK s \in Submission : s \in again
    BY <1>1, <1>5
  <2>3. <<j, s>> \in Item /\ <<j, s>>[1] = j /\ <<j, s>>[2] = s
    BY ItemPairs
  <2>4. item'[<<j, s>>].status = "pending"
    BY <1>4, <2>2, <2>3
  <2> QED
    BY <2>1, <2>3, <2>4 DEF Has
<1>7. StatusOf(j, item') = "queued"
  BY <1>6, StatusFacts
<1>8. DOMAIN item' = Item /\ item' = [i \in Item |-> item'[i]]
  BY <1>1
<1>9. PICK e \in Item : e[1] = j /\ item'[e].status # "absent"
  BY <1>6 DEF Has
<1> QED
  BY <1>1, <1>2, <1>3, <1>7, <1>8, <1>9, NewJobKeeps

-----------------------------------------------------------------------------
(* The invariant *)

LEMMA JobsStart == Init => JobsInv
<1> SUFFICES ASSUME Init
             PROVE  JobsInv
  OBVIOUS
<1>1. TablesOK
  BY TablesInit DEF Init
<1>2. JobTypeOK
  <2>1. NewItem("absent") \in ItemRow
    BY NewRow
  <2>2. Idle \in [pc : WorkerPc, item : Item \cup {NoItem}, attempt : Ref]
    BY DEF Idle, WorkerPc, Ref
  <2>3. faults \in 0..MaxFaults
    BY JobsAssumption DEF Init
  <2> QED
    BY <1>1, <2>1, <2>2, <2>3 DEF Init, JobTypeOK, TablesOK, JobState
<1>3. \A i \in Item : ItemOK(i)
  BY NewRow DEF Init, ItemOK, IsOpen, OpenStatus
<1>4. \A w \in Worker : WorkerOK(w)
  BY DEF Init, Idle, WorkerOK
<1>5. \A j \in Job : JobOK(j)
  BY NewRow DEF Init, JobOK, FinishedState
<1>6. AttemptHasOneItem
  BY NewRow DEF Init, AttemptHasOneItem
<1> QED
  BY <1>1, <1>2, <1>3, <1>4, <1>5, <1>6 DEF JobsInv

\* The jobs whose status alone is written.
LEMMA StatusOnlyKeeps ==
  ASSUME JobsInv, NEW j \in Job, NEW status \in JobState,
         job' = [job EXCEPT ![j] = status], JobOK(j)',
         UNCHANGED <<dbVars, item, request, pushed, worker, faults>>
  PROVE  JobsInv'
<1> USE DEF JobsInv
<1>1. TablesOK' /\ att' = att
  BY TablesStep DEF dbVars
<1>2. JobTypeOK'
  BY <1>1 DEF JobTypeOK, TablesOK
<1>3. \A i \in Item : ItemOK(i)'
  BY <1>1, ItemKept
<1>4. \A u \in Worker : WorkerOK(u)'
  BY WorkerKept
<1>5. ASSUME NEW k \in Job, k # j
      PROVE  JobOK(k)'
  <2>1. job'[k] = job[k]
    BY <1>5 DEF JobTypeOK
  <2> QED
    BY <2>1, JobFollows, JobKept DEF SameClass
<1>6. AttemptHasOneItem'
  BY OneItemKept
<1> QED
  BY <1>1, <1>2, <1>3, <1>4, <1>5, <1>6

LEMMA CloseRoundKeeps ==
  ASSUME JobsInv, RoundsOK, NEW w \in Worker, NEW j \in Job, CloseRound(w, j)
  PROVE  JobsInv' /\ Followed
<1>1. /\ job[j] # "absent" /\ job' = [job EXCEPT ![j] = StatusOf(j, item)]
      /\ UNCHANGED <<dbVars, item, request, pushed, worker, faults>>
  BY DEF CloseRound, RoundsOK, RoundOK
<1>2. job \in [Job -> JobState]
  BY DEF JobsInv, JobTypeOK
<1>3. /\ request[j].version \in Version
      /\ \E i \in Item : i[1] = j /\ item[i].status # "absent"
  BY <1>1 DEF JobsInv, JobOK
<1>4. job'[j] = StatusOf(j, item') /\ \A k \in Job : k # j => job'[k] = job[k]
  BY <1>1, <1>2
<1>5. Follows(j)
  BY <1>1, <1>3, <1>4, JobRefreshed
<1>6. \A k \in Job : k # j => Follows(k)
  BY <1>1, <1>4, JobKept DEF SameClass
<1>7. JobOK(j)'
  BY <1>5, JobFollows DEF JobsInv
<1>8. JobsInv'
  BY <1>1, <1>7, StatusIsState, StatusOnlyKeeps
<1> QED
  BY <1>5, <1>6, <1>8 DEF Followed

LEMMA WriteStatusKeeps ==
  ASSUME JobsInv, RoundsOK, NEW w \in Worker, NEW j \in Job, WriteStatus(w, j)
  PROVE  /\ JobsInv' /\ UNCHANGED <<item, att>> /\ job[j] # "absent" /\ job'[j] # "absent"
         /\ \A k \in Job : k # j => job'[k] = job[k]
<1>1. PICK status \in JobState : <<j, status>> \in round[w].counted /\ job' = [job EXCEPT ![j] = status]
  BY DEF WriteStatus
<1>2. /\ job[j] # "absent" /\ status # "absent"
      /\ status \in FinishedState => status = StatusOf(j, item)
  <2>1. PICK count \in round[w].counted : count = <<j, status>>
    BY <1>1
  <2>2. count[1] = j /\ count[2] = status
    BY <2>1
  <2> QED
    BY <2>2 DEF RoundsOK, RoundOK
<1>3. UNCHANGED <<dbVars, item, request, pushed, worker, faults>>
  BY DEF WriteStatus
<1>4. job \in [Job -> JobState]
  BY DEF JobsInv, JobTypeOK
<1>5. job'[j] = status /\ \A k \in Job : k # j => job'[k] = job[k]
  BY <1>1, <1>4
<1>6. JobOK(j)'
  BY <1>2, <1>3, <1>5 DEF JobsInv, JobOK
<1>7. JobsInv'
  BY <1>1, <1>3, <1>6, StatusOnlyKeeps
<1> QED
  BY <1>2, <1>3, <1>5, <1>7 DEF dbVars

LEMMA CountItemsKeeps ==
  ASSUME JobsInv, NEW w \in Worker, NEW j \in Job, CountItems(w, j)
  PROVE  JobsInv' /\ Followed
<1>1. UNCHANGED <<dbVars, item, request, job, pushed, worker, faults>>
  BY DEF CountItems, jobVars
<1>2. worker' \in [Worker -> WorkerState] /\ pushed' \subseteq AttemptId
  BY <1>1 DEF JobsInv, JobTypeOK, WorkerState
<1>3. TablesOK' /\ att' = att
  BY <1>1, TablesStep DEF JobsInv, dbVars
<1> QED
  BY <1>1, <1>2, <1>3, TablesOnlyKeeps

LateWrite == \E w \in Worker, j \in Job : WriteStatus(w, j)

LEMMA JobsStep ==
  ASSUME JobsInv, RoundsOK, [Next]_vars
  PROVE  JobsInv' /\ (Followed \/ LateWrite)
<1>1. CASE Request
  BY <1>1, SubmitKeeps, AcceptKeeps, RetryKeeps DEF Request
<1>2. ASSUME NEW w \in Worker, WorkerStep(w)
      PROVE  JobsInv' /\ (Followed \/ LateWrite)
  <2>1. CASE \E j \in Job : WriteStatus(w, j)
    BY <2>1, WriteStatusKeeps DEF LateWrite
  <2>2. CASE RequeueExpired(w) \/ \E j \in Job : CountItems(w, j) \/ CloseRound(w, j)
    BY <2>2, RequeueExpiredKeeps, CountItemsKeeps, CloseRoundKeeps
  <2>3. CASE \/ \E i \in Item : Claim(w, i)
             \/ Renew(w) \/ Defer(w) \/ Look(w) \/ Reuse(w) \/ FindBusy(w)
             \/ \E a \in AttemptId : Create(w, a)
             \/ Push(w) \/ MarkDispatched(w) \/ MarkJudging(w)
             \/ Skip(w) \/ Fail(w) \/ BackOff(w) \/ GiveBack(w)
    BY <2>3, ClaimKeeps, RenewKeeps, DeferKeeps, LookKeeps, ReuseKeeps, FindBusyKeeps, CreateKeeps,
       PushKeeps, MarkDispatchedKeeps, MarkJudgingKeeps, SkipKeeps, FailKeeps, BackOffKeeps,
       GiveBackKeeps
  <2> QED
    BY <1>2, <2>1, <2>2, <2>3 DEF WorkerStep
<1>3. ASSUME NEW w \in Worker, OverQuota(w) \/ PushRefused(w) \/ Throw(w) \/ Crash(w)
      PROVE  JobsInv' /\ Followed
  BY <1>3, OverQuotaKeeps, PushRefusedKeeps, ThrowKeeps, DeferKeeps
<1>4. ASSUME NEW i \in Item, Expire(i)
      PROVE  JobsInv' /\ Followed
  BY <1>4, ExpireKeeps
<1>5. ASSUME NEW a \in AttemptId, Recover(a) \/ Result(a)
      PROVE  JobsInv' /\ Followed
  BY <1>5, RecoverKeeps, ResultGradedKeeps, ResultErrorKeeps, ResultRetryKeeps DEF Result
<1>6. CASE UNCHANGED vars
  <2>1. /\ UNCHANGED <<dbVars, item, request, job, faults, pushed, worker>>
    BY <1>6 DEF vars, jobVars
  <2>2. worker' \in [Worker -> WorkerState] /\ pushed' \subseteq AttemptId
    BY <2>1 DEF JobsInv, JobTypeOK, WorkerState
  <2>3. TablesOK' /\ att' = att
    BY <2>1, TablesStep DEF JobsInv, dbVars
  <2> QED
    BY <2>1, <2>2, <2>3, TablesOnlyKeeps
<1> QED
  BY <1>1, <1>2, <1>3, <1>4, <1>5, <1>6 DEF Next

-----------------------------------------------------------------------------
(* Refinement: what the ledger of jobs sees of the items *)

Now(i) == IF IsOpen(i) THEN "open" ELSE item[i].status
RoundOf(i) == IF item[i].attempt = NoAttempt THEN 0 ELSE att[item[i].attempt].retries + 1
Finished == {j \in Job : job[j] \in FinishedState}
NoneOpen(j) == \A i \in Item : i[1] = j => Now(i) # "open"

LEMMA OpenIsOpen ==
  ASSUME JobsInv, NEW i \in Item
  PROVE  Now(i) = "open" <=> IsOpen(i)
  BY DEF JobsInv, JobTypeOK, ItemRow, OpenStatus, EndStatus, IsOpen, Now

Failed(j) == \E i \in Item : i[1] = j /\ Now(i) = "failed"

EndedFacts ==
  JobsInv => \A j \in Job :
    IF NoneOpen(j)
    THEN StatusOf(j, item) = IF Failed(j) THEN "completed_with_errors" ELSE "completed"
    ELSE StatusOf(j, item) \notin FinishedState /\ j \notin Finished

LEMMA EndedAre == EndedFacts
<1> SUFFICES ASSUME JobsInv, NEW j \in Job
             PROVE  IF NoneOpen(j)
                    THEN StatusOf(j, item) = IF Failed(j) THEN "completed_with_errors" ELSE "completed"
                    ELSE StatusOf(j, item) \notin FinishedState /\ j \notin Finished
  BY DEF EndedFacts
<1>1. NoneOpen(j) <=> ~Has(j, item, "dispatched") /\ ~Has(j, item, "pending") /\ ~Has(j, item, "preparing")
  BY OpenIsOpen DEF NoneOpen, Has, IsOpen, OpenStatus
<1>2. Failed(j) <=> Has(j, item, "failed")
  BY DEF Failed, Has, Now, IsOpen, OpenStatus
<1>3. job[j] \in FinishedState => job[j] = StatusOf(j, item)
  BY DEF JobsInv, JobOK
<1> QED
  BY <1>1, <1>2, <1>3, StatusFacts DEF Finished, FinishedState

LEMMA EndedAreNext == EndedFacts'
  BY EndedAre, PTL

SeenFacts ==
  /\ Batch!ledgerVars = <<Outcome, Rounds, Finished>>
  /\ Outcome = [i \in Item |-> Now(i)] /\ Rounds = [i \in Item |-> RoundOf(i)]

LEMMA AllSeen == SeenFacts
  BY DEF SeenFacts, Batch!ledgerVars, Outcome, Rounds, Finished, Now, RoundOf

LEMMA AllSeenNext == SeenFacts'
  BY AllSeen, PTL

\* The status is left alone, or made anew where an item was open.
SameJobs ==
  \A j \in Job : \/ job'[j] = job[j]
                 \/ /\ job'[j] = StatusOf(j, item')
                    /\ \E i \in Item : i[1] = j /\ Now(i) = "open"

LEMMA StillUnfinished ==
  ASSUME JobsInv, JobsInv', NEW j \in Job, NEW i \in Item, i[1] = j,
         Now(i) = "open", Now(i)' = "open"
  PROVE  j \notin Finished /\ j \notin Finished'
<1>1. ~NoneOpen(j) /\ ~NoneOpen(j)'
  BY DEF NoneOpen
<1> QED
  BY <1>1, EndedAre, EndedAreNext DEF EndedFacts

LEMMA SeesNothing ==
  ASSUME JobsInv, JobsInv', SameJobs,
         \A i \in Item : Now(i)' = Now(i) /\ RoundOf(i)' = RoundOf(i)
  PROVE  UNCHANGED Batch!ledgerVars
<1>1. Outcome' = Outcome /\ Rounds' = Rounds
  BY AllSeen, AllSeenNext DEF SeenFacts
<1>2. ASSUME NEW j \in Job
      PROVE  j \in Finished' <=> j \in Finished
  BY StillUnfinished DEF SameJobs, Finished
<1>3. Finished' = Finished
  BY <1>2 DEF Finished
<1> QED
  BY <1>1, <1>3, AllSeen, AllSeenNext DEF SeenFacts

LEMMA SeesRound ==
  ASSUME JobsInv, JobsInv', SameJobs, NEW e \in Item, Now(e) = "open", Now(e)' = "open",
         RoundOf(e) < MaxRetries + 1, RoundOf(e)' = RoundOf(e) + 1,
         \A i \in Item : i # e => Now(i)' = Now(i) /\ RoundOf(i)' = RoundOf(i)
  PROVE  Batch!StartRound(e)
<1>1. \A i \in Item : Now(i)' = Now(i)
  OBVIOUS
<1>2. Outcome' = Outcome /\ Outcome[e] = "open" /\ Rounds[e] = RoundOf(e)
  BY <1>1, AllSeen, AllSeenNext DEF SeenFacts
<1>3. Rounds' = [Rounds EXCEPT ![e] = @ + 1]
  BY AllSeen, AllSeenNext DEF SeenFacts
<1>4. ASSUME NEW j \in Job
      PROVE  j \in Finished' <=> j \in Finished
  BY <1>1, StillUnfinished DEF SameJobs, Finished
<1>5. Finished' = Finished
  BY <1>4 DEF Finished
<1> QED
  BY <1>2, <1>3, <1>5 DEF Batch!StartRound, Finished

LEMMA SeesEnd ==
  ASSUME JobsInv, JobsInv', SameJobs, NEW e \in Item, NEW result \in EndStatus,
         job'[e[1]] = StatusOf(e[1], item'), Now(e) = "open", Now(e)' = result, result = "succeeded" => RoundOf(e) > 0,
         \A i \in Item : i # e => Now(i)' = Now(i),
         \A i \in Item : RoundOf(i)' = RoundOf(i)
  PROVE  Batch!EndItem(e, result)
<1>1. Rounds' = Rounds /\ Outcome[e] = "open" /\ Rounds[e] = RoundOf(e)
  BY AllSeen, AllSeenNext DEF SeenFacts
<1>2. Outcome' = [Outcome EXCEPT ![e] = result]
  BY AllSeen, AllSeenNext DEF SeenFacts
<1> DEFINE others == \E p \in Submission : <<e[1], p>> # e /\ Outcome[<<e[1], p>>] = "open"
<1>3. e[1] \in Job /\ job[e[1]] # "absent" /\ result # "open"
  BY OpenIsOpen, OpenItemOfJob DEF EndStatus
<1>4. others <=> ~NoneOpen(e[1])'
  <2>1. \A i \in Item : Outcome[i] = Now(i)
    BY AllSeen, AllSeenNext DEF SeenFacts
  <2>2. ASSUME others
        PROVE  ~NoneOpen(e[1])'
    <3>1. PICK p \in Submission : <<e[1], p>> # e /\ Outcome[<<e[1], p>>] = "open"
      BY <2>2
    <3>2. <<e[1], p>> \in Item /\ <<e[1], p>>[1] = e[1]
      BY <1>3, ItemPairs
    <3> QED
      BY <2>1, <3>1, <3>2 DEF NoneOpen
  <2>3. ASSUME ~NoneOpen(e[1])'
        PROVE  others
    <3>1. PICK i \in Item : i[1] = e[1] /\ Now(i)' = "open"
      BY <2>3 DEF NoneOpen
    <3>2. i[2] \in Submission /\ i = <<e[1], i[2]>> /\ i # e
      BY <1>3, <3>1, ItemPairs
    <3> QED
      BY <2>1, <3>1, <3>2
  <2> QED
    BY <2>2, <2>3
<1> HIDE DEF others
<1>5. ASSUME NEW j \in Job
      PROVE  j \in Finished' <=> IF others THEN j \in Finished ELSE j \in Finished \cup {e[1]}
  <2>1. CASE j = e[1]
    <3>1. ~NoneOpen(j)
      BY <2>1 DEF NoneOpen
    <3>2. j \notin Finished
      BY <3>1, EndedAre DEF EndedFacts
    <3>3. j \in Finished' <=> NoneOpen(j)'
      BY <2>1, EndedAreNext DEF EndedFacts, Finished, FinishedState
    <3> QED
      BY <1>4, <2>1, <3>2, <3>3
  <2>2. CASE j # e[1]
    <3>1. CASE job'[j] = job[j]
      BY <2>2, <3>1 DEF Finished
    <3>2. CASE job'[j] # job[j]
      <4>1. PICK i \in Item : i[1] = j /\ Now(i) = "open" /\ Now(i)' = "open"
        BY <2>2, <3>2 DEF SameJobs
      <4> QED
        BY <2>2, <4>1, StillUnfinished
    <3> QED
      BY <3>1, <3>2
  <2> QED
    BY <2>1, <2>2
<1>6. Finished' = IF others THEN Finished ELSE Finished \cup {e[1]}
  BY <1>3, <1>5 DEF Finished
<1> QED
  BY <1>1, <1>2, <1>6 DEF Batch!EndItem, Finished, others

LEMMA SeesJob ==
  ASSUME JobsInv, JobsInv', NEW j \in Job, NEW chosen \in SUBSET Submission, NEW skipped,
         job[j] = "absent", chosen # {}, skipped \subseteq chosen,
         job'[j] = IF chosen \subseteq skipped THEN "completed" ELSE "queued",
         \A k \in Job : k # j => job'[k] = job[k],
         \A i \in Item : RoundOf(i)' = RoundOf(i),
         \A i \in Item : Now(i)' = IF i[1] # j \/ i[2] \notin chosen THEN Now(i)
                                   ELSE IF i[2] \in skipped THEN "skipped" ELSE "open"
  PROVE  Batch!AcceptJob(j, chosen, skipped)
<1>1. \A i \in Item : i[1] = j => Now(i) = "absent"
  BY DEF JobsInv, JobOK, Now, IsOpen, OpenStatus
<1>2. \A p \in Submission : Outcome[<<j, p>>] = "absent"
  BY <1>1, AllSeen, AllSeenNext, ItemPairs DEF SeenFacts
<1>3. Rounds' = Rounds
  BY AllSeen, AllSeenNext DEF SeenFacts
<1>4. Outcome' = [i \in Item |-> IF i[1] # j \/ i[2] \notin chosen THEN Outcome[i]
                                 ELSE IF i[2] \in skipped THEN "skipped" ELSE "open"]
  BY AllSeen, AllSeenNext DEF SeenFacts
<1>6. ASSUME NEW k \in Job
      PROVE  k \in Finished' <=> IF chosen \subseteq skipped THEN k \in Finished \cup {j}
                                 ELSE k \in Finished
  <2>1. CASE k = j
    BY <2>1 DEF Finished, FinishedState
  <2>2. CASE k # j
    BY <2>2 DEF Finished
  <2> QED
    BY <2>1, <2>2
<1>7. Finished' = IF chosen \subseteq skipped THEN Finished \cup {j} ELSE Finished
  BY <1>6 DEF Finished
<1> QED
  BY <1>2, <1>3, <1>4, <1>7 DEF Batch!AcceptJob, Batch!Entry, Finished, Item

LEMMA RoundKept ==
  ASSUME JobsInv, NEW i \in Item, item'[i].attempt = item[i].attempt,
         item[i].attempt # NoAttempt => att'[item[i].attempt].retries = att[item[i].attempt].retries
  PROVE  RoundOf(i)' = RoundOf(i)
  BY DEF RoundOf

LEMMA NowKept ==
  ASSUME NEW i \in Item,
         item'[i].status = item[i].status \/ {item[i].status, item'[i].status} \subseteq OpenStatus
  PROVE  Now(i)' = Now(i)
  BY DEF Now, IsOpen

\* Leases, program points and the queue are nothing the ledger sees.
LEMMA QuietStep ==
  ASSUME JobsInv, JobsInv', SameJobs,
         \A i \in Item : /\ item'[i].attempt = item[i].attempt
                         /\ \/ item'[i].status = item[i].status
                            \/ {item[i].status, item'[i].status} \subseteq OpenStatus,
         \A a \in AttemptId : Exists(a) => att'[a].retries = att[a].retries
  PROVE  UNCHANGED Batch!ledgerVars
<1>1. ASSUME NEW i \in Item
      PROVE  Now(i)' = Now(i) /\ RoundOf(i)' = RoundOf(i)
  BY <1>1, ItemAttempt, RoundKept, NowKept
<1> QED
  BY <1>1, SeesNothing

LEMMA QuietTables ==
  ASSUME JobsInv, JobsInv', UNCHANGED <<item, job, att>>
  PROVE  UNCHANGED Batch!ledgerVars
<1>1. SameJobs
  BY DEF SameJobs
<1> QED
  BY <1>1, QuietStep

LEMMA QuietWorker ==
  ASSUME JobsInv, JobsInv', NEW w \in Worker,
         \/ Renew(w) \/ Defer(w) \/ Look(w) \/ Reuse(w) \/ FindBusy(w) \/ Push(w)
         \/ MarkJudging(w) \/ OverQuota(w) \/ PushRefused(w) \/ Throw(w) \/ Crash(w)
  PROVE  UNCHANGED Batch!ledgerVars
<1>1. UNCHANGED <<item, job, att>>
  BY DEF Renew, Defer, Look, Reuse, FindBusy, Push, MarkJudging, StartJudging, OverQuota,
         PushRefused, Throw, Crash, jobVars, dbVars
<1> QED
  BY <1>1, QuietTables

LEMMA QuietLease ==
  ASSUME JobsInv, JobsInv', UNCHANGED <<att, job>>,
         NEW over \in SUBSET Item, \A i \in over : item[i].status \in {"pending", "preparing"},
         NEW status \in {"pending", "preparing"},
         \A i \in Item : IF i \in over
                         THEN item'[i].status = status /\ item'[i].attempt = item[i].attempt
                         ELSE item'[i] = item[i]
  PROVE  UNCHANGED Batch!ledgerVars
<1>1. SameJobs
  BY DEF SameJobs
<1> QED
  BY <1>1, QuietStep DEF OpenStatus

LEMMA QuietClaim ==
  ASSUME JobsInv, JobsInv', NEW w \in Worker, NEW i \in Item, Claim(w, i)
  PROVE  UNCHANGED Batch!ledgerVars
<1> DEFINE row == [item[i] EXCEPT !.status = "preparing", !.owner = w, !.live = TRUE]
<1>1. /\ item[i].status \in {"pending", "preparing"} /\ item[i] \in ItemRow
      /\ item' = [item EXCEPT ![i] = row] /\ UNCHANGED <<att, job>>
  BY ItemAttempt DEF Claim, Claimable, SetItem, dbVars
<1>2. row.status = "preparing" /\ row.attempt = item[i].attempt
  BY <1>1 DEF ItemRow
<1> HIDE DEF row
<1>3. \A k \in Item : IF k \in {i} THEN item'[k] = row ELSE item'[k] = item[k]
  BY <1>1 DEF JobsInv, JobTypeOK
<1> QED
  BY <1>1, <1>2, <1>3, QuietLease

LEMMA QuietGiveBack ==
  ASSUME JobsInv, JobsInv', NEW w \in Worker, GiveBack(w)
  PROVE  UNCHANGED Batch!ledgerVars
<1>1. PICK i \in Item : i = Mine(w) /\ item[i].status = "preparing" /\ item[i] \in ItemRow
  BY HeldItem DEF GiveBack
<1> DEFINE row == Released(item[i], "pending")
<1>2. item' = [item EXCEPT ![i] = row] /\ UNCHANGED <<att, job>>
  BY <1>1 DEF GiveBack, SetItem, dbVars
<1>3. row.status = "pending" /\ row.attempt = item[i].attempt
  BY <1>1, ReleasedRow DEF OpenStatus
<1> HIDE DEF row
<1>4. \A k \in Item : IF k \in {i} THEN item'[k] = row ELSE item'[k] = item[k]
  BY <1>2 DEF JobsInv, JobTypeOK
<1> QED
  BY <1>1, <1>2, <1>3, <1>4, QuietLease

LEMMA QuietExpire ==
  ASSUME JobsInv, JobsInv', NEW i \in Item, Expire(i)
  PROVE  UNCHANGED Batch!ledgerVars
<1> DEFINE row == [item[i] EXCEPT !.live = FALSE]
<1>1. /\ item[i].status = "preparing" /\ item[i] \in ItemRow
      /\ item' = [item EXCEPT ![i] = row] /\ UNCHANGED <<att, job>>
  BY ItemAttempt DEF Expire, SetItem, dbVars
<1>2. row.status = "preparing" /\ row.attempt = item[i].attempt
  BY <1>1 DEF ItemRow
<1> HIDE DEF row
<1>3. \A k \in Item : IF k \in {i} THEN item'[k] = row ELSE item'[k] = item[k]
  BY <1>1 DEF JobsInv, JobTypeOK
<1> QED
  BY <1>1, <1>2, <1>3, QuietLease

LEMMA QuietRequeue ==
  ASSUME JobsInv, JobsInv', NEW w \in Worker, RequeueExpired(w)
  PROVE  UNCHANGED Batch!ledgerVars
<1> DEFINE over == {i \in Item : item[i].status = "preparing" /\ ~item[i].live}
<1>1. UNCHANGED <<att, job>>
  BY DEF RequeueExpired, dbVars
<1>2. \A i \in Item : item'[i] = IF i \in over THEN Released(item[i], "pending") ELSE item[i]
  BY DEF RequeueExpired
<1>3. ASSUME NEW i \in Item
      PROVE  IF i \in over
             THEN item'[i].status = "pending" /\ item'[i].attempt = item[i].attempt
             ELSE item'[i] = item[i]
  <2>1. item[i] \in ItemRow /\ "pending" \in OpenStatus
    BY ItemAttempt DEF OpenStatus
  <2>2. /\ Released(item[i], "pending").status = "pending"
        /\ Released(item[i], "pending").attempt = item[i].attempt
    BY <2>1, ReleasedRow
  <2> QED
    BY <1>2, <2>2
<1> QED
  BY <1>1, <1>3, QuietLease

LEMMA RefreshIsSame ==
  ASSUME JobsInv, NEW i \in Item, IsOpen(i), Refresh(i[1])
  PROVE  SameJobs /\ job'[i[1]] = StatusOf(i[1], item')
<1>1. i[1] \in Job /\ Now(i) = "open"
  BY OpenItemOfJob DEF Now
<1>2. /\ job'[i[1]] = StatusOf(i[1], item')
      /\ \A j \in Job : j # i[1] => job'[j] = job[j]
  BY <1>1 DEF Refresh, JobsInv, JobTypeOK
<1> QED
  BY <1>1, <1>2 DEF SameJobs

LEMMA QuietMark ==
  ASSUME JobsInv, JobsInv', NEW w \in Worker, MarkDispatched(w)
  PROVE  UNCHANGED Batch!ledgerVars
<1>1. CASE ~Marks(w)
  <2>1. UNCHANGED <<item, job, att>>
    BY <1>1 DEF MarkDispatched, dbVars
  <2> QED
    BY <2>1, QuietTables
<1>2. CASE Marks(w)
  <2>1. Holds(w) /\ worker[w].pc = "marking"
    BY <1>2 DEF Marks, MarkDispatched
  <2>2. PICK i \in Item : i = Mine(w) /\ item[i].status = "preparing" /\ item[i] \in ItemRow /\ IsOpen(i)
    BY <2>1, HeldItem
  <2>3. item[i].attempt = worker[w].attempt
    BY <2>1, <2>2 DEF JobsInv, WorkerOK
  <2> DEFINE put == Released(item[i], "dispatched")
             row == [put EXCEPT !.attempt = worker[w].attempt]
  <2>4. item' = [item EXCEPT ![i] = row] /\ Refresh(i[1]) /\ UNCHANGED att
    BY <1>2, <2>2 DEF MarkDispatched, SetItem, dbVars
  <2>5. put \in ItemRow /\ put.status = "dispatched" /\ put.attempt = item[i].attempt
    BY <2>2, ReleasedRow DEF OpenStatus
  <2> HIDE DEF put
  <2>6. row.status = "dispatched" /\ row.attempt = item[i].attempt
    BY <2>3, <2>5 DEF ItemRow
  <2> HIDE DEF row
  <2>7. item'[i] = row /\ \A k \in Item : k # i => item'[k] = item[k]
    BY <2>4 DEF JobsInv, JobTypeOK
  <2>8. SameJobs
    BY <2>2, <2>4, RefreshIsSame
  <2>9. ASSUME NEW k \in Item
        PROVE  /\ item'[k].attempt = item[k].attempt
               /\ \/ item'[k].status = item[k].status
                  \/ {item[k].status, item'[k].status} \subseteq OpenStatus
    BY <2>2, <2>6, <2>7 DEF OpenStatus
  <2> QED
    BY <2>4, <2>8, <2>9, QuietStep
<1> QED
  BY <1>1, <1>2

LEMMA QuietSubmit ==
  ASSUME JobsInv, JobsInv', NEW s \in Submission, NEW v \in Version, Submit(s, v)
  PROVE  UNCHANGED Batch!ledgerVars
<1>1. TablesOK /\ CreateAttempt(s, <<s, 1>>, v, 0) /\ UNCHANGED <<item, job>>
  BY DEF Submit, InsertSubmission, jobVars, JobsInv
<1>2. \A b \in AttemptId : Exists(b) => att'[b] = att[b]
  BY <1>1, CreatedRows
<1>3. SameJobs
  BY <1>1 DEF SameJobs
<1> QED
  BY <1>1, <1>2, <1>3, QuietStep

LEMMA QuietRecover ==
  ASSUME JobsInv, JobsInv', NEW a \in AttemptId, Recover(a)
  PROVE  UNCHANGED Batch!ledgerVars
  BY QuietTables DEF Recover, StartJudging

\* An open item ends, with the attempt it has.
LEMMA EndedStep ==
  ASSUME JobsInv, JobsInv', SameJobs, NEW e \in Item, IsOpen(e), NEW result \in EndStatus,
         job'[e[1]] = StatusOf(e[1], item'), item'[e].status = result, item'[e].attempt = item[e].attempt,
         result = "succeeded" => item[e].attempt # NoAttempt,
         \A i \in Item : i # e => item'[i] = item[i],
         \A a \in AttemptId : Exists(a) => att'[a].retries = att[a].retries
  PROVE  Batch!EndItem(e, result)
<1>1. Now(e) = "open" /\ Now(e)' = result
  BY DEF Now, IsOpen, OpenStatus, EndStatus
<1>2. \A i \in Item : RoundOf(i)' = RoundOf(i)
  BY ItemAttempt, RoundKept
<1>3. \A i \in Item : i # e => Now(i)' = Now(i)
  BY NowKept
<1>4. result = "succeeded" => RoundOf(e) > 0
  <2>1. ASSUME item[e].attempt # NoAttempt
        PROVE  RoundOf(e) > 0
    <3>1. item[e].attempt \in AttemptId
      BY <2>1, ItemAttempt
    <3>2. att[item[e].attempt].retries \in Nat
      BY <3>1 DEF JobsInv, TablesOK, DbTypeOK, AttemptRow
    <3> QED
      BY <2>1, <3>2 DEF RoundOf
  <2> QED
    BY <2>1
<1> QED
  BY <1>1, <1>2, <1>3, <1>4, SeesEnd

LEMMA SkipEnds ==
  ASSUME JobsInv, JobsInv', NEW w \in Worker, Skip(w)
  PROVE  Batch!EndItem(Mine(w), "skipped") /\ Mine(w) \in Item
<1>1. PICK i \in Item : i = Mine(w) /\ IsOpen(i) /\ item[i] \in ItemRow
  BY HeldItem DEF Skip
<1> DEFINE row == Released(item[i], "skipped")
<1>2. item' = [item EXCEPT ![i] = row] /\ Refresh(i[1]) /\ UNCHANGED att
  BY <1>1 DEF Skip, SetItem, dbVars
<1>3. row.status = "skipped" /\ row.attempt = item[i].attempt
  BY <1>1, ReleasedRow DEF EndStatus
<1> HIDE DEF row
<1>4. item'[i] = row /\ \A k \in Item : k # i => item'[k] = item[k]
  BY <1>2 DEF JobsInv, JobTypeOK
<1>5. SameJobs /\ job'[i[1]] = StatusOf(i[1], item')
  BY <1>1, <1>2, RefreshIsSame
<1>6. "skipped" \in EndStatus
  BY DEF EndStatus
<1> QED
  BY <1>1, <1>2, <1>3, <1>4, <1>5, <1>6, EndedStep

LEMMA FailItemEnds ==
  ASSUME JobsInv, JobsInv', NEW i \in Item, IsOpen(i), FailItem(i), Refresh(i[1])
  PROVE  Batch!EndItem(i, "failed")
<1> DEFINE row == Released(item[i], "failed")
<1>1. item[i] \in ItemRow /\ item' = [item EXCEPT ![i] = row]
  BY ItemAttempt DEF FailItem, SetItem
<1>2. row.status = "failed" /\ row.attempt = item[i].attempt
  BY <1>1, ReleasedRow DEF EndStatus
<1> HIDE DEF row
<1>3. item'[i] = row /\ \A k \in Item : k # i => item'[k] = item[k]
  BY <1>1 DEF JobsInv, JobTypeOK
<1>4. SameJobs /\ job'[i[1]] = StatusOf(i[1], item')
  BY RefreshIsSame
<1>5. \A a \in AttemptId : Exists(a) => att'[a].retries = att[a].retries
  <2>1. CASE item[i].attempt = NoAttempt
    BY <2>1 DEF FailItem, dbVars
  <2>2. CASE item[i].attempt # NoAttempt
    BY <2>2, ItemAttempt, ErrorEnds DEF FailItem, JobsInv
  <2> QED
    BY <2>1, <2>2
<1>6. "failed" \in EndStatus
  BY DEF EndStatus
<1> QED
  BY <1>2, <1>3, <1>4, <1>5, <1>6, EndedStep

LEMMA FailEnds ==
  ASSUME JobsInv, JobsInv', NEW w \in Worker, Fail(w)
  PROVE  Batch!EndItem(Mine(w), "failed") /\ Mine(w) \in Item
<1>1. Mine(w) \in Item /\ IsOpen(Mine(w))
  BY HeldItem DEF Fail
<1> QED
  BY <1>1, FailItemEnds DEF Fail

LEMMA BackOffSeen ==
  ASSUME JobsInv, JobsInv', NEW w \in Worker, BackOff(w)
  PROVE  Mine(w) \in Item /\ (Batch!EndItem(Mine(w), "failed") \/ UNCHANGED Batch!ledgerVars)
<1>1. PICK i \in Item : /\ i = Mine(w) /\ IsOpen(i) /\ item[i] \in ItemRow
                        /\ item[i].status = "preparing"
  BY HeldItem DEF BackOff
<1>2. CASE item[i].tries < MaxTries
  <2> DEFINE put == Released(item[i], "pending")
             row == [put EXCEPT !.tries = @ + 1]
  <2>1. item' = [item EXCEPT ![i] = row] /\ UNCHANGED <<att, job>>
    BY <1>1, <1>2 DEF BackOff, SetItem, dbVars
  <2>2. put \in ItemRow /\ put.status = "pending" /\ put.attempt = item[i].attempt
    BY <1>1, ReleasedRow DEF OpenStatus
  <2> HIDE DEF put
  <2>3. row.status = "pending" /\ row.attempt = item[i].attempt
    BY <2>2 DEF ItemRow
  <2> HIDE DEF row
  <2>4. \A k \in Item : IF k \in {i} THEN item'[k] = row ELSE item'[k] = item[k]
    BY <2>1 DEF JobsInv, JobTypeOK
  <2> QED
    BY <1>1, <2>1, <2>3, <2>4, QuietLease
<1>3. CASE ~(item[i].tries < MaxTries)
  BY <1>1, <1>3, FailItemEnds DEF BackOff
<1> QED
  BY <1>1, <1>2, <1>3

\* The items of a result are those of one row at most.
LEMMA OneOpenItem ==
  ASSUME JobsInv, NEW a \in AttemptId
  PROVE  OpenItemsOf(a) = {} \/ \E e \in Item : OpenItemsOf(a) = {e}
<1>1. \A i, k \in OpenItemsOf(a) : i = k
  BY AttemptsAssumption DEF OpenItemsOf, JobsInv, AttemptHasOneItem
<1>2. OpenItemsOf(a) \subseteq Item
  BY DEF OpenItemsOf
<1> QED
  BY <1>1, <1>2

LEMMA LastResultSeen ==
  ASSUME JobsInv, JobsInv', NEW a \in AttemptId, NEW status \in {"succeeded", "failed"},
         EndItemOf(a, status), \A c \in AttemptId : Exists(c) => att'[c].retries = att[c].retries
  PROVE  \/ UNCHANGED Batch!ledgerVars
         \/ \E e \in Item : Batch!EndItem(e, status)
<1>1. /\ \A i \in Item : item'[i] = IF i \in OpenItemsOf(a) THEN Released(item[i], status) ELSE item[i]
      /\ \A j \in Job : job'[j] = IF \E i \in OpenItemsOf(a) : i[1] = j
                                  THEN StatusOf(j, item') ELSE job[j]
  BY DEF EndItemOf
<1>2. CASE OpenItemsOf(a) = {}
  <2>1. SameJobs
    BY <1>1, <1>2 DEF SameJobs
  <2> QED
    BY <1>1, <1>2, <2>1, QuietStep
<1>3. ASSUME NEW e \in Item, OpenItemsOf(a) = {e}
      PROVE  Batch!EndItem(e, status)
  <2>1. /\ IsOpen(e) /\ item[e].attempt = a /\ a # NoAttempt /\ item[e] \in ItemRow
        /\ status \in EndStatus
    BY <1>3, ItemAttempt, AttemptsAssumption DEF OpenItemsOf, EndStatus
  <2>2. item'[e].status = status /\ item'[e].attempt = item[e].attempt
    <3>1. item'[e] = Released(item[e], status)
      BY <1>1, <1>3
    <3>2. /\ Released(item[e], status).status = status
          /\ Released(item[e], status).attempt = item[e].attempt
      BY <2>1 DEF Released, ItemRow
    <3> QED
      BY <3>1, <3>2
  <2>3. \A i \in Item : i # e => item'[i] = item[i]
    BY <1>1, <1>3
  <2>4. Now(e) = "open" /\ e[1] \in Job
    BY <2>1, OpenItemOfJob DEF Now
  <2>5. SameJobs /\ job'[e[1]] = StatusOf(e[1], item')
    BY <1>1, <1>3, <2>4 DEF SameJobs
  <2> QED
    BY <2>1, <2>2, <2>3, <2>5, EndedStep
<1> QED
  BY <1>2, <1>3, OneOpenItem

LEMMA ResultGradedSeen ==
  ASSUME JobsInv, JobsInv', NEW a \in AttemptId, ResultGraded(a)
  PROVE  \/ UNCHANGED Batch!ledgerVars
         \/ \E e \in Item : Batch!EndItem(e, "succeeded")
<1>1. \A c \in AttemptId : att'[c].retries = att[c].retries
  BY GradedEnds DEF ResultGraded, JobsInv
<1> QED
  BY <1>1, LastResultSeen DEF ResultGraded

LEMMA ResultErrorSeen ==
  ASSUME JobsInv, JobsInv', NEW a \in AttemptId, ResultError(a)
  PROVE  \/ UNCHANGED Batch!ledgerVars
         \/ \E e \in Item : Batch!EndItem(e, "failed")
<1>1. \A c \in AttemptId : att'[c].retries = att[c].retries
  BY ErrorEnds DEF ResultError, JobsInv
<1> QED
  BY <1>1, LastResultSeen DEF ResultError

\* The open item of the failed attempt goes on with the retry, one round later.
LEMMA ResultRetrySeen ==
  ASSUME JobsInv, JobsInv', NEW a \in AttemptId, NEW b \in AttemptId, ResultRetry(a, b)
  PROVE  UNCHANGED Batch!ledgerVars \/ \E e \in Item : Batch!StartRound(e)
<1>1. /\ att'[a].retries = att[a].retries /\ att'[b].retries = att[a].retries + 1
      /\ ~Exists(b) /\ b # NoAttempt /\ a # NoAttempt
      /\ \A c \in AttemptId : c # a /\ c # b => att'[c] = att[c]
      /\ att[a].retries \in Nat /\ att[a].retries < MaxRetries
  BY RetryRows, AttemptsAssumption
  DEF ResultRetry, ApplyRetry, MayRetry, JobsInv, TablesOK, DbTypeOK, AttemptRow
<1> DEFINE again(i) == [Released(item[i], "pending") EXCEPT !.attempt = b]
<1>2. /\ \A i \in Item : item'[i] = IF i \in OpenItemsOf(a) THEN again(i) ELSE item[i]
      /\ \A j \in Job : job'[j] = IF \E i \in OpenItemsOf(a) : i[1] = j
                                  THEN StatusOf(j, item') ELSE job[j]
  BY DEF ResultRetry
<1>3. ASSUME NEW i \in Item
      PROVE  again(i).status = "pending" /\ again(i).attempt = b
  <2> DEFINE put == Released(item[i], "pending")
  <2>1. put \in ItemRow /\ put.status = "pending"
    BY ItemAttempt, ReleasedRow DEF OpenStatus
  <2> HIDE DEF put
  <2>2. [put EXCEPT !.attempt = b].status = "pending" /\ [put EXCEPT !.attempt = b].attempt = b
    BY <2>1 DEF ItemRow
  <2> QED
    BY <2>2 DEF put
<1> HIDE DEF again
<1>4. \A c \in AttemptId : Exists(c) => att'[c].retries = att[c].retries
  BY <1>1
<1>5. CASE OpenItemsOf(a) = {}
  <2>1. SameJobs
    BY <1>2, <1>5 DEF SameJobs
  <2> QED
    BY <1>2, <1>4, <1>5, <2>1, QuietStep
<1>6. ASSUME NEW e \in Item, OpenItemsOf(a) = {e}
      PROVE  Batch!StartRound(e)
  <2>1. IsOpen(e) /\ item[e].attempt = a
    BY <1>6 DEF OpenItemsOf
  <2>2. item'[e].status = "pending" /\ item'[e].attempt = b
    BY <1>2, <1>3, <1>6
  <2>3. Now(e) = "open" /\ Now(e)' = "open"
    BY <2>1, <2>2 DEF Now, IsOpen, OpenStatus
  <2>4. RoundOf(e) = att[a].retries + 1 /\ RoundOf(e)' = att'[b].retries + 1
    BY <1>1, <2>1, <2>2 DEF RoundOf
  <2>5. RoundOf(e) < MaxRetries + 1 /\ RoundOf(e)' = RoundOf(e) + 1
    BY <1>1, <2>4, AttemptsAssumption
  <2>6. \A i \in Item : i # e => Now(i)' = Now(i) /\ RoundOf(i)' = RoundOf(i)
    BY <1>2, <1>4, <1>6, ItemAttempt, RoundKept, NowKept
  <2>7. SameJobs
    BY <1>2, <1>6, <2>3 DEF SameJobs
  <2> QED
    BY <2>3, <2>5, <2>6, <2>7, SeesRound
<1> QED
  BY <1>5, <1>6, OneOpenItem

LEMMA CreateSeen ==
  ASSUME JobsInv, JobsInv', NEW w \in Worker, NEW a \in AttemptId, Create(w, a)
  PROVE  Batch!StartRound(Mine(w)) /\ Mine(w) \in Item
<1>1. PICK e \in Item : /\ e = Mine(w) /\ IsOpen(e) /\ item[e] \in ItemRow /\ e[1] \in Job
                        /\ item[e].status = "preparing" /\ item[e].attempt = NoAttempt
  BY HeldItem DEF Create
<1>2. /\ att'[a].retries = 0 /\ ~Exists(a) /\ a # NoAttempt
      /\ \A b \in AttemptId : b # a => att'[b] = att[b]
  <2>1. PICK s \in Submission : CreateAttempt(s, a, request[e[1]].version, 0)
    <3>1. Owner(a) \in Submission
      BY Pair
    <3> QED
      BY <1>1, <3>1 DEF Create, InsertSubmission
  <2>2. request[e[1]].version \in Version \cup {0} /\ TablesOK
    BY <1>1 DEF JobsInv, JobTypeOK
  <2> QED
    BY <2>1, <2>2, CreatedRows, AttemptsAssumption
<1> DEFINE row == [item[e] EXCEPT !.attempt = a]
<1>3. item' = [item EXCEPT ![e] = row] /\ UNCHANGED job
  BY <1>1 DEF Create, SetItem
<1>4. row.status = "preparing" /\ row.attempt = a
  BY <1>1 DEF ItemRow
<1> HIDE DEF row
<1>5. item'[e] = row /\ \A k \in Item : k # e => item'[k] = item[k]
  BY <1>3 DEF JobsInv, JobTypeOK
<1>6. Now(e) = "open" /\ Now(e)' = "open"
  BY <1>1, <1>4, <1>5 DEF Now, IsOpen, OpenStatus
<1>7. RoundOf(e) = 0 /\ RoundOf(e)' = 1
  BY <1>1, <1>2, <1>4, <1>5 DEF RoundOf
<1>8. ASSUME NEW i \in Item, i # e
      PROVE  Now(i)' = Now(i) /\ RoundOf(i)' = RoundOf(i)
  <2>1. item[i].attempt # NoAttempt => item[i].attempt \in AttemptId /\ item[i].attempt # a
    BY <1>2, ItemAttempt
  <2> QED
    BY <1>2, <1>5, <1>8, <2>1, RoundKept, NowKept
<1>9. SameJobs
  BY <1>3 DEF SameJobs
<1>10. RoundOf(e) < MaxRetries + 1 /\ RoundOf(e)' = RoundOf(e) + 1
  BY <1>7, AttemptsAssumption
<1> QED
  BY <1>1, <1>6, <1>8, <1>9, <1>10, SeesRound

LEMMA AcceptSeen ==
  ASSUME JobsInv, JobsInv', NEW j \in Job, NEW chosen \in SUBSET Submission,
         NEW skipped \in SUBSET Submission, skipped \subseteq chosen,
         NEW upgrade \in BOOLEAN, NEW v \in Version, Accept(j, chosen, skipped, upgrade, v)
  PROVE  Batch!AcceptJob(j, chosen, skipped)
<1>1. /\ job[j] = "absent" /\ chosen # {} /\ UNCHANGED att
      /\ job' = [job EXCEPT ![j] = IF chosen \subseteq skipped THEN "completed" ELSE "queued"]
      /\ \A i \in Item : item'[i] = IF i[1] # j \/ i[2] \notin chosen THEN item[i]
                                    ELSE NewItem(IF i[2] \in skipped THEN "skipped" ELSE "pending")
  BY DEF Accept, dbVars
<1>2. /\ job'[j] = IF chosen \subseteq skipped THEN "completed" ELSE "queued"
      /\ \A k \in Job : k # j => job'[k] = job[k]
  BY <1>1 DEF JobsInv, JobTypeOK
<1>3. \A i \in Item : i[1] = j => item[i].attempt = NoAttempt
  BY <1>1 DEF JobsInv, JobOK, ItemOK
<1>4. \A i \in Item : RoundOf(i)' = RoundOf(i)
  BY <1>1, <1>3, NewRow DEF RoundOf
<1>5. \A i \in Item : Now(i)' = IF i[1] # j \/ i[2] \notin chosen THEN Now(i)
                                ELSE IF i[2] \in skipped THEN "skipped" ELSE "open"
  BY <1>1, NewRow DEF Now, IsOpen, OpenStatus
<1> QED
  BY <1>1, <1>2, <1>4, <1>5, SeesJob

LEMMA RetrySeen ==
  ASSUME JobsInv, JobsInv', NEW j \in Job, NEW p \in Job, Retry(j, p)
  PROVE  \E chosen \in SUBSET Submission : Batch!AcceptJob(j, chosen, {})
<1> DEFINE again == {s \in Submission : item[<<p, s>>].status \in {"failed", "skipped"}}
<1>1. /\ job[j] = "absent" /\ again # {} /\ UNCHANGED att
      /\ job' = [job EXCEPT ![j] = "queued"]
      /\ \A i \in Item : item'[i] = IF i[1] = j /\ i[2] \in again THEN NewItem("pending") ELSE item[i]
  BY DEF Retry, Again, dbVars
<1>2. again \in SUBSET Submission
  OBVIOUS
<1> HIDE DEF again
<1>3. /\ job'[j] = IF again \subseteq {} THEN "completed" ELSE "queued"
      /\ \A k \in Job : k # j => job'[k] = job[k]
  BY <1>1 DEF JobsInv, JobTypeOK
<1>4. \A i \in Item : i[1] = j => item[i].attempt = NoAttempt
  BY <1>1 DEF JobsInv, JobOK, ItemOK
<1>5. \A i \in Item : RoundOf(i)' = RoundOf(i)
  BY <1>1, <1>4, NewRow DEF RoundOf
<1>6. \A i \in Item : Now(i)' = IF i[1] # j \/ i[2] \notin again THEN Now(i)
                                ELSE IF i[2] \in {} THEN "skipped" ELSE "open"
  BY <1>1, NewRow DEF Now, IsOpen, OpenStatus
<1>7. Batch!AcceptJob(j, again, {})
  BY <1>1, <1>2, <1>3, <1>5, <1>6, SeesJob
<1> QED
  BY <1>2, <1>7

\* A status that is written alone is a report, or nothing, of which the ledger
\* hears while items are open.
LEMMA StatusSeen ==
  ASSUME JobsInv, JobsInv', NEW j \in Job, job[j] # "absent", UNCHANGED <<item, att>>,
         \A k \in Job : k # j => job'[k] = job[k]
  PROVE  Batch!Report(j) \/ UNCHANGED Batch!ledgerVars
<1>1. \A i \in Item : Now(i)' = Now(i) /\ RoundOf(i)' = RoundOf(i)
  BY DEF Now, RoundOf, IsOpen
<1>2. Outcome' = Outcome /\ Rounds' = Rounds /\ \A i \in Item : Outcome[i] = Now(i)
  BY <1>1, AllSeen, AllSeenNext DEF SeenFacts
<1>3. CASE NoneOpen(j)
  <2>1. PICK e \in Item : e[1] = j /\ item[e].status # "absent"
    BY DEF JobsInv, JobOK
  <2>2. e[2] \in Submission /\ e = <<j, e[2]>> /\ Now(e) # "absent"
    BY <2>1, ItemPairs DEF Now
  <2>3. \E p \in Submission : Outcome[<<j, p>>] # "absent"
    BY <1>2, <2>2
  <2>4. \A p \in Submission : <<j, p>> \in Item /\ <<j, p>>[1] = j
    BY ItemPairs
  <2>5. \A p \in Submission : Outcome[<<j, p>>] # "open"
    BY <1>2, <1>3, <2>4 DEF NoneOpen
  <2>6. Finished' \in {Finished \cup {j}, Finished \ {j}}
    <3>1. CASE j \in Finished'
      <4>1. Finished' = Finished \cup {j}
        BY <3>1 DEF Finished
      <4> QED
        BY <4>1
    <3>2. CASE j \notin Finished'
      <4>1. Finished' = Finished \ {j}
        BY <3>2 DEF Finished
      <4> QED
        BY <4>1
    <3> QED
      BY <3>1, <3>2
  <2> QED
    BY <1>2, <2>3, <2>5, <2>6 DEF Batch!Report, Finished
<1>4. CASE ~NoneOpen(j)
  <2>1. PICK i \in Item : i[1] = j /\ Now(i) = "open" /\ Now(i)' = "open"
    BY <1>1, <1>4 DEF NoneOpen
  <2>2. j \notin Finished /\ j \notin Finished'
    BY <2>1, StillUnfinished
  <2>3. Finished' = Finished
    BY <2>2 DEF Finished
  <2> QED
    BY <1>2, <2>3, AllSeen, AllSeenNext DEF SeenFacts
<1> QED
  BY <1>3, <1>4

LEMMA CloseRoundSeen ==
  ASSUME JobsInv, JobsInv', RoundsOK, NEW w \in Worker, NEW j \in Job, CloseRound(w, j)
  PROVE  Batch!Report(j) \/ UNCHANGED Batch!ledgerVars
<1>1. /\ job[j] # "absent" /\ job' = [job EXCEPT ![j] = StatusOf(j, item)]
      /\ UNCHANGED <<item, att>>
  BY DEF CloseRound, RoundsOK, RoundOK, dbVars
<1>2. \A k \in Job : k # j => job'[k] = job[k]
  BY <1>1 DEF JobsInv, JobTypeOK
<1> QED
  BY <1>1, <1>2, StatusSeen

LEMMA LedgerSees ==
  ASSUME JobsInv, JobsInv', RoundsOK, [Next]_vars
  PROVE  [Batch!LedgerNext]_(Batch!ledgerVars)
<1> DEFINE Goal == [Batch!LedgerNext]_(Batch!ledgerVars)
<1>1. Batch!Entry = Item /\ Batch!Result = EndStatus
  BY DEF Batch!Entry, Item, Batch!Result, EndStatus
<1>2. ASSUME NEW e \in Item, NEW result \in EndStatus,
             Batch!StartRound(e) \/ Batch!EndItem(e, result)
      PROVE  Goal
  BY <1>1, <1>2 DEF Batch!LedgerNext
<1>3. ASSUME NEW j \in Job, NEW chosen \in SUBSET Submission, NEW skipped \in SUBSET Submission,
             skipped \subseteq chosen, Batch!AcceptJob(j, chosen, skipped)
      PROVE  Goal
  BY <1>3 DEF Batch!LedgerNext
<1>r. ASSUME NEW j \in Job, Batch!Report(j)
      PROVE  Goal
  BY <1>r DEF Batch!LedgerNext
<1>4. {"succeeded", "failed", "skipped"} = EndStatus
  BY DEF EndStatus
<1>5. CASE Request
  <2>1. CASE \E s \in Submission, v \in Version : Submit(s, v)
    BY <2>1, QuietSubmit
  <2>2. CASE \E j \in Job, chosen, skipped \in SUBSET Submission, upgrade \in BOOLEAN, v \in Version :
               skipped \subseteq chosen /\ Accept(j, chosen, skipped, upgrade, v)
    BY <1>3, <2>2, AcceptSeen
  <2>3. CASE \E j, p \in Job : Retry(j, p)
    <3>1. PICK j \in Job, p \in Job : Retry(j, p)
      BY <2>3
    <3>2. PICK chosen \in SUBSET Submission : Batch!AcceptJob(j, chosen, {})
      BY <3>1, RetrySeen
    <3>3. {} \in SUBSET Submission /\ {} \subseteq chosen
      OBVIOUS
    <3> QED
      BY <1>3, <3>2, <3>3
  <2> QED
    BY <1>5, <2>1, <2>2, <2>3 DEF Request
<1>6. ASSUME NEW w \in Worker, WorkerStep(w)
      PROVE  Goal
  <2>1. CASE \E i \in Item : Claim(w, i)
    BY <2>1, QuietClaim
  <2>2. CASE \/ Renew(w) \/ Defer(w) \/ Look(w) \/ Reuse(w) \/ FindBusy(w) \/ Push(w)
             \/ MarkJudging(w)
    BY <2>2, QuietWorker
  <2>3. CASE \E a \in AttemptId : Create(w, a)
    BY <1>2, <1>4, <2>3, CreateSeen
  <2>4. CASE MarkDispatched(w)
    BY <2>4, QuietMark
  <2>5. CASE Skip(w) \/ Fail(w)
    BY <1>2, <1>4, <2>5, SkipEnds, FailEnds
  <2>6. CASE BackOff(w)
    BY <1>2, <1>4, <2>6, BackOffSeen
  <2>7. CASE GiveBack(w)
    BY <2>7, QuietGiveBack
  <2>8. CASE RequeueExpired(w)
    BY <2>8, QuietRequeue
  <2>9. ASSUME NEW j \in Job, CountItems(w, j)
        PROVE  Goal
    <3>1. UNCHANGED <<item, job, att>>
      BY <2>9 DEF CountItems, jobVars, dbVars
    <3> QED
      BY <3>1, QuietTables
  <2>10. ASSUME NEW j \in Job, WriteStatus(w, j) \/ CloseRound(w, j)
         PROVE  Goal
    <3>1. Batch!Report(j) \/ UNCHANGED Batch!ledgerVars
      BY <2>10, WriteStatusKeeps, StatusSeen, CloseRoundSeen
    <3> QED
      BY <1>r, <3>1
  <2> HIDE DEF Goal
  <2> QED
    BY <1>6, <2>1, <2>2, <2>3, <2>4, <2>5, <2>6, <2>7, <2>8, <2>9, <2>10 DEF WorkerStep
<1>7. ASSUME NEW w \in Worker, OverQuota(w) \/ PushRefused(w) \/ Throw(w) \/ Crash(w)
      PROVE  Goal
  BY <1>7, QuietWorker
<1>8. ASSUME NEW i \in Item, Expire(i)
      PROVE  Goal
  BY <1>8, QuietExpire
<1>9. ASSUME NEW a \in AttemptId, Recover(a) \/ Result(a)
      PROVE  Goal
  <2>1. CASE Recover(a)
    BY <2>1, QuietRecover
  <2>2. CASE ResultGraded(a)
    BY <1>2, <1>4, <2>2, ResultGradedSeen
  <2>3. CASE ResultError(a)
    BY <1>2, <1>4, <2>3, ResultErrorSeen
  <2>4. CASE \E b \in AttemptId : ResultRetry(a, b)
    BY <1>2, <1>4, <2>4, ResultRetrySeen
  <2> QED
    BY <1>9, <2>1, <2>2, <2>3, <2>4 DEF Result
<1>10. CASE UNCHANGED vars
  <2>1. UNCHANGED <<item, job, att>>
    BY <1>10 DEF vars, jobVars, dbVars
  <2> QED
    BY <2>1, QuietTables
<1> QED
  BY <1>5, <1>6, <1>7, <1>8, <1>9, <1>10 DEF Next

LEMMA JobLedgerStarts == Init => Batch!LedgerInit
<1> SUFFICES ASSUME Init
             PROVE  Batch!LedgerInit
  OBVIOUS
<1>1. /\ \A i \in Item : Now(i) = "absent" /\ RoundOf(i) = 0
      /\ Finished = {}
  BY NewRow DEF Init, Now, RoundOf, IsOpen, OpenStatus, Finished, FinishedState
<1>2. Outcome = [i \in Item |-> "absent"] /\ Rounds = [i \in Item |-> 0]
  BY <1>1, AllSeen DEF SeenFacts
<1> QED
  BY <1>1, <1>2 DEF Batch!LedgerInit, Batch!Entry, Item, Finished

-----------------------------------------------------------------------------
(* Rounds: jobs stay, and what a count of ended items says stays true *)

LEMMA EndedStays ==
  ASSUME JobsInv, [Batch!LedgerNext]_(Batch!ledgerVars),
         NEW j \in Job, job[j] # "absent", NoneOpen(j), NEW i \in Item, i[1] = j
  PROVE  Now(i)' = Now(i)
<1>1. Outcome[i] = Now(i) /\ Outcome'[i] = Now(i)'
  BY AllSeen, AllSeenNext DEF SeenFacts
<1>2. CASE UNCHANGED Batch!ledgerVars
  BY <1>1, <1>2, AllSeen, AllSeenNext DEF SeenFacts
<1>3. CASE \E k \in Job : Batch!Report(k)
  BY <1>1, <1>3 DEF Batch!Report
<1>4. ASSUME NEW k \in Job, NEW chosen \in SUBSET Submission, NEW skipped \in SUBSET Submission,
             Batch!AcceptJob(k, chosen, skipped)
      PROVE  Now(i)' = Now(i)
  <2>1. PICK e \in Item : e[1] = j /\ item[e].status # "absent"
    BY DEF JobsInv, JobOK
  <2>2. e[2] \in Submission /\ e = <<j, e[2]>> /\ Outcome[e] # "absent"
    BY <2>1, AllSeen, ItemPairs DEF SeenFacts, Now
  <2>3. \A p \in Submission : Outcome[<<k, p>>] = "absent"
    BY <1>4 DEF Batch!AcceptJob
  <2>4. k # j
    BY <2>2, <2>3
  <2>5. Outcome' = [x \in Batch!Entry |-> IF x[1] # k \/ x[2] \notin chosen THEN Outcome[x]
                                          ELSE IF x[2] \in skipped THEN "skipped" ELSE "open"]
    BY <1>4 DEF Batch!AcceptJob
  <2>6. i \in Batch!Entry
    BY DEF Item, Batch!Entry
  <2> QED
    BY <1>1, <2>4, <2>5, <2>6
<1>5. CASE \E x \in Batch!Entry : Batch!StartRound(x)
  BY <1>1, <1>5 DEF Batch!StartRound
<1>6. ASSUME NEW x \in Item, NEW result, Batch!EndItem(x, result)
      PROVE  Now(i)' = Now(i)
  <2>1. Outcome[x] = "open" /\ Outcome' = [Outcome EXCEPT ![x] = result]
    BY <1>6 DEF Batch!EndItem
  <2>2. x # i
    BY <1>1, <2>1 DEF NoneOpen
  <2> QED
    BY <1>1, <2>1, <2>2, AllSeen DEF SeenFacts
<1>7. Batch!Entry = Item
  BY DEF Batch!Entry, Item
<1> QED
  BY <1>2, <1>3, <1>4, <1>5, <1>6, <1>7 DEF Batch!LedgerNext

\* What a step leaves true of a job that was there.
StaysTrue(j) ==
  job[j] # "absent" => /\ job'[j] # "absent"
                       /\ StatusOf(j, item) \in FinishedState => StatusOf(j, item') = StatusOf(j, item)

LEMMA JobStaysTrue ==
  ASSUME JobsInv, RoundsOK, [Next]_vars, NEW j \in Job
  PROVE  StaysTrue(j)
<1> SUFFICES ASSUME job[j] # "absent"
             PROVE  /\ job'[j] # "absent"
                    /\ StatusOf(j, item) \in FinishedState
                         => StatusOf(j, item') = StatusOf(j, item)
  BY DEF StaysTrue
<1>1. JobsInv' /\ (Followed \/ LateWrite)
  BY JobsStep
<1>2. job'[j] # "absent"
  <2>1. CASE Followed
    BY <2>1, StatusIsState DEF Followed, Follows
  <2>2. CASE LateWrite
    BY <2>2, WriteStatusKeeps DEF LateWrite
  <2> QED
    BY <1>1, <2>1, <2>2
<1>3. ASSUME StatusOf(j, item) \in FinishedState
      PROVE  StatusOf(j, item') = StatusOf(j, item)
  <2>1. NoneOpen(j)
    BY <1>3, EndedAre DEF EndedFacts
  <2>2. [Batch!LedgerNext]_(Batch!ledgerVars)
    BY <1>1, LedgerSees
  <2>3. \A i \in Item : i[1] = j => Now(i)' = Now(i)
    BY <2>1, <2>2, EndedStays
  <2>4. NoneOpen(j)' /\ (Failed(j)' <=> Failed(j))
    BY <2>1, <2>3 DEF NoneOpen, Failed
  <2>5. StatusOf(j, item) = IF Failed(j) THEN "completed_with_errors" ELSE "completed"
    BY <2>1, EndedAre DEF EndedFacts
  <2>6. StatusOf(j, item') = IF Failed(j)' THEN "completed_with_errors" ELSE "completed"
    BY <1>1, <2>4, EndedAreNext DEF EndedFacts
  <2> QED
    BY <2>4, <2>5, <2>6
<1> QED
  BY <1>2, <1>3

LEMMA RoundStays ==
  ASSUME NEW w \in Worker, round[w] \in RoundRow, RoundOK(w),
         \A j \in Job : StaysTrue(j),
         round'[w].jobs \subseteq round[w].jobs, round'[w].counted \subseteq round[w].counted
  PROVE  RoundOK(w)'
<1>1. ASSUME NEW j \in round'[w].jobs
      PROVE  job'[j] # "absent"
  <2>1. j \in Job /\ job[j] # "absent"
    BY <1>1 DEF RoundOK, RoundRow
  <2> QED
    BY <2>1 DEF StaysTrue
<1>2. ASSUME NEW count \in round'[w].counted
      PROVE  /\ job'[count[1]] # "absent" /\ count[2] # "absent"
             /\ count[2] \in FinishedState => count[2] = StatusOf(count[1], item')
  <2>1. count \in round[w].counted /\ count[1] \in Job
    BY <1>2 DEF RoundRow
  <2>2. /\ job[count[1]] # "absent" /\ count[2] # "absent"
        /\ count[2] \in FinishedState => count[2] = StatusOf(count[1], item)
    BY <2>1 DEF RoundOK
  <2> QED
    BY <2>1, <2>2 DEF StaysTrue
<1> QED
  BY <1>1, <1>2 DEF RoundOK

\* The steps of worker w that change its round, and nobody else's.
LEMMA OneRoundStep ==
  ASSUME RoundsOK, NEW w \in Worker, NEW row \in RoundRow,
         round' = [round EXCEPT ![w] = row], \A j \in Job : StaysTrue(j),
         \/ row.jobs \subseteq round[w].jobs /\ row.counted \subseteq round[w].counted
         \/ RoundOK(w)'
  PROVE  RoundsOK'
<1>1. /\ round' \in [Worker -> RoundRow] /\ round'[w] = row
      /\ \A u \in Worker : u # w => round'[u] = round[u]
  BY DEF RoundsOK
<1>2. ASSUME NEW u \in Worker
      PROVE  RoundOK(u)'
  <2>1. round[u] \in RoundRow /\ RoundOK(u)
    BY DEF RoundsOK
  <2>2. CASE u # w
    BY <1>1, <2>1, <2>2, RoundStays
  <2>3. CASE u = w
    BY <1>1, <2>1, <2>3, RoundStays
  <2> QED
    BY <2>2, <2>3
<1> QED
  BY <1>1, <1>2 DEF RoundsOK

LEMMA NewRoundRow == NewRound \in RoundRow /\ NewRound.jobs = {} /\ NewRound.counted = {}
  BY DEF NewRound, RoundRow

LEMMA RequeueRound ==
  ASSUME JobsInv, RoundsOK, NEW w \in Worker, RequeueExpired(w), \A j \in Job : StaysTrue(j)
  PROVE  RoundsOK'
<1> DEFINE over == {i \in Item : item[i].status = "preparing" /\ ~item[i].live}
           new == {i[1] : i \in over}
           row == [NewRound EXCEPT !.step = "refreshing", !.jobs = new]
<1>1. round \in [Worker -> RoundRow] /\ round[w] = NewRound
  BY DEF RequeueExpired, RoundsOK
<1>2. round' = [round EXCEPT ![w] = row]
  BY <1>1 DEF RequeueExpired
<1>3. \A j \in new : j \in Job /\ job[j] # "absent"
  BY OpenItemOfJob DEF IsOpen, OpenStatus
<1> HIDE DEF new
<1>4. row \in RoundRow /\ row.jobs = new /\ row.counted = {}
  BY <1>3 DEF NewRound, RoundRow
<1> HIDE DEF row
<1>5. round'[w] = row /\ \A j \in new : job'[j] # "absent"
  BY <1>1, <1>2, <1>3 DEF StaysTrue
<1>6. RoundOK(w)'
  BY <1>4, <1>5 DEF RoundOK
<1> QED
  BY <1>2, <1>4, <1>6, OneRoundStep

LEMMA CountRound ==
  ASSUME RoundsOK, NEW w \in Worker, NEW j \in Job, CountItems(w, j), \A k \in Job : StaysTrue(k)
  PROVE  RoundsOK'
<1> DEFINE counted == {<<j, StatusOf(j, item)>>}
           row == [round[w] EXCEPT !.counted = counted]
<1>1. /\ round \in [Worker -> RoundRow] /\ round[w] \in RoundRow
      /\ j \in round[w].jobs /\ UNCHANGED <<item, job>>
  BY DEF CountItems, RoundsOK, jobVars
<1>2. round' = [round EXCEPT ![w] = row]
  BY <1>1 DEF CountItems
<1>3. counted \subseteq Job \X JobState
  BY StatusIsState
<1>4. \A count \in counted : count[1] = j /\ count[2] = StatusOf(j, item)
  OBVIOUS
<1> HIDE DEF counted
<1>5. row \in RoundRow /\ row.jobs = round[w].jobs /\ row.counted = counted
  BY <1>1, <1>3 DEF RoundRow
<1> HIDE DEF row
<1>6. round'[w] = row /\ RoundOK(w)
  BY <1>1, <1>2 DEF RoundsOK
<1>7. RoundOK(w)'
  BY <1>1, <1>4, <1>5, <1>6, StatusIsState DEF RoundOK
<1> QED
  BY <1>2, <1>5, <1>7, OneRoundStep

LEMMA WrittenRound ==
  ASSUME RoundsOK, NEW w \in Worker, NEW j \in Job, WriteStatus(w, j) \/ CloseRound(w, j),
         \A k \in Job : StaysTrue(k)
  PROVE  RoundsOK'
<1> DEFINE rest == round[w].jobs \ {j}
           left == [round[w] EXCEPT !.jobs = rest, !.counted = {}]
           closing == [round[w] EXCEPT !.step = "closing", !.jobs = rest]
<1>1. round \in [Worker -> RoundRow] /\ round[w] \in RoundRow
  BY DEF RoundsOK
<1>2. rest \subseteq round[w].jobs /\ rest \subseteq Job
  BY <1>1 DEF RoundRow
<1>3. \/ round' = [round EXCEPT ![w] = NewRound]
      \/ round' = [round EXCEPT ![w] = left]
      \/ round' = [round EXCEPT ![w] = closing]
  BY <1>1 DEF WriteStatus, CloseRound
<1> HIDE DEF rest
<1>4. /\ left \in RoundRow /\ left.jobs = rest /\ left.counted = {}
      /\ closing \in RoundRow /\ closing.jobs = rest /\ closing.counted = round[w].counted
  BY <1>1, <1>2 DEF RoundRow
<1> HIDE DEF left, closing
<1> QED
  BY <1>2, <1>3, <1>4, NewRoundRow, OneRoundStep

LEMMA ClaimRound ==
  ASSUME JobsInv, RoundsOK, NEW w \in Worker, NEW i \in Item, Claim(w, i),
         \A j \in Job : StaysTrue(j)
  PROVE  RoundsOK'
<1> DEFINE new == round[w].jobs \cup {i[1]}
           row == [round[w] EXCEPT !.jobs = new]
<1>1. round \in [Worker -> RoundRow] /\ round[w] \in RoundRow /\ RoundOK(w)
  BY DEF RoundsOK
<1>2. round' = [round EXCEPT ![w] = row]
  BY <1>1 DEF Claim
<1>3. i[1] \in Job /\ job[i[1]] # "absent"
  BY OpenItemOfJob DEF Claim, Claimable, IsOpen, OpenStatus
<1>4. \A j \in new : j \in Job /\ job[j] # "absent"
  BY <1>1, <1>3 DEF RoundOK, RoundRow
<1> HIDE DEF new
<1>5. row \in RoundRow /\ row.jobs = new /\ row.counted = round[w].counted
  BY <1>1, <1>4 DEF RoundRow
<1> HIDE DEF row
<1>6. round'[w] = row /\ \A j \in new : job'[j] # "absent"
  BY <1>1, <1>2, <1>4 DEF StaysTrue
<1>7. ASSUME NEW count \in round[w].counted
      PROVE  /\ job'[count[1]] # "absent" /\ count[2] # "absent"
             /\ count[2] \in FinishedState => count[2] = StatusOf(count[1], item')
  <2>1. count[1] \in Job
    BY <1>1 DEF RoundRow
  <2> QED
    BY <1>1, <2>1 DEF RoundOK, StaysTrue
<1>8. RoundOK(w)'
  BY <1>5, <1>6, <1>7 DEF RoundOK
<1> QED
  BY <1>2, <1>5, <1>8, OneRoundStep

LEMMA RoundsStep ==
  ASSUME JobsInv, RoundsOK, [Next]_vars
  PROVE  RoundsOK'
<1>1. \A j \in Job : StaysTrue(j)
  BY JobStaysTrue
<1>2. CASE round' = round
  <2>1. \A u \in Worker : RoundOK(u)'
    BY <1>1, <1>2, RoundStays DEF RoundsOK
  <2> QED
    BY <1>2, <2>1 DEF RoundsOK
<1>3. ASSUME NEW w \in Worker, RequeueExpired(w)
      PROVE  RoundsOK'
  BY <1>1, <1>3, RequeueRound
<1>4. ASSUME NEW w \in Worker, NEW j \in Job,
             CountItems(w, j) \/ WriteStatus(w, j) \/ CloseRound(w, j)
      PROVE  RoundsOK'
  BY <1>1, <1>4, CountRound, WrittenRound
<1>5. ASSUME NEW w \in Worker, NEW i \in Item, Claim(w, i)
      PROVE  RoundsOK'
  BY <1>1, <1>5, ClaimRound
<1>6. ASSUME NEW w \in Worker, Crash(w)
      PROVE  RoundsOK'
  <2>1. round' = [round EXCEPT ![w] = NewRound]
    BY <1>6 DEF Crash
  <2> QED
    BY <1>1, <2>1, NewRoundRow, OneRoundStep
<1>7. \/ round' = round
      \/ \E w \in Worker :
           \/ RequeueExpired(w) \/ Crash(w)
           \/ \E j \in Job : CountItems(w, j) \/ WriteStatus(w, j) \/ CloseRound(w, j)
           \/ \E i \in Item : Claim(w, i)
  BY DEF Next, Request, WorkerStep, Result, Submit, Accept, Retry, Renew, Defer, Look, Reuse, FindBusy,
         Create, OverQuota, Push, PushRefused, MarkDispatched, MarkJudging, Skip, Fail, BackOff,
         GiveBack, Throw, Expire, Recover, ResultGraded, ResultError, ResultRetry, vars
<1> QED
  BY <1>2, <1>3, <1>4, <1>5, <1>6, <1>7

LEMMA RoundsStart == Init => RoundsOK
  BY NewRoundRow DEF Init, RoundsOK, RoundOK

-----------------------------------------------------------------------------
(* What follows *)

\* The invariant of everything below: workers write under their leases, results
\* end items with their attempts, and what rounds remember of finished jobs is
\* true.
THEOREM JobsInvariant == Spec => [](JobsInv /\ RoundsOK)
<1>1. Init => JobsInv /\ RoundsOK
  BY JobsStart, RoundsStart
<1>2. JobsInv /\ RoundsOK /\ [Next]_vars => JobsInv' /\ RoundsOK'
  BY JobsStep, RoundsStep
<1> QED
  BY <1>1, <1>2, PTL DEF Spec

\* Rows of jobs, items, attempts and rounds stay in their domains, tries in their
\* bound.
THEOREM JobsTypeCorrect == Spec => []TypeOK
<1>1. JobsInv /\ RoundsOK => TypeOK
  BY DEF JobsInv, RoundsOK, TypeOK
<1> QED
  BY <1>1, JobsInvariant, PTL

\* A rejudge or an upgrade never leaves a submission with a second open attempt,
\* or with a status that contradicts its active one.
THEOREM JobsKeepActiveConsistent == Spec => []ActiveConsistent
<1>1. JobsInv => ActiveConsistent
  BY DEF JobsInv, TablesOK
<1> QED
  BY <1>1, JobsInvariant, PTL

\* Whoever crashes, is late or overtaken, an item says of its attempt what the
\* tables say.
THEOREM ItemsAreHonest == Spec => []ItemHonest
<1>1. JobsInv => ItemHonest
  BY DEF JobsInv, ItemHonest, ItemOK
<1> QED
  BY <1>1, JobsInvariant, PTL

\* A result finds at most one item of its attempt.
THEOREM ItemsOwnTheirAttempts == Spec => []AttemptHasOneItem
<1>1. JobsInv => AttemptHasOneItem
  BY DEF JobsInv
<1> QED
  BY <1>1, JobsInvariant, PTL

\* Whatever counts of the past the rounds write, a job that is reported as
\* finished is, with failures exactly when it says so.
THEOREM JobsAreHonest == Spec => []JobHonest
<1>1. ASSUME JobsInv, NEW j \in Job
      PROVE  LET all == {item[i].status : i \in {k \in Item : k[1] = j}} IN
             /\ job[j] \in FinishedState => all \cap OpenStatus = {}
             /\ job[j] = "completed" => "failed" \notin all
             /\ job[j] = "completed_with_errors" => "failed" \in all
  <2> DEFINE all == {item[i].status : i \in {k \in Item : k[1] = j}}
  <2>1. \A x : x \in all <=> Has(j, item, x)
    BY DEF Has
  <2>2. job[j] \in FinishedState => job[j] = StatusOf(j, item)
    BY <1>1 DEF JobsInv, JobOK
  <2> HIDE DEF all
  <2>3. job[j] \in FinishedState => /\ ~Has(j, item, "dispatched")
                                    /\ ~Has(j, item, "pending") /\ ~Has(j, item, "preparing")
    BY <2>2, StatusFacts DEF FinishedState
  <2>4. job[j] = "completed" => ~Has(j, item, "failed")
    BY <2>2, StatusFacts DEF FinishedState
  <2>5. job[j] = "completed_with_errors" => Has(j, item, "failed")
    BY <2>2, StatusFacts DEF FinishedState
  <2>6. job[j] \in FinishedState => all \cap OpenStatus = {}
    BY <2>1, <2>3 DEF OpenStatus
  <2> QED
    BY <2>1, <2>4, <2>5, <2>6 DEF all
<1>2. JobsInv => JobHonest
  BY <1>1 DEF JobHonest
<1> QED
  BY <1>2, JobsInvariant, PTL

\* Every transaction that changes items brings the status of its job along: only
\* the late write of a round that ended leases takes a right status away.
THEOREM StatusesFollow == Spec => StatusFollows
<1> DEFINE Kept == \A j \in Job : UpToDate(j) => UpToDate(j)' \/ \E w \in Worker : WriteStatus(w, j)
<1>1. ASSUME JobsInv, RoundsOK, [Next]_vars
      PROVE  Kept
  <2>1. CASE Followed
    BY <1>1, <2>1, JobFollows DEF Followed, JobsInv
  <2>2. CASE LateWrite
    <3>1. PICK w \in Worker, k \in Job : WriteStatus(w, k)
      BY <2>2 DEF LateWrite
    <3>2. \A j \in Job : j # k => job'[j] = job[j] /\ item' = item
      BY <1>1, <3>1, WriteStatusKeeps
    <3> QED
      BY <3>1, <3>2 DEF UpToDate
  <2> QED
    BY <1>1, <2>1, <2>2, JobsStep
<1>2. JobsInv /\ RoundsOK /\ [Next]_vars => [Kept]_vars
  BY <1>1
<1> QED
  BY <1>2, JobsInvariant, PTL DEF Spec, StatusFollows

\* Refinement: with any workers, leases and faults, a job is accepted once, each
\* of its items ends once, after MaxRetries + 1 evaluations at most, what ends the
\* last of them reports the job as finished, and no report comes before.
THEOREM JobsImplementLedger == Spec => JobLedgerSpec
<1>1. JobsInv /\ JobsInv' /\ RoundsOK /\ [Next]_vars => [Batch!LedgerNext]_(Batch!ledgerVars)
  BY LedgerSees
<1> QED
  BY <1>1, JobLedgerStarts, JobsInvariant, PTL DEF Spec, JobLedgerSpec, Batch!JobLedgerSpec

-----------------------------------------------------------------------------
(* The tables under batch jobs *)

LEMMA TablesSee ==
  ASSUME JobsInv, [Next]_vars
  PROVE  [DbNext]_dbVars
<1>1. ASSUME NEW s \in Submission, NEW v \in Version, Submit(s, v)
      PROVE  DbNext
  <2>1. InsertSubmission(s, <<s, 1>>, v) /\ <<s, 1>> \in AttemptId
    BY <1>1 DEF Submit, InsertSubmission, CreateAttempt, Fresh
  <2> QED
    BY <2>1 DEF DbNext, EvaluationNext
<1>2. ASSUME NEW w \in Worker, NEW a \in AttemptId, Create(w, a)
      PROVE  DbNext
  <2>1. PICK i \in Item : i = Mine(w) /\ IsOpen(i) /\ request[i[1]].version \in Version
    BY <1>2, HeldItem, OpenItemOfJob DEF Create
  <2>2. PICK s \in Submission : CreateAttempt(s, a, request[i[1]].version, 0)
    <3>1. Owner(a) \in Submission
      BY Pair
    <3> QED
      BY <1>2, <2>1, <3>1 DEF Create, InsertSubmission
  <2> QED
    BY <2>1, <2>2 DEF DbNext
<1>3. ASSUME NEW w \in Worker, MarkJudging(w)
      PROVE  [DbNext]_dbVars
  <2>1. worker[w].attempt \in AttemptId
    BY <1>3 DEF MarkJudging, JobsInv, WorkerOK
  <2>2. Owner(worker[w].attempt) \in Submission
    BY <2>1, Pair
  <2> QED
    BY <1>3, <2>2 DEF MarkJudging, DbNext, EvaluationNext
<1>4. ASSUME NEW i \in Item, FailItem(i)
      PROVE  [DbNext]_dbVars
  BY <1>4, ItemAttempt DEF FailItem, DbNext, EvaluationNext
<1>5. ASSUME NEW w \in Worker, Fail(w) \/ BackOff(w)
      PROVE  [DbNext]_dbVars
  <2>1. Mine(w) \in Item
    BY <1>5, HeldItem DEF Fail, BackOff
  <2>2. FailItem(Mine(w)) \/ UNCHANGED dbVars
    BY <1>5 DEF Fail, BackOff
  <2> QED
    BY <1>4, <2>1, <2>2
<1>6. ASSUME NEW a \in AttemptId, Recover(a) \/ Result(a)
      PROVE  DbNext
  <2>1. Owner(a) \in Submission
    BY Pair
  <2> QED
    BY <1>6, <2>1 DEF Recover, Result, ResultGraded, ResultError, ResultRetry, DbNext, EvaluationNext
<1>7. CASE \/ \E j \in Job, chosen, skipped \in SUBSET Submission, upgrade \in BOOLEAN, v \in Version :
                Accept(j, chosen, skipped, upgrade, v)
           \/ \E j, p \in Job : Retry(j, p)
           \/ \E i \in Item : Expire(i)
           \/ UNCHANGED vars
  BY <1>7 DEF Accept, Retry, Expire, vars
<1>8. ASSUME NEW w \in Worker,
             \/ RequeueExpired(w) \/ \E j \in Job : CountItems(w, j) \/ WriteStatus(w, j) \/ CloseRound(w, j)
             \/ \E i \in Item : Claim(w, i)
             \/ Renew(w) \/ Defer(w) \/ Look(w) \/ Reuse(w) \/ FindBusy(w) \/ Push(w)
             \/ MarkDispatched(w) \/ Skip(w) \/ GiveBack(w)
             \/ OverQuota(w) \/ PushRefused(w) \/ Throw(w) \/ Crash(w)
      PROVE  UNCHANGED dbVars
  BY <1>8 DEF RequeueExpired, CountItems, WriteStatus, CloseRound, Claim, Renew, Defer, Look, Reuse,
     FindBusy, Push, MarkDispatched, Skip, GiveBack, OverQuota, PushRefused, Throw, Crash
<1> QED
  BY <1>1, <1>2, <1>3, <1>5, <1>6, <1>7, <1>8 DEF Next, Request, WorkerStep

\* Refinement: batch jobs touch the tables with the shared transactions alone.
THEOREM JobsImplementAttempts == Spec => AttemptsSpec
<1>1. Init => DbInit
  BY DEF Init
<1>2. JobsInv /\ [Next]_vars => [DbNext]_dbVars
  BY TablesSee
<1> QED
  BY <1>1, <1>2, JobsInvariant, PTL DEF Spec, AttemptsSpec

\* A rejudge replaces the verdict of a submission by that of a newer attempt, and
\* no attempt that ended is written again.
THEOREM JobsWriteOnce == Spec => WrittenOnce
  BY JobsImplementAttempts, ResultsAreWrittenOnce, PTL
=============================================================================
