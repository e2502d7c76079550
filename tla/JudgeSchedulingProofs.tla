----------------------- MODULE JudgeSchedulingProofs -----------------------
(* What holds of the judges of a resource group for any number of processes,
   tasks, pools, slots and faults: a user has one evaluation at a time, the
   threads that run stay within the slots, and the entries within the slots
   and the memory of the group.                                              *)
EXTENDS JudgeScheduling, SumFacts, SequenceTheorems

USE SchedulingAssumption

\* The type of what a permit is used for.
Evaluation == [pc : EvalPc, judge : Judge \cup {NoJudge}, task : Task \cup {NoTask}, failed : BOOLEAN]

Typed ==
  /\ queue \in [Pool -> Seq(Task)]
  /\ lease \in [Permit -> Lease \cup {NoLease}]
  /\ stageLease \in [Stage -> Nat]
  /\ claim \in [Key -> (Judge \X Task) \cup {NoClaim}]
  /\ cursor \in [Judge -> Nat]
  /\ eval \in [Permit -> Evaluation]
  /\ stage \in [Stage -> {"todo", "running", "over", "error"}]

\* Whose the permit is, and for which task, once there is one.
HasTask ==
  \A p \in Permit :
    /\ eval[p].pc # "free" => eval[p].judge \in Judge
    /\ eval[p].pc \notin {"free", "pulling"} => eval[p].task \in Task

\* Nobody takes the entry of a lease in use away.
LeasesHeld ==
  /\ \A p \in Permit : eval[p].pc \notin {"free", "busy"} => lease[p] # NoLease
  /\ \A i \in Stage : stage[i] = "running" => stageLease[i] # 0 /\ lease[i[1]] # NoLease

\* Nor the claim of an evaluation.
ClaimsHeld ==
  \A p \in Permit :
    eval[p].pc = "evaluating" => claim[KeyOf[eval[p].task]] = <<eval[p].judge, eval[p].task>>

SlotsKept == \A kind \in Kind : Used(lease, stageLease, kind) <= Slots[kind]

SchedulingInv ==
  Typed /\ HasTask /\ LeasesHeld /\ ClaimsHeld /\ OneEvaluationPerUser /\ SlotsKept

-----------------------------------------------------------------------------
(* The constants and the entries *)

LEMMA Pairs ==
  /\ \A i \in Stage : i[1] \in Permit /\ i[2] \in 0..MaxCases /\ i = <<i[1], i[2]>>
  /\ \A p \in Permit, k \in 0..MaxCases : <<p, k>> \in Stage /\ <<p, k>>[1] = p /\ <<p, k>>[2] = k
  BY DEF Stage

LEMMA FiniteStages == IsFiniteSet(Stage)
<1>1. IsFiniteSet(0..MaxCases)
  BY FS_Interval
<1> QED
  BY <1>1, FS_Product DEF Stage

LEMMA PoolFacts ==
  /\ \A t \in Task : PoolOf[t] \in Pool /\ KeyOf[t] \in Key
  /\ \A n \in 1..Len(Pools) : Pools[n] \in Pool
  /\ Len(Pools) \in Nat \ {0}
  /\ "none" \notin Pool
  /\ Pool \subseteq Kind
<1>1. Len(Pools) \in Nat \ {0} /\ DOMAIN Pools = 1..Len(Pools)
  OBVIOUS
<1>2. Pool \subseteq {"oi-wasm", "oi-native", "ai"}
  BY <1>1 DEF Pool, Range
<1>3. \A n \in 1..Len(Pools) : Pools[n] \in Pool
  BY <1>1 DEF Pool, Range
<1>4. \A t \in Task : PoolOf[t] \in Pool /\ KeyOf[t] \in Key
  BY DEF Key, Range
<1> QED
  BY <1>1, <1>2, <1>3, <1>4 DEF Kind

LEMMA LeaseFacts ==
  /\ \A pool \in Pool : NewLease(pool) \in Lease /\ NewLease(pool) # NoLease
  /\ \A L \in Lease : L # NoLease
  BY PoolFacts DEF NewLease, NoLease, Lease

\* With less in use, less is used.
LEMMA UsedLess ==
  ASSUME NEW L, NEW M, NEW S, NEW R, NEW kind,
         L \in [Permit -> Lease \cup {NoLease}], M \in [Permit -> Lease \cup {NoLease}],
         S \in [Stage -> Nat], R \in [Stage -> Nat],
         \A p \in Permit : L[p] # NoLease => M[p] # NoLease /\ M[p].pool = L[p].pool,
         \A i \in Stage : S[i] # 0 => R[i] # 0
  PROVE  /\ Used(L, S, kind) \in Nat /\ Used(M, R, kind) \in Nat
         /\ Used(L, S, kind) <= Used(M, R, kind)
<1> DEFINE LP == {p \in Entries(L) : L[p].pool = kind}
           MP == {p \in Entries(M) : M[p].pool = kind}
           SS == {i \in StageEntries(S) : KindOf(i) = kind}
           RS == {i \in StageEntries(R) : KindOf(i) = kind}
<1>1. LP \subseteq MP /\ MP \subseteq Permit
  BY DEF Entries
<1>2. SS \subseteq RS /\ RS \subseteq Stage
  BY DEF StageEntries
<1>3. IsFiniteSet(MP) /\ IsFiniteSet(RS)
  BY <1>1, <1>2, FiniteStages, FS_Subset
<1>4. /\ Cardinality(LP) \in Nat /\ Cardinality(MP) \in Nat
      /\ Cardinality(LP) <= Cardinality(MP)
  <2>1. IsFiniteSet(LP)
    BY <1>1, <1>3, FS_Subset
  <2> QED
    BY <1>1, <1>3, <2>1, FS_Subset, FS_CardinalityType
<1>5. /\ Cardinality(SS) \in Nat /\ Cardinality(RS) \in Nat
      /\ Cardinality(SS) <= Cardinality(RS)
  <2>1. IsFiniteSet(SS)
    BY <1>2, <1>3, FS_Subset
  <2> QED
    BY <1>2, <1>3, <2>1, FS_Subset, FS_CardinalityType
<1> QED
  BY <1>4, <1>5 DEF Used

-----------------------------------------------------------------------------
(* What several steps have in common *)

LEMMA SlotsKeptWithLess ==
  ASSUME Typed, Typed', SlotsKept,
         \A p \in Permit : lease'[p] # NoLease => lease[p] # NoLease /\ lease[p].pool = lease'[p].pool,
         \A i \in Stage : stageLease'[i] # 0 => stageLease[i] # 0
  PROVE  SlotsKept'
<1>1. ASSUME NEW kind \in Kind
      PROVE  Used(lease', stageLease', kind) <= Slots[kind]
  <2>1. /\ Used(lease', stageLease', kind) \in Nat /\ Used(lease, stageLease, kind) \in Nat
        /\ Used(lease', stageLease', kind) <= Used(lease, stageLease, kind)
    BY UsedLess DEF Typed
  <2>2. Used(lease, stageLease, kind) <= Slots[kind] /\ Slots[kind] \in Nat
    BY DEF SlotsKept
  <2> QED
    BY <2>1, <2>2
<1> QED
  BY <1>1 DEF SlotsKept

LEMMA SlotsKeptWhenPermitted ==
  ASSUME Permitted(lease', stageLease')
  PROVE  SlotsKept'
  BY DEF Permitted, SlotsKept

LEMMA SlotsKeptUnchanged ==
  ASSUME SlotsKept, UNCHANGED <<lease, stageLease>>
  PROVE  SlotsKept'
  BY DEF SlotsKept

\* Evaluations that go on keep their claims, and none is new.
LEMMA NoNewEvaluation ==
  ASSUME ClaimsHeld, OneEvaluationPerUser,
         \A p \in Permit : eval'[p].pc = "evaluating" =>
           /\ eval[p].pc = "evaluating"
           /\ eval'[p].judge = eval[p].judge /\ eval'[p].task = eval[p].task
           /\ claim'[KeyOf[eval[p].task]] = claim[KeyOf[eval[p].task]]
  PROVE  ClaimsHeld' /\ OneEvaluationPerUser'
<1>1. ClaimsHeld'
  BY DEF ClaimsHeld
<1>2. ASSUME NEW p \in Permit, NEW q \in Permit, p # q,
             eval'[p].pc = "evaluating", eval'[q].pc = "evaluating"
      PROVE  KeyOf[eval'[p].task] # KeyOf[eval'[q].task]
  <2>1. eval[p].pc = "evaluating" /\ eval[q].pc = "evaluating"
    BY <1>2
  <2>2. eval'[p].task = eval[p].task /\ eval'[q].task = eval[q].task
    BY <1>2
  <2> QED
    BY <1>2, <2>1, <2>2 DEF OneEvaluationPerUser
<1> QED
  BY <1>1, <1>2 DEF OneEvaluationPerUser

\* A permit that is dropped.
LEMMA LeaveKeeps ==
  ASSUME Typed, HasTask, NEW p \in Permit, Leave(p)
  PROVE  /\ eval' \in [Permit -> Evaluation]
         /\ stage' \in [Stage -> {"todo", "running", "over", "error"}]
         /\ eval'[p].pc = "free"
         /\ \A q \in Permit : q # p => eval'[q] = eval[q]
         /\ \A i \in Stage : stage'[i] = "running" => stage[i] = "running"
         /\ HasTask'
<1>1. eval[p].judge \in Judge \cup {NoJudge}
  BY DEF Typed, Evaluation
<1>2. /\ Free \in Evaluation
      /\ [Free EXCEPT !.judge = eval[p].judge]
           \in Evaluation
      /\ Free.pc = "free" /\ [Free EXCEPT !.judge = eval[p].judge].pc = "free"
  BY <1>1 DEF Free, EvalPc, Evaluation
<1>3. /\ eval' \in [Permit -> Evaluation]
      /\ eval'[p].pc = "free"
      /\ \A q \in Permit : q # p => eval'[q] = eval[q]
  BY <1>2 DEF Typed, Leave
<1>4. /\ stage' \in [Stage -> {"todo", "running", "over", "error"}]
      /\ \A i \in Stage : stage'[i] = "running" => stage[i] = "running"
  BY DEF Typed, Leave
<1>5. HasTask'
  BY <1>3 DEF HasTask
<1> QED
  BY <1>3, <1>4, <1>5

LEMMA RequeuedTyped ==
  ASSUME Typed, NEW t \in Task, Requeued(t)
  PROVE  queue' \in [Pool -> Seq(Task)]
  BY PoolFacts DEF Typed, Requeued

\* A permit moves on in the main loop, with its task.
LEMMA GotoKeeps ==
  ASSUME Typed, HasTask, NEW p \in Permit, NEW pc \in EvalPc, Goto(p, pc),
         eval[p].pc \notin {"free", "pulling"}
  PROVE  /\ eval' \in [Permit -> Evaluation]
         /\ eval'[p].pc = pc /\ eval'[p].task = eval[p].task /\ eval'[p].judge = eval[p].judge
         /\ eval[p].task \in Task /\ eval[p].judge \in Judge
         /\ \A q \in Permit : q # p => eval'[q] = eval[q]
         /\ HasTask'
<1>1. eval[p].task \in Task /\ eval[p].judge \in Judge
  BY DEF HasTask
<1>2. /\ eval' \in [Permit -> Evaluation]
      /\ eval'[p].pc = pc /\ eval'[p].task = eval[p].task /\ eval'[p].judge = eval[p].judge
      /\ \A q \in Permit : q # p => eval'[q] = eval[q]
  <2>1. eval[p] \in Evaluation
    BY DEF Typed
  <2>2. /\ [eval[p] EXCEPT !.pc = pc]
              \in Evaluation
        /\ [eval[p] EXCEPT !.pc = pc].pc = pc
        /\ [eval[p] EXCEPT !.pc = pc].task = eval[p].task
        /\ [eval[p] EXCEPT !.pc = pc].judge = eval[p].judge
    BY <2>1 DEF Evaluation
  <2>3. eval' = [eval EXCEPT ![p] = [eval[p] EXCEPT !.pc = pc]]
    BY DEF Goto
  <2> QED
    BY <2>2, <2>3 DEF Typed
<1> QED
  BY <1>1, <1>2 DEF HasTask

-----------------------------------------------------------------------------
(* The main loop *)

LEMMA TurnInRange ==
  ASSUME Typed, NEW j \in Judge, NEW n \in 0..(Len(Pools) - 1)
  PROVE  /\ Turn(j, n) \in 1..Len(Pools) /\ CursorAfter(j, n) \in 1..Len(Pools)
         /\ Pools[Turn(j, n)] \in Pool
<1>1. cursor[j] \in Nat /\ Len(Pools) \in Nat \ {0} /\ n \in Nat
  BY PoolFacts DEF Typed
<1>2. Turn(j, n) \in 1..Len(Pools)
  BY <1>1 DEF Turn
<1>3. CursorAfter(j, n) \in 1..Len(Pools)
  BY <1>1, <1>2 DEF CursorAfter
<1> QED
  BY <1>2, <1>3, PoolFacts

LEMMA AddLeaseKeeps ==
  ASSUME Typed, NEW p \in Permit, NEW pool \in Pool, AddLease(p, pool)
  PROVE  /\ lease' \in [Permit -> Lease \cup {NoLease}]
         /\ lease' = [lease EXCEPT ![p] = NewLease(pool)]
         /\ \A q \in Permit : lease[q] # NoLease \/ q = p => lease'[q] # NoLease
<1>1. NewLease(pool) \in Lease /\ NewLease(pool) # NoLease
  BY LeaseFacts
<1>2. lease' = [lease EXCEPT ![p] = NewLease(pool)]
  BY DEF AddLease
<1> QED
  BY <1>1, <1>2 DEF Typed

LEMMA AcquireKeeps ==
  ASSUME SchedulingInv, NEW j \in Judge, NEW p \in Permit, Acquire(j, p)
  PROVE  SchedulingInv'
<1> USE DEF SchedulingInv
<1>1. PICK n \in 0..(Len(Pools) - 1) :
        /\ FirstAdmissible(j, n, p)
        /\ cursor' = [cursor EXCEPT ![j] = CursorAfter(j, n)]
        /\ AddLease(p, Pools[Turn(j, n)])
  BY DEF Acquire
<1> DEFINE pool == Pools[Turn(j, n)]
<1>2. CursorAfter(j, n) \in Nat /\ pool \in Pool
  BY TurnInRange
<1>3. /\ lease' \in [Permit -> Lease \cup {NoLease}]
      /\ lease' = [lease EXCEPT ![p] = NewLease(pool)]
      /\ \A q \in Permit : lease[q] # NoLease \/ q = p => lease'[q] # NoLease
  BY <1>1, <1>2, AddLeaseKeeps
<1>4. /\ eval' \in [Permit -> Evaluation]
      /\ eval'[p].pc = "pulling" /\ eval'[p].judge = j
      /\ \A q \in Permit : q # p => eval'[q] = eval[q]
  <2>1. /\ [Free EXCEPT !.pc = "pulling", !.judge = j]
            \in Evaluation
        /\ [Free EXCEPT !.pc = "pulling", !.judge = j].pc = "pulling"
        /\ [Free EXCEPT !.pc = "pulling", !.judge = j].judge = j
    BY DEF Free, EvalPc, Evaluation
  <2> QED
    BY <2>1 DEF Typed, Acquire
<1>5. Typed'
  BY <1>1, <1>2, <1>3, <1>4 DEF Typed, Acquire, tasks
<1>6. HasTask'
  BY <1>4 DEF HasTask
<1>7. LeasesHeld'
  BY <1>3, <1>4, Pairs DEF LeasesHeld, Acquire
<1>8. ClaimsHeld' /\ OneEvaluationPerUser'
  BY <1>4, NoNewEvaluation DEF Acquire
<1>9. SlotsKept'
  BY <1>1, <1>3, SlotsKeptWhenPermitted DEF FirstAdmissible, Admissible, Acquire
<1> QED
  BY <1>5, <1>6, <1>7, <1>8, <1>9

LEMMA AcquireUnheardKeeps ==
  ASSUME SchedulingInv, NEW p \in Permit, AcquireUnheard(p)
  PROVE  SchedulingInv'
<1> USE DEF SchedulingInv
<1>1. PICK pool \in Pool : Admissible(pool, p) /\ AddLease(p, pool)
  BY DEF AcquireUnheard
<1>2. /\ lease' \in [Permit -> Lease \cup {NoLease}]
      /\ lease' = [lease EXCEPT ![p] = NewLease(pool)]
      /\ \A q \in Permit : lease[q] # NoLease \/ q = p => lease'[q] # NoLease
  BY <1>1, AddLeaseKeeps
<1>3. UNCHANGED <<queue, stageLease, claim, cursor, eval, stage>>
  BY DEF AcquireUnheard, tasks
<1>4. Typed' /\ HasTask'
  BY <1>2, <1>3 DEF Typed, HasTask
<1>5. LeasesHeld'
  BY <1>2, <1>3, Pairs DEF LeasesHeld
<1>6. ClaimsHeld' /\ OneEvaluationPerUser'
  BY <1>3, NoNewEvaluation
<1>7. SlotsKept'
  BY <1>1, <1>2, <1>3, SlotsKeptWhenPermitted DEF Admissible
<1> QED
  BY <1>4, <1>5, <1>6, <1>7

LEMMA PullKeeps ==
  ASSUME SchedulingInv, NEW p \in Permit, Pull(p)
  PROVE  SchedulingInv'
<1> USE DEF SchedulingInv
<1> DEFINE waiting == queue[lease[p].pool]
           t == Head(waiting)
<1>1. eval[p].pc = "pulling" /\ waiting # <<>>
  BY DEF Pull
<1>2. lease[p].pool \in Pool
  BY <1>1 DEF Typed, LeasesHeld, Lease
<1>3. waiting \in Seq(Task) /\ t \in Task /\ Tail(waiting) \in Seq(Task)
  BY <1>1, <1>2 DEF Typed
<1>4. UNCHANGED <<lease, stageLease, claim, cursor, stage>>
  BY DEF Pull
<1>5. /\ eval' \in [Permit -> Evaluation]
      /\ eval'[p].pc = "pulled" /\ eval'[p].task = t /\ eval'[p].judge = eval[p].judge
      /\ \A q \in Permit : q # p => eval'[q] = eval[q]
  <2>1. eval[p] \in Evaluation
    BY DEF Typed
  <2>2. /\ [eval[p] EXCEPT !.pc = "pulled", !.task = t]
              \in Evaluation
        /\ [eval[p] EXCEPT !.pc = "pulled", !.task = t].pc = "pulled"
        /\ [eval[p] EXCEPT !.pc = "pulled", !.task = t].task = t
        /\ [eval[p] EXCEPT !.pc = "pulled", !.task = t].judge = eval[p].judge
    BY <1>3, <2>1 DEF EvalPc, Evaluation
  <2>3. eval' = [eval EXCEPT ![p] = [eval[p] EXCEPT !.pc = "pulled", !.task = t]]
    BY DEF Pull, Typed
  <2> QED
    BY <2>2, <2>3 DEF Typed
<1>6. Typed'
  <2>1. queue' \in [Pool -> Seq(Task)]
    BY <1>2, <1>3 DEF Typed, Pull
  <2> QED
    BY <2>1, <1>4, <1>5 DEF Typed
<1>7. HasTask'
  BY <1>1, <1>3, <1>5 DEF HasTask
<1>8. LeasesHeld'
  BY <1>1, <1>4, <1>5 DEF LeasesHeld
<1>9. ClaimsHeld' /\ OneEvaluationPerUser'
  BY <1>4, <1>5, NoNewEvaluation
<1>10. SlotsKept'
  BY <1>4, SlotsKeptUnchanged
<1> QED
  BY <1>6, <1>7, <1>8, <1>9, <1>10

\* Steps that drop a permit and may put its task back.
LEMMA DroppedKeeps ==
  ASSUME SchedulingInv, NEW p \in Permit, Leave(p),
         queue' \in [Pool -> Seq(Task)],
         UNCHANGED <<lease, stageLease, claim, cursor>>
  PROVE  SchedulingInv'
<1> USE DEF SchedulingInv
<1>1. /\ eval' \in [Permit -> Evaluation]
      /\ stage' \in [Stage -> {"todo", "running", "over", "error"}]
      /\ eval'[p].pc = "free"
      /\ \A q \in Permit : q # p => eval'[q] = eval[q]
      /\ \A i \in Stage : stage'[i] = "running" => stage[i] = "running"
      /\ HasTask'
  BY LeaveKeeps
<1>2. Typed'
  BY <1>1 DEF Typed
<1>3. LeasesHeld'
  BY <1>1 DEF LeasesHeld
<1>4. ClaimsHeld' /\ OneEvaluationPerUser'
  BY <1>1, NoNewEvaluation
<1>5. SlotsKept'
  BY SlotsKeptUnchanged
<1> QED
  BY <1>1, <1>2, <1>3, <1>4, <1>5

LEMMA PullNothingKeeps ==
  ASSUME SchedulingInv, NEW p \in Permit, PullNothing(p)
  PROVE  SchedulingInv'
  BY DroppedKeeps DEF PullNothing, redis, SchedulingInv, Typed

LEMMA RequeueKeeps ==
  ASSUME SchedulingInv, NEW p \in Permit, Requeue(p)
  PROVE  SchedulingInv'
<1>1. eval[p].task \in Task
  BY DEF Requeue, SchedulingInv, HasTask
<1>2. queue' \in [Pool -> Seq(Task)]
  BY <1>1, RequeuedTyped DEF Requeue, SchedulingInv, Typed
<1> QED
  BY <1>2, DroppedKeeps DEF Requeue

Wanted(p) == [lease EXCEPT ![p].base = Base[eval[p].task], ![p].headroom = Headroom[eval[p].task]]

\* A task was pulled; its lease is resized or not, and it goes on or back.
LEMMA ResizedKeeps ==
  ASSUME SchedulingInv, NEW p \in Permit, eval[p].pc = "pulled",
         NEW pc \in {"admitted", "refused"}, NEW failed \in BOOLEAN,
         eval' = [eval EXCEPT ![p].pc = pc, ![p].failed = failed],
         \/ lease' = Wanted(p) /\ Permitted(lease', stageLease')
         \/ UNCHANGED lease,
         UNCHANGED <<queue, stageLease, claim, cursor, stage>>
  PROVE  SchedulingInv'
<1> USE DEF SchedulingInv
<1>1. eval[p].task \in Task /\ eval[p].judge \in Judge /\ lease[p] \in Lease
  BY DEF HasTask, LeasesHeld, Typed
<1>2. /\ eval' \in [Permit -> Evaluation]
      /\ eval'[p].pc = pc /\ eval'[p].task = eval[p].task /\ eval'[p].judge = eval[p].judge
      /\ \A q \in Permit : q # p => eval'[q] = eval[q]
  <2>1. eval[p] \in Evaluation
    BY DEF Typed
  <2>2. /\ [eval[p] EXCEPT !.pc = pc, !.failed = failed]
              \in Evaluation
        /\ [eval[p] EXCEPT !.pc = pc, !.failed = failed].pc = pc
        /\ [eval[p] EXCEPT !.pc = pc, !.failed = failed].task = eval[p].task
        /\ [eval[p] EXCEPT !.pc = pc, !.failed = failed].judge = eval[p].judge
    BY <2>1 DEF EvalPc, Evaluation
  <2>3. eval' = [eval EXCEPT ![p] = [eval[p] EXCEPT !.pc = pc, !.failed = failed]]
    BY DEF Typed
  <2> QED
    BY <2>2, <2>3 DEF Typed
<1>3. lease' \in [Permit -> Lease \cup {NoLease}]
      /\ \A q \in Permit : lease[q] # NoLease => lease'[q] # NoLease
  <2>1. CASE lease' = Wanted(p)
    <3>1. Base[eval[p].task] \in Nat /\ Headroom[eval[p].task] \in Nat
      BY <1>1
    <3>2. [lease[p] EXCEPT !.base = Base[eval[p].task], !.headroom = Headroom[eval[p].task]] \in Lease
      BY <1>1, <3>1 DEF Lease
    <3>3. lease' = [lease EXCEPT ![p] =
                     [lease[p] EXCEPT !.base = Base[eval[p].task], !.headroom = Headroom[eval[p].task]]]
      BY <2>1 DEF Wanted, Typed
    <3> QED
      BY <3>2, <3>3, LeaseFacts DEF Typed
  <2>2. CASE UNCHANGED lease
    BY <2>2 DEF Typed
  <2> QED
    BY <2>1, <2>2
<1>4. Typed' /\ HasTask'
  BY <1>1, <1>2, <1>3 DEF Typed, HasTask
<1>5. LeasesHeld'
  BY <1>2, <1>3, Pairs DEF LeasesHeld
<1>6. ClaimsHeld' /\ OneEvaluationPerUser'
  BY <1>2, NoNewEvaluation
<1>7. SlotsKept'
  BY SlotsKeptUnchanged, SlotsKeptWhenPermitted
<1> QED
  BY <1>4, <1>5, <1>6, <1>7

LEMMA ResizeKeeps ==
  ASSUME SchedulingInv, NEW p \in Permit, Resize(p)
  PROVE  SchedulingInv'
<1> DEFINE tooMuch == Base[eval[p].task] + Headroom[eval[p].task] > Budget
           pc == IF tooMuch \/ Permitted(Wanted(p), stageLease) THEN "admitted" ELSE "refused"
<1>1. eval[p].pc = "pulled" /\ UNCHANGED <<queue, stageLease, claim, cursor, stage>>
  BY DEF Resize, tasks
<1>2. eval' = [eval EXCEPT ![p].failed = tooMuch, ![p].pc = pc]
  BY DEF Resize, Wanted
<1>3. \/ lease' = Wanted(p) /\ Permitted(lease', stageLease')
      \/ UNCHANGED lease
  BY <1>1 DEF Resize, Wanted
<1>4. pc \in {"admitted", "refused"} /\ tooMuch \in BOOLEAN
  OBVIOUS
<1> HIDE DEF tooMuch, pc
<1>5. eval' = [eval EXCEPT ![p].pc = pc, ![p].failed = tooMuch]
  BY <1>2 DEF SchedulingInv, Typed
<1> QED
  BY <1>1, <1>3, <1>4, <1>5, ResizedKeeps

LEMMA ResizeUnheardKeeps ==
  ASSUME SchedulingInv, NEW p \in Permit, ResizeUnheard(p)
  PROVE  SchedulingInv'
<1>1. /\ eval[p].pc = "pulled" /\ UNCHANGED <<queue, stageLease, claim, cursor, stage>>
      /\ eval' = [eval EXCEPT ![p].pc = "admitted", ![p].failed = TRUE]
  BY DEF ResizeUnheard, tasks
<1>2. \/ lease' = Wanted(p) /\ Permitted(lease', stageLease')
      \/ UNCHANGED lease
  BY <1>1 DEF ResizeUnheard, Wanted
<1> QED
  BY <1>1, <1>2, ResizedKeeps

\* A claim is free, so no evaluation holds it.
LEMMA FreeClaim ==
  ASSUME SchedulingInv, NEW k \in Key, claim[k] = NoClaim
  PROVE  \A p \in Permit : eval[p].pc = "evaluating" => KeyOf[eval[p].task] # k
<1>1. SUFFICES ASSUME NEW p \in Permit, eval[p].pc = "evaluating", KeyOf[eval[p].task] = k
               PROVE  FALSE
  OBVIOUS
<1>2. <<eval[p].judge, eval[p].task>> = NoClaim
  BY <1>1 DEF SchedulingInv, ClaimsHeld
<1>3. eval[p].task \in Task
  BY <1>1 DEF SchedulingInv, HasTask
<1> QED
  BY <1>2, <1>3 DEF NoClaim

\* The claim of the task of permit p is made.
LEMMA ClaimedTyped ==
  ASSUME SchedulingInv, NEW p \in Permit, eval[p].pc = "admitted",
         claim' = [claim EXCEPT ![KeyOf[eval[p].task]] = <<eval[p].judge, eval[p].task>>]
  PROVE  /\ KeyOf[eval[p].task] \in Key
         /\ claim' \in [Key -> (Judge \X Task) \cup {NoClaim}]
         /\ claim'[KeyOf[eval[p].task]] = <<eval[p].judge, eval[p].task>>
         /\ \A t \in Task : KeyOf[t] # KeyOf[eval[p].task] => claim'[KeyOf[t]] = claim[KeyOf[t]]
<1>1. eval[p].task \in Task /\ eval[p].judge \in Judge
  BY DEF SchedulingInv, HasTask
<1>2. KeyOf[eval[p].task] \in Key
  BY <1>1, PoolFacts
<1> QED
  BY <1>1, <1>2, PoolFacts DEF SchedulingInv, Typed

LEMMA ClaimKeeps ==
  ASSUME SchedulingInv, NEW p \in Permit, Claim(p)
  PROVE  SchedulingInv'
<1> USE DEF SchedulingInv
<1> DEFINE k == KeyOf[eval[p].task]
<1>1. /\ eval[p].pc = "admitted"
      /\ UNCHANGED <<queue, lease, stageLease, cursor, stage>>
      /\ lease[p] # NoLease
  BY DEF Claim, tasks, LeasesHeld
<1>2. SlotsKept'
  BY <1>1, SlotsKeptUnchanged
<1>3. CASE Claimable(k)
  <2>1. claim' = [claim EXCEPT ![k] = <<eval[p].judge, eval[p].task>>] /\ Goto(p, "evaluating")
    BY <1>3 DEF Claim
  <2>2. /\ eval' \in [Permit -> Evaluation]
        /\ eval'[p].pc = "evaluating" /\ eval'[p].task = eval[p].task /\ eval'[p].judge = eval[p].judge
        /\ eval[p].task \in Task /\ eval[p].judge \in Judge
        /\ \A q \in Permit : q # p => eval'[q] = eval[q]
        /\ HasTask'
    BY <1>1, <2>1, GotoKeeps DEF EvalPc
  <2>3. /\ k \in Key
        /\ claim' \in [Key -> (Judge \X Task) \cup {NoClaim}]
        /\ claim'[k] = <<eval[p].judge, eval[p].task>>
        /\ \A t \in Task : KeyOf[t] # k => claim'[KeyOf[t]] = claim[KeyOf[t]]
    BY <1>1, <2>1, ClaimedTyped
  <2>4. \A q \in Permit : eval[q].pc = "evaluating" => eval[q].task \in Task /\ KeyOf[eval[q].task] # k
    BY <1>3, <2>3, FreeClaim DEF Claimable, HasTask
  <2>5. Typed' /\ LeasesHeld'
    BY <1>1, <2>2, <2>3 DEF Typed, LeasesHeld
  <2>6. ASSUME NEW q \in Permit, q # p, eval'[q].pc = "evaluating"
        PROVE  /\ KeyOf[eval'[q].task] # KeyOf[eval'[p].task]
               /\ claim'[KeyOf[eval'[q].task]] = <<eval'[q].judge, eval'[q].task>>
    <3>1. eval'[q] = eval[q] /\ eval[q].pc = "evaluating"
      BY <2>2, <2>6
    <3>2. eval[q].task \in Task /\ KeyOf[eval[q].task] # k
      BY <3>1, <2>4
    <3>3. claim[KeyOf[eval[q].task]] = <<eval[q].judge, eval[q].task>>
      BY <3>1 DEF ClaimsHeld
    <3> QED
      BY <3>1, <3>2, <3>3, <2>2, <2>3
  <2>7. claim'[KeyOf[eval'[p].task]] = <<eval'[p].judge, eval'[p].task>>
    BY <2>2, <2>3
  <2>8. ClaimsHeld'
    BY <2>6, <2>7 DEF ClaimsHeld
  <2>9. ASSUME NEW q \in Permit, NEW r \in Permit, q # r,
               eval'[q].pc = "evaluating", eval'[r].pc = "evaluating"
        PROVE  KeyOf[eval'[q].task] # KeyOf[eval'[r].task]
    <3>1. CASE q = p \/ r = p
      BY <2>6, <2>9, <3>1
    <3>2. CASE q # p /\ r # p
      <4>1. eval'[q] = eval[q] /\ eval'[r] = eval[r]
        BY <2>2, <3>2
      <4> QED
        BY <2>9, <4>1 DEF OneEvaluationPerUser
    <3> QED
      BY <3>1, <3>2
  <2>10. OneEvaluationPerUser'
    BY <2>9 DEF OneEvaluationPerUser
  <2> QED
    BY <1>2, <2>2, <2>5, <2>8, <2>10
<1>4. CASE ~Claimable(k)
  <2>1. Goto(p, "busy") /\ UNCHANGED claim
    BY <1>4 DEF Claim
  <2>2. /\ eval' \in [Permit -> Evaluation]
        /\ eval'[p].pc = "busy"
        /\ \A q \in Permit : q # p => eval'[q] = eval[q]
        /\ HasTask'
    BY <1>1, <2>1, GotoKeeps DEF EvalPc
  <2>3. Typed' /\ LeasesHeld'
    BY <1>1, <2>1, <2>2 DEF Typed, LeasesHeld
  <2>4. ClaimsHeld' /\ OneEvaluationPerUser'
    BY <2>1, <2>2, NoNewEvaluation
  <2> QED
    BY <1>2, <2>2, <2>3, <2>4
<1> QED
  BY <1>3, <1>4

LEMMA ClaimUnheardKeeps ==
  ASSUME SchedulingInv, NEW p \in Permit, ClaimUnheard(p)
  PROVE  SchedulingInv'
<1> USE DEF SchedulingInv
<1> DEFINE k == KeyOf[eval[p].task]
<1>1. /\ eval[p].pc = "admitted" /\ Claimable(k)
      /\ UNCHANGED <<queue, lease, stageLease, cursor, stage>>
      /\ claim' = [claim EXCEPT ![k] = <<eval[p].judge, eval[p].task>>]
      /\ Goto(p, "busy")
  BY DEF ClaimUnheard, tasks
<1>2. SlotsKept'
  BY <1>1, SlotsKeptUnchanged
<1>3. /\ eval' \in [Permit -> Evaluation]
      /\ eval'[p].pc = "busy"
      /\ \A q \in Permit : q # p => eval'[q] = eval[q]
      /\ HasTask'
  BY <1>1, GotoKeeps DEF EvalPc
<1>4. /\ k \in Key
      /\ claim' \in [Key -> (Judge \X Task) \cup {NoClaim}]
      /\ \A t \in Task : KeyOf[t] # k => claim'[KeyOf[t]] = claim[KeyOf[t]]
  BY <1>1, ClaimedTyped
<1>5. \A q \in Permit : eval[q].pc = "evaluating" => eval[q].task \in Task /\ KeyOf[eval[q].task] # k
  BY <1>1, <1>4, FreeClaim DEF Claimable, HasTask
<1> HIDE DEF k
<1>6. Typed' /\ LeasesHeld'
  BY <1>1, <1>3, <1>4 DEF Typed, LeasesHeld
<1>7. ClaimsHeld' /\ OneEvaluationPerUser'
  <2>1. ASSUME NEW q \in Permit, eval'[q].pc = "evaluating"
        PROVE  /\ eval[q].pc = "evaluating"
               /\ eval'[q].judge = eval[q].judge /\ eval'[q].task = eval[q].task
               /\ claim'[KeyOf[eval[q].task]] = claim[KeyOf[eval[q].task]]
    BY <2>1, <1>3, <1>4, <1>5
  <2> QED
    BY <2>1, NoNewEvaluation
<1> QED
  BY <1>2, <1>3, <1>6, <1>7

-----------------------------------------------------------------------------
(* The evaluation *)

\* An evaluation fails, or not, and nothing else becomes of it.
LEMMA FailedTyped ==
  ASSUME Typed, HasTask, NEW p \in Permit, NEW failed \in BOOLEAN,
         eval' = [eval EXCEPT ![p].failed = failed]
  PROVE  /\ eval' \in [Permit -> Evaluation]
         /\ \A q \in Permit : /\ eval'[q].pc = eval[q].pc /\ eval'[q].judge = eval[q].judge
                              /\ eval'[q].task = eval[q].task
         /\ HasTask'
<1>1. eval[p] \in Evaluation
  BY DEF Typed, Evaluation
<1>2. /\ [eval[p] EXCEPT !.failed = failed] \in Evaluation
      /\ [eval[p] EXCEPT !.failed = failed].pc = eval[p].pc
      /\ [eval[p] EXCEPT !.failed = failed].judge = eval[p].judge
      /\ [eval[p] EXCEPT !.failed = failed].task = eval[p].task
  BY <1>1 DEF Evaluation
<1>3. eval' = [eval EXCEPT ![p] = [eval[p] EXCEPT !.failed = failed]]
  OBVIOUS
<1>4. /\ eval' \in [Permit -> Evaluation]
      /\ \A q \in Permit : /\ eval'[q].pc = eval[q].pc /\ eval'[q].judge = eval[q].judge
                           /\ eval'[q].task = eval[q].task
  BY <1>2, <1>3 DEF Typed, Evaluation
<1> QED
  BY <1>4 DEF HasTask

LEMMA ShrinkKeeps ==
  ASSUME SchedulingInv, NEW p \in Permit, Shrink(p)
  PROVE  SchedulingInv'
<1> USE DEF SchedulingInv
<1>1. /\ eval[p].pc = "evaluating"
      /\ UNCHANGED <<queue, stageLease, claim, cursor, eval, stage>>
  BY DEF Shrink, Evaluating, tasks
<1>2. eval[p].task \in Task /\ lease[p] \in Lease
  BY <1>1 DEF HasTask, LeasesHeld, Typed
<1>3. [lease[p] EXCEPT !.base = Data[eval[p].task]] \in Lease
      /\ [lease[p] EXCEPT !.base = Data[eval[p].task]].pool = lease[p].pool
  BY <1>2 DEF Lease
<1>4. lease' = [lease EXCEPT ![p] = [lease[p] EXCEPT !.base = Data[eval[p].task]]]
  BY DEF Shrink
<1>5. /\ lease' \in [Permit -> Lease \cup {NoLease}]
      /\ \A q \in Permit : /\ lease'[q] # NoLease <=> lease[q] # NoLease
                           /\ lease'[q].pool = lease[q].pool
  BY <1>2, <1>3, <1>4, LeaseFacts DEF Typed
<1>6. Typed' /\ HasTask'
  BY <1>1, <1>5 DEF Typed, HasTask
<1>7. LeasesHeld'
  BY <1>1, <1>5, Pairs DEF LeasesHeld
<1>8. ClaimsHeld' /\ OneEvaluationPerUser'
  BY <1>1, NoNewEvaluation
<1>9. SlotsKept'
  BY <1>1, <1>5, <1>6, SlotsKeptWithLess
<1> QED
  BY <1>6, <1>7, <1>8, <1>9

\* A stage that is granted has an entry, and its task had one.
LEMMA PollFacts ==
  ASSUME SchedulingInv, NEW i \in Stage, Poll(i)
  PROVE  /\ lease[i[1]] # NoLease /\ i[1] \in Permit
         /\ stageLease' \in [Stage -> Nat]
         /\ \A k \in Stage : stageLease[k] # 0 => stageLease'[k] # 0
         /\ Granted(i) => stageLease'[i] # 0
         /\ UNCHANGED <<queue, lease, claim, cursor>>
         /\ SlotsKept'
<1> USE DEF SchedulingInv
<1>1. /\ i[1] \in Permit /\ eval[i[1]].pc = "evaluating"
      /\ UNCHANGED <<queue, lease, claim, cursor>>
  BY Pairs DEF Poll, Ready, Evaluating, tasks
<1>2. eval[i[1]].task \in Task /\ lease[i[1]] # NoLease
  BY <1>1 DEF HasTask, LeasesHeld
<1>3. StageMemory(i) \in Nat \ {0}
  BY <1>2 DEF StageMemory
<1>4. CASE Granted(i)
  <2>1. stageLease' = [stageLease EXCEPT ![i] = StageMemory(i)] /\ Permitted(lease, stageLease')
    BY <1>4 DEF Poll, Granted, WithStage
  <2> QED
    BY <1>1, <1>2, <1>3, <2>1, SlotsKeptWhenPermitted DEF Typed
<1>5. CASE ~Granted(i)
  <2>1. UNCHANGED stageLease
    BY <1>5 DEF Poll
  <2> QED
    BY <1>1, <1>2, <1>5, <2>1, SlotsKeptUnchanged DEF Typed
<1> QED
  BY <1>4, <1>5

LEMMA PollHeardKeeps ==
  ASSUME SchedulingInv, NEW i \in Stage, PollHeard(i)
  PROVE  SchedulingInv'
<1> USE DEF SchedulingInv
<1>1. /\ lease[i[1]] # NoLease /\ i[1] \in Permit
      /\ stageLease' \in [Stage -> Nat]
      /\ \A k \in Stage : stageLease[k] # 0 => stageLease'[k] # 0
      /\ Granted(i) => stageLease'[i] # 0
      /\ UNCHANGED <<queue, lease, claim, cursor, eval>>
      /\ SlotsKept'
  BY PollFacts DEF PollHeard
<1>2. /\ stage' \in [Stage -> {"todo", "running", "over", "error"}]
      /\ \A k \in Stage : stage'[k] = "running" => stage[k] = "running" \/ (k = i /\ Granted(i))
  BY DEF PollHeard, Typed
<1>3. Typed' /\ HasTask'
  BY <1>1, <1>2 DEF Typed, HasTask
<1>4. LeasesHeld'
  BY <1>1, <1>2 DEF LeasesHeld
<1>5. ClaimsHeld' /\ OneEvaluationPerUser'
  BY <1>1, NoNewEvaluation
<1> QED
  BY <1>1, <1>3, <1>4, <1>5

LEMMA PollUnheardKeeps ==
  ASSUME SchedulingInv, NEW i \in Stage, PollUnheard(i)
  PROVE  SchedulingInv'
<1> USE DEF SchedulingInv
<1> DEFINE atOnce == i[2] = 0 \/ eval[i[1]].task \in Sequential
<1>1. /\ i[1] \in Permit
      /\ stageLease' \in [Stage -> Nat]
      /\ \A k \in Stage : stageLease[k] # 0 => stageLease'[k] # 0
      /\ UNCHANGED <<queue, lease, claim, cursor>>
      /\ SlotsKept'
  BY PollFacts DEF PollUnheard
<1>2. /\ stage' \in [Stage -> {"todo", "running", "over", "error"}]
      /\ \A k \in Stage : stage'[k] = "running" => stage[k] = "running"
  BY DEF PollUnheard, Typed
<1>3. atOnce \in BOOLEAN /\ eval' = [eval EXCEPT ![i[1]].failed = atOnce]
  BY DEF PollUnheard
<1> HIDE DEF atOnce
<1>4. /\ eval' \in [Permit -> Evaluation]
      /\ \A q \in Permit : /\ eval'[q].pc = eval[q].pc /\ eval'[q].judge = eval[q].judge
                           /\ eval'[q].task = eval[q].task
      /\ HasTask'
  BY <1>1, <1>3, FailedTyped
<1>5. Typed'
  BY <1>1, <1>2, <1>4 DEF Typed, Evaluation
<1>6. LeasesHeld'
  BY <1>1, <1>2, <1>4 DEF LeasesHeld
<1>7. ClaimsHeld' /\ OneEvaluationPerUser'
  BY <1>1, <1>4, NoNewEvaluation
<1> QED
  BY <1>1, <1>4, <1>5, <1>6, <1>7

\* Steps that only end threads.
LEMMA ThreadsEndKeeps ==
  ASSUME SchedulingInv,
         stage' \in [Stage -> {"todo", "running", "over", "error"}],
         \A i \in Stage : stage'[i] = "running" => stage[i] = "running",
         UNCHANGED <<queue, lease, stageLease, claim, cursor, eval>>
  PROVE  SchedulingInv'
<1> USE DEF SchedulingInv
<1>1. Typed' /\ HasTask'
  BY DEF Typed, HasTask
<1>2. LeasesHeld'
  BY DEF LeasesHeld
<1>3. ClaimsHeld' /\ OneEvaluationPerUser'
  BY NoNewEvaluation
<1>4. SlotsKept'
  BY SlotsKeptUnchanged
<1> QED
  BY <1>1, <1>2, <1>3, <1>4

LEMMA StageEndsKeeps ==
  ASSUME SchedulingInv, NEW i \in Stage, StageEnds(i)
  PROVE  SchedulingInv'
<1>1. UNCHANGED <<queue, lease, stageLease, claim, cursor, eval>>
  BY DEF StageEnds, redis
<1>2. /\ stage' \in [Stage -> {"todo", "running", "over", "error"}]
      /\ \A k \in Stage : stage'[k] = "running" => stage[k] = "running"
  <2>1. CASE eval[i[1]].pc = "evaluating"
    <3>1. PICK decided \in BOOLEAN :
            stage' = [k \in Stage |-> IF k = i \/ (decided /\ k[1] = i[1]) THEN "over" ELSE stage[k]]
      BY <2>1 DEF StageEnds
    <3> QED
      BY <3>1 DEF SchedulingInv, Typed
  <2>2. CASE eval[i[1]].pc # "evaluating"
    BY <2>2 DEF StageEnds, SchedulingInv, Typed
  <2> QED
    BY <2>1, <2>2
<1> QED
  BY <1>1, <1>2, ThreadsEndKeeps

LEMMA AbandonKeeps ==
  ASSUME SchedulingInv, NEW p \in Permit, Abandon(p)
  PROVE  SchedulingInv'
<1> USE DEF SchedulingInv
<1>1. UNCHANGED <<queue, lease, stageLease, claim, cursor, stage>>
  BY DEF Abandon, redis
<1>2. /\ eval' \in [Permit -> Evaluation]
      /\ \A q \in Permit : /\ eval'[q].pc = eval[q].pc /\ eval'[q].judge = eval[q].judge
                           /\ eval'[q].task = eval[q].task
      /\ HasTask'
  BY FailedTyped DEF Abandon
<1>3. Typed'
  BY <1>1, <1>2 DEF Typed, Evaluation
<1>4. LeasesHeld'
  BY <1>1, <1>2 DEF LeasesHeld
<1>5. ClaimsHeld' /\ OneEvaluationPerUser'
  BY <1>1, <1>2, NoNewEvaluation
<1>6. SlotsKept'
  BY <1>1, SlotsKeptUnchanged
<1> QED
  BY <1>2, <1>3, <1>4, <1>5, <1>6

LEMMA FinishKeeps ==
  ASSUME SchedulingInv, NEW p \in Permit, Finish(p)
  PROVE  SchedulingInv'
  BY DroppedKeeps DEF Finish, SchedulingInv, Typed

LEMMA FinishFailedKeeps ==
  ASSUME SchedulingInv, NEW p \in Permit, FinishFailed(p)
  PROVE  SchedulingInv'
<1>1. eval[p].task \in Task
  BY DEF FinishFailed, SchedulingInv, HasTask
<1>2. Requeued(eval[p].task) \/ UNCHANGED queue
  BY DEF FinishFailed
<1>3. queue' \in [Pool -> Seq(Task)]
  BY <1>1, <1>2, RequeuedTyped DEF SchedulingInv, Typed
<1> QED
  BY <1>3, DroppedKeeps DEF FinishFailed

-----------------------------------------------------------------------------
(* What is left behind *)

LEMMA ReleaseKeeps ==
  ASSUME SchedulingInv, NEW p \in Permit, Release(p)
  PROVE  SchedulingInv'
<1> USE DEF SchedulingInv
<1>1. /\ lease' = [lease EXCEPT ![p] = NoLease]
      /\ UNCHANGED <<queue, stageLease, claim, cursor, eval, stage>>
  BY DEF Release, tasks
<1>2. eval[p].pc \in {"free", "busy"} /\ \A k \in 0..MaxCases : stage[<<p, k>>] # "running"
  BY DEF Release, Held, Running
<1>3. \A i \in Stage : stage[i] = "running" => i[1] # p
  BY <1>2, Pairs
<1>4. Typed' /\ HasTask'
  BY <1>1 DEF Typed, HasTask
<1>5. LeasesHeld'
  BY <1>1, <1>2, <1>3, Pairs DEF LeasesHeld, Typed
<1>6. ClaimsHeld' /\ OneEvaluationPerUser'
  BY <1>1, NoNewEvaluation
<1>7. SlotsKept'
  BY <1>1, <1>4, SlotsKeptWithLess DEF Typed
<1> QED
  BY <1>4, <1>5, <1>6, <1>7

LEMMA ReleaseStageKeeps ==
  ASSUME SchedulingInv, NEW i \in Stage, ReleaseStage(i)
  PROVE  SchedulingInv'
<1> USE DEF SchedulingInv
<1>1. /\ stageLease' = [stageLease EXCEPT ![i] = 0] /\ stage[i] # "running"
      /\ UNCHANGED <<queue, lease, claim, cursor, eval, stage>>
  BY DEF ReleaseStage, HeldByThread, tasks
<1>2. Typed' /\ HasTask'
  BY <1>1 DEF Typed, HasTask
<1>3. LeasesHeld'
  BY <1>1 DEF LeasesHeld, Typed
<1>4. ClaimsHeld' /\ OneEvaluationPerUser'
  BY <1>1, NoNewEvaluation
<1>5. SlotsKept'
  BY <1>1, <1>2, SlotsKeptWithLess DEF Typed
<1> QED
  BY <1>2, <1>3, <1>4, <1>5

LEMMA ForgetKeeps ==
  ASSUME SchedulingInv, NEW i \in Stage, Forget(i)
  PROVE  SchedulingInv'
<1>1. UNCHANGED <<queue, lease, stageLease, claim, cursor, eval, stage>>
  BY DEF Forget, tasks
<1> QED
  BY <1>1, ThreadsEndKeeps DEF SchedulingInv, Typed

LEMMA UnclaimKeeps ==
  ASSUME SchedulingInv, NEW k \in Key, Unclaim(k)
  PROVE  SchedulingInv'
<1> USE DEF SchedulingInv
<1>1. /\ claim' = [claim EXCEPT ![k] = NoClaim]
      /\ UNCHANGED <<queue, lease, stageLease, cursor, eval, stage>>
  BY DEF Unclaim, tasks
<1>2. Typed' /\ HasTask' /\ LeasesHeld'
  BY <1>1 DEF Typed, HasTask, LeasesHeld
<1>3. ASSUME NEW p \in Permit, eval[p].pc = "evaluating"
      PROVE  claim'[KeyOf[eval[p].task]] = claim[KeyOf[eval[p].task]]
  <2>1. KeyOf[eval[p].task] # k
    BY <1>3 DEF Unclaim, Claims, ClaimsHeld
  <2>2. KeyOf[eval[p].task] \in Key
    BY <1>3, PoolFacts DEF HasTask
  <2> QED
    BY <1>1, <2>1, <2>2 DEF Typed
<1>4. ClaimsHeld' /\ OneEvaluationPerUser'
  BY <1>1, <1>3, NoNewEvaluation
<1>5. SlotsKept'
  BY <1>1, SlotsKeptUnchanged
<1> QED
  BY <1>2, <1>4, <1>5

LEMMA CrashKeeps ==
  ASSUME SchedulingInv, NEW j \in Judge, Crash(j)
  PROVE  SchedulingInv'
<1> USE DEF SchedulingInv
<1>1. UNCHANGED <<queue, lease, stageLease, claim>>
  BY DEF Crash, redis
<1>2. /\ eval' \in [Permit -> Evaluation]
      /\ \A p \in Permit : eval'[p] = eval[p] \/ eval'[p].pc = "free"
      /\ stage' \in [Stage -> {"todo", "running", "over", "error"}]
      /\ \A i \in Stage : stage'[i] = "running" => stage[i] = "running"
      /\ cursor' \in [Judge -> Nat]
  <2>1. Free \in Evaluation /\ Free.pc = "free"
    BY DEF Free, EvalPc, Evaluation
  <2> QED
    BY <2>1 DEF Crash, Typed, Evaluation
<1>3. Typed'
  BY <1>1, <1>2 DEF Typed, Evaluation
<1>4. HasTask'
  BY <1>2 DEF HasTask
<1>5. LeasesHeld'
  BY <1>1, <1>2 DEF LeasesHeld
<1>6. ClaimsHeld' /\ OneEvaluationPerUser'
  BY <1>1, <1>2, NoNewEvaluation
<1>7. SlotsKept'
  BY <1>1, SlotsKeptUnchanged
<1> QED
  BY <1>3, <1>4, <1>5, <1>6, <1>7

LEMMA RecoverKeeps ==
  ASSUME SchedulingInv, NEW t \in Task, Recover(t)
  PROVE  SchedulingInv'
<1> USE DEF SchedulingInv
<1>1. queue' \in [Pool -> Seq(Task)] /\ UNCHANGED <<lease, stageLease, claim, cursor, eval, stage>>
  BY RequeuedTyped DEF Recover
<1>2. Typed' /\ HasTask' /\ LeasesHeld'
  BY <1>1 DEF Typed, HasTask, LeasesHeld
<1>3. ClaimsHeld' /\ OneEvaluationPerUser'
  BY <1>1, NoNewEvaluation
<1>4. SlotsKept'
  BY <1>1, SlotsKeptUnchanged
<1> QED
  BY <1>2, <1>3, <1>4

-----------------------------------------------------------------------------
(* The invariant *)

LEMMA SchedulingStarts == Init => SchedulingInv
<1> SUFFICES ASSUME Init
             PROVE  SchedulingInv
  OBVIOUS
<1>1. queue \in [Pool -> Seq(Task)]
  <2>1. queue \in [Pool -> UNION {[1..n -> Task] : n \in 0..Cardinality(Task)}]
    BY DEF Init
  <2>2. ASSUME NEW l \in Pool
        PROVE  queue[l] \in Seq(Task)
    <3> DEFINE lists == {[1..n -> Task] : n \in 0..Cardinality(Task)}
    <3>0. queue[l] \in UNION lists
      BY <2>1
    <3>1. PICK list \in lists : queue[l] \in list
      BY <3>0
    <3>2. PICK n \in 0..Cardinality(Task) : list = [1..n -> Task]
      BY <3>1
    <3>3. n \in Nat
      BY <3>2
    <3> QED
      BY <3>1, <3>2, <3>3
  <2> QED
    BY <2>1, <2>2
<1>2. Typed
  <2>1. Free \in Evaluation
    BY DEF Free, EvalPc, Evaluation
  <2> QED
    BY <1>1, <2>1 DEF Init, Typed
<1>3. HasTask /\ LeasesHeld /\ ClaimsHeld /\ OneEvaluationPerUser
  BY DEF Init, Free, HasTask, LeasesHeld, ClaimsHeld, OneEvaluationPerUser
<1>4. SlotsKept
  <2>1. ASSUME NEW kind \in Kind
        PROVE  Used(lease, stageLease, kind) = 0
    <3>1. Entries(lease) = {} /\ StageEntries(stageLease) = {}
      BY DEF Init, Entries, StageEntries
    <3> QED
      BY <3>1, FS_EmptySet DEF Used
  <2> QED
    BY <2>1 DEF SlotsKept
<1> QED
  BY <1>2, <1>3, <1>4 DEF SchedulingInv

LEMMA SchedulingStep == SchedulingInv /\ [Next]_vars => SchedulingInv'
<1> SUFFICES ASSUME SchedulingInv, [Next]_vars
             PROVE  SchedulingInv'
  OBVIOUS
<1>1. ASSUME NEW j \in Judge, LoopStep(j)
      PROVE  SchedulingInv'
  <2>1. PICK p \in Permit :
          \/ Acquire(j, p)
          \/ Pull(p) \/ PullNothing(p) \/ Resize(p) \/ Claim(p) \/ Requeue(p)
    BY <1>1 DEF LoopStep
  <2> QED
    BY <2>1, AcquireKeeps, PullKeeps, PullNothingKeeps, ResizeKeeps, ClaimKeeps, RequeueKeeps
<1>2. ASSUME NEW j \in Judge, Crash(j)
      PROVE  SchedulingInv'
  BY <1>2, CrashKeeps
<1>3. ASSUME NEW p \in Permit, EvaluationStep(p)
      PROVE  SchedulingInv'
  <2>1. CASE \E k \in 0..MaxCases : PollHeard(<<p, k>>)
    BY <2>1, Pairs, PollHeardKeeps
  <2> QED
    BY <1>3, <2>1, ShrinkKeeps, FinishKeeps, FinishFailedKeeps DEF EvaluationStep
<1>4. ASSUME NEW p \in Permit,
             AcquireUnheard(p) \/ ResizeUnheard(p) \/ ClaimUnheard(p) \/ Abandon(p)
      PROVE  SchedulingInv'
  BY <1>4, AcquireUnheardKeeps, ResizeUnheardKeeps, ClaimUnheardKeeps, AbandonKeeps
<1>5. ASSUME NEW i \in Stage, PollUnheard(i) \/ StageEnds(i)
      PROVE  SchedulingInv'
  BY <1>5, PollUnheardKeeps, StageEndsKeeps
<1>6. ASSUME Cleanup
      PROVE  SchedulingInv'
  BY <1>6, ReleaseKeeps, ReleaseStageKeeps, ForgetKeeps, UnclaimKeeps DEF Cleanup
<1>7. ASSUME NEW t \in Task, Recover(t)
      PROVE  SchedulingInv'
  BY <1>7, RecoverKeeps
<1>8. CASE UNCHANGED vars
  BY <1>8, ThreadsEndKeeps DEF vars, SchedulingInv, Typed
<1> QED
  BY <1>1, <1>2, <1>3, <1>4, <1>5, <1>6, <1>7, <1>8 DEF Next

\* Whatever fails and whoever dies, leases and claims in use are kept.
THEOREM SchedulingInvariant == Spec => []SchedulingInv
<1> QED
  BY SchedulingStarts, SchedulingStep, PTL DEF Spec

\* No user has two evaluations at a time, not even when the sweeper puts a task
\* back that is still evaluated, or the reply to a claim is lost.
THEOREM OneEvaluation == Spec => []OneEvaluationPerUser
<1>1. SchedulingInv => OneEvaluationPerUser
  BY DEF SchedulingInv
<1> QED
  BY <1>1, SchedulingInvariant, PTL

\* The threads that run have their entries, so there are no more of them than
\* there are slots: also the threads of abandoned evaluations.
THEOREM ThreadsWithinCapacity == Spec => []RunsWithinCapacity
<1>1. ASSUME SchedulingInv
      PROVE  RunsWithinCapacity
  <2> USE <1>1 DEF SchedulingInv
  <2>1. ASSUME NEW kind \in {"compile", "run"}
        PROVE  Cardinality({i \in Stage : stage[i] = "running" /\ KindOf(i) = kind}) <= Slots[kind]
    <3> DEFINE busy == {i \in Stage : stage[i] = "running" /\ KindOf(i) = kind}
               held == {i \in StageEntries(stageLease) : KindOf(i) = kind}
    <3>1. kind \notin Pool /\ kind \in Kind
      <4>1. Pool \subseteq {"oi-wasm", "oi-native", "ai"}
        BY DEF Pool, Range
      <4> QED
        BY <4>1 DEF Kind
    <3>2. Cardinality(held) <= Slots[kind] /\ Slots[kind] \in Nat
      BY <3>1 DEF SlotsKept, Used
    <3>3. busy \subseteq held /\ held \subseteq Stage
      BY DEF LeasesHeld, StageEntries, Typed
    <3>4. IsFiniteSet(held) /\ IsFiniteSet(busy)
      BY <3>3, FiniteStages, FS_Subset
    <3>5. Cardinality(busy) <= Cardinality(held)
      BY <3>3, <3>4, FS_Subset
    <3>6. Cardinality(busy) \in Nat /\ Cardinality(held) \in Nat
      BY <3>4, FS_CardinalityType
    <3> QED
      BY <3>2, <3>5, <3>6
  <2> QED
    BY <2>1 DEF RunsWithinCapacity, LeasesHeld
<1> QED
  BY <1>1, SchedulingInvariant, PTL
-----------------------------------------------------------------------------
(* The memory *)

MemoryKept == Reserved(lease, stageLease) <= Budget

\* What the entries of a task count for, its stages included.
StagesOf(p) == {i \in Stage : i[1] = p}
Children(S) == [p \in Permit |-> SumFunctionOnSet(S, StagesOf(p))]
Shares(L, S) == [p \in Permit |-> L[p].base + Larger(L[p].headroom, Children(S)[p])]

LEMMA ReservedIsSum ==
  ASSUME NEW L, NEW S
  PROVE  Reserved(L, S) = SumFunctionOnSet(Shares(L, S), Permit)
BY DEF Reserved, SumFunction, Shares, Children, StagesOf

LEMMA LeaseNumbers ==
  \A l \in Lease \cup {NoLease} : l.base \in Nat /\ l.headroom \in Nat
BY DEF Lease, NoLease

LEMMA ChildrenNat ==
  ASSUME NEW S \in [Stage -> Nat], NEW p \in Permit
  PROVE  /\ StagesOf(p) \subseteq Stage /\ IsFiniteSet(StagesOf(p)) /\ NatValued(S, StagesOf(p))
         /\ Children(S)[p] \in Nat
         /\ Children(S)[p] = SumFunctionOnSet(S, StagesOf(p))
<1>1. StagesOf(p) \subseteq Stage
  BY DEF StagesOf
<1>2. IsFiniteSet(StagesOf(p)) /\ NatValued(S, StagesOf(p))
  BY <1>1, FiniteStages, FS_Subset DEF NatValued
<1>3. SumFunctionOnSet(S, StagesOf(p)) \in Nat
  BY <1>2, SumNat
<1> QED
  BY <1>1, <1>2, <1>3 DEF Children

\* Entries that are not larger reserve no more.
LEMMA ReservedLess ==
  ASSUME NEW L \in [Permit -> Lease \cup {NoLease}], NEW M \in [Permit -> Lease \cup {NoLease}],
         NEW S \in [Stage -> Nat], NEW R \in [Stage -> Nat],
         \A p \in Permit : L[p].base <= M[p].base /\ L[p].headroom <= M[p].headroom,
         \A i \in Stage : S[i] <= R[i]
  PROVE  /\ Reserved(L, S) \in Nat /\ Reserved(M, R) \in Nat
         /\ Reserved(L, S) <= Reserved(M, R)
<1>1. ASSUME NEW p \in Permit
      PROVE  /\ Shares(L, S)[p] \in Nat /\ Shares(M, R)[p] \in Nat
             /\ Shares(L, S)[p] <= Shares(M, R)[p]
  <2>1. /\ Children(S)[p] \in Nat /\ Children(R)[p] \in Nat
        /\ Children(S)[p] <= Children(R)[p]
    <3>1. SumFunctionOnSet(S, StagesOf(p)) <= SumFunctionOnSet(R, StagesOf(p))
      <4>1. /\ IsFiniteSet(StagesOf(p)) /\ NatValued(S, StagesOf(p))
            /\ NatValued(R, StagesOf(p))
            /\ \A i \in StagesOf(p) : S[i] <= R[i]
        BY ChildrenNat
      <4> QED
        BY <4>1, SumLeq
    <3> QED
      BY <3>1, ChildrenNat
  <2>2. /\ L[p].base \in Nat /\ M[p].base \in Nat /\ L[p].base <= M[p].base
        /\ L[p].headroom \in Nat /\ M[p].headroom \in Nat /\ L[p].headroom <= M[p].headroom
    BY LeaseNumbers
  <2>3. /\ Shares(L, S)[p] = L[p].base + Larger(L[p].headroom, Children(S)[p])
        /\ Shares(M, R)[p] = M[p].base + Larger(M[p].headroom, Children(R)[p])
    BY DEF Shares
  <2> QED
    BY <2>1, <2>2, <2>3 DEF Larger
<1>2. /\ IsFiniteSet(Permit) /\ NatValued(Shares(L, S), Permit)
      /\ NatValued(Shares(M, R), Permit)
  BY <1>1 DEF NatValued
<1>3. /\ SumFunctionOnSet(Shares(L, S), Permit) \in Nat
      /\ SumFunctionOnSet(Shares(M, R), Permit) \in Nat
      /\ SumFunctionOnSet(Shares(L, S), Permit) <= SumFunctionOnSet(Shares(M, R), Permit)
  BY <1>1, <1>2, SumNat, SumLeq
<1> QED
  BY <1>3, ReservedIsSum

LEMMA MemoryKeptWithLess ==
  ASSUME Typed, Typed', MemoryKept,
         \A p \in Permit : lease'[p].base <= lease[p].base /\ lease'[p].headroom <= lease[p].headroom,
         \A i \in Stage : stageLease'[i] <= stageLease[i]
  PROVE  MemoryKept'
<1>1. /\ Reserved(lease', stageLease') \in Nat /\ Reserved(lease, stageLease) \in Nat
      /\ Reserved(lease', stageLease') <= Reserved(lease, stageLease)
  BY ReservedLess DEF Typed
<1> QED
  BY <1>1 DEF MemoryKept

\* Every entry that grows is made by the script that has just counted it.
LEMMA MemoryStep == SchedulingInv /\ MemoryKept /\ [Next]_vars => MemoryKept'
<1> SUFFICES ASSUME SchedulingInv, MemoryKept, [Next]_vars
             PROVE  MemoryKept'
  OBVIOUS
<1>t. Typed /\ Typed'
  BY SchedulingStep DEF SchedulingInv
<1>1. ASSUME UNCHANGED <<lease, stageLease>>
      PROVE  MemoryKept'
  BY <1>1 DEF MemoryKept
<1>2. ASSUME Permitted(lease', stageLease')
      PROVE  MemoryKept'
  BY <1>2 DEF Permitted, MemoryKept
<1>3. ASSUME NEW p \in Permit, \E j \in Judge : Acquire(j, p)
      PROVE  MemoryKept'
  <2>1. PICK pool : Admissible(pool, p) /\ AddLease(p, pool) /\ UNCHANGED stageLease
    BY <1>3 DEF Acquire, FirstAdmissible
  <2> QED
    BY <1>2, <2>1 DEF Admissible, AddLease
<1>4. ASSUME NEW p \in Permit, AcquireUnheard(p)
      PROVE  MemoryKept'
  BY <1>2, <1>4 DEF AcquireUnheard, Admissible, AddLease
<1>5. ASSUME NEW p \in Permit, Resize(p) \/ ResizeUnheard(p)
      PROVE  MemoryKept'
  <2> DEFINE t == eval[p].task
             wanted == [lease EXCEPT ![p].base = Base[t], ![p].headroom = Headroom[t]]
  <2>1. /\ (lease' = wanted /\ Permitted(wanted, stageLease)) \/ UNCHANGED lease
        /\ UNCHANGED stageLease
    BY <1>5 DEF Resize, ResizeUnheard
  <2> HIDE DEF wanted
  <2> QED
    BY <1>1, <1>2, <2>1
<1>6. ASSUME NEW i \in Stage, PollHeard(i) \/ PollUnheard(i)
      PROVE  MemoryKept'
  <2>1. Poll(i)
    BY <1>6 DEF PollHeard, PollUnheard
  <2>2. UNCHANGED lease
    BY <2>1 DEF Poll
  <2>3. CASE Granted(i)
    BY <1>2, <2>1, <2>2, <2>3 DEF Poll, Granted
  <2>4. CASE ~Granted(i)
    BY <1>1, <2>1, <2>2, <2>4 DEF Poll
  <2> QED
    BY <2>3, <2>4
<1>7. ASSUME NEW p \in Permit, Shrink(p)
      PROVE  MemoryKept'
  <2> DEFINE t == eval[p].task
  <2>1. /\ lease' = [lease EXCEPT ![p].base = Data[t]] /\ lease[p].base > Data[t]
        /\ UNCHANGED stageLease
    BY <1>7 DEF Shrink
  <2>2. t \in Task /\ lease[p] \in Lease /\ Data[t] \in Nat
    BY <1>7 DEF Shrink, Evaluating, SchedulingInv, HasTask, LeasesHeld, Typed
  <2> HIDE DEF t
  <2>3. \A q \in Permit : lease'[q].base <= lease[q].base /\ lease'[q].headroom <= lease[q].headroom
    <3> SUFFICES ASSUME NEW q \in Permit
                 PROVE  lease'[q].base <= lease[q].base /\ lease'[q].headroom <= lease[q].headroom
      OBVIOUS
    <3>1. lease[q].base \in Nat /\ lease[q].headroom \in Nat
      BY <1>t, LeaseNumbers DEF Typed
    <3>2. CASE q # p
      BY <1>t, <2>1, <3>1, <3>2 DEF Typed
    <3>3. CASE q = p
      <4>1. lease'[p] = [lease[p] EXCEPT !.base = Data[t]]
        BY <1>t, <2>1 DEF Typed
      <4>2. lease'[p].base = Data[t] /\ lease'[p].headroom = lease[p].headroom
        BY <2>2, <4>1 DEF Lease
      <4> QED
        BY <2>1, <2>2, <3>1, <3>3, <4>2
    <3> QED
      BY <3>2, <3>3
  <2>4. \A i \in Stage : stageLease'[i] <= stageLease[i]
    BY <1>t, <2>1 DEF Typed
  <2> QED
    BY <1>t, <2>3, <2>4, MemoryKeptWithLess
<1>8. ASSUME NEW p \in Permit, Release(p)
      PROVE  MemoryKept'
  <2>1. lease' = [lease EXCEPT ![p] = NoLease] /\ UNCHANGED stageLease
    BY <1>8 DEF Release
  <2>2. NoLease.base = 0 /\ NoLease.headroom = 0
    BY DEF NoLease
  <2>3. \A q \in Permit : lease[q].base \in Nat /\ lease[q].headroom \in Nat
    BY <1>t, LeaseNumbers DEF Typed
  <2>4. \A q \in Permit : lease'[q].base <= lease[q].base /\ lease'[q].headroom <= lease[q].headroom
    BY <1>t, <2>1, <2>2, <2>3 DEF Typed
  <2>5. \A i \in Stage : stageLease'[i] <= stageLease[i]
    BY <1>t, <2>1 DEF Typed
  <2> QED
    BY <1>t, <2>4, <2>5, MemoryKeptWithLess
<1>9. ASSUME NEW i \in Stage, ReleaseStage(i)
      PROVE  MemoryKept'
  <2>1. stageLease' = [stageLease EXCEPT ![i] = 0] /\ UNCHANGED lease
    BY <1>9 DEF ReleaseStage
  <2>2. \A k \in Stage : stageLease'[k] <= stageLease[k]
    BY <1>t, <2>1 DEF Typed
  <2>3. \A q \in Permit : lease[q].base \in Nat /\ lease[q].headroom \in Nat
    BY <1>t, LeaseNumbers DEF Typed
  <2>4. \A q \in Permit : lease'[q].base <= lease[q].base /\ lease'[q].headroom <= lease[q].headroom
    BY <2>1, <2>3
  <2> QED
    BY <1>t, <2>2, <2>4, MemoryKeptWithLess
<1>10. ASSUME NEW p \in Permit,
              \/ Pull(p) \/ PullNothing(p) \/ Claim(p) \/ Requeue(p) \/ ClaimUnheard(p)
              \/ Finish(p) \/ FinishFailed(p) \/ Abandon(p)
       PROVE  MemoryKept'
  BY <1>1, <1>10 DEF Pull, PullNothing, Claim, Requeue, ClaimUnheard, Finish, FinishFailed,
     Abandon, redis
<1>11. ASSUME \/ \E i \in Stage : StageEnds(i) \/ Forget(i)
              \/ \E k \in Key : Unclaim(k)
              \/ \E j \in Judge : Crash(j)
              \/ \E t \in Task : Recover(t)
              \/ UNCHANGED vars
       PROVE  MemoryKept'
  BY <1>1, <1>11 DEF StageEnds, Forget, Unclaim, Crash, Recover, vars, redis
<1>12. ASSUME NEW j \in Judge, LoopStep(j)
       PROVE  MemoryKept'
  BY <1>3, <1>5, <1>10, <1>12 DEF LoopStep
<1>13. ASSUME NEW p \in Permit, EvaluationStep(p)
       PROVE  MemoryKept'
  BY <1>6, <1>7, <1>10, <1>13, Pairs DEF EvaluationStep
<1> QED
  BY <1>4, <1>5, <1>6, <1>8, <1>9, <1>10, <1>11, <1>12, <1>13 DEF Next, Cleanup

\* The entries never promise more slots or memory than the group has: a poll
\* that is granted has counted all of them, the room reserved for the stages of
\* a task once.
THEOREM LeasesKept == Spec => []LeasesWithinCapacity
<1>1. Init => MemoryKept
  <2> SUFFICES ASSUME Init
               PROVE  MemoryKept
    OBVIOUS
  <2>1. lease = [p \in Permit |-> NoLease] /\ stageLease = [i \in Stage |-> 0]
    BY DEF Init
  <2>2. \A p \in Permit : Shares(lease, stageLease)[p] = 0
    <3> SUFFICES ASSUME NEW p \in Permit
                 PROVE  Shares(lease, stageLease)[p] = 0
      OBVIOUS
    <3>1. Children(stageLease)[p] = 0
      <4>1. stageLease \in [Stage -> Nat] /\ (\A i \in Stage : stageLease[i] = 0)
        BY <2>1
      <4>2. /\ StagesOf(p) \subseteq Stage /\ IsFiniteSet(StagesOf(p))
            /\ NatValued(stageLease, StagesOf(p))
            /\ Children(stageLease)[p] = SumFunctionOnSet(stageLease, StagesOf(p))
        BY <4>1, ChildrenNat
      <4>3. \A i \in StagesOf(p) : stageLease[i] = 0
        BY <4>1, <4>2
      <4>4. SumFunctionOnSet(stageLease, StagesOf(p)) = 0
        BY <4>2, <4>3, SumZero
      <4> QED
        BY <4>2, <4>4
    <3> QED
      BY <2>1, <3>1 DEF Shares, NoLease, Larger
  <2>3. SumFunctionOnSet(Shares(lease, stageLease), Permit) = 0
    BY <2>2, SumZero
  <2> QED
    BY <2>3, ReservedIsSum DEF MemoryKept
<1>2. SchedulingInv /\ MemoryKept => LeasesWithinCapacity
  BY DEF SchedulingInv, SlotsKept, MemoryKept, LeasesWithinCapacity
<1> QED
  BY <1>1, <1>2, SchedulingInvariant, MemoryStep, PTL DEF Spec
-----------------------------------------------------------------------------
(* The types of the rest *)

TasksTyped == /\ processing \subseteq Task /\ done \subseteq Task
              /\ tries \in [Task -> 0..JudgeRetries]
TurnsTyped == request \subseteq Stage /\ score \in [Permit -> Nat \cup {NoScore}]
CursorTyped == cursor \in [Judge -> 1..Len(Pools)]
FaultsTyped == faults \in 0..MaxFaults

\* Renumbered, scores are numbers.
LEMMA RankedTyped ==
  ASSUME NEW s \in [Permit -> Nat \cup {NoScore}]
  PROVE  Ranked(s) \in [Permit -> Nat \cup {NoScore}]
<1> SUFFICES ASSUME NEW p \in Permit
             PROVE  Ranked(s)[p] \in Nat \cup {NoScore}
  BY DEF Ranked
<1> DEFINE below == {q \in Permit : 0 < s[q] /\ s[q] <= s[p]}
<1>1. Cardinality(below) \in Nat
  <2>1. below \subseteq Permit
    OBVIOUS
  <2> QED
    BY <2>1, FS_Subset, FS_CardinalityType
<1>2. Ranked(s)[p] = IF s[p] > 0 THEN Cardinality(below) ELSE s[p]
  BY DEF Ranked
<1> QED
  BY <1>1, <1>2

LEMMA TasksStep == SchedulingInv /\ TasksTyped /\ [Next]_vars => TasksTyped'
<1> SUFFICES ASSUME SchedulingInv, TasksTyped, [Next]_vars
             PROVE  TasksTyped'
  OBVIOUS
<1> USE DEF SchedulingInv
<1>1. ASSUME UNCHANGED <<processing, done, tries>>
      PROVE  TasksTyped'
  BY <1>1 DEF TasksTyped
<1>2. ASSUME NEW p \in Permit, Pull(p)
      PROVE  TasksTyped'
  <2>1. lease[p].pool \in Pool
    BY <1>2 DEF Pull, LeasesHeld, Typed, Lease
  <2>2. queue[lease[p].pool] \in Seq(Task) /\ queue[lease[p].pool] # <<>>
    BY <1>2, <2>1 DEF Pull, Typed
  <2>3. Head(queue[lease[p].pool]) \in Task
    BY <2>2
  <2>4. /\ processing' = processing \cup {Head(queue[lease[p].pool])}
        /\ UNCHANGED <<done, tries>>
    BY <1>2 DEF Pull
  <2> QED
    BY <2>3, <2>4 DEF TasksTyped
<1>3. ASSUME NEW p \in Permit, Requeue(p)
      PROVE  TasksTyped'
  BY <1>3 DEF Requeue, TasksTyped
<1>4. ASSUME NEW p \in Permit, Finish(p)
      PROVE  TasksTyped'
  <2>1. eval[p].task \in Task
    BY <1>4 DEF Finish, Evaluating, HasTask
  <2> QED
    BY <1>4, <2>1 DEF Finish, TasksTyped
<1>5. ASSUME NEW p \in Permit, FinishFailed(p)
      PROVE  TasksTyped'
  <2> DEFINE t == eval[p].task
  <2>1. t \in Task
    BY <1>5 DEF FinishFailed, HasTask
  <2>2. processing' \subseteq Task
    BY <1>5 DEF FinishFailed, TasksTyped
  <2>3. done' \subseteq Task
    <3>1. done' = done \cup {t} \/ done' = done
      BY <1>5 DEF FinishFailed
    <3> QED
      BY <2>1, <3>1 DEF TasksTyped
  <2>4. tries' \in [Task -> 0..JudgeRetries]
    <3>1. \/ tries[t] < JudgeRetries /\ tries' = [tries EXCEPT ![t] = @ + 1]
          \/ UNCHANGED tries
      <4>1. IF t \in processing /\ tries[t] < JudgeRetries
              THEN Requeued(t) /\ tries' = [tries EXCEPT ![t] = @ + 1]
              ELSE UNCHANGED <<queue, tries>>
        BY <1>5 DEF FinishFailed
      <4> QED
        BY <4>1
    <3> HIDE DEF t
    <3>2. tries \in [Task -> 0..JudgeRetries] /\ JudgeRetries \in Nat
      BY SchedulingAssumption DEF TasksTyped
    <3>3. CASE tries[t] < JudgeRetries /\ tries' = [tries EXCEPT ![t] = @ + 1]
      <4>1. tries[t] + 1 \in 0..JudgeRetries
        BY <2>1, <3>2, <3>3
      <4> QED
        BY <2>1, <3>2, <3>3, <4>1
    <3> QED
      BY <3>1, <3>2, <3>3
  <2> QED
    BY <2>2, <2>3, <2>4 DEF TasksTyped
<1>6. ASSUME NEW t \in Task, Recover(t)
      PROVE  TasksTyped'
  BY <1>6 DEF Recover, TasksTyped
<1>7. ASSUME NEW p \in Permit,
             \/ \E j \in Judge : Acquire(j, p)
             \/ AcquireUnheard(p) \/ PullNothing(p) \/ Resize(p) \/ ResizeUnheard(p)
             \/ Claim(p) \/ ClaimUnheard(p) \/ Shrink(p) \/ Abandon(p) \/ Release(p)
      PROVE  TasksTyped'
  BY <1>1, <1>7 DEF Acquire, AcquireUnheard, PullNothing, Resize, ResizeUnheard, Claim,
     ClaimUnheard, Shrink, Abandon, Release, tasks, redis
<1>8. ASSUME NEW i \in Stage,
             \/ PollHeard(i) \/ PollUnheard(i) \/ StageEnds(i) \/ ReleaseStage(i) \/ Forget(i)
      PROVE  TasksTyped'
  BY <1>1, <1>8 DEF PollHeard, PollUnheard, Poll, StageEnds, ReleaseStage, Forget, tasks, redis
<1>9. ASSUME (\E k \in Key : Unclaim(k)) \/ (\E j \in Judge : Crash(j)) \/ UNCHANGED vars
      PROVE  TasksTyped'
  BY <1>1, <1>9 DEF Unclaim, Crash, tasks, redis, vars
<1>10. ASSUME NEW j \in Judge, LoopStep(j)
       PROVE  TasksTyped'
  BY <1>2, <1>3, <1>7, <1>10 DEF LoopStep
<1>11. ASSUME NEW p \in Permit, EvaluationStep(p)
       PROVE  TasksTyped'
  BY <1>4, <1>5, <1>7, <1>8, <1>11, Pairs DEF EvaluationStep
<1> QED
  BY <1>6, <1>7, <1>8, <1>9, <1>10, <1>11 DEF Next, Cleanup

LEMMA TurnsStep == TurnsTyped /\ [Next]_vars => TurnsTyped'
<1> SUFFICES ASSUME TurnsTyped, [Next]_vars
             PROVE  TurnsTyped'
  OBVIOUS
<1>1. ASSUME UNCHANGED turns
      PROVE  TurnsTyped'
  BY <1>1 DEF TurnsTyped, turns
<1>2. ASSUME NEW p \in Permit, NEW pool, AddLease(p, pool)
      PROVE  TurnsTyped'
  <2>1. [score EXCEPT ![p] = NoScore] \in [Permit -> Nat \cup {NoScore}]
    BY DEF TurnsTyped
  <2>2. score' \in [Permit -> Nat \cup {NoScore}]
    BY <1>2, <2>1, RankedTyped DEF AddLease
  <2> QED
    BY <1>2, <2>2 DEF AddLease, TurnsTyped
<1>3. ASSUME NEW p \in Permit, (\E j \in Judge : Acquire(j, p)) \/ AcquireUnheard(p)
      PROVE  TurnsTyped'
  BY <1>2, <1>3 DEF Acquire, AcquireUnheard
<1>4. ASSUME NEW i \in Stage, Poll(i)
      PROVE  TurnsTyped'
  <2>1. Requests(i) \subseteq Stage
    BY DEF Requests, TurnsTyped
  <2>2. request' \subseteq Stage
    BY <1>4, <2>1 DEF Poll, TurnsTyped
  <2>3. Score(i) \in [Permit -> Nat \cup {NoScore}]
    BY DEF Score, TurnsTyped
  <2>4. Cardinality(Permit) + 1 \in Nat
    BY FS_CardinalityType
  <2>5. [Score(i) EXCEPT ![i[1]] = Cardinality(Permit) + 1] \in [Permit -> Nat \cup {NoScore}]
    BY <2>3, <2>4
  <2>6. CASE KindOf(i) = "run"
    <3>1. /\ UsesTurn(i) => score' = Ranked([Score(i) EXCEPT ![i[1]] = Cardinality(Permit) + 1])
          /\ ~UsesTurn(i) => score' = Ranked(Score(i))
      BY <1>4, <2>6 DEF Poll, TakeTurn
    <3> QED
      BY <2>2, <2>3, <2>5, <3>1, RankedTyped DEF TurnsTyped
  <2>7. CASE KindOf(i) # "run"
    BY <1>4, <2>2, <2>7 DEF Poll, TurnsTyped
  <2> QED
    BY <2>6, <2>7
<1>5. ASSUME NEW i \in Stage, PollHeard(i) \/ PollUnheard(i)
      PROVE  TurnsTyped'
  BY <1>4, <1>5 DEF PollHeard, PollUnheard
<1>6. ASSUME NEW i \in Stage, Forget(i)
      PROVE  TurnsTyped'
  BY <1>6 DEF Forget, TurnsTyped
<1>7. ASSUME NEW p \in Permit,
             \/ Pull(p) \/ PullNothing(p) \/ Resize(p) \/ ResizeUnheard(p) \/ Claim(p)
             \/ ClaimUnheard(p) \/ Requeue(p) \/ Shrink(p) \/ Finish(p) \/ FinishFailed(p)
             \/ Abandon(p) \/ Release(p)
      PROVE  TurnsTyped'
  BY <1>1, <1>7 DEF Pull, PullNothing, Resize, ResizeUnheard, Claim, ClaimUnheard, Requeue,
     Shrink, Finish, FinishFailed, Abandon, Release, turns, redis
<1>8. ASSUME \/ \E i \in Stage : StageEnds(i) \/ ReleaseStage(i)
             \/ \E k \in Key : Unclaim(k)
             \/ \E j \in Judge : Crash(j)
             \/ \E t \in Task : Recover(t)
             \/ UNCHANGED vars
      PROVE  TurnsTyped'
  BY <1>1, <1>8 DEF StageEnds, ReleaseStage, Unclaim, Crash, Recover, turns, redis, vars
<1>9. ASSUME NEW j \in Judge, LoopStep(j)
      PROVE  TurnsTyped'
  BY <1>3, <1>7, <1>9 DEF LoopStep
<1>10. ASSUME NEW p \in Permit, EvaluationStep(p)
       PROVE  TurnsTyped'
  BY <1>5, <1>7, <1>10, Pairs DEF EvaluationStep
<1> QED
  BY <1>3, <1>5, <1>6, <1>7, <1>8, <1>9, <1>10 DEF Next, Cleanup

\* The cursor only moves to a pool there is.
LEMMA CursorStep == Typed /\ CursorTyped /\ [Next]_vars => CursorTyped'
<1> SUFFICES ASSUME Typed, CursorTyped, [Next]_vars
             PROVE  CursorTyped'
  OBVIOUS
<1>1. ASSUME UNCHANGED cursor
      PROVE  CursorTyped'
  BY <1>1 DEF CursorTyped
<1>2. ASSUME NEW j \in Judge, NEW p \in Permit, Acquire(j, p)
      PROVE  CursorTyped'
  <2>1. PICK n \in 0..(Len(Pools) - 1) : cursor' = [cursor EXCEPT ![j] = CursorAfter(j, n)]
    BY <1>2 DEF Acquire
  <2>2. CursorAfter(j, n) \in 1..Len(Pools)
    BY TurnInRange
  <2> QED
    BY <2>1, <2>2 DEF CursorTyped
<1>3. ASSUME NEW j \in Judge, Crash(j)
      PROVE  CursorTyped'
  <2>1. 1 \in 1..Len(Pools)
    BY PoolFacts
  <2> QED
    BY <1>3, <2>1 DEF Crash, CursorTyped
<1>4. ASSUME NEW p \in Permit,
             \/ AcquireUnheard(p) \/ Pull(p) \/ PullNothing(p) \/ Resize(p) \/ ResizeUnheard(p)
             \/ Claim(p) \/ ClaimUnheard(p) \/ Requeue(p) \/ Shrink(p) \/ Finish(p)
             \/ FinishFailed(p) \/ Abandon(p) \/ Release(p)
      PROVE  CursorTyped'
  BY <1>1, <1>4 DEF AcquireUnheard, Pull, PullNothing, Resize, ResizeUnheard, Claim,
     ClaimUnheard, Requeue, Shrink, Finish, FinishFailed, Abandon, Release
<1>5. ASSUME NEW i \in Stage,
             PollHeard(i) \/ PollUnheard(i) \/ StageEnds(i) \/ ReleaseStage(i) \/ Forget(i)
      PROVE  CursorTyped'
  BY <1>1, <1>5 DEF PollHeard, PollUnheard, Poll, StageEnds, ReleaseStage, Forget
<1>6. ASSUME (\E k \in Key : Unclaim(k)) \/ (\E t \in Task : Recover(t)) \/ UNCHANGED vars
      PROVE  CursorTyped'
  BY <1>1, <1>6 DEF Unclaim, Recover, vars
<1>7. ASSUME NEW j \in Judge, LoopStep(j)
      PROVE  CursorTyped'
  BY <1>2, <1>4, <1>7 DEF LoopStep
<1>8. ASSUME NEW p \in Permit, EvaluationStep(p)
      PROVE  CursorTyped'
  BY <1>4, <1>5, <1>8, Pairs DEF EvaluationStep
<1> QED
  BY <1>3, <1>4, <1>5, <1>6, <1>7, <1>8 DEF Next, Cleanup

LEMMA FaultsStep == FaultsTyped /\ [Next]_vars => FaultsTyped'
<1> SUFFICES ASSUME FaultsTyped, [Next]_vars
             PROVE  FaultsTyped'
  OBVIOUS
<1>1. ASSUME UNCHANGED faults
      PROVE  FaultsTyped'
  BY <1>1 DEF FaultsTyped
<1>2. ASSUME Fault
      PROVE  FaultsTyped'
  BY <1>2, SchedulingAssumption DEF FaultsTyped, Fault
<1>3. ASSUME NEW p \in Permit,
             \/ \E j \in Judge : Acquire(j, p)
             \/ AcquireUnheard(p) \/ Pull(p) \/ PullNothing(p) \/ Resize(p) \/ ResizeUnheard(p)
             \/ Claim(p) \/ ClaimUnheard(p) \/ Requeue(p) \/ Shrink(p) \/ Finish(p)
             \/ FinishFailed(p) \/ Abandon(p) \/ Release(p)
      PROVE  FaultsTyped'
  BY <1>1, <1>2, <1>3 DEF Acquire, AcquireUnheard, Pull, PullNothing, Resize, ResizeUnheard,
     Claim, ClaimUnheard, Requeue, Shrink, Finish, FinishFailed, Abandon, Release
<1>4. ASSUME NEW i \in Stage,
             PollHeard(i) \/ PollUnheard(i) \/ StageEnds(i) \/ ReleaseStage(i) \/ Forget(i)
      PROVE  FaultsTyped'
  BY <1>1, <1>2, <1>4 DEF PollHeard, PollUnheard, StageEnds, ReleaseStage, Forget
<1>5. ASSUME \/ \E k \in Key : Unclaim(k)
             \/ \E j \in Judge : Crash(j)
             \/ \E t \in Task : Recover(t)
             \/ UNCHANGED vars
      PROVE  FaultsTyped'
  BY <1>1, <1>2, <1>5 DEF Unclaim, Crash, Recover, vars
<1>6. ASSUME NEW j \in Judge, LoopStep(j)
      PROVE  FaultsTyped'
  BY <1>3, <1>6 DEF LoopStep
<1>7. ASSUME NEW p \in Permit, EvaluationStep(p)
      PROVE  FaultsTyped'
  BY <1>3, <1>4, <1>7, Pairs DEF EvaluationStep
<1> QED
  BY <1>3, <1>4, <1>5, <1>6, <1>7 DEF Next, Cleanup

\* Everything in Redis and in the judges keeps its type; a cursor never leaves
\* the list of pools, a task is never retried more often than the judge allows.
THEOREM SchedulingTypeCorrect == Spec => []TypeOK
<1> DEFINE Inv == SchedulingInv /\ TasksTyped /\ TurnsTyped /\ CursorTyped /\ FaultsTyped
<1>1. Init => Inv
  <2> SUFFICES ASSUME Init
               PROVE  Inv
    OBVIOUS
  <2>1. TasksTyped /\ FaultsTyped
    BY SchedulingAssumption DEF Init, TasksTyped, FaultsTyped
  <2>2. TurnsTyped
    BY DEF Init, TurnsTyped
  <2>3. CursorTyped
    BY PoolFacts DEF Init, CursorTyped
  <2> QED
    BY <2>1, <2>2, <2>3, SchedulingStarts
<1>2. Inv /\ [Next]_vars => Inv'
  <2>1. SchedulingInv => Typed
    BY DEF SchedulingInv
  <2> QED
    BY <2>1, SchedulingStep, TasksStep, TurnsStep, CursorStep, FaultsStep
<1>3. Inv => TypeOK
  BY DEF SchedulingInv, Typed, TasksTyped, TurnsTyped, CursorTyped, FaultsTyped, TypeOK, Evaluation
<1> QED
  BY <1>1, <1>2, <1>3, PTL DEF Spec
=============================================================================
