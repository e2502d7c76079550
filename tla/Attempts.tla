------------------------------ MODULE Attempts ------------------------------
(* The evaluation-attempt tables of noj-core: `submissions`,
   `evaluation_attempts`, `submission_version_results` and the token
   revocation outbox, with the transactions every caller shares (createAttempt,
   finishAttempt, applyAttemptResult, scheduleAutoRetryInTx).

   Each operator below is the effect of one committed PostgreSQL transaction.
   The transaction holds the submission row FOR UPDATE from its first read, so
   its reads and writes are one step.  Attempt ids are random UUIDs in the code;
   here the n-th attempt of submission s is <<s, n>>, which names the same rows
   once each.                                                                *)
EXTENDS Integers, FiniteSets, FiniteSetsExt

CONSTANTS Submission,   \* the submissions that may be created
          Version,      \* published problem versions an attempt may be bound to
          NoAttempt,    \* the NULL attempt reference
          MaxAttempt,   \* bound: attempts per submission
          MaxRetries    \* platform_error_max_retries, the auto-retry setting

AttemptId == Submission \X (1..MaxAttempt)

ASSUME AttemptsAssumption ==
  /\ MaxAttempt \in Nat /\ MaxRetries \in Nat
  /\ NoAttempt \notin AttemptId
  /\ IsFiniteSet(Submission)

VARIABLES sub,      \* submissions row
          att,      \* evaluation_attempts row
          verdict,  \* submission_version_results.current_attempt_id
          outbox    \* token revocation outbox row of an attempt

dbVars == <<sub, att, verdict, outbox>>

SubStatus == {"absent", "pending", "judging", "finished", "error"}
AttemptState ==
  {"absent", "queued", "judging", "finished", "error", "superseded"}

\* isTerminalAttemptState: the states no result may replace.
Terminal(a) == att[a].state \in {"finished", "error", "superseded"}
Exists(a) == att[a].state # "absent"
Open(a) == Exists(a) /\ ~Terminal(a)
Owner(a) == a[1]
Ref == AttemptId \cup {NoAttempt}

NoSubmission ==
  [status |-> "absent", active |-> NoAttempt, run |-> NoAttempt,
   latest |-> NoAttempt, rejudgeSeq |-> 0]
AbsentAttempt == [state |-> "absent", seq |-> 0, retries |-> 0, version |-> 0]

SubmissionRow ==
  [status : SubStatus, active : Ref, run : Ref, latest : Ref, rejudgeSeq : Nat]
AttemptRow ==
  [state : AttemptState, seq : Nat, retries : Nat, version : Version \cup {0}]

DbTypeOK ==
  /\ sub \in [Submission -> SubmissionRow]
  /\ att \in [AttemptId -> AttemptRow]
  /\ verdict \in [Submission -> [Version -> Ref]]
  /\ outbox \in [AttemptId -> {"none", "pending", "done"}]

DbInit ==
  /\ sub = [s \in Submission |-> NoSubmission]
  /\ att = [a \in AttemptId |-> AbsentAttempt]
  /\ verdict = [s \in Submission |-> [v \in Version |-> NoAttempt]]
  /\ outbox = [a \in AttemptId |-> "none"]

-----------------------------------------------------------------------------
(* createAttempt *)

Created(s) == {n \in 1..MaxAttempt : Exists(<<s, n>>)}

\* The id the next attempt of s gets: the first one no row has.
Fresh(a) == /\ a \in AttemptId
            /\ ~Exists(a)
            /\ \A n \in 1..(a[2] - 1) : Exists(<<Owner(a), n>>)

\* Mutant: the retry reuses the sequence of the row.
SameSequence(s) == sub[s].rejudgeSeq

\* nextAttemptSequence, then the maximum with the row's own rejudge_seq.
NextSequence(s) ==
  LET used == {att[<<s, n>>].seq : n \in Created(s)}
      next == Max(used \cup {-1}) + 1
  IN IF next >= sub[s].rejudgeSeq THEN next ELSE sub[s].rejudgeSeq

\* SOURCE_JUDGING: an open active attempt keeps a second one out.
MayCreate(s) == sub[s].active # NoAttempt => ~Open(sub[s].active)

\* Mutant: a retry starts counting afresh.
ForgetfulAttempt(s, v, n) ==
  [state |-> "queued", seq |-> NextSequence(s), retries |-> 0, version |-> v]

QueuedAttempt(s, v, n) ==
  [state |-> "queued", seq |-> NextSequence(s), retries |-> n, version |-> v]

\* Mutant: the attempt's state is written to the row.
PointAtQueued(row, a, q) ==
  [row EXCEPT !.status = "queued", !.active = a, !.run = a, !.rejudgeSeq = q]

\* The submissions row after an attempt a of sequence q became its active one.
PointAt(row, a, q) ==
  [row EXCEPT !.status = "pending", !.active = a, !.run = a, !.rejudgeSeq = q]

CreateAttempt(s, a, v, n) ==
  /\ MayCreate(s)
  /\ Fresh(a) /\ Owner(a) = s
  /\ att' = [att EXCEPT ![a] = QueuedAttempt(s, v, n)]
  /\ sub' = [sub EXCEPT ![s] = PointAt(@, a, NextSequence(s))]
  /\ UNCHANGED <<verdict, outbox>>

\* createSubmission: insert the row and its initial attempt in one transaction.
InsertSubmission(s, a, v) ==
  /\ sub[s].status = "absent"
  /\ CreateAttempt(s, a, v, 0)

-----------------------------------------------------------------------------
(* finishAttempt and applyAttemptResult *)

\* The one-shot terminal write of an attempt row.
Finish(a, state) == [att EXCEPT ![a].state = state]

\* Mutant: the revocation is left to the code after the commit.
RegisterNothing(a) == outbox

\* registerAttemptTerminalRevocation, in the transaction of the terminal write;
\* an attempt that has a row already gets no second one.
Register(a) == [outbox EXCEPT ![a] = IF @ = "none" THEN "pending" ELSE @]

\* updateSubmissionRuntimeState: clears the active attempt.
Settle(row, a, status) ==
  [row EXCEPT !.status = status, !.active = NoAttempt, !.latest = a]

\* A result is only applied to the submission's active, still open attempt.
Applies(a) == Open(a) /\ sub[Owner(a)].active = a

ApplyGraded(a) ==
  LET s == Owner(a) IN
  /\ Applies(a)
  /\ att' = Finish(a, "finished")
  /\ sub' = [sub EXCEPT ![s] = Settle(@, a, "finished")]
  /\ verdict' = [verdict EXCEPT ![s][att[a].version] = a]
  /\ outbox' = Register(a)

ApplyPlatformError(a) ==
  LET s == Owner(a) IN
  /\ Applies(a)
  /\ att' = Finish(a, "error")
  /\ sub' = [sub EXCEPT ![s] = Settle(@, a, "error")]
  /\ outbox' = Register(a)
  /\ UNCHANGED verdict

\* Mutant: one retry too many.
MayRetryOnceMore(a) == att[a].retries <= MaxRetries

\* scheduleAutoRetryInTx declines once the chain used its retries.
MayRetry(a) == att[a].retries < MaxRetries

\* The failed attempt a stays `error`; attempt b replaces it, same version.
ApplyRetry(a, b) ==
  LET s == Owner(a) IN
  /\ Applies(a) /\ MayRetry(a)
  /\ Fresh(b) /\ Owner(b) = s
  /\ att' = [Finish(a, "error") EXCEPT
               ![b] = QueuedAttempt(s, att[a].version, att[a].retries + 1)]
  /\ sub' = [sub EXCEPT ![s] = PointAt(@, b, NextSequence(s))]
  /\ outbox' = Register(a)
  /\ UNCHANGED verdict

\* pushJudgeTask, before its script: judge_run_id of a row that still matches.
RecordRun(a) ==
  LET s == Owner(a) IN
  sub' = IF /\ sub[s].active = a /\ sub[s].rejudgeSeq = att[a].seq
            /\ sub[s].status \in {"pending", "judging"}
         THEN [sub EXCEPT ![s].run = a] ELSE sub

\* What the conditional updates to `judging` may do.
StartJudging(s) ==
  /\ sub[s].status \in {"pending", "judging"}
  /\ sub' = [sub EXCEPT ![s].status = "judging"]
  /\ UNCHANGED <<att, verdict, outbox>>

\* The post-commit drain or the background worker revokes the attempt's tokens.
RevokeTokens(a) ==
  /\ outbox[a] = "pending"
  /\ outbox' = [outbox EXCEPT ![a] = "done"]
  /\ UNCHANGED <<sub, att, verdict>>

\* What submissions and their evaluation do to the tables.
EvaluationNext ==
  \/ \E s \in Submission, a \in AttemptId, v \in Version : InsertSubmission(s, a, v)
  \/ \E s \in Submission : StartJudging(s)
  \/ \E a \in AttemptId : \/ RecordRun(a) /\ UNCHANGED <<att, verdict, outbox>>
                          \/ ApplyGraded(a)
                          \/ ApplyPlatformError(a)
                          \/ RevokeTokens(a)
  \/ \E a, b \in AttemptId : ApplyRetry(a, b)

\* Whatever runs on top of the tables, this is all that happens to them: batch
\* jobs also create attempts on submissions that were decided, and on copies.
DbNext ==
  \/ EvaluationNext
  \/ \E s \in Submission, a \in AttemptId, v \in Version : CreateAttempt(s, a, v, 0)

AttemptsSpec == DbInit /\ [][DbNext]_dbVars

\* The tables while nothing is rejudged.
EvaluationSpec == DbInit /\ [][EvaluationNext]_dbVars

-----------------------------------------------------------------------------
(* Consistency of the tables. *)

\* `status` and `active_attempt_id` never contradict each other, and the active
\* attempt is the newest one and the only one still open.
HasActive(s, a) ==
  /\ a \in AttemptId /\ Owner(a) = s /\ Open(a)
  /\ sub[s].run = a
  /\ att[a].seq = sub[s].rejudgeSeq
  /\ \A b \in AttemptId : Owner(b) = s /\ Open(b) => b = a
HasNone(s) ==
  /\ sub[s].active = NoAttempt
  /\ \A b \in AttemptId : Owner(b) = s => ~Open(b)
ActiveConsistent ==
  \A s \in Submission :
    IF sub[s].status \in {"pending", "judging"}
    THEN HasActive(s, sub[s].active) ELSE HasNone(s)

\* A current verdict is a finished attempt of that submission and version:
\* platform errors, open attempts and other versions never stand as one.
VerdictIsGraded ==
  \A s \in Submission, v \in Version :
    LET a == verdict[s][v] IN
    a # NoAttempt =>
      /\ Owner(a) = s
      /\ att[a].state = "finished"
      /\ att[a].version = v

\* Sequences order the attempts of a submission as they were created, and none
\* exceeds the row's rejudge_seq, so an envelope names at most one attempt.
SequencesOrdered ==
  \A a, b \in AttemptId :
    Exists(a) /\ Exists(b) /\ Owner(a) = Owner(b) =>
      /\ a[2] < b[2] => att[a].seq < att[b].seq
      /\ att[a].seq <= sub[Owner(a)].rejudgeSeq

\* One-shot results: a terminal attempt row is never written again, and a
\* submission's current verdict is only ever replaced by a newer attempt.
OneShot ==
  /\ \A a \in AttemptId : Terminal(a) => att'[a] = att[a]
  /\ \A s \in Submission, v \in Version :
       LET old == verdict[s][v]
           new == verdict'[s][v]
       IN old # NoAttempt /\ new # old =>
            new # NoAttempt /\ att'[new].seq > att[old].seq

\* While nothing is rejudged, the attempts of a submission form one retry chain:
\* each attempt after the first replaces one that ended in a platform error,
\* counts one retry more, and the chain never exceeds the configured number of
\* retries, however often results are duplicated, redelivered or replayed.
RetryChain ==
  \A s \in Submission, n \in 1..MaxAttempt :
    Exists(<<s, n>>) =>
      /\ att[<<s, n>>].retries = n - 1
      /\ n - 1 <= MaxRetries
      /\ n > 1 => att[<<s, n - 1>>].state = "error"

\* Terminal attempt rows and verdicts are written once.
WrittenOnce == [][OneShot]_dbVars

\* The tables implement the ledger: a submission is accepted once and goes through
\* at most MaxRetries + 1 rounds before it is decided, for good or, with
\* rejudges, until one of these opens it again.
Phase(s) ==
  CASE sub[s].status = "absent" -> "absent"
    [] sub[s].status \in {"pending", "judging"} -> "open"
    [] sub[s].status = "finished" -> "graded"
    [] sub[s].status = "error" -> "failed"
Round(s) ==
  CASE sub[s].active # NoAttempt -> att[sub[s].active].retries + 1
    [] sub[s].active = NoAttempt /\ sub[s].latest # NoAttempt ->
         att[sub[s].latest].retries + 1
    [] sub[s].active = NoAttempt /\ sub[s].latest = NoAttempt -> 0
LedgerPhase == [s \in Submission |-> Phase(s)]
LedgerRound == [s \in Submission |-> Round(s)]
Ledger == INSTANCE EvaluationLedger WITH phase <- LedgerPhase, round <- LedgerRound
LedgerSpec == Ledger!LedgerSpec
RejudgedLedgerSpec == Ledger!RejudgedLedgerSpec
=============================================================================
