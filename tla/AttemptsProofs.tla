--------------------------- MODULE AttemptsProofs ---------------------------
(* What holds of the evaluation tables for any number of submissions,
   versions, attempts and retries.  The inductive invariant numbers the attempts:
   the n-th attempt of a submission has sequence n - 1 and exists exactly while
   the row's rejudge_seq has reached it, which is what makes `active` the newest
   attempt and the only open one.                                            *)
EXTENDS Attempts, TLAPS

\* The attempts of s are those up to its rejudge_seq, in order.
Numbered ==
  \A s \in Submission :
    /\ sub[s].status = "absent" => sub[s].rejudgeSeq = 0
    /\ \A a \in AttemptId : Owner(a) = s =>
         /\ Exists(a) <=> sub[s].status # "absent" /\ a[2] - 1 <= sub[s].rejudgeSeq
         /\ Exists(a) => att[a].seq = a[2] - 1
    /\ sub[s].status # "absent" => sub[s].rejudgeSeq < MaxAttempt

TablesOK == DbTypeOK /\ ActiveConsistent /\ Numbered

-----------------------------------------------------------------------------
(* Attempt ids *)

\* An attempt id is the pair of its owner and its number.
LEMMA Pair ==
  ASSUME NEW a \in AttemptId
  PROVE  /\ Owner(a) \in Submission /\ a[2] \in 1..MaxAttempt
         /\ a = <<Owner(a), a[2]>>
  BY DEF AttemptId, Owner

\* A submission and a number name an attempt.
LEMMA PairOf ==
  ASSUME NEW s \in Submission, NEW n \in 1..MaxAttempt
  PROVE  <<s, n>> \in AttemptId /\ Owner(<<s, n>>) = s /\ <<s, n>>[2] = n
  BY DEF AttemptId, Owner

\* An attempt that has not been refused by nextAttemptSequence: the sequence it
\* hands out follows the row's own.
LEMMA NextSequenceValue ==
  ASSUME TablesOK, NEW s \in Submission
  PROVE  NextSequence(s) = IF sub[s].status = "absent" THEN 0
                           ELSE sub[s].rejudgeSeq + 1
<1> DEFINE used == {att[<<s, n>>].seq : n \in Created(s)}
           q == sub[s].rejudgeSeq
<1> USE AttemptsAssumption
<1>1. q \in Nat
  BY DEF TablesOK, DbTypeOK, SubmissionRow
<1>2. \A n \in 1..MaxAttempt : Exists(<<s, n>>) <=> sub[s].status # "absent" /\ n - 1 <= q
  BY PairOf DEF TablesOK, Numbered
<1>3. \A n \in Created(s) : att[<<s, n>>].seq = n - 1
  BY PairOf DEF TablesOK, Numbered, Created
<1>4. CASE sub[s].status = "absent"
  <2>1. Created(s) = {}
    BY <1>2, <1>4 DEF Created
  <2>2. used \cup {-1} = {-1}
    BY <2>1
  <2>3. Max(used \cup {-1}) = -1
    BY <2>2 DEF Max
  <2> QED
    BY <2>3, <1>4 DEF NextSequence, TablesOK, Numbered
<1>5. CASE sub[s].status # "absent"
  <2>1. q < MaxAttempt
    BY <1>5 DEF TablesOK, Numbered
  <2>2. Created(s) = 1..(q + 1)
    BY <1>1, <1>2, <1>5, <2>1 DEF Created
  <2>3. q \in used
    <3>1. q + 1 \in Created(s)
      BY <1>1, <2>2
    <3>2. att[<<s, q + 1>>].seq = q
      BY <1>1, <1>3, <3>1
    <3> QED
      BY <3>1, <3>2
  <2>4. \A x \in used \cup {-1} : x \in Int /\ x <= q
    <3>1. \A n \in Created(s) : n - 1 \in Int /\ n - 1 <= q
      BY <1>1, <2>2
    <3>2. \A x \in used : x \in Int /\ x <= q
      BY <1>3, <3>1
    <3>3. -1 \in Int /\ -1 <= q
      BY <1>1
    <3> QED
      BY <3>2, <3>3
  <2>5. Max(used \cup {-1}) = q
    <3> DEFINE S == used \cup {-1}
    <3>1. q \in S
      BY <2>3
    <3>2. \A x \in S : x \in Int /\ x <= q
      BY <2>4
    <3> HIDE DEF S, used, q
    <3>3. \A x \in S : q >= x
      BY <1>1, <3>2
    <3>4. \A x \in S : (\A y \in S : x >= y) => x = q
      BY <1>1, <3>1, <3>2
    <3>5. Max(S) = q
      BY <3>1, <3>3, <3>4 DEF Max
    <3> QED
      BY <3>5 DEF S
  <2> QED
    BY <1>1, <1>5, <2>5 DEF NextSequence
<1> QED
  BY <1>4, <1>5

\* The attempt a transaction inserts is the one after all that exist.
LEMMA FreshIsNext ==
  ASSUME TablesOK, NEW a, Fresh(a)
  PROVE  /\ a \in AttemptId /\ Owner(a) \in Submission
         /\ a[2] = NextSequence(Owner(a)) + 1
<1> DEFINE s == Owner(a)
<1>1. a \in AttemptId /\ ~Exists(a) /\ \A n \in 1..(a[2] - 1) : Exists(<<s, n>>)
  BY DEF Fresh
<1>2. s \in Submission /\ a[2] \in 1..MaxAttempt
  BY <1>1, Pair
<1>3. \A n \in 1..(a[2] - 1) : sub[s].status # "absent" /\ n - 1 <= sub[s].rejudgeSeq
  <2> TAKE n \in 1..(a[2] - 1)
  <2>1. n \in 1..MaxAttempt
    BY <1>2, AttemptsAssumption
  <2>2. <<s, n>> \in AttemptId /\ Owner(<<s, n>>) = s /\ <<s, n>>[2] = n
    BY <1>2, <2>1, PairOf
  <2>3. Exists(<<s, n>>)
    BY <1>1
  <2> HIDE DEF s
  <2> QED
    BY <1>2, <2>2, <2>3 DEF TablesOK, Numbered
<1>4. ~(sub[s].status # "absent" /\ a[2] - 1 <= sub[s].rejudgeSeq)
  BY <1>1, <1>2 DEF TablesOK, Numbered
<1>5. sub[s].rejudgeSeq \in Nat
  BY <1>2 DEF TablesOK, DbTypeOK, SubmissionRow
<1>6. CASE sub[s].status = "absent"
  <2>1. a[2] = 1
    BY <1>2, <1>3, <1>6, AttemptsAssumption
  <2> QED
    BY <1>1, <1>2, <1>6, <2>1, NextSequenceValue
<1>7. CASE sub[s].status # "absent"
  <2>1. a[2] - 1 > sub[s].rejudgeSeq
    BY <1>2, <1>4, <1>5, <1>7, AttemptsAssumption
  <2>2. a[2] - 1 - 1 <= sub[s].rejudgeSeq
    <3>1. a[2] - 1 \in 1..(a[2] - 1)
      BY <1>2, <1>5, <2>1, AttemptsAssumption
    <3> QED
      BY <1>3, <3>1
  <2>3. a[2] = sub[s].rejudgeSeq + 2
    BY <1>2, <1>5, <2>1, <2>2, AttemptsAssumption
  <2> QED
    BY <1>1, <1>2, <1>5, <1>7, <2>3, NextSequenceValue
<1> QED
  BY <1>6, <1>7

-----------------------------------------------------------------------------
(* The inductive invariant *)

LEMMA TablesInit ==
  ASSUME DbInit
  PROVE  TablesOK
<1> USE AttemptsAssumption DEF DbInit, NoSubmission, AbsentAttempt
<1>1. DbTypeOK
  BY DEF DbTypeOK, SubmissionRow, AttemptRow, SubStatus, AttemptState, Ref
<1>2. ActiveConsistent
  BY DEF ActiveConsistent, HasNone, Open, Exists
<1>3. Numbered
  BY DEF Numbered, Exists
<1> QED
  BY <1>1, <1>2, <1>3 DEF TablesOK

(* The rows the transactions write *)

LEMMA PointAtRow ==
  ASSUME NEW row \in SubmissionRow, NEW a \in AttemptId, NEW q \in Nat
  PROVE  /\ PointAt(row, a, q) \in SubmissionRow
         /\ PointAt(row, a, q).status = "pending"
         /\ PointAt(row, a, q).active = a /\ PointAt(row, a, q).run = a
         /\ PointAt(row, a, q).rejudgeSeq = q
  BY DEF PointAt, SubmissionRow, SubStatus, Ref

LEMMA SettleRow ==
  ASSUME NEW row \in SubmissionRow, NEW a \in AttemptId,
         NEW status \in {"finished", "error"}
  PROVE  /\ Settle(row, a, status) \in SubmissionRow
         /\ Settle(row, a, status).status = status
         /\ Settle(row, a, status).active = NoAttempt
         /\ Settle(row, a, status).latest = a
         /\ Settle(row, a, status).rejudgeSeq = row.rejudgeSeq
  BY DEF Settle, SubmissionRow, SubStatus, Ref

LEMMA FinishRow ==
  ASSUME DbTypeOK, NEW a \in AttemptId, NEW state \in {"finished", "error"}
  PROVE  /\ Finish(a, state) \in [AttemptId -> AttemptRow]
         /\ Finish(a, state)[a].state = state
         /\ Finish(a, state)[a].seq = att[a].seq
         /\ Finish(a, state)[a].retries = att[a].retries
         /\ Finish(a, state)[a].version = att[a].version
         /\ \A b \in AttemptId : b # a => Finish(a, state)[b] = att[b]
  BY DEF Finish, DbTypeOK, AttemptRow, AttemptState

LEMMA QueuedRow ==
  ASSUME NEW s, NEW v \in Version \cup {0}, NEW n \in Nat, NextSequence(s) \in Nat
  PROVE  /\ QueuedAttempt(s, v, n) \in AttemptRow
         /\ QueuedAttempt(s, v, n).state = "queued"
         /\ QueuedAttempt(s, v, n).seq = NextSequence(s)
         /\ QueuedAttempt(s, v, n).retries = n
         /\ QueuedAttempt(s, v, n).version = v
  BY DEF QueuedAttempt, AttemptRow, AttemptState

-----------------------------------------------------------------------------
(* One lemma per transaction: it keeps the tables consistent *)

\* createSubmission's transaction, and a rejudge: an attempt on a submission
\* that has none open.
LEMMA CreateKeepsTables ==
  ASSUME TablesOK, NEW s \in Submission, NEW a, NEW v \in Version \cup {0},
         CreateAttempt(s, a, v, 0)
  PROVE  TablesOK'
<1> DEFINE q == NextSequence(s)
           row == PointAt(sub[s], a, q)
           new == QueuedAttempt(s, v, 0)
<1>1. /\ MayCreate(s) /\ Fresh(a) /\ Owner(a) = s /\ a \in AttemptId
      /\ att' = [att EXCEPT ![a] = new] /\ sub' = [sub EXCEPT ![s] = row]
      /\ UNCHANGED <<verdict, outbox>>
  BY DEF CreateAttempt, Fresh
<1>2. HasNone(s)
  BY <1>1, AttemptsAssumption DEF MayCreate, TablesOK, ActiveConsistent, HasActive
<1>3. sub[s].rejudgeSeq \in Nat /\ sub[s] \in SubmissionRow
  BY DEF TablesOK, DbTypeOK, SubmissionRow
<1>4. /\ a[2] = q + 1 /\ q \in Nat
      /\ q = IF sub[s].status = "absent" THEN 0 ELSE sub[s].rejudgeSeq + 1
  <2>1. q = IF sub[s].status = "absent" THEN 0 ELSE sub[s].rejudgeSeq + 1
    BY NextSequenceValue
  <2> QED
    BY <1>1, <1>3, <2>1, FreshIsNext
<1>5. /\ row \in SubmissionRow /\ row.status = "pending"
      /\ row.active = a /\ row.run = a /\ row.rejudgeSeq = q
  <2>1. q \in Nat
    BY <1>4
  <2> HIDE DEF q
  <2> QED
    BY <1>1, <1>3, <2>1, PointAtRow
<1>6. new \in AttemptRow /\ new.state = "queued" /\ new.seq = q
  <2>1. NextSequence(s) \in Nat
    BY <1>4
  <2> HIDE DEF q
  <2> QED
    BY <2>1, QueuedRow DEF q
<1> HIDE DEF row, new, q
<1>7. DbTypeOK'
  BY <1>1, <1>5, <1>6 DEF TablesOK, DbTypeOK
<1>8. ASSUME NEW t \in Submission, t # s
      PROVE  sub'[t] = sub[t] /\ \A c \in AttemptId : Owner(c) = t => att'[c] = att[c]
  BY <1>1, <1>8 DEF TablesOK, DbTypeOK
<1>9. /\ sub'[s] = row /\ att'[a] = new
      /\ \A c \in AttemptId : c # a => att'[c] = att[c]
  BY <1>1 DEF TablesOK, DbTypeOK
<1>10. ActiveConsistent'
  <2>1. HasActive(s, a)'
    <3>1. \A c \in AttemptId : Owner(c) = s /\ Open(c)' => c = a
      BY <1>2, <1>9 DEF HasNone, Open, Exists, Terminal
    <3>2. Open(a)'
      BY <1>6, <1>9 DEF Open, Exists, Terminal
    <3> QED
      BY <1>1, <1>5, <1>6, <1>9, <3>1, <3>2 DEF HasActive
  <2>2. ASSUME NEW t \in Submission, t # s
        PROVE  /\ HasNone(t) => HasNone(t)'
               /\ HasActive(t, sub[t].active) => HasActive(t, sub[t].active)'
    BY <1>8, <2>2 DEF HasNone, HasActive, Open, Exists, Terminal
  <2> QED
    BY <1>5, <1>8, <1>9, <2>1, <2>2 DEF TablesOK, ActiveConsistent
<1>11. Numbered'
  <2>1. ASSUME NEW c \in AttemptId, Owner(c) = s
        PROVE  /\ Exists(c)' <=> c[2] - 1 <= q
               /\ Exists(c)' => att'[c].seq = c[2] - 1
    <3>1. c[2] \in Nat \ {0} /\ (c[2] = q + 1 => c = a)
      BY <1>1, <1>4, <2>1, Pair, AttemptsAssumption
    <3>2. CASE c = a
      BY <1>4, <1>6, <1>9, <3>2 DEF Exists
    <3>3. CASE c # a
      <4>1. (Exists(c)' <=> Exists(c)) /\ att'[c].seq = att[c].seq
        BY <1>9, <3>3 DEF Exists
      <4>2. /\ Exists(c) <=> sub[s].status # "absent" /\ c[2] - 1 <= sub[s].rejudgeSeq
            /\ Exists(c) => att[c].seq = c[2] - 1
        BY <2>1 DEF TablesOK, Numbered
      <4>3. c[2] # q + 1
        BY <3>1, <3>3
      <4> QED
        BY <1>3, <1>4, <3>1, <4>1, <4>2, <4>3
    <3> QED
      BY <3>2, <3>3
  <2>2. q < MaxAttempt
    BY <1>1, <1>4, Pair, AttemptsAssumption
  <2>3. ASSUME NEW t \in Submission, t # s
        PROVE  /\ sub'[t] = sub[t]
               /\ \A c \in AttemptId : Owner(c) = t =>
                    (Exists(c)' <=> Exists(c)) /\ att'[c].seq = att[c].seq
    BY <1>8, <2>3 DEF Exists
  <2>4. sub'[s].status = "pending" /\ sub'[s].rejudgeSeq = q
    BY <1>5, <1>9
  <2> QED
    <3> SUFFICES ASSUME NEW t \in Submission
                 PROVE  /\ sub'[t].status = "absent" => sub'[t].rejudgeSeq = 0
                        /\ \A c \in AttemptId : Owner(c) = t =>
                             /\ Exists(c)' <=> /\ sub'[t].status # "absent"
                                              /\ c[2] - 1 <= sub'[t].rejudgeSeq
                             /\ Exists(c)' => att'[c].seq = c[2] - 1
                        /\ sub'[t].status # "absent" => sub'[t].rejudgeSeq < MaxAttempt
      BY DEF Numbered, Exists
    <3>1. CASE t = s
      BY <2>1, <2>2, <2>4, <3>1
    <3>2. CASE t # s
      BY <2>3, <3>2 DEF TablesOK, Numbered
    <3> QED
      BY <3>1, <3>2
<1> QED
  BY <1>7, <1>10, <1>11 DEF TablesOK

\* What Applies checks, seen from the invariant.
LEMMA ActiveAttempt ==
  ASSUME TablesOK, NEW a \in AttemptId, Applies(a)
  PROVE  /\ Owner(a) \in Submission /\ Open(a) /\ Exists(a)
         /\ sub[Owner(a)].status \in {"pending", "judging"}
         /\ sub[Owner(a)].active = a
         /\ att[a].seq = sub[Owner(a)].rejudgeSeq
         /\ \A b \in AttemptId : Owner(b) = Owner(a) /\ Open(b) => b = a
<1>1. Owner(a) \in Submission /\ Open(a) /\ sub[Owner(a)].active = a
  BY Pair DEF Applies
<1>2. a # NoAttempt
  BY AttemptsAssumption
<1> QED
  BY <1>1, <1>2 DEF TablesOK, ActiveConsistent, HasActive, HasNone, Open

\* A terminal result, graded or not: the active attempt ends.
LEMMA EndKeepsTables ==
  ASSUME TablesOK, NEW a \in AttemptId, NEW status \in {"finished", "error"},
         Applies(a), att' = Finish(a, status),
         sub' = [sub EXCEPT ![Owner(a)] = Settle(@, a, status)],
         verdict' \in [Submission -> [Version -> Ref]], outbox' = Register(a)
  PROVE  TablesOK'
<1> DEFINE s == Owner(a)
           row == Settle(sub[s], a, status)
<1>1. /\ s \in Submission /\ Exists(a)
      /\ sub[s].status \in {"pending", "judging"}
      /\ \A b \in AttemptId : Owner(b) = s /\ Open(b) => b = a
  BY ActiveAttempt
<1>2. /\ row \in SubmissionRow /\ row.status = status
      /\ row.active = NoAttempt /\ row.rejudgeSeq = sub[s].rejudgeSeq
  BY <1>1, SettleRow DEF TablesOK, DbTypeOK
<1>3. /\ att' \in [AttemptId -> AttemptRow]
      /\ att'[a].state = status /\ att'[a].seq = att[a].seq
      /\ \A b \in AttemptId : b # a => att'[b] = att[b]
  <2>1. DbTypeOK
    BY DEF TablesOK
  <2>2. /\ Finish(a, status) \in [AttemptId -> AttemptRow]
        /\ Finish(a, status)[a].state = status
        /\ Finish(a, status)[a].seq = att[a].seq
        /\ \A b \in AttemptId : b # a => Finish(a, status)[b] = att[b]
    BY <2>1, FinishRow
  <2> QED
    BY <2>2
<1>4. sub' = [sub EXCEPT ![s] = row]
  OBVIOUS
<1> HIDE DEF row, s
<1>5. DbTypeOK'
  BY <1>2, <1>3, <1>4 DEF TablesOK, DbTypeOK, Register
<1>6. ActiveConsistent'
  <2>1. HasNone(s)'
    <3>1. ~Open(a)'
      BY <1>3 DEF Open, Terminal
    <3>2. \A b \in AttemptId : Owner(b) = s => ~Open(b)'
      BY <1>1, <1>3, <3>1 DEF Open, Exists, Terminal
    <3> QED
      BY <1>1, <1>2, <1>4, <3>2 DEF TablesOK, DbTypeOK, HasNone, Open, Exists, Terminal
  <2>2. ASSUME NEW t \in Submission, t # s
        PROVE  /\ sub'[t] = sub[t]
               /\ HasNone(t) => HasNone(t)'
               /\ HasActive(t, sub[t].active) => HasActive(t, sub[t].active)'
    <3>1. sub'[t] = sub[t]
      BY <1>4, <2>2 DEF TablesOK, DbTypeOK
    <3>2. \A b \in AttemptId : Owner(b) = t => att'[b] = att[b]
      BY <1>3, <2>2 DEF s
    <3> QED
      BY <3>1, <3>2 DEF HasNone, HasActive, Open, Exists, Terminal
  <2>3. sub'[s].status \notin {"pending", "judging"}
    BY <1>1, <1>2, <1>4 DEF TablesOK, DbTypeOK
  <2> QED
    BY <2>1, <2>2, <2>3 DEF TablesOK, ActiveConsistent
<1>7. Numbered'
  <2>1. \A b \in AttemptId : (Exists(b)' <=> Exists(b)) /\ att'[b].seq = att[b].seq
    BY <1>1, <1>3 DEF Exists
  <2>2. \A t \in Submission : /\ sub'[t].status = "absent" <=> sub[t].status = "absent"
                             /\ sub'[t].rejudgeSeq = sub[t].rejudgeSeq
    BY <1>1, <1>2, <1>4 DEF TablesOK, DbTypeOK
  <2> QED
    BY <2>1, <2>2 DEF TablesOK, Numbered, Exists
<1> QED
  BY <1>5, <1>6, <1>7 DEF TablesOK

LEMMA GradedKeepsTables ==
  ASSUME TablesOK, NEW a \in AttemptId, ApplyGraded(a)
  PROVE  TablesOK'
<1>1. verdict' \in [Submission -> [Version -> Ref]]
  BY DEF ApplyGraded, TablesOK, DbTypeOK, Ref
<1> QED
  BY <1>1, EndKeepsTables DEF ApplyGraded

LEMMA PlatformErrorKeepsTables ==
  ASSUME TablesOK, NEW a \in AttemptId, ApplyPlatformError(a)
  PROVE  TablesOK'
<1>1. verdict' \in [Submission -> [Version -> Ref]]
  BY DEF ApplyPlatformError, TablesOK, DbTypeOK
<1> QED
  BY <1>1, EndKeepsTables DEF ApplyPlatformError

\* scheduleAutoRetryInTx inside the result transaction: a ends, b replaces it.
LEMMA RetryKeepsTables ==
  ASSUME TablesOK, NEW a \in AttemptId, NEW b \in AttemptId, ApplyRetry(a, b)
  PROVE  TablesOK'
<1> DEFINE s == Owner(a)
           q == sub[s].rejudgeSeq
           n == att[a].retries + 1
           new == QueuedAttempt(s, att[a].version, n)
           row == PointAt(sub[s], b, NextSequence(s))
<1>1. /\ Applies(a) /\ Fresh(b) /\ Owner(b) = s
      /\ att' = [Finish(a, "error") EXCEPT ![b] = new]
      /\ sub' = [sub EXCEPT ![s] = row]
      /\ outbox' = Register(a) /\ UNCHANGED verdict
  BY DEF ApplyRetry
<1>2. /\ s \in Submission /\ Open(a) /\ Exists(a)
      /\ sub[s].status \in {"pending", "judging"}
      /\ \A c \in AttemptId : Owner(c) = s /\ Open(c) => c = a
  BY <1>1, ActiveAttempt
<1>3. q \in Nat /\ sub[s] \in SubmissionRow /\ att[a] \in AttemptRow
      /\ n \in Nat /\ att[a].version \in Version \cup {0}
  BY <1>2 DEF TablesOK, DbTypeOK, SubmissionRow, AttemptRow
<1>4. NextSequence(s) = q + 1 /\ b[2] = q + 2
  BY <1>1, <1>2, <1>3, NextSequenceValue, FreshIsNext
<1>5. /\ row \in SubmissionRow /\ row.status = "pending"
      /\ row.active = b /\ row.run = b /\ row.rejudgeSeq = q + 1
  BY <1>3, <1>4, PointAtRow
<1>6. new \in AttemptRow /\ new.state = "queued" /\ new.seq = q + 1
  <2>1. NextSequence(s) \in Nat /\ NextSequence(s) = q + 1
    BY <1>3, <1>4
  <2> HIDE DEF q, n
  <2> QED
    BY <1>3, <2>1, QueuedRow
<1>7. /\ att' \in [AttemptId -> AttemptRow]
      /\ att'[b] = new
      /\ att'[a].state = "error" /\ att'[a].seq = att[a].seq
      /\ \A c \in AttemptId : c # a /\ c # b => att'[c] = att[c]
  <2>1. a # b
    BY <1>1, <1>2 DEF Fresh
  <2>2. DbTypeOK
    BY DEF TablesOK
  <2>3. /\ Finish(a, "error") \in [AttemptId -> AttemptRow]
        /\ Finish(a, "error")[a].state = "error"
        /\ Finish(a, "error")[a].seq = att[a].seq
        /\ \A c \in AttemptId : c # a => Finish(a, "error")[c] = att[c]
    BY <2>2, FinishRow
  <2> HIDE DEF new
  <2> QED
    BY <1>1, <1>6, <2>1, <2>3
<1> HIDE DEF row, new, s, q
<1>8. DbTypeOK'
  BY <1>1, <1>5, <1>7 DEF TablesOK, DbTypeOK, Register
<1>9. ASSUME NEW t \in Submission, t # s
      PROVE  sub'[t] = sub[t] /\ \A c \in AttemptId : Owner(c) = t => att'[c] = att[c]
  BY <1>1, <1>7, <1>9 DEF TablesOK, DbTypeOK, s
<1>10. sub'[s] = row
  BY <1>1, <1>2 DEF TablesOK, DbTypeOK
<1>11. ActiveConsistent'
  <2>1. HasActive(s, b)'
    <3>1. \A c \in AttemptId : Owner(c) = s /\ Open(c)' => c = b
      BY <1>2, <1>7 DEF Open, Exists, Terminal
    <3>2. Open(b)'
      BY <1>6, <1>7 DEF Open, Exists, Terminal
    <3>3. sub'[s].run = b /\ att'[b].seq = sub'[s].rejudgeSeq
      BY <1>5, <1>6, <1>7, <1>10
    <3> QED
      BY <1>1, <3>1, <3>2, <3>3 DEF HasActive
  <2>2. ASSUME NEW t \in Submission, t # s
        PROVE  /\ HasNone(t) => HasNone(t)'
               /\ HasActive(t, sub[t].active) => HasActive(t, sub[t].active)'
    BY <1>9, <2>2 DEF HasNone, HasActive, Open, Exists, Terminal
  <2> QED
    BY <1>5, <1>9, <1>10, <2>1, <2>2 DEF TablesOK, ActiveConsistent
<1>12. Numbered'
  <2>1. ASSUME NEW c \in AttemptId, Owner(c) = s
        PROVE  /\ Exists(c)' <=> c[2] - 1 <= q + 1
               /\ Exists(c)' => att'[c].seq = c[2] - 1
    <3>1. /\ Exists(c) <=> c[2] - 1 <= q
          /\ Exists(c) => att[c].seq = c[2] - 1
      BY <1>2, <2>1 DEF TablesOK, Numbered, q
    <3>2. c[2] \in Nat /\ (c[2] = q + 2 => c = b)
      BY <1>1, <1>4, <2>1, Pair, AttemptsAssumption
    <3>3. CASE c = b
      BY <1>3, <1>4, <1>6, <1>7, <3>2, <3>3 DEF Exists
    <3>4. CASE c = a /\ c # b
      <4>1. Exists(c)' /\ Exists(c) /\ att'[c].seq = att[c].seq
        BY <1>2, <1>7, <3>4 DEF Exists
      <4> QED
        BY <1>3, <3>1, <3>2, <4>1
    <3>5. CASE c # a /\ c # b
      <4>1. (Exists(c)' <=> Exists(c)) /\ att'[c].seq = att[c].seq
        BY <1>7, <3>5 DEF Exists
      <4>2. c[2] # q + 2
        BY <3>2, <3>5
      <4> QED
        BY <1>3, <3>1, <3>2, <4>1, <4>2
    <3> QED
      BY <3>3, <3>4, <3>5
  <2>2. q + 1 < MaxAttempt
    BY <1>3, <1>4, Pair, AttemptsAssumption
  <2>3. ASSUME NEW t \in Submission, t # s
        PROVE  /\ sub'[t] = sub[t]
               /\ \A c \in AttemptId : Owner(c) = t =>
                    (Exists(c)' <=> Exists(c)) /\ att'[c].seq = att[c].seq
    BY <1>9, <2>3 DEF Exists
  <2>4. sub'[s].status = "pending" /\ sub'[s].rejudgeSeq = q + 1
    BY <1>5, <1>10
  <2> QED
    <3> SUFFICES ASSUME NEW t \in Submission
                 PROVE  /\ sub'[t].status = "absent" => sub'[t].rejudgeSeq = 0
                        /\ \A c \in AttemptId : Owner(c) = t =>
                             /\ Exists(c)' <=> /\ sub'[t].status # "absent"
                                              /\ c[2] - 1 <= sub'[t].rejudgeSeq
                             /\ Exists(c)' => att'[c].seq = c[2] - 1
                        /\ sub'[t].status # "absent" => sub'[t].rejudgeSeq < MaxAttempt
      BY DEF Numbered, Exists
    <3>1. CASE t = s
      BY <2>1, <2>2, <2>4, <3>1
    <3>2. CASE t # s
      BY <2>3, <3>2 DEF TablesOK, Numbered
    <3> QED
      BY <3>1, <3>2
<1> QED
  BY <1>8, <1>11, <1>12 DEF TablesOK

\* The conditional updates to `judging`.
LEMMA JudgingKeepsTables ==
  ASSUME TablesOK, NEW s \in Submission, StartJudging(s)
  PROVE  TablesOK'
<1>1. /\ sub[s].status \in {"pending", "judging"}
      /\ sub' = [sub EXCEPT ![s].status = "judging"]
      /\ UNCHANGED <<att, verdict, outbox>>
  BY DEF StartJudging
<1>2. sub' \in [Submission -> SubmissionRow]
  BY <1>1 DEF TablesOK, DbTypeOK, SubmissionRow, SubStatus
<1>3. \A t \in Submission :
        /\ sub'[t].status = IF t = s THEN "judging" ELSE sub[t].status
        /\ sub'[t].active = sub[t].active /\ sub'[t].run = sub[t].run
        /\ sub'[t].rejudgeSeq = sub[t].rejudgeSeq
  BY <1>1 DEF TablesOK, DbTypeOK, SubmissionRow
<1>4. DbTypeOK'
  BY <1>1, <1>2 DEF TablesOK, DbTypeOK
<1>5. ActiveConsistent'
  BY <1>1, <1>3
  DEF TablesOK, ActiveConsistent, HasActive, HasNone, Open, Exists, Terminal
<1>6. Numbered'
  BY <1>1, <1>3 DEF TablesOK, Numbered, Exists
<1> QED
  BY <1>4, <1>5, <1>6 DEF TablesOK

\* judge_run_id already names the active attempt, so recording it changes nothing.
LEMMA RecordRunChangesNothing ==
  ASSUME TablesOK, NEW a \in AttemptId, RecordRun(a)
  PROVE  sub' = sub
<1> DEFINE s == Owner(a)
<1>1. s \in Submission
  BY Pair
<1>2. CASE sub[s].active = a /\ sub[s].status \in {"pending", "judging"}
  <2>1. sub[s].run = a
    BY <1>1, <1>2 DEF TablesOK, ActiveConsistent, HasActive
  <2>2. [sub EXCEPT ![s].run = a] = sub
    BY <1>1, <2>1 DEF TablesOK, DbTypeOK, SubmissionRow
  <2> QED
    BY <2>2 DEF RecordRun
<1>3. CASE ~(sub[s].active = a /\ sub[s].status \in {"pending", "judging"})
  BY <1>3 DEF RecordRun
<1> QED
  BY <1>2, <1>3

LEMMA UnchangedKeepsTables ==
  ASSUME TablesOK, UNCHANGED <<sub, att, verdict>>, outbox' \in [AttemptId -> {"none", "pending", "done"}]
  PROVE  TablesOK'
  BY DEF TablesOK, DbTypeOK, ActiveConsistent, HasActive, HasNone, Numbered,
         Open, Exists, Terminal

LEMMA TablesStep ==
  ASSUME TablesOK, [DbNext]_dbVars
  PROVE  TablesOK'
<1>0. outbox \in [AttemptId -> {"none", "pending", "done"}]
  BY DEF TablesOK, DbTypeOK
<1>1. CASE UNCHANGED dbVars
  BY <1>0, <1>1, UnchangedKeepsTables DEF dbVars
<1>2. ASSUME NEW s \in Submission, NEW a \in AttemptId, NEW v \in Version,
             CreateAttempt(s, a, v, 0)
      PROVE  TablesOK'
  BY <1>2, CreateKeepsTables
<1>3. ASSUME NEW s \in Submission, StartJudging(s)
      PROVE  TablesOK'
  BY <1>3, JudgingKeepsTables
<1>4. ASSUME NEW a \in AttemptId, RecordRun(a), UNCHANGED <<att, verdict, outbox>>
      PROVE  TablesOK'
  BY <1>0, <1>4, RecordRunChangesNothing, UnchangedKeepsTables
<1>5. ASSUME NEW a \in AttemptId, ApplyGraded(a) PROVE TablesOK'
  BY <1>5, GradedKeepsTables
<1>6. ASSUME NEW a \in AttemptId, ApplyPlatformError(a) PROVE TablesOK'
  BY <1>6, PlatformErrorKeepsTables
<1>7. ASSUME NEW a \in AttemptId, RevokeTokens(a) PROVE TablesOK'
  <2>1. outbox' \in [AttemptId -> {"none", "pending", "done"}]
    BY <1>0, <1>7 DEF RevokeTokens
  <2> QED
    BY <1>7, <2>1, UnchangedKeepsTables DEF RevokeTokens
<1>8. ASSUME NEW a \in AttemptId, NEW b \in AttemptId, ApplyRetry(a, b)
      PROVE  TablesOK'
  BY <1>8, RetryKeepsTables
<1> QED
  BY <1>1, <1>2, <1>3, <1>4, <1>5, <1>6, <1>7, <1>8
  DEF DbNext, EvaluationNext, InsertSubmission

\* The tables stay consistent for any number of submissions, versions, attempts
\* and retries: the invariant of everything that follows.
THEOREM TablesInvariant == AttemptsSpec => []TablesOK
<1>1. DbInit => TablesOK
  BY TablesInit
<1>2. TablesOK /\ [DbNext]_dbVars => TablesOK'
  BY TablesStep
<1> QED
  BY <1>1, <1>2, PTL DEF AttemptsSpec

\* Every column of the tables stays in its domain: statuses, attempt states,
\* references to attempts and the states of the revocation outbox.
THEOREM TablesTypeCorrect == AttemptsSpec => []DbTypeOK
<1>1. TablesOK => DbTypeOK
  BY DEF TablesOK
<1> QED
  BY <1>1, TablesInvariant, PTL

\* A submission that is pending or judging has exactly one open attempt, its
\* active and newest one; any other submission has none.
THEOREM ActiveAttemptConsistent == AttemptsSpec => []ActiveConsistent
<1>1. TablesOK => ActiveConsistent
  BY DEF TablesOK
<1> QED
  BY <1>1, TablesInvariant, PTL

\* An envelope's sequence names one attempt, and newer attempts have larger ones.
THEOREM SequencesOrderAttempts == AttemptsSpec => []SequencesOrdered
<1>1. TablesOK => SequencesOrdered
  <2> SUFFICES ASSUME TablesOK, NEW a \in AttemptId, NEW b \in AttemptId,
                      Exists(a), Exists(b), Owner(a) = Owner(b)
               PROVE  /\ a[2] < b[2] => att[a].seq < att[b].seq
                      /\ att[a].seq <= sub[Owner(a)].rejudgeSeq
    BY DEF SequencesOrdered
  <2>1. /\ att[a].seq = a[2] - 1 /\ att[b].seq = b[2] - 1
        /\ a[2] - 1 <= sub[Owner(a)].rejudgeSeq
    BY Pair DEF TablesOK, Numbered
  <2>2. a[2] \in 1..MaxAttempt /\ b[2] \in 1..MaxAttempt
    BY Pair
  <2> QED
    BY <2>1, <2>2, AttemptsAssumption
<1> QED
  BY <1>1, TablesInvariant, PTL

-----------------------------------------------------------------------------
(* What one step does to attempt rows and verdicts *)

\* Result, failure and retry touch the open attempt they end and a row that
\* did not exist; nothing else writes an existing attempt row.
LEMMA AttemptRowsStep ==
  ASSUME TablesOK, [DbNext]_dbVars, NEW a \in AttemptId, Exists(a)
  PROVE  \/ att'[a] = att[a]
         \/ /\ Open(a) /\ Applies(a)
            /\ att'[a].state \in {"finished", "error"}
            /\ att'[a].seq = att[a].seq /\ att'[a].version = att[a].version
            /\ att'[a].retries = att[a].retries
<1> DEFINE Same == att'[a] = att[a]
           Ends == /\ Open(a) /\ Applies(a)
                   /\ att'[a].state \in {"finished", "error"}
                   /\ att'[a].seq = att[a].seq /\ att'[a].version = att[a].version
                   /\ att'[a].retries = att[a].retries
<1>0. DbTypeOK
  BY DEF TablesOK
<1>1. CASE UNCHANGED att
  BY <1>1
<1>2. ASSUME NEW s \in Submission, NEW b \in AttemptId, NEW v \in Version,
             CreateAttempt(s, b, v, 0)
      PROVE  Same
  <2>1. a # b /\ att' = [att EXCEPT ![b] = QueuedAttempt(s, v, 0)]
    BY <1>2 DEF CreateAttempt, Fresh
  <2> QED
    BY <1>0, <2>1 DEF DbTypeOK
<1>3. ASSUME NEW c \in AttemptId, NEW state \in {"finished", "error"},
             Applies(c), att' = Finish(c, state)
      PROVE  Same \/ Ends
  <2>1. CASE a = c
    BY <1>0, <1>3, <2>1, FinishRow DEF Applies
  <2>2. CASE a # c
    BY <1>0, <1>3, <2>2, FinishRow
  <2> QED
    BY <2>1, <2>2
<1>4. ASSUME NEW c \in AttemptId, NEW b \in AttemptId, ApplyRetry(c, b)
      PROVE  Same \/ Ends
  <2> DEFINE new == QueuedAttempt(Owner(c), att[c].version, att[c].retries + 1)
  <2>1. /\ a # b /\ Applies(c)
        /\ att' = [Finish(c, "error") EXCEPT ![b] = new]
    BY <1>4 DEF ApplyRetry, Fresh
  <2>2. Finish(c, "error") \in [AttemptId -> AttemptRow]
    BY <1>0, FinishRow
  <2> HIDE DEF new
  <2>3. att'[a] = Finish(c, "error")[a]
    BY <2>1, <2>2
  <2>4. CASE a = c
    BY <1>0, <2>1, <2>3, <2>4, FinishRow DEF Applies
  <2>5. CASE a # c
    BY <1>0, <2>3, <2>5, FinishRow
  <2> QED
    BY <2>4, <2>5
<1>5. ASSUME NEW c \in AttemptId, ApplyGraded(c) PROVE Same \/ Ends
  BY <1>3, <1>5 DEF ApplyGraded
<1>6. ASSUME NEW c \in AttemptId, ApplyPlatformError(c) PROVE Same \/ Ends
  BY <1>3, <1>6 DEF ApplyPlatformError
<1> QED
  BY <1>1, <1>2, <1>4, <1>5, <1>6
  DEF DbNext, EvaluationNext, InsertSubmission, dbVars, StartJudging, RevokeTokens

\* A verdict changes only in the transaction that finishes its attempt.
LEMMA VerdictStep ==
  ASSUME [DbNext]_dbVars
  PROVE  \/ UNCHANGED verdict
         \/ \E a \in AttemptId : ApplyGraded(a)
  BY DEF DbNext, EvaluationNext, dbVars, InsertSubmission, CreateAttempt,
         StartJudging, ApplyPlatformError, ApplyRetry, RevokeTokens

LEMMA VerdictIsGradedStep ==
  ASSUME TablesOK, VerdictIsGraded, [DbNext]_dbVars
  PROVE  VerdictIsGraded'
<1> SUFFICES ASSUME NEW s \in Submission, NEW v \in Version,
                    verdict'[s][v] # NoAttempt
             PROVE  /\ Owner(verdict'[s][v]) = s
                    /\ att'[verdict'[s][v]].state = "finished"
                    /\ att'[verdict'[s][v]].version = v
  BY DEF VerdictIsGraded, Owner
<1>1. CASE verdict'[s][v] = verdict[s][v]
  <2> DEFINE a == verdict[s][v]
  <2>1. a # NoAttempt /\ a \in AttemptId
    BY <1>1 DEF TablesOK, DbTypeOK, Ref
  <2>2. Owner(a) = s /\ att[a].state = "finished" /\ att[a].version = v
    BY <2>1 DEF VerdictIsGraded
  <2>3. att'[a] = att[a]
    <3>1. Exists(a) /\ ~Open(a)
      BY <2>2 DEF Open, Exists, Terminal
    <3> QED
      BY <2>1, <3>1, AttemptRowsStep
  <2> QED
    BY <1>1, <2>2, <2>3
<1>2. CASE verdict'[s][v] # verdict[s][v]
  <2>1. PICK a \in AttemptId : ApplyGraded(a)
    BY <1>2, VerdictStep
  <2>2. s = Owner(a) /\ v = att[a].version /\ verdict'[s][v] = a
    BY <1>2, <2>1 DEF ApplyGraded, TablesOK, DbTypeOK
  <2>3. att'[a].state = "finished" /\ att'[a].version = att[a].version
    <3>1. DbTypeOK /\ att' = Finish(a, "finished")
      BY <2>1 DEF TablesOK, ApplyGraded
    <3> QED
      BY <3>1, FinishRow
  <2> QED
    BY <2>2, <2>3
<1> QED
  BY <1>1, <1>2

\* Whatever stands as a submission's current verdict on a version is a finished
\* attempt of that submission at that version.
THEOREM VerdictsAreGraded == AttemptsSpec => []VerdictIsGraded
<1>1. DbInit => VerdictIsGraded
  BY DEF DbInit, VerdictIsGraded
<1>2. TablesOK /\ VerdictIsGraded /\ [DbNext]_dbVars => VerdictIsGraded'
  BY VerdictIsGradedStep
<1> QED
  BY <1>1, <1>2, TablesInvariant, PTL DEF AttemptsSpec

\* Terminal attempt rows are frozen, and a current verdict is only replaced by
\* a newer attempt, rejudges of decided submissions included.
THEOREM ResultsAreWrittenOnce == AttemptsSpec => WrittenOnce
<1>1. ASSUME TablesOK, VerdictIsGraded, [DbNext]_dbVars
      PROVE  OneShot
  <2>1. ASSUME NEW a \in AttemptId, Terminal(a)
        PROVE  att'[a] = att[a]
    <3>1. Exists(a) /\ ~Open(a)
      BY <2>1 DEF Open, Exists, Terminal
    <3> QED
      BY <1>1, <3>1, AttemptRowsStep
  <2>2. ASSUME NEW s \in Submission, NEW v \in Version,
               verdict[s][v] # NoAttempt, verdict'[s][v] # verdict[s][v]
        PROVE  /\ verdict'[s][v] # NoAttempt
               /\ att'[verdict'[s][v]].seq > att[verdict[s][v]].seq
    <3> DEFINE old == verdict[s][v]
    <3>1. PICK a \in AttemptId : ApplyGraded(a)
      BY <1>1, <2>2, VerdictStep
    <3>2. s = Owner(a) /\ verdict'[s][v] = a
      BY <1>1, <2>2, <3>1 DEF ApplyGraded, TablesOK, DbTypeOK
    <3>3. /\ old \in AttemptId /\ Owner(old) = s
          /\ att[old].state = "finished"
      BY <1>1, <2>2 DEF TablesOK, DbTypeOK, Ref, VerdictIsGraded
    <3>4. Exists(a) /\ Exists(old) /\ old # a
      BY <1>1, <3>1, <3>3 DEF ApplyGraded, Applies, Open, Exists, Terminal
    <3>5. att[a].seq = sub[s].rejudgeSeq
      BY <1>1, <3>1, <3>2, ActiveAttempt DEF ApplyGraded
    <3>6. /\ att[old].seq = old[2] - 1 /\ old[2] - 1 <= sub[s].rejudgeSeq
          /\ att[a].seq = a[2] - 1
      BY <1>1, <3>2, <3>3, <3>4 DEF TablesOK, Numbered
    <3>7. old[2] # a[2] /\ old[2] \in 1..MaxAttempt /\ a[2] \in 1..MaxAttempt
      BY <3>2, <3>3, <3>4, Pair
    <3>8. att'[a].seq = att[a].seq
      BY <1>1, <3>4, AttemptRowsStep
    <3> QED
      BY <3>2, <3>5, <3>6, <3>7, <3>8, AttemptsAssumption
  <2> QED
    BY <2>1, <2>2 DEF OneShot
<1> QED
  BY <1>1, TablesInvariant, VerdictsAreGraded, PTL DEF AttemptsSpec, WrittenOnce

-----------------------------------------------------------------------------
(* The retry chain *)

\* RetryChain, over attempt ids.
Chained ==
  \A a \in AttemptId : Exists(a) =>
    /\ att[a].retries = a[2] - 1
    /\ a[2] - 1 <= MaxRetries
    /\ \A b \in AttemptId : Owner(b) = Owner(a) /\ b[2] = a[2] - 1 =>
         att[b].state = "error"

\* While nothing is rejudged, a row appears with the initial attempt or as the
\* retry of the active one.
LEMMA NewRows ==
  ASSUME TablesOK, [EvaluationNext]_dbVars, NEW a \in AttemptId, ~Exists(a), Exists(a)'
  PROVE  \/ \E v \in Version : InsertSubmission(Owner(a), a, v)
         \/ \E c \in AttemptId : ApplyRetry(c, a)
<1> DEFINE Goal == \/ \E v \in Version : InsertSubmission(Owner(a), a, v)
                   \/ \E c \in AttemptId : ApplyRetry(c, a)
<1>0. DbTypeOK /\ att'[a] # att[a]
  BY DEF TablesOK, Exists
<1>1. ASSUME NEW s \in Submission, NEW b \in AttemptId, NEW v \in Version,
             InsertSubmission(s, b, v)
      PROVE  Goal
  <2>1. Owner(b) = s /\ att' = [att EXCEPT ![b] = QueuedAttempt(s, v, 0)]
    BY <1>1 DEF InsertSubmission, CreateAttempt
  <2>2. a = b
    BY <1>0, <2>1 DEF DbTypeOK
  <2> QED
    BY <1>1, <2>1, <2>2
<1>2. ASSUME NEW c \in AttemptId, NEW state \in {"finished", "error"},
             Applies(c), att' = Finish(c, state)
      PROVE  FALSE
  <2>1. a # c
    BY <1>2 DEF Applies, Open
  <2>2. \A b \in AttemptId : b # c => Finish(c, state)[b] = att[b]
    BY <1>0, FinishRow
  <2> QED
    BY <1>0, <1>2, <2>1, <2>2
<1>3. ASSUME NEW c \in AttemptId, NEW b \in AttemptId, ApplyRetry(c, b)
      PROVE  Goal
  <2> DEFINE new == QueuedAttempt(Owner(c), att[c].version, att[c].retries + 1)
  <2>1. att' = [Finish(c, "error") EXCEPT ![b] = new] /\ a # c
    BY <1>3 DEF ApplyRetry, Applies, Open
  <2>2. /\ Finish(c, "error") \in [AttemptId -> AttemptRow]
        /\ \A d \in AttemptId : d # c => Finish(c, "error")[d] = att[d]
    BY <1>0, FinishRow
  <2> HIDE DEF new
  <2>3. a = b
    BY <1>0, <2>1, <2>2
  <2> QED
    BY <1>3, <2>3
<1>4. ASSUME NEW c \in AttemptId, ApplyGraded(c) PROVE FALSE
  BY <1>2, <1>4 DEF ApplyGraded
<1>5. ASSUME NEW c \in AttemptId, ApplyPlatformError(c) PROVE FALSE
  BY <1>2, <1>5 DEF ApplyPlatformError
<1> QED
  BY <1>0, <1>1, <1>3, <1>4, <1>5
  DEF EvaluationNext, dbVars, StartJudging, RevokeTokens

\* The attempt a retry inserts follows the one it replaces.
LEMMA RetryFollows ==
  ASSUME TablesOK, NEW c \in AttemptId, NEW a \in AttemptId, ApplyRetry(c, a)
  PROVE  /\ Owner(c) = Owner(a) /\ a[2] = c[2] + 1
         /\ att[c].retries \in Nat /\ att[c].retries < MaxRetries
         /\ att'[a].retries = att[c].retries + 1
         /\ att'[c].state = "error" /\ att'[c].retries = att[c].retries
<1> DEFINE s == Owner(c)
           n == att[c].retries + 1
           new == QueuedAttempt(s, att[c].version, n)
<1>0. DbTypeOK
  BY DEF TablesOK
<1>1. /\ Applies(c) /\ MayRetry(c) /\ Fresh(a) /\ Owner(a) = s
      /\ att' = [Finish(c, "error") EXCEPT ![a] = new]
  BY DEF ApplyRetry
<1>2. /\ s \in Submission /\ Exists(c) /\ sub[s].status # "absent"
      /\ att[c].seq = sub[s].rejudgeSeq
  BY <1>1, ActiveAttempt
<1>3. /\ sub[s].rejudgeSeq \in Nat /\ att[c].retries \in Nat
      /\ c[2] \in 1..MaxAttempt
  BY <1>0, <1>2, Pair DEF DbTypeOK, SubmissionRow, AttemptRow
<1>4. att[c].seq = c[2] - 1
  BY <1>2 DEF TablesOK, Numbered
<1>5. a[2] = c[2] + 1
  <2>1. NextSequence(s) = sub[s].rejudgeSeq + 1
    BY <1>2, NextSequenceValue
  <2>2. a[2] = NextSequence(s) + 1
    BY <1>1, FreshIsNext
  <2> QED
    <3>1. c[2] \in Nat /\ sub[s].rejudgeSeq = c[2] - 1
      BY <1>2, <1>3, <1>4, AttemptsAssumption
    <3>2. NextSequence(s) = c[2]
      BY <1>3, <2>1, <3>1
    <3> QED
      BY <2>2, <3>2
<1>6. /\ Finish(c, "error") \in [AttemptId -> AttemptRow]
      /\ Finish(c, "error")[c].state = "error"
      /\ Finish(c, "error")[c].retries = att[c].retries
  BY <1>0, FinishRow
<1>7. new.retries = n
  BY DEF QueuedAttempt
<1> HIDE DEF new
<1>8. att'[a] = new /\ att'[c] = Finish(c, "error")[c]
  BY <1>1, <1>2, <1>6 DEF Fresh
<1> QED
  BY <1>1, <1>3, <1>5, <1>6, <1>7, <1>8 DEF MayRetry

LEMMA ChainedStep ==
  ASSUME TablesOK, Chained, [EvaluationNext]_dbVars
  PROVE  Chained'
<1> USE DEF DbNext
<1> SUFFICES ASSUME NEW a \in AttemptId, Exists(a)'
             PROVE  /\ att'[a].retries = a[2] - 1
                    /\ a[2] - 1 <= MaxRetries
                    /\ \A b \in AttemptId : Owner(b) = Owner(a) /\ b[2] = a[2] - 1 =>
                         att'[b].state = "error"
  BY DEF Chained, Exists, Owner
<1>0. a[2] \in 1..MaxAttempt /\ \A b \in AttemptId : b[2] \in 1..MaxAttempt
  BY Pair
<1>1. CASE Exists(a)
  <2>1. /\ att[a].retries = a[2] - 1 /\ a[2] - 1 <= MaxRetries
        /\ \A b \in AttemptId : Owner(b) = Owner(a) /\ b[2] = a[2] - 1 =>
             att[b].state = "error"
    BY <1>1 DEF Chained
  <2>2. att'[a].retries = att[a].retries
    BY <1>1, AttemptRowsStep
  <2>3. ASSUME NEW b \in AttemptId, att[b].state = "error"
        PROVE  att'[b].state = "error"
    <3>1. Exists(b) /\ ~Open(b)
      BY <2>3 DEF Open, Exists, Terminal
    <3> QED
      BY <2>3, <3>1, AttemptRowsStep
  <2> QED
    BY <2>1, <2>2, <2>3
<1>2. CASE ~Exists(a)
  <2>1. ASSUME NEW v \in Version, InsertSubmission(Owner(a), a, v)
        PROVE  a[2] = 1 /\ att'[a].retries = 0
    <3>1. a[2] = 1
      BY <2>1, Pair, NextSequenceValue, FreshIsNext DEF InsertSubmission, CreateAttempt
    <3> QED
      BY <2>1, <3>1 DEF InsertSubmission, CreateAttempt, QueuedAttempt, TablesOK, DbTypeOK
  <2>2. ASSUME NEW c \in AttemptId, ApplyRetry(c, a)
        PROVE  /\ att'[a].retries = a[2] - 1 /\ a[2] - 1 <= MaxRetries
               /\ \A b \in AttemptId : Owner(b) = Owner(a) /\ b[2] = a[2] - 1 =>
                    att'[b].state = "error"
    <3>1. /\ Owner(c) = Owner(a) /\ a[2] = c[2] + 1
          /\ att[c].retries \in Nat /\ att[c].retries < MaxRetries
          /\ att'[a].retries = att[c].retries + 1 /\ att'[c].state = "error"
      BY <2>2, RetryFollows
    <3>2. att[c].retries = c[2] - 1
      BY <2>2 DEF ApplyRetry, Applies, Open, Chained
    <3>3. \A b \in AttemptId : Owner(b) = Owner(a) /\ b[2] = a[2] - 1 => b = c
      BY <1>0, <3>1, Pair, AttemptsAssumption
    <3> QED
      BY <1>0, <3>1, <3>2, <3>3, AttemptsAssumption
  <2>3. CASE \E v \in Version : InsertSubmission(Owner(a), a, v)
    BY <1>0, <2>1, <2>3, AttemptsAssumption
  <2>4. CASE \E c \in AttemptId : ApplyRetry(c, a)
    BY <2>2, <2>4
  <2> QED
    BY <1>2, <2>3, <2>4, NewRows
<1> QED
  BY <1>1, <1>2

\* Without rejudges the tables do nothing they would not do with them.
LEMMA EvaluationOfAttempts == EvaluationSpec => AttemptsSpec
<1>1. [EvaluationNext]_dbVars => [DbNext]_dbVars
  BY DEF DbNext
<1> QED
  BY <1>1, PTL DEF EvaluationSpec, AttemptsSpec

LEMMA ChainedInvariant == EvaluationSpec => []Chained
<1>1. DbInit => Chained
  BY DEF DbInit, AbsentAttempt, Chained, Exists
<1>2. TablesOK /\ Chained /\ [EvaluationNext]_dbVars => Chained'
  BY ChainedStep
<1> QED
  BY <1>1, <1>2, EvaluationOfAttempts, TablesInvariant, PTL DEF EvaluationSpec

\* While nothing is rejudged, no submission is retried more often than
\* configured, and every attempt but the newest ended in a platform error.
THEOREM RetriesFormAChain == EvaluationSpec => []RetryChain
<1>1. Chained => RetryChain
  <2> SUFFICES ASSUME Chained, NEW s \in Submission, NEW n \in 1..MaxAttempt,
                      Exists(<<s, n>>)
               PROVE  /\ att[<<s, n>>].retries = n - 1 /\ n - 1 <= MaxRetries
                      /\ n > 1 => att[<<s, n - 1>>].state = "error"
    BY DEF RetryChain
  <2>1. /\ att[<<s, n>>].retries = n - 1 /\ n - 1 <= MaxRetries
        /\ \A b \in AttemptId : Owner(b) = s /\ b[2] = n - 1 => att[b].state = "error"
    BY PairOf DEF Chained
  <2>2. n > 1 => n - 1 \in 1..MaxAttempt
    BY AttemptsAssumption
  <2> QED
    BY <2>1, <2>2, PairOf
<1> QED
  BY <1>1, ChainedInvariant, PTL

-----------------------------------------------------------------------------
(* The tables implement the ledger *)

\* The latest attempt of a row, where there is one, exists.
LatestExists ==
  \A s \in Submission :
    sub[s].latest # NoAttempt => sub[s].latest \in AttemptId /\ Exists(sub[s].latest)

LEMMA LatestExistsStep ==
  ASSUME TablesOK, LatestExists, [DbNext]_dbVars
  PROVE  LatestExists'
<1> SUFFICES ASSUME NEW t \in Submission, sub'[t].latest # NoAttempt
             PROVE  sub'[t].latest \in AttemptId /\ att'[sub'[t].latest].state # "absent"
  BY DEF LatestExists, Exists
<1>0. sub \in [Submission -> SubmissionRow]
  BY DEF TablesOK, DbTypeOK
<1>1. \A a \in AttemptId : Exists(a) => att'[a].state # "absent"
  BY AttemptRowsStep DEF Exists
<1>2. CASE sub'[t].latest = sub[t].latest
  BY <1>1, <1>2 DEF LatestExists, Exists
<1>3. ASSUME NEW s \in Submission, NEW a \in AttemptId, NEW q,
             sub' = [sub EXCEPT ![s] = PointAt(@, a, q)]
      PROVE  sub'[t].latest = sub[t].latest
  BY <1>0, <1>3 DEF PointAt, SubmissionRow
<1>4. ASSUME NEW s \in Submission, StartJudging(s)
      PROVE  sub'[t].latest = sub[t].latest
  BY <1>0, <1>4 DEF StartJudging, SubmissionRow
<1>5. ASSUME NEW a \in AttemptId, NEW status \in {"finished", "error"}, Applies(a),
             sub' = [sub EXCEPT ![Owner(a)] = Settle(@, a, status)]
      PROVE  sub'[t].latest \in {a, sub[t].latest} /\ Exists(a)
  <2>1. Owner(a) \in Submission /\ sub[Owner(a)] \in SubmissionRow
    BY <1>0, Pair
  <2>2. Settle(sub[Owner(a)], a, status).latest = a
    BY <2>1, SettleRow
  <2> QED
    BY <1>0, <1>5, <2>1, <2>2 DEF Applies, Open
<1>6. CASE UNCHANGED sub
  BY <1>2, <1>6
<1>7. ASSUME NEW a \in AttemptId, ApplyGraded(a) \/ ApplyPlatformError(a)
      PROVE  sub'[t].latest \in AttemptId /\ att'[sub'[t].latest].state # "absent"
  BY <1>1, <1>2, <1>5, <1>7 DEF ApplyGraded, ApplyPlatformError
<1>8. ASSUME NEW s \in Submission, NEW a \in AttemptId, NEW v \in Version,
             CreateAttempt(s, a, v, 0)
      PROVE  sub'[t].latest = sub[t].latest
  BY <1>3, <1>8 DEF CreateAttempt
<1>9. ASSUME NEW a \in AttemptId, NEW b \in AttemptId, ApplyRetry(a, b)
      PROVE  sub'[t].latest = sub[t].latest
  BY <1>3, <1>9, Pair DEF ApplyRetry
<1> QED
  BY <1>2, <1>4, <1>6, <1>7, <1>8, <1>9, RecordRunChangesNothing
  DEF DbNext, EvaluationNext, InsertSubmission, dbVars, RevokeTokens

\* An untouched row keeps its place in the ledger.
LEMMA SameRow ==
  ASSUME TablesOK, LatestExists, [DbNext]_dbVars, NEW t \in Submission,
         sub'[t] = sub[t]
  PROVE  Phase(t)' = Phase(t) /\ Round(t)' = Round(t)
<1>1. \A a \in AttemptId : Exists(a) => att'[a].retries = att[a].retries
  BY AttemptRowsStep
<1>2. sub[t].active # NoAttempt => sub[t].active \in AttemptId /\ Exists(sub[t].active)
  BY DEF TablesOK, ActiveConsistent, HasActive, HasNone, Open
<1>3. sub[t].latest # NoAttempt => sub[t].latest \in AttemptId /\ Exists(sub[t].latest)
  BY DEF LatestExists
<1> QED
  BY <1>1, <1>2, <1>3 DEF Phase, Round

\* A transaction on one row updates the ledger at that submission only.
LEMMA LedgerUpdate ==
  ASSUME TablesOK, LatestExists, [DbNext]_dbVars, NEW s \in Submission,
         \A t \in Submission : t # s => sub'[t] = sub[t]
  PROVE  /\ LedgerPhase' = [LedgerPhase EXCEPT ![s] = Phase(s)']
         /\ LedgerRound' = [LedgerRound EXCEPT ![s] = Round(s)']
         /\ LedgerPhase[s] = Phase(s) /\ LedgerRound[s] = Round(s)
<1>1. \A t \in Submission : t # s => Phase(t)' = Phase(t) /\ Round(t)' = Round(t)
  BY SameRow
<1> QED
  BY <1>1 DEF LedgerPhase, LedgerRound

\* A new submission is accepted, one that was decided is opened again.
LEMMA LedgerOpens ==
  ASSUME TablesOK, LatestExists, [DbNext]_dbVars,
         NEW s \in Submission, NEW a \in AttemptId, NEW v \in Version,
         CreateAttempt(s, a, v, 0)
  PROVE  IF sub[s].status = "absent" THEN Ledger!Accept(s) ELSE Ledger!Reopen(s)
<1> DEFINE row == PointAt(sub[s], a, NextSequence(s))
           new == QueuedAttempt(s, v, 0)
<1>1. /\ MayCreate(s)
      /\ sub' = [sub EXCEPT ![s] = row] /\ att' = [att EXCEPT ![a] = new]
  BY DEF CreateAttempt
<1>2. /\ sub \in [Submission -> SubmissionRow] /\ att \in [AttemptId -> AttemptRow]
      /\ sub[s] \in SubmissionRow /\ sub[s].rejudgeSeq \in Nat
      /\ NextSequence(s) \in Nat
  BY NextSequenceValue DEF TablesOK, DbTypeOK, SubmissionRow
<1>3. row.status = "pending" /\ row.active = a
  BY <1>2, PointAtRow
<1>4. new.retries = 0
  BY DEF QueuedAttempt
<1> HIDE DEF row, new
<1>5. /\ sub'[s] = row /\ att'[a] = new
      /\ \A t \in Submission : t # s => sub'[t] = sub[t]
  BY <1>1, <1>2
<1>6. sub[s].status \in {"absent", "finished", "error"}
  <2>1. sub[s].status \in {"pending", "judging"} => HasActive(s, sub[s].active)
    BY DEF TablesOK, ActiveConsistent
  <2>2. sub[s].status \in SubStatus
    BY <1>2 DEF SubmissionRow
  <2> QED
    BY <1>1, <2>1, <2>2, AttemptsAssumption DEF MayCreate, HasActive, SubStatus
<1>7. /\ Phase(s)' = "open"
      /\ IF sub[s].status = "absent" THEN Phase(s) = "absent"
         ELSE Phase(s) \in {"graded", "failed"}
  BY <1>3, <1>5, <1>6 DEF Phase
<1>8. Round(s)' = 1
  BY <1>3, <1>4, <1>5, AttemptsAssumption DEF Round
<1> QED
  BY <1>5, <1>7, <1>8, LedgerUpdate DEF Ledger!Accept, Ledger!Reopen

LEMMA LedgerDecides ==
  ASSUME TablesOK, LatestExists, [DbNext]_dbVars, NEW a \in AttemptId,
         NEW status \in {"finished", "error"}, Applies(a), att' = Finish(a, status),
         sub' = [sub EXCEPT ![Owner(a)] = Settle(@, a, status)]
  PROVE  Ledger!Decide(Owner(a), IF status = "finished" THEN "graded" ELSE "failed")
<1> DEFINE s == Owner(a)
           row == Settle(sub[s], a, status)
<1>1. /\ s \in Submission /\ sub[s].status \in {"pending", "judging"}
      /\ sub[s].active = a /\ Exists(a)
  BY ActiveAttempt
<1>2. DbTypeOK /\ sub \in [Submission -> SubmissionRow] /\ sub[s] \in SubmissionRow
  BY <1>1 DEF TablesOK, DbTypeOK
<1>3. row.status = status /\ row.active = NoAttempt /\ row.latest = a
  BY <1>2, SettleRow
<1>4. att'[a].retries = att[a].retries
  BY <1>1, AttemptRowsStep
<1>5. sub' = [sub EXCEPT ![s] = row]
  OBVIOUS
<1> HIDE DEF row, s
<1>6. sub'[s] = row /\ \A t \in Submission : t # s => sub'[t] = sub[t]
  BY <1>1, <1>2, <1>5
<1>7. /\ Phase(s) = "open"
      /\ Phase(s)' = IF status = "finished" THEN "graded" ELSE "failed"
  BY <1>1, <1>3, <1>6 DEF Phase
<1>8. Round(s)' = Round(s)
  <2>1. a # NoAttempt
    BY AttemptsAssumption
  <2>2. Round(s) = att[a].retries + 1
    BY <1>1, <2>1 DEF Round
  <2>3. Round(s)' = att'[a].retries + 1
    BY <1>3, <1>6, <2>1 DEF Round
  <2> QED
    BY <1>4, <2>2, <2>3
<1>9. LedgerRound' = LedgerRound
  BY <1>1, <1>6, <1>8, LedgerUpdate DEF LedgerRound
<1> QED
  BY <1>1, <1>6, <1>7, <1>9, LedgerUpdate DEF Ledger!Decide, s

LEMMA LedgerRetries ==
  ASSUME TablesOK, LatestExists, [DbNext]_dbVars,
         NEW a \in AttemptId, NEW b \in AttemptId, ApplyRetry(a, b)
  PROVE  Ledger!Retry(Owner(a))
<1> DEFINE s == Owner(a)
           row == PointAt(sub[s], b, NextSequence(s))
<1>1. sub' = [sub EXCEPT ![s] = row] /\ Applies(a)
  BY DEF ApplyRetry
<1>2. /\ s \in Submission /\ sub[s].status \in {"pending", "judging"}
      /\ sub[s].active = a
  BY <1>1, ActiveAttempt
<1>3. /\ sub \in [Submission -> SubmissionRow] /\ sub[s] \in SubmissionRow
      /\ sub[s].rejudgeSeq \in Nat
  BY <1>2 DEF TablesOK, DbTypeOK, SubmissionRow
<1>4. NextSequence(s) \in Nat
  BY <1>2, <1>3, NextSequenceValue
<1>5. row.status = "pending" /\ row.active = b
  BY <1>3, <1>4, PointAtRow
<1>6. /\ att[a].retries \in Nat /\ att[a].retries < MaxRetries
      /\ att'[b].retries = att[a].retries + 1
  BY RetryFollows
<1> HIDE DEF row, s
<1>7. sub'[s] = row /\ \A t \in Submission : t # s => sub'[t] = sub[t]
  BY <1>1, <1>2, <1>3
<1>8. Phase(s) = "open" /\ Phase(s)' = "open"
  BY <1>2, <1>5, <1>7 DEF Phase
<1>9. Round(s) = att[a].retries + 1 /\ Round(s)' = att[a].retries + 1 + 1
  BY <1>2, <1>5, <1>6, <1>7, AttemptsAssumption DEF Round
<1>10. Round(s) <= MaxRetries /\ Round(s)' = Round(s) + 1
  BY <1>6, <1>9, AttemptsAssumption
<1>11. LedgerPhase' = LedgerPhase
  BY <1>2, <1>7, <1>8, LedgerUpdate DEF LedgerPhase
<1> QED
  BY <1>2, <1>7, <1>8, <1>10, <1>11, LedgerUpdate DEF Ledger!Retry, s

LEMMA LedgerStep ==
  ASSUME TablesOK, LatestExists, [DbNext]_dbVars
  PROVE  /\ [EvaluationNext]_dbVars => [Ledger!LedgerNext]_(Ledger!ledgerVars)
         /\ [Ledger!LedgerNext \/ \E s \in Submission : Ledger!Reopen(s)]_(Ledger!ledgerVars)
<1> DEFINE Goal == [Ledger!LedgerNext]_(Ledger!ledgerVars)
<1>1. CASE \A t \in Submission : sub'[t] = sub[t]
  <2>1. \A t \in Submission : Phase(t)' = Phase(t) /\ Round(t)' = Round(t)
    BY <1>1, SameRow
  <2> QED
    BY <2>1 DEF LedgerPhase, LedgerRound, Ledger!ledgerVars
<1>2. ASSUME NEW s \in Submission, NEW a \in AttemptId, NEW v \in Version,
             InsertSubmission(s, a, v)
      PROVE  Goal
  BY <1>2, LedgerOpens DEF InsertSubmission, Ledger!LedgerNext
<1>3. ASSUME NEW s \in Submission, StartJudging(s)
      PROVE  Goal
  <2>1. /\ sub \in [Submission -> SubmissionRow] /\ UNCHANGED att
        /\ sub[s].status \in {"pending", "judging"}
        /\ sub' = [sub EXCEPT ![s].status = "judging"]
    BY <1>3 DEF TablesOK, DbTypeOK, StartJudging
  <2>2. /\ sub'[s].status = "judging" /\ sub'[s].active = sub[s].active
        /\ sub'[s].latest = sub[s].latest
        /\ \A t \in Submission : t # s => sub'[t] = sub[t]
    BY <2>1 DEF SubmissionRow
  <2>3. Phase(s)' = Phase(s) /\ Round(s)' = Round(s)
    BY <2>1, <2>2 DEF Phase, Round
  <2>4. LedgerPhase' = LedgerPhase /\ LedgerRound' = LedgerRound
    BY <2>2, <2>3, SameRow DEF LedgerPhase, LedgerRound
  <2> QED
    BY <2>4 DEF Ledger!ledgerVars
<1>4. ASSUME NEW a \in AttemptId, ApplyGraded(a)
      PROVE  Goal
  <2>1. Ledger!Decide(Owner(a), "graded") /\ Owner(a) \in Submission
    BY <1>4, LedgerDecides, Pair DEF ApplyGraded
  <2> QED
    BY <2>1 DEF Ledger!LedgerNext
<1>5. ASSUME NEW a \in AttemptId, ApplyPlatformError(a)
      PROVE  Goal
  <2>1. Ledger!Decide(Owner(a), "failed") /\ Owner(a) \in Submission
    BY <1>5, LedgerDecides, Pair DEF ApplyPlatformError
  <2> QED
    BY <2>1 DEF Ledger!LedgerNext
<1>6. ASSUME NEW a \in AttemptId, NEW b \in AttemptId, ApplyRetry(a, b)
      PROVE  Goal
  BY <1>6, LedgerRetries, Pair DEF Ledger!LedgerNext
<1>7. CASE EvaluationNext
  BY <1>1, <1>2, <1>3, <1>4, <1>5, <1>6, <1>7, RecordRunChangesNothing
  DEF EvaluationNext, RevokeTokens
<1>8. CASE UNCHANGED dbVars
  BY <1>1, <1>8 DEF dbVars
<1>9. ASSUME NEW s \in Submission, NEW a \in AttemptId, NEW v \in Version,
             CreateAttempt(s, a, v, 0)
      PROVE  Goal \/ Ledger!Reopen(s)
  BY <1>9, LedgerOpens DEF Ledger!LedgerNext
<1> QED
  BY <1>7, <1>8, <1>9 DEF DbNext

LEMMA LatestInvariant == AttemptsSpec => []LatestExists
<1>1. DbInit => LatestExists
  BY DEF DbInit, NoSubmission, LatestExists
<1>2. TablesOK /\ LatestExists /\ [DbNext]_dbVars => LatestExists'
  BY LatestExistsStep
<1> QED
  BY <1>1, <1>2, TablesInvariant, PTL DEF AttemptsSpec

LEMMA LedgerStarts ==
  ASSUME DbInit
  PROVE  Ledger!LedgerInit
  BY DEF DbInit, NoSubmission, Ledger!LedgerInit, LedgerPhase, LedgerRound, Phase, Round

\* Refinement: seen as the ledger, the tables accept each submission once, try
\* it at most MaxRetries + 1 times, and open it again only after it was decided.
THEOREM TablesImplementLedger == AttemptsSpec => RejudgedLedgerSpec
<1>1. DbInit => Ledger!LedgerInit
  BY LedgerStarts
<1>2. TablesOK /\ LatestExists /\ [DbNext]_dbVars
        => [Ledger!LedgerNext \/ \E s \in Submission : Ledger!Reopen(s)]_(Ledger!ledgerVars)
  BY LedgerStep
<1> QED
  BY <1>1, <1>2, TablesInvariant, LatestInvariant, PTL
  DEF AttemptsSpec, RejudgedLedgerSpec, Ledger!RejudgedLedgerSpec

\* While nothing is rejudged, they never take a decision back.
THEOREM EvaluationImplementsLedger == EvaluationSpec => LedgerSpec
<1>1. DbInit => Ledger!LedgerInit
  BY LedgerStarts
<1>2. TablesOK /\ LatestExists /\ [EvaluationNext]_dbVars
        => [Ledger!LedgerNext]_(Ledger!ledgerVars)
  BY LedgerStep DEF DbNext
<1> QED
  BY <1>1, <1>2, EvaluationOfAttempts, TablesInvariant, LatestInvariant, PTL
  DEF EvaluationSpec, LedgerSpec, Ledger!LedgerSpec
=============================================================================
