--------------------------- MODULE EffectiveResultsProofs ---------------------------
(* Safety of the transactions that decide which results count.                       *)
EXTENDS EffectiveResults, SumFacts, FiniteSetTheorems, TLAPS

-----------------------------------------------------------------------------
(* Enumerations and sorted sequences.                                               *)

(* A finite set with a strict total order R has an enumeration in that order.       *)
LEMMA SortedEnumeration ==
    ASSUME NEW S, IsFiniteSet(S), NEW R,
           \A a \in S : <<a, a>> \notin R,
           \A a, b, c \in S : <<a, b>> \in R /\ <<b, c>> \in R => <<a, c>> \in R,
           \A a, b \in S : a # b => <<a, b>> \in R \/ <<b, a>> \in R
    PROVE  \E seq \in SetToSeqs(S) :
              \A i, j \in 1..Cardinality(S) : i < j => <<seq[i], seq[j]>> \in R
<1> DEFINE n == Cardinality(S)
           Upto(x) == {y \in S : y = x \/ <<y, x>> \in R}
           rank == [x \in S |-> Cardinality(Upto(x))]
           seq == [i \in 1..n |-> CHOOSE x \in S : rank[x] = i]
<1>1. n \in Nat
  BY FS_CardinalityType
<1>2. ASSUME NEW x \in S
      PROVE  IsFiniteSet(Upto(x)) /\ rank[x] \in 1..n
  <2>1. Upto(x) \in SUBSET S /\ x \in Upto(x)
    OBVIOUS
  <2>2. IsFiniteSet(Upto(x)) /\ Cardinality(Upto(x)) <= n
    BY <2>1, FS_Subset
  <2>3. Cardinality(Upto(x)) \in Nat /\ Cardinality(Upto(x)) # 0
    BY <2>1, <2>2, FS_CardinalityType, FS_EmptySet
  <2>4. QED
    BY <1>1, <2>2, <2>3
<1>3. ASSUME NEW a \in S, NEW b \in S, <<a, b>> \in R
      PROVE  rank[a] < rank[b]
  <2>1. Upto(a) \in SUBSET Upto(b)
    BY <1>3
  <2>2. b \in Upto(b) /\ b \notin Upto(a)
    BY <1>3
  <2>3. Cardinality(Upto(a)) <= Cardinality(Upto(b)) /\ Cardinality(Upto(a)) # Cardinality(Upto(b))
    BY <1>2, <2>1, <2>2, FS_Subset
  <2>4. QED
    BY <1>1, <1>2, <2>3
<1>4. rank \in Injection(S, 1..n)
  <2>1. rank \in [S -> 1..n]
    BY <1>2
  <2>2. ASSUME NEW a \in S, NEW b \in S, a # b
        PROVE  rank[a] # rank[b]
    <3>1. rank[a] \in 1..n /\ rank[b] \in 1..n
      BY <1>2
    <3>2. rank[a] < rank[b] \/ rank[b] < rank[a]
      BY <1>3, <2>2
    <3> QED
      BY <3>1, <3>2, <1>1
  <2>3. QED
    BY <2>1, <2>2 DEF Injection, IsInjective
<1>5. rank \in Surjection(S, 1..n)
  <2>1. IsFiniteSet(1..n) /\ Cardinality(1..n) = n
    BY <1>1, FS_Interval
  <2>2. QED
    BY <1>4, <2>1, FS_Injection
<1>6. ASSUME NEW i \in 1..n
      PROVE  seq[i] \in S /\ rank[seq[i]] = i
  <2>1. \E x \in S : rank[x] = i
    BY <1>5 DEF Surjection
  <2>2. QED
    BY <2>1
<1>7. seq \in SetToSeqs(S)
  BY <1>1, <1>6 DEF SetToSeqs
<1>8. ASSUME NEW i \in 1..n, NEW j \in 1..n, i < j
      PROVE  <<seq[i], seq[j]>> \in R
  <2> DEFINE a == seq[i]
             b == seq[j]
  <2>1. a \in S /\ b \in S /\ rank[a] = i /\ rank[b] = j /\ i < j
    BY <1>6, <1>8
  <2> HIDE DEF a, b, rank, n
  <2>2. a # b /\ ~(rank[b] < rank[a])
    BY <1>1, <2>1
  <2>3. <<b, a>> \notin R
    BY <1>3, <2>1, <2>2
  <2>4. <<a, b>> \in R
    BY <2>1, <2>2, <2>3
  <2>5. QED
    BY <2>4 DEF a, b
<1>9. QED
  BY <1>7, <1>8

(* An enumeration is a sequence that has every element, and no other.               *)
LEMMA Enumeration ==
    ASSUME NEW S, IsFiniteSet(S), NEW seq \in SetToSeqs(S)
    PROVE  /\ seq \in Seq(S) /\ Len(seq) \in Nat /\ DOMAIN seq = 1..Len(seq)
           /\ Len(seq) = Cardinality(S)
           /\ \A x \in S : \E i \in 1..Len(seq) : seq[i] = x
<1> DEFINE n == Cardinality(S)
<1>1. n \in Nat /\ IsFiniteSet(1..n) /\ Cardinality(1..n) = n
  BY FS_CardinalityType, FS_Interval
<1>2. seq \in [1..n -> S] /\ \A i, j \in 1..n : i # j => seq[i] # seq[j]
  BY DEF SetToSeqs
<1>3. seq \in Injection(1..n, S)
  BY <1>2 DEF Injection, IsInjective
<1>4. seq \in Surjection(1..n, S)
  BY <1>1, <1>3, FS_Injection
<1>5. seq \in Seq(S) /\ Len(seq) = n
  BY <1>1, <1>2
<1>6. QED
  BY <1>1, <1>2, <1>4, <1>5 DEF Surjection

LEMMA AscendingSorted ==
    ASSUME NEW S, IsFiniteSet(S), S \subseteq Nat
    PROVE  /\ Ascending(S) \in SetToSeqs(S)
           /\ \A i, j \in DOMAIN Ascending(S) : i < j => Ascending(S)[i] < Ascending(S)[j]
<1> DEFINE R == {pair \in S \X S : pair[1] < pair[2]}
<1>1. PICK seq \in SetToSeqs(S) : \A i, j \in 1..Cardinality(S) : i < j => <<seq[i], seq[j]>> \in R
  <2>1. /\ \A a \in S : <<a, a>> \notin R
        /\ \A a, b, c \in S : <<a, b>> \in R /\ <<b, c>> \in R => <<a, c>> \in R
        /\ \A a, b \in S : a # b => <<a, b>> \in R \/ <<b, a>> \in R
    OBVIOUS
  <2> HIDE DEF R
  <2>2. QED
    BY <2>1, SortedEnumeration
<1>2. \A i, j \in DOMAIN seq : i < j => seq[i] < seq[j]
  <2>1. DOMAIN seq = 1..Cardinality(S)
    BY <1>1, Enumeration
  <2>2. \A a, b : <<a, b>> \in R => a < b
    OBVIOUS
  <2> HIDE DEF R
  <2>3. QED
    BY <1>1, <2>1, <2>2
<1>3. QED
  BY <1>2, <1>1 DEF Ascending

LEMMA InOrderComplete ==
    ASSUME EffectiveAssumption, NEW changes, IsFiniteSet(changes), changes \subseteq Change
    PROVE  InOrder(changes) \in SetToSeqs(changes)
<1> DEFINE Key(c) == IF c = None THEN 0 ELSE c
           Before(a, b) == \/ a.problem < b.problem
                           \/ a.problem = b.problem /\ Key(a.contest) < Key(b.contest)
<1>0. PICK m \in Nat : ExistsBijection(1..m, changes)
  BY FS_NatBijection
<1>1. PICK f \in Bijection(1..m, changes) : TRUE
  BY <1>0 DEF ExistsBijection
<1> DEFINE index == [x \in changes |-> CHOOSE i \in 1..m : f[i] = x]
           R == {pair \in changes \X changes :
                    \/ Before(pair[1], pair[2])
                    \/ ~Before(pair[2], pair[1]) /\ index[pair[1]] < index[pair[2]]}
<1>2. ASSUME NEW x \in changes
      PROVE  index[x] \in 1..m /\ f[index[x]] = x
  <2>1. \E i \in 1..m : f[i] = x
    BY <1>1 DEF Bijection, Surjection
  <2>2. QED
    BY <2>1
<1>3. \A x \in changes : x.problem \in Nat /\ Key(x.contest) \in Nat /\ index[x] \in Nat
  <2>1. \A x \in changes : x.problem \in Nat /\ (x.contest = None \/ x.contest \in Nat)
    BY DEF Change, EffectiveAssumption
  <2>2. QED
    BY <2>1, <1>2
<1>4. \A a, b \in changes : a # b => index[a] # index[b]
  BY <1>2
<1> HIDE DEF index, Key
<1>5. /\ \A a \in changes : <<a, a>> \notin R
      /\ \A a, b, c \in changes : <<a, b>> \in R /\ <<b, c>> \in R => <<a, c>> \in R
      /\ \A a, b \in changes : a # b => <<a, b>> \in R \/ <<b, a>> \in R
  <2> DEFINE In(a, b) == Before(a, b) \/ (~Before(b, a) /\ index[a] < index[b])
  <2>1. \A a, b \in changes : <<a, b>> \in R <=> In(a, b)
    <3> HIDE DEF Before
    <3> QED
      OBVIOUS
  <2>2. \A a \in changes : ~In(a, a)
    BY <1>3
  <2>3. \A a, b, c \in changes : In(a, b) /\ In(b, c) => In(a, c)
    BY <1>3
  <2>4. ASSUME NEW a \in changes, NEW b \in changes, a # b
        PROVE  In(a, b) \/ In(b, a)
    <3>1. index[a] < index[b] \/ index[b] < index[a]
      BY <1>3, <1>4, <2>4
    <3> HIDE DEF Before
    <3>2. QED
      BY <3>1
  <2> HIDE DEF R, In
  <2>5. QED
    BY <2>1, <2>2, <2>3, <2>4
<1>6. PICK seq \in SetToSeqs(changes) :
        \A i, j \in 1..Cardinality(changes) : i < j => <<seq[i], seq[j]>> \in R
  <2> HIDE DEF R
  <2> QED
    BY <1>5, SortedEnumeration
<1>7. /\ DOMAIN seq = 1..Cardinality(changes)
      /\ \A i \in DOMAIN seq : seq[i] \in changes
  BY <1>6, Enumeration
<1>8. \A i, j \in DOMAIN seq : i < j => ~Before(seq[j], seq[i])
  <2>1. \A a, b \in changes : <<a, b>> \in R => ~Before(b, a)
    BY <1>3
  <2>2. QED
    BY <1>6, <1>7, <2>1
<1>9. QED
  BY <1>8 DEF InOrder, Key

-----------------------------------------------------------------------------
(* Types.                                                                           *)

Object ==
    ({"problem", "revision of problem"} \X Problem)
    \cup ({"contest", "revision of contest"} \X Contest)
    \cup ({"submission"} \X Submission) \cup {<<"revision of all", 0>>}
Mode == {"share", "update"}
AdvisoryLock == <<<<"advisory", 0>>, "update">>
RevisionLock == <<<<"revision of all", 0>>, "update">>

LockOp == {op \in {"lock"} \X Object \X Mode : op[2][1] = "revision of all" => op[3] = "update"}
ChangeOp == {"change"} \X Change
NamedOp == {<<"contest of row">>, <<"result">>, <<"create">>, <<"remove">>, <<"edit">>,
            <<"cascade">>, <<"try">>, <<"refresh">>}
Op == LockOp \cup ChangeOp \cup NamedOp

(* The operations that read, decide and compute what is written.                    *)
IsStep(op) == op[1] \notin {"lock", "contest of row", "try"}

ContestRow == [exists : BOOLEAN, end : Nat, affects : BOOLEAN]

RowTyped(r) ==
    /\ r = [exists |-> r.exists, contest |-> r.contest, version |-> r.version,
            results |-> r.results, shown |-> r.shown]
    /\ r.exists \in BOOLEAN /\ r.contest \in Contest \cup {None} /\ r.results \subseteq Result

DbTyped ==
    /\ policy \in [Problem -> PolicyRow]
    /\ binding \in [Pair -> Binding \cup {None}]
    /\ contest \in [Contest -> ContestRow]
    /\ row = [s \in Submission |-> row[s]] /\ \A s \in Submission : RowTyped(row[s])
    /\ data \in Nat /\ now \in Nat /\ unannounced \in BOOLEAN
    /\ view.revision \in Nat /\ view.at \in Nat
    /\ tx = [t \in Transaction |-> tx[t]]
    /\ requests \subseteq Request

OpsOf(q) ==
    CASE q.kind = "result" -> {<<"contest of row">>, <<"result">>}
      [] q.kind = "create" -> {<<"create">>}
      [] q.kind = "remove" -> {<<"remove">>}
      [] q.kind \in {"change", "batch"} -> {"change"} \X q.changes
      [] q.kind = "edit" -> {<<"edit">>}
      [] q.kind = "delete" -> {<<"cascade">>}
      [] q.kind = "refresh" -> {<<"try">>, <<"refresh">>}
      [] OTHER -> {}

SystemRequests == {[kind |-> "refresh"], [kind |-> "announce"]}

TxTyped(t) ==
    LET x == tx[t]
        w == tx[t].writes
    IN  /\ x = [request |-> x.request, todo |-> x.todo, held |-> x.held, seen |-> x.seen,
                writes |-> x.writes, start |-> x.start]
        /\ w = [policy |-> w.policy, binding |-> w.binding, contest |-> w.contest,
                shown |-> w.shown, view |-> w.view, bumps |-> w.bumps]
        /\ x.request \in (Request \ requests) \cup SystemRequests
        /\ x.todo \in Seq(Op) /\ x.held \subseteq (Object \X Mode) \cup {AdvisoryLock}
        /\ x.start \in Nat /\ x.start <= now /\ w.bumps \in Nat

(* The operations left are those of the request; only changes take several steps.   *)
OpsOK(t) ==
    LET x == tx[t]
    IN  \A i \in DOMAIN x.todo :
           /\ x.todo[i][1] # "lock" => x.todo[i] \in OpsOf(x.request)
           /\ IsStep(x.todo[i]) /\ x.request.kind \notin {"change", "batch"} => i = Len(x.todo)

-----------------------------------------------------------------------------
(* Locks.                                                                           *)

HostLocks(kind, change) ==
    IF kind = "batch"
    THEN {<<<<"problem", change.problem>>, "update">>}
            \cup (IF change.contest = None THEN {}
                  ELSE {<<<<"contest", change.contest>>, "update">>})
    ELSE IF change.contest = None THEN {<<<<"problem", change.problem>>, "update">>}
    ELSE {<<<<"problem", change.problem>>, "share">>, <<<<"contest", change.contest>>, "update">>}

(* The locks a request takes before its first step.                                 *)
BaseLocks(q) ==
    CASE q.kind \in {"result", "remove"} ->
            {<<<<"problem", ProblemOf[q.submission]>>, "share">>,
             <<<<"submission", q.submission>>, "update">>}
      [] q.kind = "create" ->
            {<<<<"problem", ProblemOf[q.submission]>>, "share">>}
                \cup (IF q.contest = None THEN {} ELSE {<<<<"contest", q.contest>>, "share">>})
      [] q.kind \in {"change", "batch"} -> UNION {HostLocks(q.kind, ch) : ch \in q.changes}
      [] q.kind = "edit" ->
            {<<<<"contest", q.contest>>, "update">>}
                \cup {<<<<"problem", p>>, "share">> :
                        p \in (IF q.problems = None THEN {} ELSE q.problems)}
      [] q.kind = "delete" -> {<<<<"contest", q.contest>>, "update">>}
      [] q.kind = "refresh" -> {RevisionLock}
      [] OTHER -> {}

(* A lock is held, or its row is gone for good.                                     *)
Secured(t, lock) ==
    \/ lock \in tx[t].held
    \/ lock[1][1] = "contest" /\ lock[1][2] \in Contest /\ ~contest[lock[1][2]].exists

(* An operation is still to come, and a step only after it.                         *)
Ahead(t, op) ==
    \E i, j \in DOMAIN tx[t].todo :
        /\ i < j /\ tx[t].todo[i] = op /\ IsStep(tx[t].todo[j])
        /\ \A k \in 1..i : ~IsStep(tx[t].todo[k])

NoStep(t) == \A i \in DOMAIN tx[t].todo : ~IsStep(tx[t].todo[i])

Planned(t, lock) == Secured(t, lock) \/ Ahead(t, <<"lock", lock[1], lock[2]>>)

Untried(t) == tx[t].request.kind = "refresh" /\ tx[t].todo = <<<<"try">>>>

(* What is written stands under the locks of the request.                           *)
Computed(w) == w.policy # <<>> \/ w.binding # <<>> \/ w.contest # <<>> \/ w.shown # <<>>

BaseLocked(t) ==
    \A lock \in BaseLocks(tx[t].request) :
        /\ Planned(t, lock) \/ Untried(t)
        /\ Computed(tx[t].writes) => Secured(t, lock)

(* Results and deletions also lock the contest that the row is in.                  *)
RowContestLocked(t) ==
    tx[t].request.kind \in {"result", "remove"} =>
        LET c == row[tx[t].request.submission].contest
        IN  c # None => \/ Planned(t, <<<<"contest", c>>, "share">>)
                        \/ Ahead(t, <<"contest of row">>)

(* Two transactions never hold conflicting locks.                                   *)
Exclusive ==
    \A t, u \in Transaction : t # u /\ tx[t] # None /\ tx[u] # None =>
        \A lock \in tx[t].held, other \in tx[u].held :
            lock[1] = other[1] => lock[2] = "share" /\ other[2] = "share"

-----------------------------------------------------------------------------
(* Rows and who creates them.                                                       *)

Created(s) ==
    s \in DOMAIN InitialRows \/ \E q \in Request \ requests : q.kind = "create" /\ q.submission = s

RowsOK ==
    /\ \A s \in Submission :
          /\ row[s].exists => Created(s)
          /\ ~row[s].exists => row[s].contest = None
          /\ row[s].contest # None => contest[row[s].contest].exists
          /\ \A r1, r2 \in row[s].results : r1.version = r2.version => r1 = r2
    /\ \A pair \in Pair : binding[pair] # None => contest[pair[1]].exists

OnRow(t) == tx[t] # None /\ tx[t].request.kind \in {"result", "remove"}
Creates(t, s) == tx[t] # None /\ tx[t].request.kind = "create" /\ tx[t].request.submission = s

CreationsOK ==
    \A t \in Transaction :
        /\ OnRow(t) => Created(tx[t].request.submission)
        /\ \A s \in Submission : Creates(t, s) =>
              /\ ~row[s].exists
              /\ \A u \in Transaction : /\ OnRow(u) => tx[u].request.submission # s
                                        /\ u # t => ~Creates(u, s)

-----------------------------------------------------------------------------
(* What an open transaction is about to write is right if it commits.               *)

Bound(s) == BindingOf(binding, row[s].contest, ProblemOf[s])

NoHostWrites(w) == w.policy = <<>> /\ w.binding = <<>> /\ w.contest = <<>>

ResultReady(t) ==
    LET q == tx[t].request
        w == tx[t].writes
        s == q.submission
    IN  q.kind = "result" =>
            /\ NoHostWrites(w) /\ w.view = None
            /\ NoStep(t) =>
                  /\ row[s].exists
                  /\ w.shown = Only(s, Projection(Upsert(row[s].results, q.result),
                                                  policy[ProblemOf[s]], Bound(s)))

CreateReady(t) ==
    LET q == tx[t].request
        w == tx[t].writes
    IN  q.kind = "create" =>
            /\ NoHostWrites(w) /\ w.view = None
            /\ NoStep(t) /\ q.contest # None =>
                  LET bound == binding[<<q.contest, ProblemOf[q.submission]>>]
                  IN  bound # None /\ bound.pinned = q.version

RemoveReady(t) ==
    tx[t].request.kind = "remove" => NoHostWrites(tx[t].writes) /\ tx[t].writes.view = None

EditReady(t) ==
    LET q == tx[t].request
        w == tx[t].writes
        old == contest[q.contest]
    IN  q.kind = "edit" =>
            /\ w.policy = <<>> /\ w.shown = <<>> /\ w.view = None
            /\ \/ w.contest = <<>> /\ w.binding = <<>>
               \/ /\ old.exists
                  /\ w.contest = Only(q.contest,
                        [old EXCEPT !.end = IF q.end = None THEN @ ELSE q.end,
                                    !.affects = IF q.affects = None THEN @ ELSE q.affects])
                  /\ w.binding = IF q.problems = None THEN <<>> ELSE NewBindings(q)

DeleteReady(t) ==
    LET q == tx[t].request
        w == tx[t].writes
    IN  q.kind = "delete" =>
            /\ w.policy = <<>> /\ w.shown = <<>> /\ w.view = None
            /\ \/ w.contest = <<>> /\ w.binding = <<>> /\ ~NoStep(t)
               \/ /\ contest[q.contest].exists
                  /\ w.contest = Only(q.contest, [contest[q.contest] EXCEPT !.exists = FALSE])
                  /\ w.binding = [pair \in {q.contest} \X Problem |-> None]

OtherReady(t) ==
    tx[t].request.kind \in {"convert", "announce"} =>
        NoHostWrites(tx[t].writes) /\ tx[t].writes.shown = <<>> /\ tx[t].writes.view = None

(* The policy of a problem, or of a contest, that a change is about to write.        *)
NewPolicy(t, p) == Over(tx[t].writes.policy, policy)[p]
NewBinding(t, c, p) == BindingOf(Over(tx[t].writes.binding, binding), c, p)

PolicyReady(t, p) ==
    LET q == tx[t].request
        w == tx[t].writes
    IN  /\ p \in Problem /\ w.policy[p] \in PolicyRow
        /\ w.policy[p].revision > policy[p].revision
        /\ \E ch \in q.changes : /\ ch.problem = p /\ ch.contest = None
                                 /\ tx[t].seen[ch] = policy[p]
        /\ \A s \in Submission : row[s].exists /\ ProblemOf[s] = p => s \in DOMAIN w.shown

BindingReady(t, pair) ==
    LET q == tx[t].request
        w == tx[t].writes
    IN  /\ pair \in Pair /\ binding[pair] # None
        /\ w.binding[pair] \in Binding /\ w.binding[pair].revision > 0
        /\ \E ch \in q.changes : ch.contest = pair[1] /\ ch.problem = pair[2]
        /\ \A s \in Submission : row[s].exists /\ row[s].contest = pair[1] /\ ProblemOf[s] = pair[2]
              => s \in DOMAIN w.shown

(* A projection shows what the policies written with it select.                     *)
ShownReady(t, s) ==
    LET q == tx[t].request
        shown == tx[t].writes.shown[s]
        p == ProblemOf[s]
        bound == NewBinding(t, row[s].contest, p)
    IN  /\ s \in Submission /\ row[s].exists
        /\ \E ch \in q.changes : ch.problem = p /\ ch.contest \in {None, row[s].contest}
        /\ shown.global = Selection(row[s].results, NewPolicy(t, p).policy)
        /\ shown.globalRevision = NewPolicy(t, p).revision
        /\ bound # None => /\ shown.contest = Selection(row[s].results, bound.policy)
                           /\ shown.contestRevision = bound.revision
        /\ shown.contestRevision = 0 => shown.contest = Selection(row[s].results, AnyVersion)

ChangeReady(t) ==
    LET w == tx[t].writes
    IN  tx[t].request.kind \in {"change", "batch"} =>
            /\ w.contest = <<>> /\ w.view = None
            /\ \A p \in DOMAIN w.policy : PolicyReady(t, p)
            /\ \A pair \in DOMAIN w.binding : BindingReady(t, pair)
            /\ \A s \in DOMAIN w.shown : ShownReady(t, s)

(* What the author of a change saw is the policy still, or an earlier one.          *)
SeenOK(t) ==
    LET q == tx[t].request
        seen == tx[t].seen
    IN  q.kind \in {"change", "batch"} =>
            /\ DOMAIN seen = q.changes
            /\ \A ch \in q.changes : ch.contest = None =>
                  /\ seen[ch] \in PolicyRow
                  /\ seen[ch].revision <= policy[ch.problem].revision
                  /\ seen[ch].revision = policy[ch.problem].revision
                        => seen[ch] = policy[ch.problem]

-----------------------------------------------------------------------------
(* The ranking.                                                                     *)

RefreshReady(t) ==
    LET w == tx[t].writes
    IN  tx[t].request.kind = "refresh" =>
            /\ NoHostWrites(w) /\ w.shown = <<>>
            /\ Untried(t) => tx[t].held = {} /\ w.view = None
            /\ ~Untried(t) => \A i \in DOMAIN tx[t].todo : tx[t].todo[i] # <<"try">>
            /\ w.view # None =>
                  /\ NoStep(t) /\ ~Untried(t)
                  /\ w.view.revision = data /\ w.view.at \in Nat /\ w.view.at <= now
                  /\ ~unannounced => w.view.content = Standing(row, contest, w.view.at)

(* What changes the ranking raises its revision before it commits.                  *)
Ranked(t) ==
    LET q == tx[t].request
    IN  \/ q.kind \in {"result", "create", "remove", "announce"}
        \/ q.kind \in {"change", "batch"} /\ DOMAIN tx[t].writes.shown # {}
        \/ q.kind = "edit" /\ (q.end # None \/ q.affects # None) /\ tx[t].writes.contest # <<>>

BumpsOK(t) ==
    /\ tx[t].writes.bumps > 0 => RevisionLock \in tx[t].held
    /\ Ranked(t) => \/ tx[t].writes.bumps > 0
                    \/ tx[t].request.kind \in {"result", "create", "remove"} /\ ~NoStep(t)
                    \/ \E i \in DOMAIN tx[t].todo :
                          tx[t].todo[i] = Lock("revision of all", 0, "update")

ViewOK ==
    /\ view.revision <= data /\ view.at <= now
    /\ view.revision = data /\ ~unannounced => view.content = Standing(row, contest, view.at)

-----------------------------------------------------------------------------
ProjectionsOK ==
    /\ GlobalProjectionCurrent /\ ContestProjectionCurrent
    /\ \A s \in Submission : row[s].shown.contestRevision = 0
          => row[s].shown.contest = Selection(row[s].results, AnyVersion)
    /\ \A pair \in Pair : binding[pair] # None /\ binding[pair].revision = 0
          => binding[pair].policy = AnyVersion

TxOK(t) ==
    tx[t] # None =>
        /\ TxTyped(t) /\ OpsOK(t) /\ BaseLocked(t) /\ RowContestLocked(t)
        /\ ResultReady(t) /\ CreateReady(t) /\ RemoveReady(t) /\ EditReady(t)
        /\ DeleteReady(t) /\ OtherReady(t) /\ ChangeReady(t) /\ SeenOK(t)
        /\ RefreshReady(t) /\ BumpsOK(t)

IInv ==
    /\ DbTyped /\ Exclusive /\ RowsOK /\ CreationsOK /\ ProjectionsOK /\ ViewOK
    /\ \A t \in Transaction : TxOK(t)
-----------------------------------------------------------------------------
(* Requests.                                                                        *)

LEMMA RequestFacts ==
    ASSUME NEW q \in Request
    PROVE  /\ q.kind \in {"result", "create", "remove", "change", "batch", "edit", "delete",
                          "convert"}
           /\ q.kind \in {"result", "create", "remove"} =>
                 q.submission \in Submission /\ ProblemOf[q.submission] \in Problem
           /\ q.kind = "result" => q.result \in Result
           /\ q.kind = "create" => q.contest \in Contest \cup {None}
           /\ q.kind \in {"change", "batch"} => q.changes \subseteq Change /\ IsFiniteSet(q.changes)
           /\ q.kind = "change" => Cardinality(q.changes) = 1
           /\ q.kind = "edit" => /\ q.contest \in Contest /\ q.end \in Nat \cup {None}
                                 /\ q.affects \in BOOLEAN \cup {None}
                                 /\ q.problems \in (SUBSET Problem) \cup {None}
           /\ q.kind = "delete" => q.contest \in Contest
           /\ q.kind = "convert" => q.problems \subseteq Problem
<1>1. q \in Requests /\ ProblemOf \in [Submission -> Problem]
  BY EffectiveAssumption
<1>2. CASE q \in [kind : {"result"}, submission : Submission, result : Result]
  BY <1>1, <1>2
<1>3. CASE q \in [kind : {"create"}, submission : Submission, contest : Contest \cup {None},
                  version : Version]
  BY <1>1, <1>3
<1>4. CASE q \in [kind : {"remove"}, submission : Submission]
  BY <1>1, <1>4
<1>5. CASE q \in {r \in [kind : {"change", "batch"}, changes : SUBSET Change] :
                     /\ IsFiniteSet(r.changes)
                     /\ r.kind = "change" => Cardinality(r.changes) = 1}
  BY <1>5
<1>6. CASE q \in [kind : {"edit"}, contest : Contest, end : Nat \cup {None},
                  affects : BOOLEAN \cup {None}, problems : (SUBSET Problem) \cup {None}]
  BY <1>6
<1>7. CASE q \in [kind : {"delete"}, contest : Contest]
  BY <1>7
<1>8. CASE q \in [kind : {"convert"}, problems : SUBSET Problem]
  BY <1>8
<1>9. QED
  BY <1>1, <1>2, <1>3, <1>4, <1>5, <1>6, <1>7, <1>8 DEF Requests

LEMMA SystemFacts ==
    ASSUME NEW q \in SystemRequests
    PROVE  q.kind \in {"refresh", "announce"}
BY DEF SystemRequests

LEMMA ChangeFacts ==
    ASSUME NEW ch \in Change
    PROVE  /\ ch.problem \in Problem /\ ch.contest \in Contest \cup {None}
           /\ ch.contest = None => ch.policy \in Policy /\ ch.pinned = None
           /\ ch.contest # None => /\ ch.policy \in Policy \cup {None}
                                   /\ ch.pinned \in Version \cup {None}
BY EffectiveAssumption DEF Change

-----------------------------------------------------------------------------
(* Steps that commit nothing.                                                       *)

(* A transaction that a step leaves alone is as it was.                             *)
LEMMA TxFrame ==
    ASSUME DbTyped, NEW u \in Transaction, TxOK(u), tx'[u] = tx[u], UNCHANGED committed,
           now' \in Nat, now <= now', requests' \subseteq requests
    PROVE  TxOK(u)'
<1>1. CASE tx[u] = None
  BY <1>1 DEF TxOK
<1> SUFFICES ASSUME tx[u] # None
             PROVE  TxOK(u)'
  BY <1>1
<1>2. TxTyped(u)'
  BY DEF TxOK, TxTyped, DbTyped
<1>3. OpsOK(u)' /\ NoStep(u)' = NoStep(u) /\ Untried(u)' = Untried(u)
  BY DEF TxOK, OpsOK, NoStep, Untried
<1>4. BaseLocked(u)' /\ RowContestLocked(u)'
  BY DEF TxOK, BaseLocked, RowContestLocked, Planned, Secured, Ahead, Untried, committed
<1>5. ResultReady(u)' /\ CreateReady(u)' /\ RemoveReady(u)'
  BY <1>3 DEF TxOK, ResultReady, CreateReady, RemoveReady, Bound, committed
<1>6. EditReady(u)' /\ DeleteReady(u)' /\ OtherReady(u)'
  BY <1>3 DEF TxOK, EditReady, DeleteReady, OtherReady, NewBindings, committed
<1>7. ChangeReady(u)' /\ SeenOK(u)'
  BY DEF TxOK, ChangeReady, PolicyReady, BindingReady, ShownReady, SeenOK, NewPolicy, NewBinding,
         committed
<1>8. RefreshReady(u)' /\ BumpsOK(u)'
  <2>1. tx[u].writes.view # None /\ tx[u].request.kind = "refresh" =>
            tx[u].writes.view.at \in Nat /\ tx[u].writes.view.at <= now
    BY DEF TxOK, RefreshReady
  <2>2. RefreshReady(u)'
    BY <1>3, <2>1 DEF TxOK, RefreshReady, committed, DbTyped
  <2>3. BumpsOK(u)'
    BY <1>3 DEF TxOK, BumpsOK, Ranked
  <2>4. QED
    BY <2>2, <2>3
<1>9. QED
  BY <1>2, <1>3, <1>4, <1>5, <1>6, <1>7, <1>8 DEF TxOK

(* A step of one transaction that commits nothing.                                  *)
LEMMA QuietStep ==
    ASSUME IInv, NEW t \in Transaction, UNCHANGED <<committed, now>>, requests' \subseteq requests,
           tx' = [tx EXCEPT ![t] = tx'[t]], TxOK(t)', Exclusive', CreationsOK'
    PROVE  IInv'
<1>1. DbTyped'
  BY DEF IInv, DbTyped, committed
<1>2. RowsOK'
  BY DEF IInv, RowsOK, Created, committed
<1>3. ProjectionsOK'
  BY DEF IInv, ProjectionsOK, GlobalProjectionCurrent, ContestProjectionCurrent, committed
<1>4. ViewOK'
  BY DEF IInv, ViewOK, committed
<1>5. ASSUME NEW u \in Transaction
      PROVE  TxOK(u)'
  <2>1. CASE u = t
    BY <2>1
  <2>2. CASE u # t
    <3>1. tx'[u] = tx[u]
      BY <2>2 DEF IInv, DbTyped
    <3>2. QED
      BY <3>1, TxFrame DEF IInv, DbTyped
  <2>3. QED
    BY <2>1, <2>2
<1>6. QED
  BY <1>1, <1>2, <1>3, <1>4, <1>5 DEF IInv

LEMMA CreationsKept ==
    ASSUME IInv, NEW t \in Transaction, UNCHANGED <<committed, requests>>,
           tx' = [tx EXCEPT ![t] = tx'[t]],
           \/ tx'[t] = None \/ tx'[t].request.kind \in {"refresh", "announce"}
           \/ tx[t] # None /\ tx'[t].request = tx[t].request
    PROVE  CreationsOK'
<1>1. \A u \in Transaction \ {t} : tx'[u] = tx[u]
  BY DEF IInv, DbTyped
<1>2. /\ \A s : \A u \in Transaction : Creates(u, s)' => Creates(u, s)
      /\ \A u \in Transaction : OnRow(u)' => OnRow(u) /\ tx'[u].request = tx[u].request
  BY <1>1 DEF Creates, OnRow
<1>3. \A s : Created(s)' = Created(s)
  BY DEF Created
<1>4. QED
  BY <1>2, <1>3 DEF IInv, CreationsOK, committed

(* A step of one transaction that also takes no lock.                               *)
LEMMA LocalStep ==
    ASSUME IInv, NEW t \in Transaction, UNCHANGED <<committed, now, requests>>,
           tx' = [tx EXCEPT ![t] = tx'[t]], TxOK(t)',
           \/ tx'[t] = None
           \/ /\ tx[t] # None /\ tx'[t].request = tx[t].request
              /\ tx'[t].held \subseteq tx[t].held
    PROVE  IInv'
<1>1. \A u \in Transaction \ {t} : tx'[u] = tx[u]
  BY DEF IInv, DbTyped
<1>2. Exclusive'
  BY <1>1 DEF IInv, Exclusive
<1>3. QED
  BY <1>2, CreationsKept, QuietStep

LEMMA CloseStep ==
    ASSUME IInv, NEW t \in Transaction, UNCHANGED <<committed, now, requests>>, Close(t)
    PROVE  IInv'
<1>1. tx'[t] = None /\ tx' = [tx EXCEPT ![t] = tx'[t]]
  BY DEF Close, IInv, DbTyped
<1>2. TxOK(t)'
  BY <1>1 DEF TxOK
<1>3. QED
  BY <1>1, <1>2, LocalStep

-----------------------------------------------------------------------------
(* The initial state.                                                               *)

LEMMA NothingFromNothing ==
    ASSUME NEW pol
    PROVE  Selection({}, pol) = NothingSelected
BY DEF Selection, NothingSelected, Accepts

LEMMA InitInv == Init => IInv
<1> SUFFICES ASSUME Init
             PROVE  IInv
  OBVIOUS
<1>1. ASSUME NEW s \in Submission
      PROVE  /\ RowTyped(row[s]) /\ row[s].results = {}
             /\ row[s].exists => s \in DOMAIN InitialRows
             /\ ~row[s].exists => row[s].contest = None
             /\ row[s].shown.global = NothingSelected /\ row[s].shown.contest = NothingSelected
  <2>1. CASE s \in DOMAIN InitialRows
    <3>1. row[s] = NewRow(s, TRUE, InitialRows[s]) /\ InitialRows[s] \in Contest \cup {None}
      BY <2>1, EffectiveAssumption DEF Init
    <3>2. QED
      BY <2>1, <3>1 DEF NewRow, RowTyped
  <2>2. CASE s \notin DOMAIN InitialRows
    <3>1. row[s] = NewRow(s, FALSE, None)
      BY <2>2 DEF Init
    <3>2. QED
      BY <3>1 DEF NewRow, RowTyped
  <2>3. QED
    BY <2>1, <2>2
<1>2. ASSUME NEW pair \in Pair
      PROVE  /\ binding[pair] \in Binding \cup {None}
             /\ binding[pair] # None => binding[pair].policy = AnyVersion
  BY EffectiveAssumption DEF Init, Binding, Policy, Pair
<1>3. DbTyped
  <2>1. policy \in [Problem -> PolicyRow]
    BY DEF Init, PolicyRow, Policy
  <2>2. binding \in [Pair -> Binding \cup {None}]
    BY <1>2 DEF Init
  <2>3. contest \in [Contest -> ContestRow]
    BY EffectiveAssumption DEF Init, ContestRow
  <2>4. row = [s \in Submission |-> row[s]] /\ tx = [t \in Transaction |-> tx[t]]
    BY DEF Init
  <2>5. /\ data \in Nat /\ now \in Nat /\ unannounced \in BOOLEAN
        /\ view.revision \in Nat /\ view.at \in Nat /\ requests \subseteq Request
    BY DEF Init
  <2>6. QED
    BY <1>1, <2>1, <2>2, <2>3, <2>4, <2>5 DEF DbTyped
<1>4. \A t \in Transaction : tx[t] = None
  BY DEF Init
<1>5. Exclusive /\ CreationsOK /\ \A t \in Transaction : TxOK(t)
  BY <1>4 DEF Exclusive, CreationsOK, OnRow, Creates, TxOK
<1>6. RowsOK
  <2>1. \A s \in Submission : row[s].contest # None => contest[row[s].contest].exists
    BY <1>1 DEF Init, RowTyped
  <2>2. \A pair \in Pair : contest[pair[1]].exists
    BY DEF Init, Pair
  <2>3. QED
    BY <1>1, <2>1, <2>2 DEF RowsOK, Created
<1>7. ProjectionsOK
  <2>1. \A s \in Submission : /\ row[s].shown.global = Selection(row[s].results, policy[ProblemOf[s]].policy)
                              /\ row[s].results = {}
    BY <1>1, NothingFromNothing
  <2>2. \A s \in Submission : \A pol : row[s].shown.contest = Selection(row[s].results, pol)
    BY <1>1, NothingFromNothing
  <2>3. QED
    BY <1>2, <2>1, <2>2 DEF ProjectionsOK, GlobalProjectionCurrent, ContestProjectionCurrent
<1>8. ViewOK
  BY DEF Init, ViewOK
<1>9. QED
  BY <1>3, <1>5, <1>6, <1>7, <1>8 DEF IInv

-----------------------------------------------------------------------------
(* What is left to do.                                                              *)

LEMMA Concatenation ==
    ASSUME NEW S, NEW a \in Seq(S), NEW b \in Seq(S), b # <<>>,
           NEW c, c = a \o Tail(b)
    PROVE  /\ c \in Seq(S) /\ Len(c) = Len(a) + Len(b) - 1
           /\ \A i \in 1..Len(a) : i \in DOMAIN c /\ c[i] = a[i]
           /\ \A i \in 2..Len(b) : Len(a) + i - 1 \in DOMAIN c /\ c[Len(a) + i - 1] = b[i]
           /\ \A i \in DOMAIN c : \/ i \in 1..Len(a)
                                  \/ i - Len(a) + 1 \in 2..Len(b) /\ c[i] = b[i - Len(a) + 1]
OBVIOUS

(* The next transaction record after Continue.                                      *)
LEMMA ContinueRecord ==
    ASSUME DbTyped, NEW t \in Transaction, TxTyped(t), NEW ops, NEW w, Continue(t, ops, w)
    PROVE  /\ tx' = [tx EXCEPT ![t] = tx'[t]]
           /\ tx'[t] = [request |-> tx[t].request, todo |-> ops \o Tail(tx[t].todo),
                        held |-> tx[t].held, seen |-> tx[t].seen, writes |-> w,
                        start |-> tx[t].start]
BY DEF Continue, DbTyped, TxTyped

(* Who takes a step holds every lock of the request.                                *)
LEMMA StepHasLocks ==
    ASSUME NEW t \in Transaction, tx[t] # None, TxOK(t), tx[t].todo # <<>>,
           IsStep(Head(tx[t].todo))
    PROVE  /\ \A lock \in BaseLocks(tx[t].request) : Secured(t, lock)
           /\ tx[t].request.kind \in {"result", "remove"} =>
                 LET c == row[tx[t].request.submission].contest
                 IN  c # None => Secured(t, <<<<"contest", c>>, "share">>)
           /\ ~Untried(t)
           /\ tx[t].request.kind \notin {"change", "batch"} => Len(tx[t].todo) = 1
<1>1. tx[t].todo \in Seq(Op) /\ 1 \in DOMAIN tx[t].todo /\ Head(tx[t].todo) = tx[t].todo[1]
  BY DEF TxOK, TxTyped
<1>2. \A op : ~Ahead(t, op)
  BY <1>1 DEF Ahead
<1>3. ~Untried(t)
  <2> SUFFICES ASSUME tx[t].todo = <<<<"try">>>>
               PROVE  FALSE
    BY DEF Untried
  <2>1. tx[t].todo[1] = <<"try">>
    OBVIOUS
  <2>2. tx[t].todo[1][1] = "try"
    BY <2>1
  <2>3. QED
    BY <1>1, <2>2 DEF IsStep
<1>4. QED
  BY <1>1, <1>2, <1>3 DEF TxOK, BaseLocked, RowContestLocked, Planned, OpsOK

LEMMA SecuredKept ==
    ASSUME NEW t \in Transaction, tx[t].held \subseteq tx'[t].held, UNCHANGED contest,
           NEW lock, Secured(t, lock)
    PROVE  Secured(t, lock)'
BY DEF Secured

LEMMA LastOfBoth ==
    ASSUME NEW a \in Nat, NEW b \in Nat, NEW n \in Nat, NEW i \in Nat,
           n = a + b - 1, b = i - a + 1
    PROVE  i = n
OBVIOUS

(* A step that goes on with more locks to take, and more to write.                  *)
LEMMA StepTaken ==
    ASSUME DbTyped, NEW t \in Transaction, tx[t] # None, TxOK(t), tx[t].todo # <<>>,
           IsStep(Head(tx[t].todo)),
           NEW ops \in Seq(LockOp), NEW w, Continue(t, ops, w),
           w = [policy |-> w.policy, binding |-> w.binding, contest |-> w.contest,
                shown |-> w.shown, view |-> w.view, bumps |-> w.bumps],
           w.bumps \in Nat, UNCHANGED <<committed, now, requests>>
    PROVE  /\ tx' = [tx EXCEPT ![t] = tx'[t]]
           /\ tx'[t].request = tx[t].request /\ tx'[t].held = tx[t].held
           /\ tx'[t].seen = tx[t].seen /\ tx'[t].writes = w /\ tx'[t].start = tx[t].start
           /\ \A i \in 1..Len(ops) : i \in DOMAIN tx'[t].todo /\ tx'[t].todo[i] = ops[i]
           /\ TxTyped(t)' /\ OpsOK(t)' /\ BaseLocked(t)' /\ RowContestLocked(t)' /\ SeenOK(t)'
           /\ tx[t].request.kind \notin {"change", "batch"} => NoStep(t)' /\ tx'[t].todo = ops
<1> DEFINE x == tx'[t]
<1>1. TxTyped(t) /\ OpsOK(t) /\ SeenOK(t) /\ tx[t].todo \in Seq(Op)
  BY DEF TxOK, TxTyped
<1>2. /\ tx' = [tx EXCEPT ![t] = tx'[t]]
      /\ x = [request |-> tx[t].request, todo |-> ops \o Tail(tx[t].todo),
              held |-> tx[t].held, seen |-> tx[t].seen, writes |-> w, start |-> tx[t].start]
  BY <1>1, ContinueRecord
<1>3. /\ x.request = tx[t].request /\ x.held = tx[t].held /\ x.seen = tx[t].seen
      /\ x.writes = w /\ x.start = tx[t].start /\ x.todo = ops \o Tail(tx[t].todo)
  BY <1>2
<1>4. ops \in Seq(Op) /\ \A i \in 1..Len(ops) : ops[i][1] = "lock" /\ ~IsStep(ops[i])
  <2>1. \A op \in LockOp : op \in Op /\ op[1] = "lock" /\ ~IsStep(op)
    BY DEF LockOp, Op, IsStep
  <2>2. QED
    BY <2>1
<1>5. /\ x.todo \in Seq(Op) /\ Len(x.todo) = Len(ops) + Len(tx[t].todo) - 1
      /\ \A i \in 1..Len(ops) : i \in DOMAIN x.todo /\ x.todo[i] = ops[i]
      /\ \A i \in DOMAIN x.todo :
            \/ i \in 1..Len(ops)
            \/ i - Len(ops) + 1 \in 2..Len(tx[t].todo) /\ x.todo[i] = tx[t].todo[i - Len(ops) + 1]
  BY <1>1, <1>3, <1>4, Concatenation
<1>6. TxTyped(t)'
  BY <1>1, <1>2, <1>3, <1>5 DEF TxTyped
<1>7. OpsOK(t)'
  <2> SUFFICES ASSUME NEW i \in DOMAIN x.todo
               PROVE  /\ x.todo[i][1] # "lock" => x.todo[i] \in OpsOf(x.request)
                      /\ IsStep(x.todo[i]) /\ x.request.kind \notin {"change", "batch"}
                            => i = Len(x.todo)
    BY DEF OpsOK
  <2>1. CASE i \in 1..Len(ops)
    BY <1>4, <1>5, <2>1
  <2>2. CASE i - Len(ops) + 1 \in 2..Len(tx[t].todo) /\ x.todo[i] = tx[t].todo[i - Len(ops) + 1]
    <3>1. PICK k \in DOMAIN tx[t].todo : k = i - Len(ops) + 1 /\ x.todo[i] = tx[t].todo[k]
      BY <1>1, <2>2
    <3>2. /\ tx[t].todo[k][1] # "lock" => tx[t].todo[k] \in OpsOf(tx[t].request)
          /\ IsStep(tx[t].todo[k]) /\ tx[t].request.kind \notin {"change", "batch"}
                => k = Len(tx[t].todo)
      BY <1>1 DEF OpsOK
    <3> HIDE DEF x
    <3>3. k = Len(tx[t].todo) => i = Len(x.todo)
      <4>1. /\ i \in Nat /\ Len(ops) \in Nat /\ Len(tx[t].todo) \in Nat /\ k \in Nat
            /\ Len(x.todo) \in Nat
        BY <1>1, <1>4, <1>5
      <4>2. Len(x.todo) = Len(ops) + Len(tx[t].todo) - 1 /\ k = i - Len(ops) + 1
        BY <1>5, <3>1
      <4>3. SUFFICES ASSUME k = Len(tx[t].todo)
                     PROVE  i = Len(x.todo)
        OBVIOUS
      <4>4. Len(tx[t].todo) = i - Len(ops) + 1
        BY <4>2, <4>3
      <4>5. Len(x.todo) = Len(ops) + Len(tx[t].todo) - 1
        BY <4>2
      <4>6. QED
        BY <4>1, <4>4, <4>5, LastOfBoth
    <3>4. QED
      BY <1>3, <3>1, <3>2, <3>3
  <2>3. QED
    BY <1>5, <2>1, <2>2
<1>8. BaseLocked(t)' /\ RowContestLocked(t)'
  <2>1. \A lock : Secured(t, lock) => Secured(t, lock)'
    BY <1>3, SecuredKept DEF committed
  <2>2. UNCHANGED row
    BY DEF committed
  <2>3. QED
    BY <1>3, <2>1, <2>2, StepHasLocks DEF BaseLocked, RowContestLocked, Planned
<1>9. SeenOK(t)'
  BY <1>1, <1>3 DEF SeenOK, committed
<1>10. ASSUME tx[t].request.kind \notin {"change", "batch"}
       PROVE  NoStep(t)' /\ x.todo = ops
  <2>1. Len(tx[t].todo) = 1
    BY <1>10, StepHasLocks
  <2>2. x.todo = ops
    BY <1>1, <1>3, <2>1
  <2>3. QED
    BY <1>4, <1>5, <2>1, <2>2 DEF NoStep
<1>11. QED
  BY <1>2, <1>3, <1>5, <1>6, <1>7, <1>8, <1>9, <1>10


-----------------------------------------------------------------------------
(* Steps of results, new submissions and deletions of submissions.                  *)

(* What the operation to take next says of the request.                             *)
LEMMA HeadOp ==
    ASSUME NEW t \in Transaction, TxOK(t), NEW name, Running(t, name), name # "lock"
    PROVE  /\ tx[t] # None /\ tx[t].todo # <<>> /\ tx[t].todo \in Seq(Op)
           /\ tx[t].request \in (Request \ requests) \cup SystemRequests
           /\ Head(tx[t].todo) \in OpsOf(tx[t].request)
           /\ name \notin {"contest of row", "try"} => IsStep(Head(tx[t].todo))
           /\ name \in {"contest of row", "result"} => tx[t].request.kind = "result"
           /\ name = "create" => tx[t].request.kind = "create"
           /\ name = "remove" => tx[t].request.kind = "remove"
           /\ name = "change" => tx[t].request.kind \in {"change", "batch"}
           /\ name = "edit" => tx[t].request.kind = "edit"
           /\ name = "cascade" => tx[t].request.kind = "delete"
           /\ name \in {"try", "refresh"} => tx[t].request.kind = "refresh"
           /\ name \notin {"try", "refresh"} => tx[t].request \in Request \ requests
<1> DEFINE op == Head(tx[t].todo)
           q == tx[t].request
<1>1. /\ tx[t] # None /\ tx[t].todo # <<>> /\ tx[t].todo \in Seq(Op) /\ op[1] = name
      /\ q \in (Request \ requests) \cup SystemRequests
  BY DEF Running, TxOK, TxTyped
<1>2. op \in OpsOf(q)
  <2>1. 1 \in DOMAIN tx[t].todo /\ op = tx[t].todo[1]
    BY <1>1
  <2>2. QED
    BY <1>1, <2>1 DEF TxOK, OpsOK
<1>3. name \notin {"contest of row", "try"} => IsStep(op)
  BY <1>1 DEF IsStep
<1>4. \A ch : ch \in {"change"} \X q.changes => ch[1] = "change"
  OBVIOUS
<1>5. /\ <<"contest of row">>[1] = "contest of row" /\ <<"result">>[1] = "result"
      /\ <<"create">>[1] = "create" /\ <<"remove">>[1] = "remove" /\ <<"edit">>[1] = "edit"
      /\ <<"cascade">>[1] = "cascade" /\ <<"try">>[1] = "try" /\ <<"refresh">>[1] = "refresh"
  OBVIOUS
<1>6. q \in Request => q.kind \in {"result", "create", "remove", "change", "batch", "edit",
                                   "delete", "convert"}
  BY RequestFacts
<1>7. q \in SystemRequests => q.kind \in {"refresh", "announce"}
  BY SystemFacts
<1> HIDE DEF op, q
<1>8. /\ q.kind = "result" => name \in {"contest of row", "result"}
      /\ q.kind = "create" => name = "create"
      /\ q.kind = "remove" => name = "remove"
      /\ q.kind \in {"change", "batch"} => name = "change"
      /\ q.kind = "edit" => name = "edit"
      /\ q.kind = "delete" => name = "cascade"
      /\ q.kind = "refresh" => name \in {"try", "refresh"}
      /\ q.kind \notin {"convert", "announce"}
  BY <1>1, <1>2, <1>4, <1>5 DEF OpsOf
<1>9. QED
  BY <1>1, <1>2, <1>3, <1>6, <1>7, <1>8 DEF op, q

AllBump == Lock("revision of all", 0, "update")

LEMMA OneElement ==
    ASSUME NEW S, NEW x \in S, NEW seq, seq = <<x>>
    PROVE  seq \in Seq(S) /\ Len(seq) = 1 /\ seq # <<>> /\ \A i \in 1..1 : seq[i] = x
OBVIOUS

LEMMA LockOps ==
    ASSUME NEW table, NEW id, <<table, id>> \in Object, NEW mode \in Mode,
           table = "revision of all" => mode = "update"
    PROVE  Lock(table, id, mode) \in LockOp /\ <<Lock(table, id, mode)>> \in Seq(LockOp)
<1> DEFINE op == <<"lock", <<table, id>>, mode>>
<1>1. op \in {"lock"} \X Object \X Mode /\ op[2][1] = table /\ op[3] = mode
  OBVIOUS
<1> HIDE DEF op
<1>2. op \in LockOp
  BY <1>1 DEF LockOp
<1>3. <<op>> \in Seq(LockOp)
  <2>1. PICK seq : seq = <<op>>
    OBVIOUS
  <2>2. seq \in Seq(LockOp)
    BY <1>2, <2>1, OneElement
  <2>3. QED
    BY <2>1, <2>2
<1>4. QED
  BY <1>2, <1>3 DEF op, Lock

LEMMA Appended ==
    ASSUME NEW S, NEW a \in Seq(S), NEW x \in S, NEW c, c = a \o <<x>>
    PROVE  c \in Seq(S) /\ Len(c) = Len(a) + 1 /\ Len(c) \in 1..Len(c) /\ c[Len(c)] = x
OBVIOUS

LEMMA Joined ==
    ASSUME NEW S, NEW a \in Seq(S), NEW b \in Seq(S)
    PROVE  a \o b \in Seq(S)
OBVIOUS

(* The locks of the revisions that a step raises, that of all the data last.        *)
LEMMA BumpOps ==
    ASSUME NEW p \in Problem, NEW c \in Contest \cup {None}
    PROVE  LET ops == bumpProblem(p) \o bumpContest(c) \o bumpGlobal
           IN  ops \in Seq(LockOp) /\ \E i \in 1..Len(ops) : ops[i] = AllBump
<1> DEFINE first == bumpProblem(p) \o bumpContest(c)
           ops == first \o bumpGlobal
<1>1. bumpProblem(p) \in Seq(LockOp) /\ AllBump \in LockOp
  BY LockOps DEF bumpProblem, AllBump, Object, Mode
<1>2. bumpContest(c) \in Seq(LockOp)
  <2>1. CASE c = None
    BY <2>1 DEF bumpContest
  <2>2. CASE c \in Contest /\ c # None
    BY <2>2, LockOps DEF bumpContest, Object, Mode
  <2>3. QED
    BY <2>1, <2>2
<1>3. first \in Seq(LockOp)
  BY <1>1, <1>2, Joined
<1> HIDE DEF first
<1>4. ops = first \o <<AllBump>>
  BY DEF bumpGlobal, AllBump
<1> HIDE DEF ops
<1>5. ops \in Seq(LockOp) /\ Len(ops) \in 1..Len(ops) /\ ops[Len(ops)] = AllBump
  BY <1>1, <1>3, <1>4, Appended
<1>6. QED
  BY <1>5 DEF ops, first

LEMMA RowBumpOps ==
    ASSUME NEW S, IsFiniteSet(S), S \subseteq Submission, NEW order \in SetToSeqs(S),
           NEW bump \in Seq(LockOp)
    PROVE  LET ops == Locks("submission", order, "update") \o bump \o bumpGlobal
           IN  ops \in Seq(LockOp) /\ \E i \in 1..Len(ops) : ops[i] = AllBump
<1> DEFINE rows == Locks("submission", order, "update")
           first == rows \o bump
           ops == first \o bumpGlobal
<1>1. AllBump \in LockOp
  BY LockOps DEF AllBump, Object, Mode
<1>2. rows \in Seq(LockOp)
  <2>1. order \in Seq(S)
    BY Enumeration
  <2>2. \A s \in S : Lock("submission", s, "update") \in LockOp
    BY LockOps DEF Object, Mode
  <2>3. QED
    BY <2>1, <2>2 DEF Locks
<1>3. first \in Seq(LockOp)
  BY <1>2, Joined
<1> HIDE DEF first
<1>4. ops = first \o <<AllBump>>
  BY DEF bumpGlobal, AllBump
<1> HIDE DEF ops
<1>5. ops \in Seq(LockOp) /\ Len(ops) \in 1..Len(ops) /\ ops[Len(ops)] = AllBump
  BY <1>1, <1>3, <1>4, Appended
<1>6. QED
  BY <1>5 DEF ops, first

(* The revision is raised once its lock is taken.                                   *)
LEMMA BumpAhead ==
    ASSUME NEW t \in Transaction, BumpsOK(t), tx'[t].writes.bumps = tx[t].writes.bumps,
           tx'[t].held = tx[t].held,
           \E i \in DOMAIN tx'[t].todo : tx'[t].todo[i] = AllBump
    PROVE  BumpsOK(t)'
BY DEF BumpsOK, AllBump

LEMMA ResultInv ==
    ASSUME IInv, NEW t \in Transaction, applyAttemptResult(t)
    PROVE  IInv'
<1> DEFINE s == tx[t].request.submission
           p == ProblemOf[s]
           shown == Projection(Upsert(row[s].results, tx[t].request.result), policy[p],
                               BindingOf(binding, row[s].contest, p))
<1>1. DbTyped /\ TxOK(t) /\ Running(t, "result") /\ UNCHANGED <<committed, now, requests>>
  BY DEF IInv, applyAttemptResult
<1>2. /\ tx[t] # None /\ tx[t].todo # <<>> /\ IsStep(Head(tx[t].todo))
      /\ tx[t].request.kind = "result" /\ tx[t].request \in Request
  BY <1>1, HeadOp
<1>3. s \in Submission /\ p \in Problem
  BY <1>2, RequestFacts
<1>4. CASE ~row[s].exists
  BY <1>1, <1>4, CloseStep DEF applyAttemptResult
<1>5. CASE row[s].exists
  <2>1. PICK ops : ops = bumpProblem(p) \o bumpContest(row[s].contest) \o bumpGlobal
    OBVIOUS
  <2>2. PICK w : w = [tx[t].writes EXCEPT !.shown = Only(s, shown)]
    OBVIOUS
  <2>3. Continue(t, ops, w)
    BY <1>5, <2>1, <2>2 DEF applyAttemptResult
  <2>4. ops \in Seq(LockOp) /\ \E i \in 1..Len(ops) : ops[i] = AllBump
    BY <1>1, <1>3, <2>1, BumpOps DEF DbTyped, RowTyped
  <2> HIDE DEF shown
  <2>5. /\ TxTyped(t) /\ tx[t].writes.bumps \in Nat
        /\ NoHostWrites(tx[t].writes) /\ tx[t].writes.view = None
    BY <1>1, <1>2 DEF TxOK, TxTyped, ResultReady
  <2>6. /\ w = [policy |-> w.policy, binding |-> w.binding, contest |-> w.contest,
                shown |-> w.shown, view |-> w.view, bumps |-> w.bumps]
        /\ w.bumps = tx[t].writes.bumps /\ w.shown = Only(s, shown)
        /\ NoHostWrites(w) /\ w.view = None
    BY <2>2, <2>5 DEF TxTyped, NoHostWrites
  <2>7. /\ tx' = [tx EXCEPT ![t] = tx'[t]]
        /\ tx'[t].request = tx[t].request /\ tx'[t].held = tx[t].held /\ tx'[t].writes = w
        /\ \A i \in 1..Len(ops) : i \in DOMAIN tx'[t].todo /\ tx'[t].todo[i] = ops[i]
        /\ TxTyped(t)' /\ OpsOK(t)' /\ BaseLocked(t)' /\ RowContestLocked(t)' /\ SeenOK(t)'
        /\ NoStep(t)'
    BY <1>1, <1>2, <2>3, <2>4, <2>5, <2>6, StepTaken
  <2>8. ResultReady(t)'
    BY <1>1, <1>2, <1>5, <2>6, <2>7 DEF ResultReady, shown, Bound, committed, NoHostWrites
  <2>9. BumpsOK(t)'
    BY <1>1, <1>2, <2>4, <2>6, <2>7, BumpAhead DEF TxOK
  <2>10. TxOK(t)'
    BY <1>2, <2>7, <2>8, <2>9 DEF TxOK, CreateReady, RemoveReady, ChangeReady, EditReady,
       DeleteReady, OtherReady, RefreshReady
  <2>11. QED
    BY <1>1, <1>2, <2>7, <2>10, LocalStep
<1>6. QED
  BY <1>4, <1>5

LEMMA CreateInv ==
    ASSUME IInv, NEW t \in Transaction, createSubmission(t)
    PROVE  IInv'
<1> DEFINE q == tx[t].request
           bound == BindingOf(binding, q.contest, ProblemOf[q.submission])
           refused == q.contest # None /\ (bound = None \/ bound.pinned # q.version)
<1>1. DbTyped /\ TxOK(t) /\ Running(t, "create") /\ UNCHANGED <<committed, now, requests>>
  BY DEF IInv, createSubmission
<1>2. /\ tx[t] # None /\ tx[t].todo # <<>> /\ IsStep(Head(tx[t].todo))
      /\ q.kind = "create" /\ q \in Request
  BY <1>1, HeadOp
<1>3. ProblemOf[q.submission] \in Problem /\ q.contest \in Contest \cup {None}
  BY <1>2, RequestFacts
<1>4. CASE refused
  BY <1>1, <1>4, CloseStep DEF createSubmission
<1>5. CASE ~refused
  <2>1. PICK ops : ops = bumpProblem(ProblemOf[q.submission]) \o bumpContest(q.contest) \o bumpGlobal
    OBVIOUS
  <2>2. PICK w : w = tx[t].writes
    OBVIOUS
  <2>3. Continue(t, ops, w)
    BY <1>5, <2>1, <2>2 DEF createSubmission
  <2>4. ops \in Seq(LockOp) /\ \E i \in 1..Len(ops) : ops[i] = AllBump
    BY <1>3, <2>1, BumpOps
  <2>5. /\ w = [policy |-> w.policy, binding |-> w.binding, contest |-> w.contest,
                shown |-> w.shown, view |-> w.view, bumps |-> w.bumps]
        /\ w.bumps \in Nat /\ w.bumps = tx[t].writes.bumps /\ NoHostWrites(w) /\ w.view = None
    BY <1>1, <1>2, <2>2 DEF TxOK, TxTyped, CreateReady
  <2>6. q.contest # None =>
            /\ binding[<<q.contest, ProblemOf[q.submission]>>] # None
            /\ binding[<<q.contest, ProblemOf[q.submission]>>].pinned = q.version
    BY <1>5 DEF BindingOf
  <2>7. /\ tx' = [tx EXCEPT ![t] = tx'[t]]
        /\ tx'[t].request = q /\ tx'[t].held = tx[t].held /\ tx'[t].writes = w
        /\ \A i \in 1..Len(ops) : i \in DOMAIN tx'[t].todo /\ tx'[t].todo[i] = ops[i]
        /\ TxTyped(t)' /\ OpsOK(t)' /\ BaseLocked(t)' /\ RowContestLocked(t)' /\ SeenOK(t)'
    BY <1>1, <1>2, <2>3, <2>4, <2>5, StepTaken
  <2>8. CreateReady(t)'
    BY <1>1, <2>5, <2>6, <2>7 DEF CreateReady, committed
  <2>9. BumpsOK(t)'
    BY <1>1, <1>2, <2>4, <2>5, <2>7, BumpAhead DEF TxOK
  <2>10. TxOK(t)'
    BY <1>2, <2>7, <2>8, <2>9 DEF TxOK, ResultReady, RemoveReady, ChangeReady, EditReady,
       DeleteReady, OtherReady, RefreshReady
  <2>11. QED
    BY <1>1, <1>2, <2>7, <2>10, LocalStep
<1>6. QED
  BY <1>4, <1>5

LEMMA RemoveInv ==
    ASSUME IInv, NEW t \in Transaction, deleteSubmission(t)
    PROVE  IInv'
<1> DEFINE s == tx[t].request.submission
<1>1. DbTyped /\ TxOK(t) /\ Running(t, "remove") /\ UNCHANGED <<committed, now, requests>>
  BY DEF IInv, deleteSubmission
<1>2. /\ tx[t] # None /\ tx[t].todo # <<>> /\ IsStep(Head(tx[t].todo))
      /\ tx[t].request.kind = "remove" /\ tx[t].request \in Request
  BY <1>1, HeadOp
<1>3. ProblemOf[s] \in Problem /\ row[s].contest \in Contest \cup {None}
  BY <1>1, <1>2, RequestFacts DEF DbTyped, RowTyped
<1>4. CASE Close(t)
  BY <1>1, <1>4, CloseStep
<1>5. CASE ~Close(t)
  <2>1. PICK ops : ops = bumpProblem(ProblemOf[s]) \o bumpContest(row[s].contest) \o bumpGlobal
    OBVIOUS
  <2>2. PICK w : w = tx[t].writes
    OBVIOUS
  <2>3. Continue(t, ops, w)
    BY <1>5, <2>1, <2>2 DEF deleteSubmission
  <2>4. ops \in Seq(LockOp) /\ \E i \in 1..Len(ops) : ops[i] = AllBump
    BY <1>3, <2>1, BumpOps
  <2>5. /\ w = [policy |-> w.policy, binding |-> w.binding, contest |-> w.contest,
                shown |-> w.shown, view |-> w.view, bumps |-> w.bumps]
        /\ w.bumps \in Nat /\ w.bumps = tx[t].writes.bumps /\ NoHostWrites(w) /\ w.view = None
    BY <1>1, <1>2, <2>2 DEF TxOK, TxTyped, RemoveReady
  <2>6. /\ tx' = [tx EXCEPT ![t] = tx'[t]]
        /\ tx'[t].request = tx[t].request /\ tx'[t].held = tx[t].held /\ tx'[t].writes = w
        /\ \A i \in 1..Len(ops) : i \in DOMAIN tx'[t].todo /\ tx'[t].todo[i] = ops[i]
        /\ TxTyped(t)' /\ OpsOK(t)' /\ BaseLocked(t)' /\ RowContestLocked(t)' /\ SeenOK(t)'
    BY <1>1, <1>2, <2>3, <2>4, <2>5, StepTaken
  <2>7. RemoveReady(t)'
    BY <1>1, <2>5, <2>6 DEF RemoveReady, NoHostWrites
  <2>8. BumpsOK(t)'
    BY <1>1, <1>2, <2>4, <2>5, <2>6, BumpAhead DEF TxOK
  <2>9. TxOK(t)'
    BY <1>2, <2>6, <2>7, <2>8 DEF TxOK, ResultReady, CreateReady, ChangeReady, EditReady,
       DeleteReady, OtherReady, RefreshReady
  <2>10. QED
    BY <1>1, <1>2, <2>6, <2>9, LocalStep
<1>6. QED
  BY <1>4, <1>5

-----------------------------------------------------------------------------
(* Steps that take locks.                                                           *)

LEMMA PairFacts ==
    ASSUME NEW A, NEW B, NEW x \in A \X B
    PROVE  x = <<x[1], x[2]>> /\ x[1] \in A /\ x[2] \in B
OBVIOUS

LEMMA TripleFacts ==
    ASSUME NEW A, NEW B, NEW C, NEW x \in A \X B \X C
    PROVE  x = <<x[1], x[2], x[3]>> /\ x[1] \in A /\ x[2] \in B /\ x[3] \in C
OBVIOUS

LEMMA ObjectFacts ==
    ASSUME NEW o \in Object
    PROVE  /\ o = <<o[1], o[2]>>
           /\ o[1] = "revision of all" => o[2] = 0
           /\ o[1] = "contest" => o[2] \in Contest
           /\ o[1] # "advisory"
<1>1. PICK A, B, C : /\ A = {"problem", "revision of problem"}
                     /\ B = {"contest", "revision of contest"} /\ C = {"submission"}
  OBVIOUS
<1>2. \/ o \in A \X Problem \/ o \in B \X Contest \/ o \in C \X Submission
      \/ o = <<"revision of all", 0>>
  BY <1>1 DEF Object
<1>3. CASE o \in A \X Problem
  <2>1. o = <<o[1], o[2]>> /\ o[1] \in A
    BY <1>3, PairFacts
  <2>2. QED
    BY <1>1, <2>1
<1>4. CASE o \in B \X Contest
  <2>1. o = <<o[1], o[2]>> /\ o[1] \in B /\ o[2] \in Contest
    BY <1>4, PairFacts
  <2>2. QED
    BY <1>1, <2>1
<1>5. CASE o \in C \X Submission
  <2>1. o = <<o[1], o[2]>> /\ o[1] \in C
    BY <1>5, PairFacts
  <2>2. QED
    BY <1>1, <2>1
<1>6. CASE o = <<"revision of all", 0>>
  BY <1>6
<1>7. QED
  BY <1>2, <1>3, <1>4, <1>5, <1>6

LEMMA LockOpFacts ==
    ASSUME NEW op \in LockOp
    PROVE  /\ op \in Op /\ op = <<op[1], op[2], op[3]>> /\ op[1] = "lock" /\ ~IsStep(op)
           /\ op[2] \in Object /\ op[3] \in Mode
           /\ op[2][1] = "revision of all" => op = AllBump
           /\ op[2][1] = "contest" => op[2][2] \in Contest
<1>1. op \in {"lock"} \X Object \X Mode /\ (op[2][1] = "revision of all" => op[3] = "update")
  BY DEF LockOp
<1>2. op = <<op[1], op[2], op[3]>> /\ op[1] = "lock" /\ op[2] \in Object /\ op[3] \in Mode
  <2>1. PICK A : A = {"lock"}
    OBVIOUS
  <2>2. op \in A \X Object \X Mode
    BY <1>1, <2>1
  <2>3. op = <<op[1], op[2], op[3]>> /\ op[1] \in A /\ op[2] \in Object /\ op[3] \in Mode
    BY <2>2, TripleFacts
  <2>4. QED
    BY <2>1, <2>3
<1>3. op \in Op /\ ~IsStep(op)
  BY <1>2 DEF Op, IsStep
<1>4. op[2][1] = "revision of all" => op = AllBump
  <2>1. op[2][1] = "revision of all" => op[2] = <<"revision of all", 0>>
    BY <1>2, ObjectFacts
  <2>2. QED
    BY <1>1, <1>2, <2>1 DEF AllBump, Lock
<1>5. QED
  BY <1>2, <1>3, <1>4, ObjectFacts

(* The next operation, which is no step, gives way to locks to take.                *)
LEMMA Shifted ==
    ASSUME NEW t \in Transaction, OpsOK(t), tx[t].todo \in Seq(Op), tx[t].todo # <<>>,
           NEW op, op = Head(tx[t].todo), ~IsStep(op), NEW ops \in Seq(LockOp),
           tx'[t].todo = ops \o Tail(tx[t].todo), tx'[t].request = tx[t].request
    PROVE  /\ tx'[t].todo \in Seq(Op) /\ OpsOK(t)' /\ NoStep(t)' = NoStep(t)
           /\ \A other : Ahead(t, other) /\ other # op => Ahead(t, other)'
           /\ Ahead(t, op) => \A k \in 1..Len(ops) : Ahead(t, ops[k])'
           /\ \A i \in DOMAIN tx[t].todo :
                 tx[t].todo[i] # op => \E j \in DOMAIN tx'[t].todo : tx'[t].todo[j] = tx[t].todo[i]
           /\ \A j \in DOMAIN tx'[t].todo : \/ tx'[t].todo[j] \in LockOp
                                            \/ \E i \in 2..Len(tx[t].todo) : tx'[t].todo[j] = tx[t].todo[i]
<1> DEFINE a == Len(ops)
           b == tx[t].todo
           c == tx'[t].todo
<1>0. a \in Nat /\ Len(b) \in Nat /\ Len(b) >= 1 /\ op = b[1] /\ DOMAIN b = 1..Len(b)
  OBVIOUS
<1>1. ops \in Seq(Op) /\ \A k \in 1..a : ops[k] \in LockOp /\ ops[k][1] = "lock" /\ ~IsStep(ops[k])
  <2>1. \A o \in LockOp : o \in Op /\ o[1] = "lock" /\ ~IsStep(o)
    BY LockOpFacts
  <2> HIDE DEF IsStep
  <2>2. QED
    BY <2>1
<1>2. /\ c \in Seq(Op) /\ Len(c) = a + Len(b) - 1
      /\ \A i \in 1..a : i \in DOMAIN c /\ c[i] = ops[i]
      /\ \A i \in 2..Len(b) : a + i - 1 \in DOMAIN c /\ c[a + i - 1] = b[i]
      /\ \A i \in DOMAIN c : \/ i \in 1..a
                             \/ i - a + 1 \in 2..Len(b) /\ c[i] = b[i - a + 1]
  <2>1. b \in Seq(Op) /\ b # <<>> /\ c = ops \o Tail(b)
    OBVIOUS
  <2> HIDE DEF b, c
  <2>2. QED
    BY <1>1, <2>1, Concatenation
<1>3. DOMAIN c = 1..Len(c) /\ Len(c) \in Nat
  BY <1>2
<1> HIDE DEF a, b, c
<1>4. OpsOK(t)'
  <2> SUFFICES ASSUME NEW i \in DOMAIN c
               PROVE  /\ c[i][1] # "lock" => c[i] \in OpsOf(tx[t].request)
                      /\ IsStep(c[i]) /\ tx[t].request.kind \notin {"change", "batch"} => i = Len(c)
    BY DEF OpsOK, c
  <2>1. CASE i \in 1..a
    BY <1>1, <1>2, <2>1
  <2>2. CASE i - a + 1 \in 2..Len(b) /\ c[i] = b[i - a + 1]
    <3>1. PICK k \in DOMAIN b : k = i - a + 1 /\ c[i] = b[k]
      BY <1>0, <2>2
    <3>2. /\ b[k][1] # "lock" => b[k] \in OpsOf(tx[t].request)
          /\ IsStep(b[k]) /\ tx[t].request.kind \notin {"change", "batch"} => k = Len(b)
      BY DEF OpsOK, b
    <3>3. i \in Nat /\ k \in Nat
      BY <1>0, <1>3
    <3>4. k = Len(b) => i = Len(c)
      <4>1. SUFFICES ASSUME k = Len(b)
                     PROVE  i = Len(c)
        OBVIOUS
      <4>2. Len(b) = i - a + 1
        BY <3>1, <4>1
      <4>3. QED
        BY <1>0, <1>2, <1>3, <3>3, <4>2, LastOfBoth
    <3>5. QED
      BY <3>1, <3>2, <3>4
  <2>3. QED
    BY <1>2, <2>1, <2>2
<1>5. NoStep(t)' = NoStep(t)
  <2>1. ASSUME NoStep(t)
        PROVE  NoStep(t)'
    <3>1. \A i \in DOMAIN c : ~IsStep(c[i])
      <4> SUFFICES ASSUME NEW i \in DOMAIN c
                   PROVE  ~IsStep(c[i])
        OBVIOUS
      <4>1. CASE i \in 1..a
        BY <1>1, <1>2, <4>1
      <4>2. CASE i - a + 1 \in 2..Len(b) /\ c[i] = b[i - a + 1]
        <5>1. i - a + 1 \in DOMAIN b
          BY <1>0, <4>2
        <5>2. QED
          BY <2>1, <4>2, <5>1 DEF NoStep, b
      <4>3. QED
        BY <1>2, <4>1, <4>2
    <3>2. QED
      BY <3>1 DEF NoStep, c
  <2>2. ASSUME ~NoStep(t)
        PROVE  ~NoStep(t)'
    <3>1. PICK i \in DOMAIN b : IsStep(b[i])
      BY <2>2 DEF NoStep, b
    <3>2. i \in 2..Len(b)
      BY <1>0, <3>1
    <3>3. QED
      BY <1>2, <3>1, <3>2 DEF NoStep, c
  <2>3. NoStep(t) \in BOOLEAN /\ NoStep(t)' \in BOOLEAN
    BY DEF NoStep
  <2>4. QED
    BY <2>1, <2>2, <2>3
<1>6. ASSUME NEW other, Ahead(t, other), other # op
      PROVE  Ahead(t, other)'
  <2>1. PICK i \in DOMAIN b : \E j \in DOMAIN b :
            /\ i < j /\ b[i] = other /\ IsStep(b[j])
            /\ \A k \in 1..i : ~IsStep(b[k])
    BY <1>6 DEF Ahead, b
  <2>2. PICK j \in DOMAIN b : /\ i < j /\ b[i] = other /\ IsStep(b[j])
                              /\ \A k \in 1..i : ~IsStep(b[k])
    BY <2>1
  <2> DEFINE m == a + i - 1
             n == a + j - 1
  <2>3. i \in 2..Len(b) /\ j \in 2..Len(b)
    BY <1>0, <1>6, <2>2
  <2>4. m \in DOMAIN c /\ c[m] = other /\ n \in DOMAIN c /\ IsStep(c[n])
    BY <1>2, <2>2, <2>3
  <2>5. m < n /\ m \in Nat
    BY <1>0, <2>2, <2>3
  <2>6. ASSUME NEW k \in 1..m
        PROVE  ~IsStep(c[k])
    <3>1. k \in DOMAIN c
      BY <1>3, <2>4
    <3>2. CASE k \in 1..a
      BY <1>1, <1>2, <3>2
    <3>3. CASE k - a + 1 \in 2..Len(b) /\ c[k] = b[k - a + 1]
      <4>1. k - a + 1 \in 1..i
        BY <1>0, <2>3, <3>3
      <4>2. QED
        BY <2>2, <3>3, <4>1
    <3>4. QED
      BY <1>2, <3>1, <3>2, <3>3
  <2> HIDE DEF m, n
  <2>7. QED
    BY <2>4, <2>5, <2>6 DEF Ahead, c
<1>7. ASSUME Ahead(t, op), NEW k \in 1..a
      PROVE  Ahead(t, ops[k])'
  <2>1. PICK j \in DOMAIN b : 1 < j /\ IsStep(b[j])
    BY <1>0, <1>7 DEF Ahead, b
  <2> DEFINE n == a + j - 1
  <2>2. n \in DOMAIN c /\ IsStep(c[n]) /\ k < n
    BY <1>0, <1>2, <2>1
  <2>3. k \in DOMAIN c /\ c[k] = ops[k] /\ \A l \in 1..k : ~IsStep(c[l])
    BY <1>0, <1>1, <1>2
  <2> HIDE DEF n
  <2>4. QED
    BY <2>2, <2>3 DEF Ahead, c
<1>8. ASSUME NEW i \in DOMAIN b, b[i] # op
      PROVE  \E j \in DOMAIN c : c[j] = b[i]
  BY <1>0, <1>2, <1>8
<1>9. \A j \in DOMAIN c : c[j] \in LockOp \/ \E i \in 2..Len(b) : c[j] = b[i]
  BY <1>1, <1>2
<1>10. QED
  BY <1>2, <1>4, <1>5, <1>6, <1>7, <1>8, <1>9 DEF a, b, c

(* As long as no step is taken, what is ready to be written stays so.               *)
LEMMA ReadyKept ==
    ASSUME NEW t \in Transaction, tx[t] # None, TxOK(t),
           tx'[t].request = tx[t].request, tx'[t].seen = tx[t].seen,
           NEW w, w = tx'[t].writes, w.policy = tx[t].writes.policy,
           w.binding = tx[t].writes.binding, w.contest = tx[t].writes.contest,
           w.shown = tx[t].writes.shown, w.view = tx[t].writes.view,
           NoStep(t)' = NoStep(t), UNCHANGED <<committed, now>>
    PROVE  /\ ResultReady(t)' /\ CreateReady(t)' /\ RemoveReady(t)' /\ EditReady(t)'
           /\ DeleteReady(t)' /\ OtherReady(t)' /\ ChangeReady(t)' /\ SeenOK(t)'
<1>1. ResultReady(t)' /\ CreateReady(t)' /\ RemoveReady(t)'
  BY DEF TxOK, ResultReady, CreateReady, RemoveReady, Bound, committed, NoHostWrites
<1>2. EditReady(t)' /\ DeleteReady(t)' /\ OtherReady(t)'
  BY DEF TxOK, EditReady, DeleteReady, OtherReady, NewBindings, committed, NoHostWrites
<1>3. SeenOK(t)'
  BY DEF TxOK, SeenOK, committed
<1>4. ChangeReady(t)'
  BY DEF TxOK, ChangeReady, PolicyReady, BindingReady, ShownReady, NewPolicy, NewBinding, committed
<1>5. QED
  BY <1>1, <1>2, <1>3, <1>4

LEMMA LockHead ==
    ASSUME NEW op \in Op, op[1] = "lock"
    PROVE  op \in LockOp
<1>1. \A o \in ChangeOp : o[1] = "change"
  <2>1. PICK A : A = {"change"}
    OBVIOUS
  <2>2. \A o \in A \X Change : o[1] \in A
    BY PairFacts
  <2>3. QED
    BY <2>1, <2>2 DEF ChangeOp
<1>2. \A o \in NamedOp : o[1] # "lock"
  <2>1. /\ <<"contest of row">>[1] # "lock" /\ <<"result">>[1] # "lock" /\ <<"create">>[1] # "lock"
        /\ <<"remove">>[1] # "lock" /\ <<"edit">>[1] # "lock" /\ <<"cascade">>[1] # "lock"
        /\ <<"try">>[1] # "lock" /\ <<"refresh">>[1] # "lock"
    OBVIOUS
  <2>2. QED
    BY <2>1 DEF NamedOp
<1>3. QED
  BY <1>1, <1>2 DEF Op

LEMMA BaseLockFacts ==
    ASSUME NEW q \in Request \cup SystemRequests, NEW lock \in BaseLocks(q)
    PROVE  lock = <<lock[1], lock[2]>> /\ (lock[1][1] = "contest" => lock[1][2] \in Contest)
<1>1. q \in SystemRequests => q.kind \in {"refresh", "announce"}
  BY SystemFacts
<1>2. CASE q.kind \in {"result", "remove"}
  BY <1>2 DEF BaseLocks
<1>3. CASE q.kind = "create"
  <2>1. q.contest \in Contest \cup {None}
    BY <1>1, <1>3, RequestFacts
  <2>2. QED
    BY <1>3, <2>1 DEF BaseLocks
<1>4. CASE q.kind \in {"change", "batch"}
  <2>1. PICK ch \in q.changes : lock \in HostLocks(q.kind, ch)
    BY <1>4 DEF BaseLocks
  <2>2. ch \in Change
    BY <1>1, <1>4, RequestFacts
  <2>3. ch.contest \in Contest \cup {None}
    BY <2>2, ChangeFacts
  <2>4. QED
    BY <2>1, <2>3 DEF HostLocks
<1>5. CASE q.kind = "edit"
  <2>1. q.contest \in Contest
    BY <1>1, <1>5, RequestFacts
  <2>2. QED
    BY <1>5, <2>1 DEF BaseLocks
<1>6. CASE q.kind = "delete"
  <2>1. q.contest \in Contest
    BY <1>1, <1>6, RequestFacts
  <2>2. QED
    BY <1>6, <2>1 DEF BaseLocks
<1>7. CASE q.kind = "refresh"
  <2>1. lock = RevisionLock
    BY <1>7 DEF BaseLocks
  <2>2. lock[1][1] = "revision of all"
    BY <2>1 DEF RevisionLock
  <2>3. lock = <<lock[1], lock[2]>>
    BY <2>1 DEF RevisionLock
  <2>4. QED
    BY <2>2, <2>3
<1>8. CASE q.kind \notin {"result", "remove", "create", "change", "batch", "edit", "delete", "refresh"}
  BY <1>8 DEF BaseLocks
<1>9. QED
  BY <1>2, <1>3, <1>4, <1>5, <1>6, <1>7, <1>8

(* The next transaction record after a lock is taken.                               *)
LEMMA AcquireRecord ==
    ASSUME DbTyped, NEW t \in Transaction, TxTyped(t), Acquire(t)
    PROVE  LET op == Head(tx[t].todo)
               there == op[2][1] = "contest" => contest[op[2][2]].exists
               raises == op[2][1] = "revision of all" /\ tx[t].request.kind # "refresh"
               w == tx[t].writes
           IN  /\ tx' = [tx EXCEPT ![t] = tx'[t]]
               /\ tx'[t] = [request |-> tx[t].request, todo |-> Tail(tx[t].todo),
                            held |-> IF there THEN tx[t].held \cup {<<op[2], op[3]>>}
                                     ELSE tx[t].held,
                            seen |-> tx[t].seen,
                            writes |-> [w EXCEPT !.bumps = IF raises THEN @ + 1 ELSE @],
                            start |-> tx[t].start]
BY DEF Acquire, DbTyped, TxTyped

LEMMA AcquireInv ==
    ASSUME IInv, NEW t \in Transaction, Acquire(t)
    PROVE  IInv'
<1> DEFINE q == tx[t].request
           x == tx'[t]
<1>1. DbTyped /\ TxOK(t) /\ Running(t, "lock") /\ UNCHANGED <<committed, now, requests>>
  BY DEF IInv, Acquire
<1>2. /\ tx[t] # None /\ TxTyped(t) /\ OpsOK(t) /\ tx[t].todo \in Seq(Op) /\ tx[t].todo # <<>>
      /\ q \in Request \cup SystemRequests
  BY <1>1 DEF Running, TxOK, TxTyped
<1>3. PICK op : op = Head(tx[t].todo)
  OBVIOUS
<1>4. op \in LockOp
  <2>1. op \in Op /\ op[1] = "lock"
    BY <1>1, <1>2, <1>3 DEF Running
  <2>2. QED
    BY <2>1, LockHead
<1>5. /\ op = <<"lock", op[2], op[3]>> /\ op[2] \in Object /\ op[3] \in Mode /\ ~IsStep(op)
      /\ op[2][1] = "revision of all" => op = AllBump
      /\ op[1] = "lock"
  BY <1>4, LockOpFacts
<1> DEFINE there == op[2][1] = "contest" => contest[op[2][2]].exists
           raises == op[2][1] = "revision of all" /\ q.kind # "refresh"
<1>6. PICK w : w = [tx[t].writes EXCEPT !.bumps = IF raises THEN @ + 1 ELSE @]
  OBVIOUS
<1>7. /\ tx' = [tx EXCEPT ![t] = tx'[t]]
      /\ x = [request |-> q, todo |-> Tail(tx[t].todo),
              held |-> IF there THEN tx[t].held \cup {<<op[2], op[3]>>} ELSE tx[t].held,
              seen |-> tx[t].seen, writes |-> w, start |-> tx[t].start]
  BY <1>1, <1>2, <1>3, <1>6, AcquireRecord
<1> HIDE DEF there, raises
<1>8. /\ x.request = q /\ x.todo = Tail(tx[t].todo) /\ x.seen = tx[t].seen /\ x.writes = w
      /\ x.start = tx[t].start
      /\ x.held = IF there THEN tx[t].held \cup {<<op[2], op[3]>>} ELSE tx[t].held
  BY <1>7
<1>9. /\ w = [policy |-> w.policy, binding |-> w.binding, contest |-> w.contest,
              shown |-> w.shown, view |-> w.view, bumps |-> w.bumps]
      /\ w.policy = tx[t].writes.policy /\ w.binding = tx[t].writes.binding
      /\ w.contest = tx[t].writes.contest /\ w.shown = tx[t].writes.shown
      /\ w.view = tx[t].writes.view /\ w.bumps \in Nat
      /\ w.bumps = IF raises THEN tx[t].writes.bumps + 1 ELSE tx[t].writes.bumps
  BY <1>2, <1>6 DEF TxTyped
<1>10. /\ x.todo \in Seq(Op) /\ OpsOK(t)' /\ NoStep(t)' = NoStep(t)
       /\ \A other : Ahead(t, other) /\ other # op => Ahead(t, other)'
       /\ \A i \in DOMAIN tx[t].todo :
             tx[t].todo[i] # op => \E j \in DOMAIN x.todo : x.todo[j] = tx[t].todo[i]
       /\ \A j \in DOMAIN x.todo : \/ x.todo[j] \in LockOp
                                   \/ \E i \in 2..Len(tx[t].todo) : x.todo[j] = tx[t].todo[i]
  <2>1. <<>> \in Seq(LockOp) /\ x.todo = <<>> \o Tail(tx[t].todo)
    BY <1>2, <1>8
  <2>2. QED
    BY <1>2, <1>3, <1>5, <1>8, <2>1, Shifted
<1>11. Exclusive'
  <2> SUFFICES ASSUME NEW u \in Transaction, u # t, tx[u] # None,
                      NEW lock \in x.held, NEW other \in tx[u].held, lock[1] = other[1]
               PROVE  lock[2] = "share" /\ other[2] = "share"
    <3>1. \A u \in Transaction \ {t} : tx'[u] = tx[u]
      BY <1>7 DEF IInv, DbTyped
    <3>2. QED
      BY <1>1, <3>1 DEF IInv, Exclusive
  <2>1. CASE lock \in tx[t].held
    BY <1>2, <2>1 DEF IInv, Exclusive
  <2>2. CASE lock = <<op[2], op[3]>>
    <3>1. "update" \notin {other[2], op[3]}
      BY <1>1, <1>3, <2>2 DEF Acquire, Blocking
    <3>2. other[2] \in Mode
      <4>1. other \in Object \X Mode \/ other = AdvisoryLock
        BY DEF IInv, TxOK, TxTyped
      <4>2. QED
        BY <4>1 DEF AdvisoryLock, Mode
    <3>3. QED
      BY <1>5, <2>2, <3>1, <3>2 DEF Mode
  <2>3. QED
    BY <1>8, <2>1, <2>2
<1>12. \A lock : Secured(t, lock) => Secured(t, lock)'
  BY <1>1, <1>8 DEF Secured, committed
<1>13. ASSUME NEW lock, lock = <<lock[1], lock[2]>>, lock[1][1] = "contest" => lock[1][2] \in Contest,
              Planned(t, lock)
       PROVE  Planned(t, lock)'
  <2>1. CASE Secured(t, lock)
    BY <1>12, <2>1 DEF Planned
  <2>2. CASE Ahead(t, <<"lock", lock[1], lock[2]>>) /\ <<"lock", lock[1], lock[2]>> # op
    BY <1>10, <2>2 DEF Planned
  <2>3. CASE op = <<"lock", lock[1], lock[2]>>
    <3>1. lock = <<op[2], op[3]>>
      BY <1>13, <2>3
    <3>2. Secured(t, lock)'
      BY <1>1, <1>8, <1>13, <3>1 DEF Secured, there, committed
    <3>3. QED
      BY <3>2 DEF Planned
  <2>4. QED
    BY <1>13, <2>1, <2>2, <2>3 DEF Planned
<1>14. BaseLocked(t)'
  <2> SUFFICES ASSUME NEW lock \in BaseLocks(q)
               PROVE  Planned(t, lock)'
    <3>1. Computed(x.writes) = Computed(tx[t].writes)
      BY <1>8, <1>9 DEF Computed
    <3>2. \A lock \in BaseLocks(q) : Computed(tx[t].writes) => Secured(t, lock)
      BY <1>1, <1>2 DEF TxOK, BaseLocked
    <3>3. QED
      BY <1>8, <1>12, <3>1, <3>2 DEF BaseLocked
  <2>1. ~Untried(t)
    <3>1. tx[t].todo[1] = op
      BY <1>2, <1>3
    <3>2. <<<<"try">>>>[1][1] = "try"
      OBVIOUS
    <3>3. QED
      BY <1>5, <3>1, <3>2 DEF Untried
  <2>2. Planned(t, lock)
    BY <1>1, <1>2, <2>1 DEF TxOK, BaseLocked
  <2>3. QED
    BY <1>2, <1>13, <2>2, BaseLockFacts
<1>15. RowContestLocked(t)'
  <2> SUFFICES ASSUME q.kind \in {"result", "remove"}, NEW c, c = row[q.submission].contest, c # None
               PROVE  \/ Planned(t, <<<<"contest", c>>, "share">>)'
                      \/ Ahead(t, <<"contest of row">>)'
    BY <1>1, <1>8 DEF RowContestLocked, committed
  <2>1. Planned(t, <<<<"contest", c>>, "share">>) \/ Ahead(t, <<"contest of row">>)
    BY <1>1, <1>2 DEF TxOK, RowContestLocked
  <2>2. c \in Contest
    <3>1. q \in Request
      BY <1>2, SystemFacts
    <3>2. q.submission \in Submission
      BY <3>1, RequestFacts
    <3>3. QED
      BY <1>1, <3>2 DEF DbTyped, RowTyped
  <2>3. <<"contest of row">> # op
    <3>1. <<"contest of row">>[1] = "contest of row"
      OBVIOUS
    <3>2. QED
      BY <1>5, <3>1
  <2>4. QED
    BY <1>10, <1>13, <2>1, <2>2, <2>3
<1>16. /\ ResultReady(t)' /\ CreateReady(t)' /\ RemoveReady(t)' /\ EditReady(t)'
       /\ DeleteReady(t)' /\ OtherReady(t)' /\ ChangeReady(t)' /\ SeenOK(t)'
  BY <1>1, <1>2, <1>8, <1>9, <1>10, ReadyKept
<1>17. RefreshReady(t)'
  <2> SUFFICES ASSUME q.kind = "refresh"
               PROVE  RefreshReady(t)'
    BY <1>8 DEF RefreshReady
  <2>1. ~Untried(t)
    <3>1. tx[t].todo[1] = op
      BY <1>2, <1>3
    <3>2. <<<<"try">>>>[1][1] = "try"
      OBVIOUS
    <3>3. QED
      BY <1>5, <3>1, <3>2 DEF Untried
  <2>2. \A i \in DOMAIN tx[t].todo : tx[t].todo[i] # <<"try">>
    BY <1>1, <1>2, <2>1 DEF TxOK, RefreshReady
  <2>3. \A i \in DOMAIN x.todo : x.todo[i] # <<"try">>
    <3>1. <<"try">> \notin LockOp
      <4>1. <<"try">>[1] = "try"
        OBVIOUS
      <4>2. QED
        BY <4>1, LockOpFacts
    <3>2. 2..Len(tx[t].todo) \subseteq DOMAIN tx[t].todo
      BY <1>2
    <3>3. QED
      BY <1>10, <2>2, <3>1, <3>2
  <2>4. ~Untried(t)'
    <3>1. <<<<"try">>>>[1] = <<"try">> /\ 1 \in DOMAIN <<<<"try">>>>
      OBVIOUS
    <3>2. QED
      BY <2>3, <3>1 DEF Untried
  <2>5. NoHostWrites(w)
    BY <1>1, <1>2, <1>9 DEF TxOK, RefreshReady, NoHostWrites
  <2>6. w.view # None =>
            /\ NoStep(t) /\ w.view.revision = data /\ w.view.at \in Nat /\ w.view.at <= now
            /\ ~unannounced => w.view.content = Standing(row, contest, w.view.at)
    BY <1>1, <1>2, <1>9 DEF TxOK, RefreshReady
  <2>7. w.shown = <<>>
    BY <1>1, <1>2, <1>9 DEF TxOK, RefreshReady
  <2>8. QED
    BY <1>1, <1>8, <1>10, <2>3, <2>4, <2>5, <2>6, <2>7 DEF RefreshReady, committed
<1>18. BumpsOK(t)'
  <2>1. BumpsOK(t)
    BY <1>1, <1>2 DEF TxOK
  <2>2. w.bumps > 0 => RevisionLock \in x.held
    <3>1. CASE raises
      <4>1. op = AllBump
        BY <1>5, <3>1 DEF raises
      <4>2. <<op[2], op[3]>> = RevisionLock /\ op[2][1] = "revision of all"
        BY <4>1 DEF AllBump, Lock, RevisionLock
      <4>3. there
        BY <4>2 DEF there
      <4>4. QED
        BY <1>8, <4>2, <4>3
    <3>2. CASE ~raises
      BY <1>8, <1>9, <2>1, <3>2 DEF BumpsOK
    <3>3. QED
      BY <3>1, <3>2
  <2>3. Ranked(t)' = Ranked(t)
    BY <1>8, <1>9 DEF Ranked
  <2>4. ASSUME Ranked(t), \E i \in DOMAIN tx[t].todo : tx[t].todo[i] = AllBump
        PROVE  w.bumps > 0 \/ \E i \in DOMAIN x.todo : x.todo[i] = AllBump
    <3>1. CASE op = AllBump
      <4>1. op[2][1] = "revision of all"
        BY <3>1 DEF AllBump, Lock
      <4>2. q.kind # "refresh"
        BY <2>4 DEF Ranked
      <4>3. raises
        BY <4>1, <4>2 DEF raises
      <4>4. QED
        BY <1>2, <1>9, <4>3 DEF TxTyped
    <3>2. CASE op # AllBump
      BY <1>10, <2>4, <3>2
    <3>3. QED
      BY <3>1, <3>2
  <2>5. w.bumps >= tx[t].writes.bumps
    BY <1>2, <1>9 DEF TxTyped
  <2>6. ASSUME Ranked(t)
        PROVE  \/ w.bumps > 0
               \/ q.kind \in {"result", "create", "remove"} /\ ~NoStep(t)
               \/ \E i \in DOMAIN x.todo : x.todo[i] = AllBump
    <3>1. \/ tx[t].writes.bumps > 0
          \/ q.kind \in {"result", "create", "remove"} /\ ~NoStep(t)
          \/ \E i \in DOMAIN tx[t].todo : tx[t].todo[i] = AllBump
      BY <2>1, <2>6 DEF BumpsOK, AllBump
    <3>2. tx[t].writes.bumps > 0 => w.bumps > 0
      BY <1>2, <1>9, <2>5 DEF TxTyped
    <3>3. QED
      BY <2>4, <2>6, <3>1, <3>2
  <2>7. QED
    BY <1>8, <1>10, <2>2, <2>3, <2>6 DEF BumpsOK, AllBump
<1>19. TxTyped(t)'
  <2>1. <<op[2], op[3]>> \in Object \X Mode
    BY <1>5
  <2>2. x.held \subseteq (Object \X Mode) \cup {AdvisoryLock}
    BY <1>2, <1>8, <2>1 DEF TxTyped
  <2>3. QED
    BY <1>1, <1>2, <1>7, <1>8, <1>9, <1>10, <2>2 DEF TxTyped
<1>20. TxOK(t)'
  BY <1>10, <1>14, <1>15, <1>16, <1>17, <1>18, <1>19 DEF TxOK
<1>21. CreationsOK'
  BY <1>1, <1>2, <1>7, <1>8, CreationsKept
<1>22. QED
  BY <1>1, <1>7, <1>11, <1>20, <1>21, QuietStep

LEMMA ReadContestInv ==
    ASSUME IInv, NEW t \in Transaction, ReadContest(t)
    PROVE  IInv'
<1> DEFINE q == tx[t].request
           c == row[q.submission].contest
           x == tx'[t]
           op == <<"contest of row">>
<1>1. /\ DbTyped /\ TxOK(t) /\ Running(t, "contest of row")
      /\ UNCHANGED <<committed, now, requests>>
  BY DEF IInv, ReadContest
<1>2. /\ tx[t] # None /\ TxTyped(t) /\ OpsOK(t) /\ tx[t].todo \in Seq(Op) /\ tx[t].todo # <<>>
      /\ q.kind = "result" /\ q \in Request
  BY <1>1, HeadOp DEF TxOK
<1>3. c \in Contest \cup {None}
  BY <1>1, <1>2, RequestFacts DEF DbTyped, RowTyped
<1>4. Head(tx[t].todo) = op /\ ~IsStep(op) /\ op[1] = "contest of row"
  <2>1. Head(tx[t].todo) \in OpsOf(q) /\ Head(tx[t].todo)[1] = "contest of row"
    BY <1>1, HeadOp DEF Running
  <2>2. <<"result">>[1] = "result" /\ <<"contest of row">>[1] = "contest of row"
    OBVIOUS
  <2>3. QED
    BY <1>2, <2>1, <2>2 DEF OpsOf, IsStep
<1>5. PICK ops : ops = IF c = None THEN <<>> ELSE <<Lock("contest", c, "share")>>
  OBVIOUS
<1>6. /\ ops \in Seq(LockOp)
      /\ c # None => 1 \in 1..Len(ops) /\ ops[1] = <<"lock", <<"contest", c>>, "share">>
  <2>1. CASE c = None
    BY <1>5, <2>1
  <2>2. CASE c # None
    <3>1. ops = <<Lock("contest", c, "share")>> /\ <<"contest", c>> \in Object
      BY <1>3, <1>5, <2>2 DEF Object
    <3>2. ops \in Seq(LockOp)
      BY <3>1, LockOps DEF Mode
    <3>3. QED
      BY <3>1, <3>2 DEF Lock
  <2>3. QED
    BY <2>1, <2>2
<1>7. /\ tx' = [tx EXCEPT ![t] = tx'[t]]
      /\ x = [request |-> q, todo |-> ops \o Tail(tx[t].todo), held |-> tx[t].held,
              seen |-> tx[t].seen, writes |-> tx[t].writes, start |-> tx[t].start]
  <2>1. Continue(t, ops, tx[t].writes)
    BY <1>5 DEF ReadContest
  <2>2. QED
    BY <1>1, <1>2, <2>1, ContinueRecord
<1>8. /\ x.request = q /\ x.todo = ops \o Tail(tx[t].todo) /\ x.held = tx[t].held
      /\ x.seen = tx[t].seen /\ x.writes = tx[t].writes /\ x.start = tx[t].start
  BY <1>7
<1>9. /\ x.todo \in Seq(Op) /\ OpsOK(t)' /\ NoStep(t)' = NoStep(t)
      /\ \A other : Ahead(t, other) /\ other # op => Ahead(t, other)'
      /\ Ahead(t, op) => \A k \in 1..Len(ops) : Ahead(t, ops[k])'
      /\ \A i \in DOMAIN tx[t].todo :
            tx[t].todo[i] # op => \E j \in DOMAIN x.todo : x.todo[j] = tx[t].todo[i]
  BY <1>2, <1>4, <1>6, <1>8, Shifted
<1>10. ASSUME NEW lock, Planned(t, lock)
       PROVE  Planned(t, lock)'
  <2>1. <<"lock", lock[1], lock[2]>> # op
    <3>1. <<"lock", lock[1], lock[2]>>[1] = "lock"
      OBVIOUS
    <3>2. QED
      BY <1>4, <3>1
  <2>2. Secured(t, lock) => Secured(t, lock)'
    BY <1>1, <1>8 DEF Secured, committed
  <2>3. QED
    BY <1>9, <1>10, <2>1, <2>2 DEF Planned
<1>11. ~Untried(t)
  BY <1>2 DEF Untried
<1>12. BaseLocked(t)'
  <2>1. \A lock : Secured(t, lock) => Secured(t, lock)'
    BY <1>1, <1>8 DEF Secured, committed
  <2>2. Computed(x.writes) = Computed(tx[t].writes)
    BY <1>8
  <2>3. QED
    BY <1>1, <1>2, <1>8, <1>10, <1>11, <2>1, <2>2 DEF TxOK, BaseLocked
<1>13. RowContestLocked(t)'
  <2> SUFFICES ASSUME NEW d, d = c, d # None
               PROVE  Planned(t, <<<<"contest", d>>, "share">>)'
    BY <1>1, <1>8 DEF RowContestLocked, committed
  <2> DEFINE lock == <<<<"contest", d>>, "share">>
  <2>1. Planned(t, lock) \/ Ahead(t, op)
    BY <1>1, <1>2 DEF TxOK, RowContestLocked
  <2>2. CASE Planned(t, lock)
    BY <1>10, <2>2
  <2>3. CASE Ahead(t, op)
    <3>1. Ahead(t, <<"lock", <<"contest", d>>, "share">>)'
      BY <1>6, <1>9, <2>3
    <3>2. lock[1] = <<"contest", d>> /\ lock[2] = "share"
      OBVIOUS
    <3>3. QED
      BY <3>1, <3>2 DEF Planned
  <2>4. QED
    BY <2>1, <2>2, <2>3
<1>14. /\ ResultReady(t)' /\ CreateReady(t)' /\ RemoveReady(t)' /\ EditReady(t)'
       /\ DeleteReady(t)' /\ OtherReady(t)' /\ ChangeReady(t)' /\ SeenOK(t)'
  BY <1>1, <1>2, <1>8, <1>9, ReadyKept
<1>15. RefreshReady(t)'
  BY <1>2, <1>8 DEF RefreshReady
<1>16. BumpsOK(t)'
  <2>1. op # AllBump
    <3>1. AllBump[1] = "lock"
      BY DEF AllBump, Lock
    <3>2. QED
      BY <1>4, <3>1
  <2>2. QED
    BY <1>1, <1>2, <1>8, <1>9, <2>1 DEF TxOK, BumpsOK, Ranked, AllBump
<1>17. TxTyped(t)'
  BY <1>1, <1>2, <1>7, <1>8, <1>9 DEF TxTyped
<1>18. TxOK(t)'
  BY <1>9, <1>12, <1>13, <1>14, <1>15, <1>16, <1>17 DEF TxOK
<1>19. QED
  BY <1>1, <1>2, <1>7, <1>8, <1>18, LocalStep

-----------------------------------------------------------------------------
(* Steps of contests.                                                               *)

LEMMA EditInv ==
    ASSUME IInv, NEW t \in Transaction, updateContest(t)
    PROVE  IInv'
<1> DEFINE q == tx[t].request
           old == contest[q.contest]
           new == [old EXCEPT !.end = IF q.end = None THEN @ ELSE q.end,
                              !.affects = IF q.affects = None THEN @ ELSE q.affects]
<1>1. DbTyped /\ TxOK(t) /\ Running(t, "edit") /\ UNCHANGED <<committed, now, requests>>
  BY DEF IInv, updateContest
<1>2. /\ tx[t] # None /\ tx[t].todo # <<>> /\ IsStep(Head(tx[t].todo))
      /\ q.kind = "edit" /\ q \in Request
  BY <1>1, HeadOp
<1>3. CASE Close(t)
  BY <1>1, <1>3, CloseStep
<1>4. CASE ~Close(t)
  <2>1. PICK ops : ops = IF q.end = None /\ q.affects = None THEN <<>> ELSE bumpGlobal
    OBVIOUS
  <2>2. PICK w : w = [tx[t].writes EXCEPT
                        !.contest = IF old.exists THEN Only(q.contest, new) ELSE <<>>,
                        !.binding = IF q.problems = None THEN <<>> ELSE NewBindings(q)]
    OBVIOUS
  <2>3. Continue(t, ops, w) /\ (old.exists \/ q.problems = None)
    BY <1>4, <2>1, <2>2 DEF updateContest
  <2>4. /\ ops \in Seq(LockOp)
        /\ q.end # None \/ q.affects # None => \E i \in 1..Len(ops) : ops[i] = AllBump
    <3>1. <<>> \in Seq(LockOp)
      OBVIOUS
    <3>2. bumpGlobal \in Seq(LockOp) /\ 1 \in 1..Len(bumpGlobal) /\ bumpGlobal[1] = AllBump
      <4>1. <<AllBump>> \in Seq(LockOp)
        BY LockOps DEF AllBump, Object, Mode
      <4>2. bumpGlobal = <<AllBump>>
        BY DEF bumpGlobal, AllBump
      <4>3. QED
        BY <4>1, <4>2
    <3>3. QED
      BY <2>1, <3>1, <3>2
  <2> HIDE DEF new
  <2>5. /\ w = [policy |-> w.policy, binding |-> w.binding, contest |-> w.contest,
                shown |-> w.shown, view |-> w.view, bumps |-> w.bumps]
        /\ w.bumps = tx[t].writes.bumps /\ w.bumps \in Nat
        /\ w.policy = <<>> /\ w.shown = <<>> /\ w.view = None
        /\ w.contest = (IF old.exists THEN Only(q.contest, new) ELSE <<>>)
        /\ w.binding = (IF q.problems = None THEN <<>> ELSE NewBindings(q))
    BY <1>1, <1>2, <2>2 DEF TxOK, TxTyped, EditReady
  <2>6. /\ tx' = [tx EXCEPT ![t] = tx'[t]]
        /\ tx'[t].request = q /\ tx'[t].held = tx[t].held /\ tx'[t].writes = w
        /\ \A i \in 1..Len(ops) : i \in DOMAIN tx'[t].todo /\ tx'[t].todo[i] = ops[i]
        /\ TxTyped(t)' /\ OpsOK(t)' /\ BaseLocked(t)' /\ RowContestLocked(t)' /\ SeenOK(t)'
    BY <1>1, <1>2, <2>3, <2>4, <2>5, StepTaken
  <2>7. EditReady(t)'
    <3>1. contest' = contest /\ NewBindings(q)' = NewBindings(q)
      BY <1>1, <2>6 DEF committed, NewBindings
    <3>2. CASE ~old.exists
      BY <2>3, <2>5, <2>6, <3>2 DEF EditReady
    <3>3. CASE old.exists
      BY <2>5, <2>6, <3>1, <3>3 DEF EditReady, new
    <3>4. QED
      BY <3>2, <3>3
  <2>8. BumpsOK(t)'
    BY <1>1, <1>2, <2>4, <2>5, <2>6 DEF TxOK, BumpsOK, Ranked, AllBump
  <2>9. TxOK(t)'
    BY <1>2, <2>6, <2>7, <2>8 DEF TxOK, ResultReady, CreateReady, RemoveReady, ChangeReady,
       DeleteReady, OtherReady, RefreshReady
  <2>10. QED
    BY <1>1, <1>2, <2>6, <2>9, LocalStep
<1>5. QED
  BY <1>3, <1>4

LEMMA CascadeInv ==
    ASSUME IInv, NEW t \in Transaction, cascadeContest(t)
    PROVE  IInv'
<1> DEFINE q == tx[t].request
           c == q.contest
           S == {s \in Submission : row[s].contest = c}
<1>1. DbTyped /\ TxOK(t) /\ Running(t, "cascade") /\ UNCHANGED <<committed, now, requests>>
  BY DEF IInv, cascadeContest
<1>2. /\ tx[t] # None /\ tx[t].todo # <<>> /\ IsStep(Head(tx[t].todo))
      /\ q.kind = "delete" /\ q \in Request
  BY <1>1, HeadOp
<1>3. CASE Close(t)
  BY <1>1, <1>3, CloseStep
<1>4. CASE ~Close(t)
  <2>1. contest[c].exists
    BY <1>4 DEF cascadeContest
  <2>2. PICK w : w = [tx[t].writes EXCEPT
                        !.contest = Only(c, [contest[c] EXCEPT !.exists = FALSE]),
                        !.binding = [pair \in {c} \X Problem |-> None]]
    OBVIOUS
  <2>3. PICK order \in SetToSeqs(S) : Continue(t, Locks("submission", order, "update"), w)
    BY <1>4, <2>2 DEF cascadeContest
  <2>4. PICK ops : ops = Locks("submission", order, "update")
    OBVIOUS
  <2>5. ops \in Seq(LockOp)
    <3>1. IsFiniteSet(S)
      BY EffectiveAssumption, FS_Subset
    <3>2. order \in Seq(S)
      BY <3>1, Enumeration
    <3>3. \A s \in S : Lock("submission", s, "update") \in LockOp
      BY LockOps DEF Object, Mode
    <3>4. QED
      BY <2>4, <3>2, <3>3 DEF Locks
  <2>6. /\ w = [policy |-> w.policy, binding |-> w.binding, contest |-> w.contest,
                shown |-> w.shown, view |-> w.view, bumps |-> w.bumps]
        /\ w.bumps = tx[t].writes.bumps /\ w.bumps \in Nat
        /\ w.policy = <<>> /\ w.shown = <<>> /\ w.view = None
        /\ w.contest = Only(c, [contest[c] EXCEPT !.exists = FALSE])
        /\ w.binding = [pair \in {c} \X Problem |-> None]
    BY <1>1, <1>2, <2>2 DEF TxOK, TxTyped, DeleteReady
  <2>7. /\ tx' = [tx EXCEPT ![t] = tx'[t]]
        /\ tx'[t].request = q /\ tx'[t].held = tx[t].held /\ tx'[t].writes = w
        /\ TxTyped(t)' /\ OpsOK(t)' /\ BaseLocked(t)' /\ RowContestLocked(t)' /\ SeenOK(t)'
    BY <1>1, <1>2, <2>3, <2>4, <2>5, <2>6, StepTaken
  <2>8. DeleteReady(t)'
    BY <1>1, <2>1, <2>6, <2>7 DEF DeleteReady, committed
  <2>9. BumpsOK(t)'
    BY <1>1, <1>2, <2>6, <2>7 DEF TxOK, BumpsOK, Ranked
  <2>10. TxOK(t)'
    BY <1>2, <2>7, <2>8, <2>9 DEF TxOK, ResultReady, CreateReady, RemoveReady, ChangeReady,
       EditReady, OtherReady, RefreshReady
  <2>11. QED
    BY <1>1, <1>2, <2>7, <2>10, LocalStep
<1>5. QED
  BY <1>3, <1>4

-----------------------------------------------------------------------------
(* Refreshes and announcements.                                                     *)

LEMMA OpenRecord ==
    ASSUME NEW q, NEW program, NEW seen
    PROVE  LET x == Open(q, program, seen)
           IN  /\ x.request = q /\ x.todo = program /\ x.held = {} /\ x.seen = seen
               /\ x.writes = NoWrites /\ x.start = now
               /\ x = [request |-> x.request, todo |-> x.todo, held |-> x.held,
                       seen |-> x.seen, writes |-> x.writes, start |-> x.start]
BY DEF Open

LEMMA NoWritesRecord ==
    /\ NoWrites.policy = <<>> /\ NoWrites.binding = <<>> /\ NoWrites.contest = <<>>
    /\ NoWrites.shown = <<>> /\ NoWrites.view = None /\ NoWrites.bumps = 0
    /\ NoWrites = [policy |-> NoWrites.policy, binding |-> NoWrites.binding,
                   contest |-> NoWrites.contest, shown |-> NoWrites.shown,
                   view |-> NoWrites.view, bumps |-> NoWrites.bumps]
    /\ NoHostWrites(NoWrites)
BY DEF NoWrites, NoHostWrites

LEMMA RefreshOK ==
    ASSUME NEW t \in Transaction, tx'[t] = Refresh, now \in Nat, UNCHANGED now
    PROVE  TxOK(t)' /\ tx'[t].held = {} /\ tx'[t].request.kind = "refresh"
<1> DEFINE x == tx'[t]
<1>1. /\ x.request = [kind |-> "refresh"] /\ x.todo = <<<<"try">>>> /\ x.held = {} /\ x.seen = <<>>
      /\ x.writes = NoWrites /\ x.start = now
      /\ x = [request |-> x.request, todo |-> x.todo, held |-> x.held,
              seen |-> x.seen, writes |-> x.writes, start |-> x.start]
  BY OpenRecord DEF Refresh
<1>2. x.request.kind = "refresh" /\ x.request \in SystemRequests
  BY <1>1 DEF SystemRequests
<1>3. <<"try">>[1] = "try" /\ <<"try">> \in Op /\ ~IsStep(<<"try">>)
  BY DEF Op, NamedOp, IsStep
<1>4. x.todo \in Seq(Op) /\ \A i \in DOMAIN x.todo : x.todo[i] = <<"try">>
  <2>1. \A op \in Op : <<op>> \in Seq(Op) /\ \A i \in DOMAIN <<op>> : <<op>>[i] = op
    OBVIOUS
  <2>2. QED
    BY <1>1, <1>3, <2>1
<1> HIDE DEF x
<1>5. TxTyped(t)'
  BY <1>1, <1>2, <1>4, NoWritesRecord DEF TxTyped, x
<1>6. OpsOK(t)'
  BY <1>2, <1>3, <1>4 DEF OpsOK, OpsOf, x
<1>7. Untried(t)'
  BY <1>1, <1>2 DEF Untried, x
<1>8. BaseLocked(t)' /\ RowContestLocked(t)' /\ SeenOK(t)'
  BY <1>1, <1>2, <1>7, NoWritesRecord DEF BaseLocked, RowContestLocked, SeenOK, x, Computed
<1>9. RefreshReady(t)'
  BY <1>1, <1>7, NoWritesRecord DEF RefreshReady, x
<1>10. BumpsOK(t)'
  BY <1>1, <1>2, NoWritesRecord DEF BumpsOK, Ranked, x
<1>11. QED
  BY <1>1, <1>2, <1>5, <1>6, <1>8, <1>9, <1>10 DEF TxOK, ResultReady, CreateReady, RemoveReady,
     ChangeReady, EditReady, DeleteReady, OtherReady, x

LEMMA AnnounceOK ==
    ASSUME NEW t \in Transaction, tx'[t] = Open([kind |-> "announce"], bumpGlobal, <<>>),
           now \in Nat, UNCHANGED now
    PROVE  TxOK(t)' /\ tx'[t].held = {} /\ tx'[t].request.kind = "announce"
<1> DEFINE x == tx'[t]
<1>1. /\ x.request = [kind |-> "announce"] /\ x.todo = bumpGlobal /\ x.held = {} /\ x.seen = <<>>
      /\ x.writes = NoWrites /\ x.start = now
      /\ x = [request |-> x.request, todo |-> x.todo, held |-> x.held,
              seen |-> x.seen, writes |-> x.writes, start |-> x.start]
  BY OpenRecord
<1>2. x.request.kind = "announce" /\ x.request \in SystemRequests
  BY <1>1 DEF SystemRequests
<1>3. AllBump \in Op /\ AllBump[1] = "lock" /\ ~IsStep(AllBump)
  <2>1. AllBump \in LockOp
    BY LockOps DEF AllBump, Object, Mode
  <2>2. QED
    BY <2>1, LockOpFacts
<1>4. /\ x.todo \in Seq(Op) /\ 1 \in DOMAIN x.todo
      /\ \A i \in DOMAIN x.todo : x.todo[i] = AllBump
  <2>1. \A op \in Op : /\ <<op>> \in Seq(Op) /\ 1 \in DOMAIN <<op>>
                       /\ \A i \in DOMAIN <<op>> : <<op>>[i] = op
    OBVIOUS
  <2>2. x.todo = <<AllBump>>
    BY <1>1 DEF bumpGlobal, AllBump
  <2>3. QED
    BY <1>3, <2>1, <2>2
<1> HIDE DEF x
<1>5. TxTyped(t)'
  BY <1>1, <1>2, <1>4, NoWritesRecord DEF TxTyped, x
<1>6. OpsOK(t)'
  BY <1>2, <1>3, <1>4 DEF OpsOK, OpsOf, x
<1>7. BaseLocked(t)' /\ RowContestLocked(t)' /\ SeenOK(t)'
  BY <1>2 DEF BaseLocked, RowContestLocked, SeenOK, BaseLocks, x
<1>8. OtherReady(t)'
  BY <1>1, NoWritesRecord DEF OtherReady, x
<1>9. BumpsOK(t)'
  <2>1. x.writes.bumps = 0 /\ \E i \in DOMAIN x.todo : x.todo[i] = AllBump
    BY <1>1, <1>4, NoWritesRecord
  <2>2. ~(tx'[t].writes.bumps > 0)
    BY <2>1 DEF x
  <2>3. \E i \in DOMAIN tx'[t].todo : tx'[t].todo[i] = Lock("revision of all", 0, "update")
    BY <2>1 DEF x, AllBump
  <2>4. QED
    BY <2>2, <2>3 DEF BumpsOK
<1>10. QED
  BY <1>1, <1>2, <1>5, <1>6, <1>7, <1>8, <1>9 DEF TxOK, ResultReady, CreateReady, RemoveReady,
     ChangeReady, EditReady, DeleteReady, RefreshReady, x

LEMMA ScheduleInv ==
    ASSUME IInv, NEW t \in Transaction, scheduleRankingsRefresh(t)
    PROVE  IInv'
<1>1. DbTyped /\ UNCHANGED <<committed, now, requests>> /\ tx' = [tx EXCEPT ![t] = Refresh]
  BY DEF IInv, scheduleRankingsRefresh
<1>2. tx'[t] = Refresh /\ tx' = [tx EXCEPT ![t] = tx'[t]]
  BY <1>1 DEF DbTyped
<1>3. TxOK(t)' /\ tx'[t].held = {} /\ tx'[t].request.kind = "refresh"
  BY <1>1, <1>2, RefreshOK DEF DbTyped
<1>4. \A u \in Transaction \ {t} : tx'[u] = tx[u]
  BY <1>1 DEF DbTyped
<1>5. Exclusive'
  BY <1>3, <1>4 DEF IInv, Exclusive
<1>6. CreationsOK'
  BY <1>1, <1>2, <1>3, CreationsKept
<1>7. QED
  BY <1>1, <1>2, <1>3, <1>5, <1>6, QuietStep

LEMMA TryInv ==
    ASSUME IInv, NEW t \in Transaction, tryRefresh(t)
    PROVE  IInv'
<1> DEFINE x == tx'[t]
           q == tx[t].request
<1>1. DbTyped /\ TxOK(t) /\ Running(t, "try") /\ UNCHANGED <<committed, now, requests>>
  BY DEF IInv, tryRefresh
<1>2. /\ tx[t] # None /\ tx[t].todo # <<>> /\ q.kind = "refresh" /\ TxTyped(t)
      /\ tx[t].todo \in Seq(Op) /\ Head(tx[t].todo) \in OpsOf(q)
  BY <1>1, HeadOp DEF TxOK
<1>3. Untried(t) /\ tx[t].held = {} /\ tx[t].writes.view = None
  <2>1. Head(tx[t].todo) = <<"try">>
    <3>1. <<"refresh">>[1] = "refresh"
      OBVIOUS
    <3>2. QED
      BY <1>1, <1>2, <3>1 DEF OpsOf, Running
  <2>2. 1 \in DOMAIN tx[t].todo /\ tx[t].todo[1] = <<"try">>
    BY <1>2, <2>1
  <2>3. QED
    BY <1>1, <1>2, <2>2 DEF TxOK, RefreshReady
<1>4. CASE Close(t)
  BY <1>1, <1>4, CloseStep
<1>5. CASE ~Close(t)
  <2> DEFINE todo == <<AllBump, <<"refresh">>>>
  <2>1. /\ ~\E u \in Transaction \ {t} : tx[u] # None /\ AdvisoryLock \in tx[u].held
        /\ tx' = [tx EXCEPT ![t].todo = todo, ![t].held = {AdvisoryLock}, ![t].start = now]
    BY <1>5 DEF tryRefresh, AdvisoryLock, AllBump
  <2>2. /\ tx' = [tx EXCEPT ![t] = tx'[t]]
        /\ x = [request |-> q, todo |-> todo, held |-> {AdvisoryLock}, seen |-> tx[t].seen,
                writes |-> tx[t].writes, start |-> now]
    BY <1>1, <1>2, <2>1 DEF DbTyped, TxTyped
  <2>3. /\ x.request = q /\ x.todo = todo /\ x.held = {AdvisoryLock} /\ x.seen = tx[t].seen
        /\ x.writes = tx[t].writes /\ x.start = now
    BY <2>2
  <2>4. /\ AllBump \in Op /\ AllBump[1] = "lock" /\ ~IsStep(AllBump)
        /\ <<"refresh">> \in Op /\ <<"refresh">>[1] = "refresh" /\ IsStep(<<"refresh">>)
        /\ <<"try">>[1] = "try"
    <3>1. AllBump \in LockOp
      BY LockOps DEF AllBump, Object, Mode
    <3>2. <<"refresh">> \in Op /\ <<"refresh">>[1] = "refresh" /\ IsStep(<<"refresh">>)
      BY DEF Op, NamedOp, IsStep
    <3>3. <<"try">>[1] = "try"
      OBVIOUS
    <3>4. QED
      BY <3>1, <3>2, <3>3, LockOpFacts
  <2>5. /\ x.todo \in Seq(Op) /\ DOMAIN x.todo = {1, 2} /\ Len(x.todo) = 2
        /\ x.todo[1] = AllBump /\ x.todo[2] = <<"refresh">>
    <3>1. \A a, b \in Op : /\ <<a, b>> \in Seq(Op) /\ DOMAIN <<a, b>> = {1, 2}
                           /\ Len(<<a, b>>) = 2 /\ <<a, b>>[1] = a /\ <<a, b>>[2] = b
      OBVIOUS
    <3>2. QED
      BY <2>3, <2>4, <3>1
  <2> HIDE DEF todo, x
  <2>6. TxTyped(t)'
    BY <1>1, <1>2, <2>2, <2>3, <2>5 DEF TxTyped, DbTyped, x
  <2>7. OpsOK(t)'
    BY <1>2, <2>3, <2>4, <2>5 DEF OpsOK, OpsOf, x
  <2>8. BaseLocked(t)' /\ RowContestLocked(t)' /\ SeenOK(t)'
    <3>1. Ahead(t, AllBump)'
      <4>1. /\ 1 \in DOMAIN x.todo /\ 2 \in DOMAIN x.todo /\ 1 < 2 /\ x.todo[1] = AllBump
            /\ IsStep(x.todo[2]) /\ \A k \in 1..1 : ~IsStep(x.todo[k])
        BY <2>4, <2>5
      <4>2. QED
        BY <4>1 DEF Ahead, x
    <3>2. BaseLocks(q) = {RevisionLock} /\ <<"lock", RevisionLock[1], RevisionLock[2]>> = AllBump
      BY <1>2 DEF BaseLocks, RevisionLock, AllBump, Lock
    <3>3. BaseLocked(t)'
      <4>1. ~Computed(x.writes)
        BY <1>1, <1>2, <2>3 DEF Computed, TxOK, RefreshReady, NoHostWrites
      <4>2. QED
        BY <2>3, <3>1, <3>2, <4>1 DEF BaseLocked, Planned, x
    <3>4. QED
      BY <1>2, <2>3, <3>3 DEF RowContestLocked, SeenOK, x
  <2>9. RefreshReady(t)'
    <3>1. \A i \in DOMAIN x.todo : x.todo[i] # <<"try">>
      BY <2>4, <2>5
    <3>2. ~Untried(t)'
      <4>1. <<<<"try">>>>[1] = <<"try">> /\ 1 \in DOMAIN <<<<"try">>>>
        OBVIOUS
      <4>2. QED
        BY <3>1, <4>1 DEF Untried, x
    <3>3. NoHostWrites(tx[t].writes) /\ tx[t].writes.shown = <<>>
      BY <1>1, <1>2 DEF TxOK, RefreshReady
    <3>4. QED
      BY <1>3, <2>3, <3>1, <3>2, <3>3 DEF RefreshReady, NoHostWrites, x
  <2>10. BumpsOK(t)'
    BY <1>1, <1>2, <1>3, <2>3 DEF TxOK, BumpsOK, Ranked, x
  <2>11. TxOK(t)'
    BY <1>2, <2>3, <2>6, <2>7, <2>8, <2>9, <2>10 DEF TxOK, ResultReady, CreateReady,
       RemoveReady, ChangeReady, EditReady, DeleteReady, OtherReady, x
  <2>12. Exclusive'
    <3>1. \A u \in Transaction \ {t} : tx'[u] = tx[u]
      BY <1>1, <2>2 DEF DbTyped
    <3>2. ASSUME NEW u \in Transaction \ {t}, tx[u] # None, NEW other \in tx[u].held
          PROVE  AdvisoryLock[1] # other[1]
      <4>1. other \in Object \X Mode
        BY <2>1, <3>2 DEF IInv, TxOK, TxTyped
      <4>2. other[1] \in Object
        BY <4>1
      <4>3. other[1][1] # "advisory"
        BY <4>2, ObjectFacts
      <4>4. QED
        BY <4>3 DEF AdvisoryLock
    <3>3. QED
      BY <1>2, <2>3, <3>1, <3>2 DEF IInv, Exclusive, x
  <2>13. CreationsOK'
    BY <1>1, <1>2, <2>2, <2>3, CreationsKept DEF x
  <2>14. QED
    BY <1>1, <2>2, <2>11, <2>12, <2>13, QuietStep DEF x
<1>6. QED
  BY <1>4, <1>5

LEMMA RefreshInv ==
    ASSUME IInv, NEW t \in Transaction, refreshRankingsView(t)
    PROVE  IInv'
<1> DEFINE q == tx[t].request
           built == [revision |-> data, at |-> BuiltAt(t),
                     content |-> Standing(row, contest, tx[t].start)]
<1>1. DbTyped /\ TxOK(t) /\ Running(t, "refresh") /\ UNCHANGED <<committed, now, requests>>
  BY DEF IInv, refreshRankingsView
<1>2. /\ tx[t] # None /\ tx[t].todo # <<>> /\ IsStep(Head(tx[t].todo)) /\ TxTyped(t)
      /\ q.kind = "refresh"
  BY <1>1, HeadOp DEF TxOK
<1>3. PICK ops : ops = <<>>
  OBVIOUS
<1>4. PICK w : w = [tx[t].writes EXCEPT !.view = built]
  OBVIOUS
<1>5. Continue(t, ops, w)
  BY <1>3, <1>4 DEF refreshRankingsView
<1>6. ops \in Seq(LockOp)
  BY <1>3
<1>7. /\ w = [policy |-> w.policy, binding |-> w.binding, contest |-> w.contest,
              shown |-> w.shown, view |-> w.view, bumps |-> w.bumps]
      /\ w.bumps = tx[t].writes.bumps /\ w.bumps \in Nat
      /\ NoHostWrites(w) /\ w.shown = <<>>
      /\ w.view.revision = data /\ w.view.at = tx[t].start
      /\ w.view.content = Standing(row, contest, tx[t].start)
  BY <1>1, <1>2, <1>4 DEF TxOK, TxTyped, RefreshReady, NoHostWrites, BuiltAt
<1>8. /\ tx' = [tx EXCEPT ![t] = tx'[t]]
      /\ tx'[t].request = q /\ tx'[t].held = tx[t].held /\ tx'[t].writes = w /\ tx'[t].todo = ops
      /\ TxTyped(t)' /\ OpsOK(t)' /\ BaseLocked(t)' /\ RowContestLocked(t)' /\ SeenOK(t)'
      /\ NoStep(t)'
  BY <1>1, <1>2, <1>5, <1>6, <1>7, StepTaken
<1>9. RefreshReady(t)'
  <2>1. ~Untried(t)' /\ \A i \in DOMAIN tx'[t].todo : tx'[t].todo[i] # <<"try">>
    BY <1>3, <1>8 DEF Untried
  <2>2. tx[t].start \in Nat /\ tx[t].start <= now
    BY <1>2 DEF TxTyped
  <2>3. QED
    BY <1>1, <1>7, <1>8, <2>1, <2>2 DEF RefreshReady, NoHostWrites, committed
<1>10. BumpsOK(t)'
  BY <1>1, <1>2, <1>7, <1>8 DEF TxOK, BumpsOK, Ranked
<1>11. TxOK(t)'
  BY <1>2, <1>8, <1>9, <1>10 DEF TxOK, ResultReady, CreateReady, RemoveReady, ChangeReady,
     EditReady, DeleteReady, OtherReady
<1>12. QED
  BY <1>1, <1>2, <1>8, <1>11, LocalStep

-----------------------------------------------------------------------------
(* Steps of policy changes.                                                         *)

LEMMA OverNew ==
    ASSUME NEW f, NEW g, NEW x \in DOMAIN f
    PROVE  Over(f, g)[x] = f[x]
BY DEF Over

LEMMA OverElse ==
    ASSUME NEW f, NEW g, NEW x \in DOMAIN g, x \notin DOMAIN f
    PROVE  Over(f, g)[x] = g[x]
BY DEF Over

LEMMA DbDomains ==
    ASSUME DbTyped
    PROVE  /\ DOMAIN policy = Problem /\ DOMAIN binding = Pair /\ DOMAIN contest = Contest
           /\ DOMAIN row = Submission /\ DOMAIN tx = Transaction
<1>1. DOMAIN row = Submission /\ DOMAIN tx = Transaction
  <2>1. \A f, S : f = [x \in S |-> f[x]] => DOMAIN f = S
    OBVIOUS
  <2>2. QED
    BY <2>1 DEF DbTyped
<1>2. QED
  BY <1>1 DEF DbTyped

LEMMA OnlyFacts ==
    ASSUME NEW x, NEW y
    PROVE  DOMAIN Only(x, y) = {x} /\ Only(x, y)[x] = y
BY DEF Only

(* The projection that a change computes from what it writes.                       *)
LEMMA ProjectionFacts ==
    ASSUME NEW results, NEW pol, NEW bound, bound = None \/ bound \in Binding,
           bound # None /\ bound.revision = 0 => bound.policy = AnyVersion,
           NEW shown, shown = Projection(results, pol, bound)
    PROVE  /\ shown.global = Selection(results, pol.policy)
           /\ shown.globalRevision = pol.revision
           /\ bound # None => /\ shown.contest = Selection(results, bound.policy)
                              /\ shown.contestRevision = bound.revision
           /\ shown.contestRevision = 0 => shown.contest = Selection(results, AnyVersion)
<1>1. None # 0
  BY EffectiveAssumption
<1>2. /\ shown.global = Selection(results, pol.policy) /\ shown.globalRevision = pol.revision
      /\ shown.contest = IF bound = None THEN NothingSelected ELSE Selection(results, bound.policy)
      /\ shown.contestRevision = IF bound = None THEN None ELSE bound.revision
  BY DEF Projection
<1>3. QED
  BY <1>1, <1>2

(* What the policies written so far, over those committed, are.                     *)
LEMMA NewHosts ==
    ASSUME IInv, NEW t \in Transaction, tx[t] # None, tx[t].request.kind \in {"change", "batch"}
    PROVE  /\ \A p \in Problem : NewPolicy(t, p) \in PolicyRow
           /\ \A c \in Contest \cup {None}, p \in Problem :
                 LET bound == NewBinding(t, c, p)
                 IN  /\ bound = None \/ bound \in Binding
                     /\ bound # None /\ bound.revision = 0 => bound.policy = AnyVersion
                     /\ c # None => bound = Over(tx[t].writes.binding, binding)[<<c, p>>]
                     /\ c # None /\ bound # None => binding[<<c, p>>] # None
<1> DEFINE w == tx[t].writes
<1>1. DbTyped /\ ChangeReady(t)
  BY DEF IInv, TxOK
<1>2. ASSUME NEW p \in Problem
      PROVE  NewPolicy(t, p) \in PolicyRow
  <2>1. CASE p \in DOMAIN w.policy
    <3>1. NewPolicy(t, p) = w.policy[p]
      BY <2>1, OverNew DEF NewPolicy
    <3>2. QED
      BY <1>1, <2>1, <3>1 DEF ChangeReady, PolicyReady
  <2>2. CASE p \notin DOMAIN w.policy
    <3>1. NewPolicy(t, p) = policy[p]
      BY <1>1, <2>2, OverElse, DbDomains DEF NewPolicy
    <3>2. QED
      BY <1>1, <3>1 DEF DbTyped
  <2>3. QED
    BY <2>1, <2>2
<1>3. ASSUME NEW c \in Contest, NEW p \in Problem, c # None, NEW bound, bound = NewBinding(t, c, p)
      PROVE  /\ bound = None \/ bound \in Binding
             /\ bound # None /\ bound.revision = 0 => bound.policy = AnyVersion
             /\ bound = Over(tx[t].writes.binding, binding)[<<c, p>>]
             /\ bound # None => binding[<<c, p>>] # None
  <2>1. <<c, p>> \in Pair /\ bound = Over(tx[t].writes.binding, binding)[<<c, p>>]
    BY <1>3 DEF NewBinding, BindingOf, Pair
  <2>2. CASE <<c, p>> \in DOMAIN w.binding
    <3>1. bound = w.binding[<<c, p>>]
      BY <2>1, <2>2, OverNew
    <3>2. bound \in Binding /\ bound.revision > 0 /\ binding[<<c, p>>] # None
      BY <1>1, <2>2, <3>1 DEF ChangeReady, BindingReady
    <3>3. QED
      BY <2>1, <3>2
  <2>3. CASE <<c, p>> \notin DOMAIN w.binding
    <3>1. bound = binding[<<c, p>>]
      BY <1>1, <2>1, <2>3, OverElse, DbDomains
    <3>2. QED
      BY <1>1, <2>1, <3>1 DEF IInv, DbTyped, ProjectionsOK
  <2>4. QED
    BY <2>2, <2>3
<1>4. ASSUME NEW p \in Problem
      PROVE  NewBinding(t, None, p) = None
  BY DEF NewBinding, BindingOf
<1>5. QED
  BY <1>2, <1>3, <1>4

LEMMA ProblemPolicyInv ==
    ASSUME IInv, NEW t \in Transaction, setProblemPolicy(t)
    PROVE  IInv'
<1> DEFINE q == tx[t].request
           w == tx[t].writes
<1>1. /\ DbTyped /\ TxOK(t) /\ Running(t, "change") /\ Head(tx[t].todo)[2].contest = None
      /\ UNCHANGED <<committed, now, requests>>
  BY DEF IInv, setProblemPolicy
<1>2. /\ tx[t] # None /\ tx[t].todo # <<>> /\ IsStep(Head(tx[t].todo)) /\ TxTyped(t)
      /\ q.kind \in {"change", "batch"} /\ q \in Request /\ Head(tx[t].todo) \in OpsOf(q)
      /\ ChangeReady(t) /\ SeenOK(t)
  BY <1>1, HeadOp DEF TxOK
<1>3. PICK change : change = Head(tx[t].todo)[2]
  OBVIOUS
<1>4. change \in q.changes /\ change.contest = None
  <2>1. \A x \in {"change"} \X q.changes : x[2] \in q.changes
    <3>1. PICK A : A = {"change"}
      OBVIOUS
    <3>2. \A x \in A \X q.changes : x[2] \in q.changes
      BY PairFacts
    <3>3. QED
      BY <3>1, <3>2
  <2>2. QED
    BY <1>1, <1>2, <1>3, <2>1 DEF OpsOf
<1>5. PICK p : p = change.problem
  OBVIOUS
<1>6. p \in Problem /\ change.policy \in Policy
  <2>1. change \in Change
    BY <1>2, <1>4, RequestFacts
  <2>2. QED
    BY <1>4, <1>5, <2>1, ChangeFacts
<1>7. PICK old : old = Over(w.policy, policy)[p]
  OBVIOUS
<1>8. PICK new : new = [policy |-> change.policy, revision |-> old.revision + 1]
  OBVIOUS
<1>9. old = NewPolicy(t, p) /\ old \in PolicyRow
  BY <1>2, <1>6, <1>7, NewHosts DEF NewPolicy
<1>10. new \in PolicyRow /\ new.revision = old.revision + 1 /\ old.revision \in Nat
  BY <1>6, <1>8, <1>9 DEF PolicyRow
<1>11. PICK sources : sources = {s \in Submission : row[s].exists /\ ProblemOf[s] = p}
  OBVIOUS
<1>12. PICK shown : shown = [s \in sources |->
               Projection(row[s].results, new,
                          BindingOf(Over(w.binding, binding), row[s].contest, p))]
  OBVIOUS
<1>13. CASE ~Expected(t, change, old)
  <2>1. Close(t)
    BY <1>3, <1>5, <1>7, <1>13 DEF setProblemPolicy
  <2>2. QED
    BY <1>1, <2>1, CloseStep
<1>14. CASE Expected(t, change, old)
  <2>1. PICK w2 : w2 = [w EXCEPT !.policy = Over(Only(p, new), @), !.shown = Over(shown, @)]
    OBVIOUS
  <2>2. PICK order \in SetToSeqs(sources) :
            Continue(t, Locks("submission", order, "update") \o bumpProblem(p) \o bumpGlobal, w2)
    BY <1>3, <1>5, <1>7, <1>8, <1>11, <1>12, <1>14, <2>1 DEF setProblemPolicy
  <2>3. PICK ops : ops = Locks("submission", order, "update") \o bumpProblem(p) \o bumpGlobal
    OBVIOUS
  <2>4. ops \in Seq(LockOp) /\ \E i \in 1..Len(ops) : ops[i] = AllBump
    <3>1. IsFiniteSet(sources) /\ sources \subseteq Submission
      BY <1>11, EffectiveAssumption, FS_Subset
    <3>2. bumpProblem(p) \in Seq(LockOp)
      BY <1>6, LockOps DEF bumpProblem, Object, Mode
    <3>3. QED
      BY <2>2, <2>3, <3>1, <3>2, RowBumpOps
  <2>5. /\ w2 = [policy |-> w2.policy, binding |-> w2.binding, contest |-> w2.contest,
                 shown |-> w2.shown, view |-> w2.view, bumps |-> w2.bumps]
        /\ w2.bumps = w.bumps /\ w2.bumps \in Nat
        /\ w2.contest = <<>> /\ w2.view = None /\ w2.binding = w.binding
        /\ w2.policy = Over(Only(p, new), w.policy) /\ w2.shown = Over(shown, w.shown)
    BY <1>2, <2>1 DEF TxTyped, ChangeReady
  <2>6. /\ tx' = [tx EXCEPT ![t] = tx'[t]]
        /\ tx'[t].request = q /\ tx'[t].held = tx[t].held /\ tx'[t].seen = tx[t].seen
        /\ tx'[t].writes = w2
        /\ \A i \in 1..Len(ops) : i \in DOMAIN tx'[t].todo /\ tx'[t].todo[i] = ops[i]
        /\ TxTyped(t)' /\ OpsOK(t)' /\ BaseLocked(t)' /\ RowContestLocked(t)' /\ SeenOK(t)'
    <3>1. Continue(t, ops, w2)
      BY <2>2, <2>3
    <3>2. QED
      BY <1>1, <1>2, <2>4, <2>5, <3>1, StepTaken
  <2>7. /\ UNCHANGED <<policy, binding, row>>
        /\ DOMAIN w2.shown = sources \cup DOMAIN w.shown
        /\ \A s \in sources : w2.shown[s] = shown[s]
        /\ \A s \in DOMAIN w.shown \ sources : w2.shown[s] = w.shown[s]
        /\ DOMAIN w2.policy = {p} \cup DOMAIN w.policy /\ w2.policy[p] = new
        /\ \A p2 \in DOMAIN w.policy \ {p} : w2.policy[p2] = w.policy[p2]
    <3>1. DOMAIN shown = sources
      BY <1>12
    <3>2. DOMAIN Only(p, new) = {p} /\ Only(p, new)[p] = new
      BY OnlyFacts
    <3>3. /\ DOMAIN w2.shown = sources \cup DOMAIN w.shown
          /\ \A s \in sources : w2.shown[s] = shown[s]
          /\ \A s \in DOMAIN w.shown \ sources : w2.shown[s] = w.shown[s]
      BY <2>5, <3>1 DEF Over
    <3>4. /\ DOMAIN w2.policy = {p} \cup DOMAIN w.policy /\ w2.policy[p] = new
          /\ \A p2 \in DOMAIN w.policy \ {p} : w2.policy[p2] = w.policy[p2]
      BY <2>5, <3>2 DEF Over
    <3>5. QED
      BY <1>1, <3>3, <3>4 DEF committed
  <2>8. p \notin DOMAIN w.policy /\ tx[t].seen[change] = policy[p] /\ old = policy[p]
    <3>1. /\ tx[t].seen[change] \in PolicyRow /\ tx[t].seen[change].revision <= policy[p].revision
          /\ tx[t].seen[change].revision = policy[p].revision => tx[t].seen[change] = policy[p]
      BY <1>2, <1>4, <1>5 DEF SeenOK
    <3>2. tx[t].seen[change].revision = old.revision
      BY <1>14, <3>1, EffectiveAssumption DEF Expected
    <3>3. p \notin DOMAIN w.policy
      <4>1. ASSUME p \in DOMAIN w.policy
            PROVE  FALSE
        <5>1. old = w.policy[p]
          BY <1>7, <4>1, OverNew
        <5>2. old.revision > policy[p].revision
          BY <1>2, <4>1, <5>1 DEF ChangeReady, PolicyReady
        <5>3. policy[p].revision \in Nat
          BY <1>1, <1>6 DEF DbTyped, PolicyRow
        <5>4. QED
          BY <1>10, <3>1, <3>2, <5>2, <5>3
      <4>2. QED
        BY <4>1
    <3>4. old = policy[p]
      BY <1>1, <1>6, <1>7, <3>3, OverElse, DbDomains
    <3>5. QED
      BY <3>1, <3>2, <3>3, <3>4
  <2>9. ASSUME NEW p2 \in Problem
        PROVE  NewPolicy(t, p2)' = IF p2 = p THEN new ELSE NewPolicy(t, p2)
    <3>1. NewPolicy(t, p2)' = Over(w2.policy, policy)[p2] /\ NewPolicy(t, p2) = Over(w.policy, policy)[p2]
      BY <2>6, <2>7 DEF NewPolicy
    <3>2. p2 \in DOMAIN policy
      BY <1>1, DbDomains
    <3>3. CASE p2 = p
      BY <2>7, <3>1, <3>3, OverNew
    <3>4. CASE p2 # p /\ p2 \in DOMAIN w.policy
      BY <2>7, <3>1, <3>4, OverNew
    <3>5. CASE p2 # p /\ p2 \notin DOMAIN w.policy
      BY <2>7, <3>1, <3>2, <3>5, OverElse
    <3>6. QED
      BY <3>3, <3>4, <3>5
  <2>10. ASSUME NEW c, NEW p2
         PROVE  NewBinding(t, c, p2)' = NewBinding(t, c, p2)
    BY <2>5, <2>6, <2>7 DEF NewBinding
  <2>11. ASSUME NEW p2 \in DOMAIN w2.policy
         PROVE  PolicyReady(t, p2)'
    <3>1. CASE p2 = p
      <4>1. new.revision > policy[p].revision
        BY <1>10, <2>8
      <4>2. \A s \in Submission : row[s].exists /\ ProblemOf[s] = p => s \in DOMAIN w2.shown
        BY <1>11, <2>7
      <4>3. \E ch \in q.changes : /\ ch.problem = p /\ ch.contest = None
                                  /\ tx[t].seen[ch] = policy[p]
        BY <1>4, <1>5, <2>8
      <4>4. QED
        BY <1>6, <1>10, <2>6, <2>7, <3>1, <4>1, <4>2, <4>3 DEF PolicyReady
    <3>2. CASE p2 # p
      <4>1. p2 \in DOMAIN w.policy /\ PolicyReady(t, p2)
        BY <1>2, <2>7, <2>11, <3>2 DEF ChangeReady
      <4>2. QED
        BY <2>6, <2>7, <3>2, <4>1 DEF PolicyReady
    <3>3. QED
      BY <3>1, <3>2
  <2>12. ASSUME NEW pair \in DOMAIN w2.binding
         PROVE  BindingReady(t, pair)'
    <3>1. BindingReady(t, pair)
      BY <1>2, <2>5, <2>12 DEF ChangeReady
    <3>2. QED
      BY <2>5, <2>6, <2>7, <3>1 DEF BindingReady
  <2>13. ASSUME NEW s \in DOMAIN w2.shown
         PROVE  ShownReady(t, s)'
    <3>1. CASE s \in sources
      <4>1. s \in Submission /\ row[s].exists /\ ProblemOf[s] = p
        BY <1>11, <3>1
      <4>2. row[s].contest \in Contest \cup {None}
        BY <1>1, <4>1 DEF DbTyped, RowTyped
      <4>3. PICK bound : bound = NewBinding(t, row[s].contest, p)
        OBVIOUS
      <4>4. /\ bound = None \/ bound \in Binding
            /\ bound # None /\ bound.revision = 0 => bound.policy = AnyVersion
        BY <1>2, <1>6, <4>2, <4>3, NewHosts
      <4>5. w2.shown[s] = Projection(row[s].results, new, bound)
        BY <1>12, <2>7, <3>1, <4>3 DEF NewBinding
      <4>6. /\ w2.shown[s].global = Selection(row[s].results, new.policy)
            /\ w2.shown[s].globalRevision = new.revision
            /\ bound # None => /\ w2.shown[s].contest = Selection(row[s].results, bound.policy)
                               /\ w2.shown[s].contestRevision = bound.revision
            /\ w2.shown[s].contestRevision = 0
                  => w2.shown[s].contest = Selection(row[s].results, AnyVersion)
        BY <4>4, <4>5, ProjectionFacts
      <4>7. NewPolicy(t, ProblemOf[s])' = new /\ NewBinding(t, row[s].contest, ProblemOf[s])' = bound
        BY <1>6, <2>7, <2>9, <2>10, <4>1, <4>3
      <4>8. \E ch \in q.changes : ch.problem = ProblemOf[s] /\ ch.contest \in {None, row[s].contest}
        BY <1>4, <1>5, <4>1
      <4>9. QED
        BY <2>6, <2>7, <4>1, <4>6, <4>7, <4>8 DEF ShownReady
    <3>2. CASE s \notin sources
      <4>1. s \in DOMAIN w.shown /\ ShownReady(t, s) /\ w2.shown[s] = w.shown[s]
        BY <1>2, <2>7, <2>13, <3>2 DEF ChangeReady
      <4>2. s \in Submission /\ ProblemOf[s] # p /\ ProblemOf[s] \in Problem
        BY <1>11, <3>2, <4>1, EffectiveAssumption DEF ShownReady
      <4>3. /\ NewPolicy(t, ProblemOf[s])' = NewPolicy(t, ProblemOf[s])
            /\ NewBinding(t, row[s].contest, ProblemOf[s])'
                  = NewBinding(t, row[s].contest, ProblemOf[s])
        BY <2>7, <2>9, <2>10, <4>2
      <4>4. QED
        BY <2>6, <2>7, <4>1, <4>3 DEF ShownReady
    <3>3. QED
      BY <3>1, <3>2
  <2>14. ChangeReady(t)'
    BY <2>5, <2>6, <2>11, <2>12, <2>13 DEF ChangeReady
  <2>15. BumpsOK(t)'
    BY <1>1, <1>2, <2>4, <2>5, <2>6, BumpAhead DEF TxOK
  <2>16. TxOK(t)'
    BY <1>2, <2>6, <2>14, <2>15 DEF TxOK, ResultReady, CreateReady, RemoveReady, EditReady,
       DeleteReady, OtherReady, RefreshReady
  <2>17. QED
    BY <1>1, <1>2, <2>6, <2>16, LocalStep
<1>15. QED
  BY <1>13, <1>14

LEMMA ContestPolicyInv ==
    ASSUME IInv, NEW t \in Transaction, setContestPolicy(t)
    PROVE  IInv'
<1> DEFINE q == tx[t].request
           w == tx[t].writes
<1>1. /\ DbTyped /\ TxOK(t) /\ Running(t, "change") /\ Head(tx[t].todo)[2].contest # None
      /\ UNCHANGED <<committed, now, requests>>
  BY DEF IInv, setContestPolicy
<1>2. /\ tx[t] # None /\ tx[t].todo # <<>> /\ IsStep(Head(tx[t].todo)) /\ TxTyped(t)
      /\ q.kind \in {"change", "batch"} /\ q \in Request /\ Head(tx[t].todo) \in OpsOf(q)
      /\ ChangeReady(t) /\ SeenOK(t)
  BY <1>1, HeadOp DEF TxOK
<1>3. PICK change : change = Head(tx[t].todo)[2]
  OBVIOUS
<1>4. change \in q.changes /\ change.contest # None
  <2>1. \A x \in {"change"} \X q.changes : x[2] \in q.changes
    <3>1. PICK A : A = {"change"}
      OBVIOUS
    <3>2. \A x \in A \X q.changes : x[2] \in q.changes
      BY PairFacts
    <3>3. QED
      BY <3>1, <3>2
  <2>2. QED
    BY <1>1, <1>2, <1>3, <2>1 DEF OpsOf
<1>5. PICK p : p = change.problem
  OBVIOUS
<1>6. PICK c : c = change.contest
  OBVIOUS
<1>7. /\ p \in Problem /\ c \in Contest /\ c # None /\ <<c, p>> \in Pair
      /\ change.policy \in Policy \cup {None} /\ change.pinned \in Version \cup {None}
  <2>1. change \in Change
    BY <1>2, <1>4, RequestFacts
  <2>2. QED
    BY <1>4, <1>5, <1>6, <2>1, ChangeFacts DEF Pair
<1>8. PICK old : old = Over(w.binding, binding)[<<c, p>>]
  OBVIOUS
<1>9. PICK chosen : chosen = IF change.policy = None THEN old.policy ELSE change.policy
  OBVIOUS
<1>10. PICK pinned : pinned = IF change.pinned # None THEN change.pinned
                              ELSE IF chosen = AnyVersion THEN old.pinned ELSE chosen
  OBVIOUS
<1>11. PICK new : new = [policy |-> chosen, pinned |-> pinned, revision |-> old.revision + 1]
  OBVIOUS
<1>12. PICK sources : sources = {s \in Submission : /\ row[s].exists
                                                    /\ row[s].contest = c /\ ProblemOf[s] = p}
  OBVIOUS
<1>13. PICK shown : shown = [s \in sources |->
               Projection(row[s].results, Over(w.policy, policy)[p], new)]
  OBVIOUS
<1>14. CASE old = None \/ ~Expected(t, change, old) \/ Conflicting(chosen, pinned)
  <2>1. Close(t)
    BY <1>3, <1>5, <1>6, <1>8, <1>9, <1>10, <1>14 DEF setContestPolicy
  <2>2. QED
    BY <1>1, <2>1, CloseStep
<1>15. CASE ~(old = None \/ ~Expected(t, change, old) \/ Conflicting(chosen, pinned))
  <2>1. PICK w2 : w2 = [w EXCEPT !.binding = Over(Only(<<c, p>>, new), @), !.shown = Over(shown, @)]
    OBVIOUS
  <2>2. PICK order \in SetToSeqs(sources) :
            Continue(t, Locks("submission", order, "update") \o bumpContest(c) \o bumpGlobal, w2)
    BY <1>3, <1>5, <1>6, <1>8, <1>9, <1>10, <1>11, <1>12, <1>13, <1>15, <2>1 DEF setContestPolicy
  <2>3. PICK ops : ops = Locks("submission", order, "update") \o bumpContest(c) \o bumpGlobal
    OBVIOUS
  <2>4. ops \in Seq(LockOp) /\ \E i \in 1..Len(ops) : ops[i] = AllBump
    <3>1. IsFiniteSet(sources) /\ sources \subseteq Submission
      BY <1>12, EffectiveAssumption, FS_Subset
    <3>2. bumpContest(c) \in Seq(LockOp)
      BY <1>7, LockOps DEF bumpContest, Object, Mode
    <3>3. QED
      BY <2>2, <2>3, <3>1, <3>2, RowBumpOps
  <2>5. /\ w2 = [policy |-> w2.policy, binding |-> w2.binding, contest |-> w2.contest,
                 shown |-> w2.shown, view |-> w2.view, bumps |-> w2.bumps]
        /\ w2.bumps = w.bumps /\ w2.bumps \in Nat
        /\ w2.contest = <<>> /\ w2.view = None /\ w2.policy = w.policy
        /\ w2.binding = Over(Only(<<c, p>>, new), w.binding) /\ w2.shown = Over(shown, w.shown)
    BY <1>2, <2>1 DEF TxTyped, ChangeReady
  <2>6. /\ tx' = [tx EXCEPT ![t] = tx'[t]]
        /\ tx'[t].request = q /\ tx'[t].held = tx[t].held /\ tx'[t].seen = tx[t].seen
        /\ tx'[t].writes = w2
        /\ \A i \in 1..Len(ops) : i \in DOMAIN tx'[t].todo /\ tx'[t].todo[i] = ops[i]
        /\ TxTyped(t)' /\ OpsOK(t)' /\ BaseLocked(t)' /\ RowContestLocked(t)' /\ SeenOK(t)'
    <3>1. Continue(t, ops, w2)
      BY <2>2, <2>3
    <3>2. QED
      BY <1>1, <1>2, <2>4, <2>5, <3>1, StepTaken
  <2>7. /\ UNCHANGED <<policy, binding, row>>
        /\ DOMAIN w2.shown = sources \cup DOMAIN w.shown
        /\ \A s \in sources : w2.shown[s] = shown[s]
        /\ \A s \in DOMAIN w.shown \ sources : w2.shown[s] = w.shown[s]
        /\ DOMAIN w2.binding = {<<c, p>>} \cup DOMAIN w.binding /\ w2.binding[<<c, p>>] = new
        /\ \A pair \in DOMAIN w.binding \ {<<c, p>>} : w2.binding[pair] = w.binding[pair]
    <3>1. DOMAIN shown = sources
      BY <1>13
    <3>2. DOMAIN Only(<<c, p>>, new) = {<<c, p>>} /\ Only(<<c, p>>, new)[<<c, p>>] = new
      BY OnlyFacts
    <3>3. /\ DOMAIN w2.shown = sources \cup DOMAIN w.shown
          /\ \A s \in sources : w2.shown[s] = shown[s]
          /\ \A s \in DOMAIN w.shown \ sources : w2.shown[s] = w.shown[s]
      BY <2>5, <3>1 DEF Over
    <3>4. /\ DOMAIN w2.binding = {<<c, p>>} \cup DOMAIN w.binding /\ w2.binding[<<c, p>>] = new
          /\ \A pair \in DOMAIN w.binding \ {<<c, p>>} : w2.binding[pair] = w.binding[pair]
      BY <2>5, <3>2 DEF Over
    <3>5. QED
      BY <1>1, <3>3, <3>4 DEF committed
  <2>8. old = NewBinding(t, c, p) /\ old \in Binding /\ binding[<<c, p>>] # None
    <3>1. old = NewBinding(t, c, p)
      BY <1>7, <1>8 DEF NewBinding, BindingOf
    <3>2. QED
      BY <1>2, <1>7, <1>15, <3>1, NewHosts
  <2>9. new \in Binding /\ new.revision \in Nat /\ new.revision > 0 /\ new # None
    <3>1. old.policy \in Policy /\ old.pinned \in Version /\ old.revision \in Nat
      BY <2>8 DEF Binding
    <3>2. chosen \in Policy
      BY <1>7, <1>9, <3>1
    <3>3. pinned \in Version
      BY <1>7, <1>10, <3>1, <3>2 DEF Policy
    <3>4. new \in Binding /\ new.revision = old.revision + 1
      BY <1>11, <3>1, <3>2, <3>3 DEF Binding
    <3>5. QED
      BY <3>1, <3>4, EffectiveAssumption
  <2>10. ASSUME NEW p2
         PROVE  NewPolicy(t, p2)' = NewPolicy(t, p2)
    BY <2>5, <2>6, <2>7 DEF NewPolicy
  <2>11. ASSUME NEW c2 \in Contest \cup {None}, NEW p2 \in Problem
         PROVE  NewBinding(t, c2, p2)' = IF c2 = c /\ p2 = p THEN new ELSE NewBinding(t, c2, p2)
    <3>1. CASE c2 = None
      BY <1>7, <3>1 DEF NewBinding, BindingOf
    <3>2. CASE c2 # None
      <4>1. /\ NewBinding(t, c2, p2)' = Over(w2.binding, binding)[<<c2, p2>>]
            /\ NewBinding(t, c2, p2) = Over(w.binding, binding)[<<c2, p2>>]
        BY <2>6, <2>7, <3>2 DEF NewBinding, BindingOf
      <4>2. PICK pair : pair = <<c2, p2>>
        OBVIOUS
      <4>3. pair \in DOMAIN binding /\ (pair = <<c, p>> <=> (c2 = c /\ p2 = p))
        BY <1>1, <3>2, <4>2, DbDomains DEF Pair
      <4>4. CASE pair = <<c, p>>
        BY <2>7, <4>1, <4>2, <4>3, <4>4, OverNew
      <4>5. CASE pair # <<c, p>> /\ pair \in DOMAIN w.binding
        BY <2>7, <4>1, <4>2, <4>3, <4>5, OverNew
      <4>6. CASE pair # <<c, p>> /\ pair \notin DOMAIN w.binding
        BY <2>7, <4>1, <4>2, <4>3, <4>6, OverElse
      <4>7. QED
        BY <4>4, <4>5, <4>6
    <3>3. QED
      BY <3>1, <3>2
  <2>12. ASSUME NEW p2 \in DOMAIN w2.policy
         PROVE  PolicyReady(t, p2)'
    <3>1. PolicyReady(t, p2)
      BY <1>2, <2>5, <2>12 DEF ChangeReady
    <3>2. QED
      BY <2>5, <2>6, <2>7, <3>1 DEF PolicyReady
  <2>13. ASSUME NEW pair \in DOMAIN w2.binding
         PROVE  BindingReady(t, pair)'
    <3>1. CASE pair = <<c, p>>
      <4>1. pair[1] = c /\ pair[2] = p
        BY <3>1
      <4>2. \A s \in Submission : row[s].exists /\ row[s].contest = c /\ ProblemOf[s] = p
                => s \in DOMAIN w2.shown
        BY <1>12, <2>7
      <4>3. \E ch \in q.changes : ch.contest = c /\ ch.problem = p
        BY <1>4, <1>5, <1>6
      <4>4. QED
        BY <1>7, <2>6, <2>7, <2>8, <2>9, <3>1, <4>1, <4>2, <4>3 DEF BindingReady
    <3>2. CASE pair # <<c, p>>
      <4>1. pair \in DOMAIN w.binding /\ BindingReady(t, pair)
        BY <1>2, <2>7, <2>13, <3>2 DEF ChangeReady
      <4>2. QED
        BY <2>6, <2>7, <3>2, <4>1 DEF BindingReady
    <3>3. QED
      BY <3>1, <3>2
  <2>14. ASSUME NEW s \in DOMAIN w2.shown
         PROVE  ShownReady(t, s)'
    <3>1. CASE s \in sources
      <4>1. s \in Submission /\ row[s].exists /\ row[s].contest = c /\ ProblemOf[s] = p
        BY <1>12, <3>1
      <4>2. w2.shown[s] = Projection(row[s].results, NewPolicy(t, p), new)
        BY <1>13, <2>7, <3>1 DEF NewPolicy
      <4>3. /\ w2.shown[s].global = Selection(row[s].results, NewPolicy(t, p).policy)
            /\ w2.shown[s].globalRevision = NewPolicy(t, p).revision
            /\ w2.shown[s].contest = Selection(row[s].results, new.policy)
            /\ w2.shown[s].contestRevision = new.revision
        BY <2>9, <4>2, ProjectionFacts
      <4>4. NewPolicy(t, ProblemOf[s])' = NewPolicy(t, p) /\ NewBinding(t, row[s].contest, ProblemOf[s])' = new
        BY <1>7, <2>7, <2>10, <2>11, <4>1
      <4>5. \E ch \in q.changes : ch.problem = ProblemOf[s] /\ ch.contest \in {None, row[s].contest}
        BY <1>4, <1>5, <1>6, <4>1
      <4>6. new.revision # 0
        BY <2>9
      <4>7. QED
        BY <2>6, <2>7, <4>1, <4>3, <4>4, <4>5, <4>6 DEF ShownReady
    <3>2. CASE s \notin sources
      <4>1. s \in DOMAIN w.shown /\ ShownReady(t, s) /\ w2.shown[s] = w.shown[s]
        BY <1>2, <2>7, <2>14, <3>2 DEF ChangeReady
      <4>2. /\ s \in Submission /\ ProblemOf[s] \in Problem
            /\ ~(row[s].contest = c /\ ProblemOf[s] = p)
        BY <1>12, <3>2, <4>1, EffectiveAssumption DEF ShownReady
      <4>3. row[s].contest \in Contest \cup {None}
        BY <1>1, <4>2 DEF DbTyped, RowTyped
      <4>4. /\ NewPolicy(t, ProblemOf[s])' = NewPolicy(t, ProblemOf[s])
            /\ NewBinding(t, row[s].contest, ProblemOf[s])'
                  = NewBinding(t, row[s].contest, ProblemOf[s])
        BY <2>7, <2>10, <2>11, <4>2, <4>3
      <4>5. QED
        BY <2>6, <2>7, <4>1, <4>4 DEF ShownReady
    <3>3. QED
      BY <3>1, <3>2
  <2>15. ChangeReady(t)'
    BY <2>5, <2>6, <2>12, <2>13, <2>14 DEF ChangeReady
  <2>16. BumpsOK(t)'
    BY <1>1, <1>2, <2>4, <2>5, <2>6, BumpAhead DEF TxOK
  <2>17. TxOK(t)'
    BY <1>2, <2>6, <2>15, <2>16 DEF TxOK, ResultReady, CreateReady, RemoveReady, EditReady,
       DeleteReady, OtherReady, RefreshReady
  <2>18. QED
    BY <1>1, <1>2, <2>6, <2>17, LocalStep
<1>16. QED
  BY <1>14, <1>15

-----------------------------------------------------------------------------
(* The programs of requests.                                                        *)

Has(seq, x) == \E i \in 1..Len(seq) : seq[i] = x

(* As Ahead, of a program.                                                          *)
AheadIn(program, op) ==
    \E i, j \in DOMAIN program :
        /\ i < j /\ program[i] = op /\ IsStep(program[j])
        /\ \A k \in 1..i : ~IsStep(program[k])

LEMMA HasJoined ==
    ASSUME NEW S, NEW a \in Seq(S), NEW b \in Seq(S)
    PROVE  /\ a \o b \in Seq(S)
           /\ \A x : Has(a, x) \/ Has(b, x) => Has(a \o b, x)
<1> DEFINE c == a \o b
<1>1. /\ c \in Seq(S) /\ Len(c) = Len(a) + Len(b) /\ Len(a) \in Nat /\ Len(b) \in Nat
      /\ \A i \in 1..Len(a) : c[i] = a[i]
      /\ \A i \in 1..Len(b) : c[Len(a) + i] = b[i]
  OBVIOUS
<1>2. ASSUME NEW x, Has(a, x)
      PROVE  Has(c, x)
  <2>1. PICK i \in 1..Len(a) : a[i] = x
    BY <1>2 DEF Has
  <2>2. i \in 1..Len(c) /\ c[i] = x
    BY <1>1, <2>1
  <2>3. QED
    BY <2>2 DEF Has
<1>3. ASSUME NEW x, Has(b, x)
      PROVE  Has(c, x)
  <2>1. PICK i \in 1..Len(b) : b[i] = x
    BY <1>3 DEF Has
  <2>2. Len(a) + i \in 1..Len(c) /\ c[Len(a) + i] = x
    BY <1>1, <2>1
  <2>3. QED
    BY <2>2 DEF Has
<1>4. QED
  BY <1>1, <1>2, <1>3

LEMMA HasOne ==
    ASSUME NEW S, NEW x \in S
    PROVE  <<x>> \in Seq(S) /\ Has(<<x>>, x)
<1>1. <<x>> \in Seq(S) /\ 1 \in 1..Len(<<x>>) /\ <<x>>[1] = x
  OBVIOUS
<1>2. QED
  BY <1>1 DEF Has

LEMMA SeqOfFunction ==
    ASSUME NEW S, NEW n \in Nat, NEW f \in [1..n -> S]
    PROVE  f \in Seq(S) /\ Len(f) = n
OBVIOUS

LEMMA SeqElements ==
    ASSUME NEW S, NEW f \in Seq(S)
    PROVE  \A i \in 1..Len(f) : f[i] \in S
OBVIOUS

LEMMA LocksHas ==
    ASSUME NEW S, IsFiniteSet(S), NEW order \in SetToSeqs(S), NEW table, NEW mode \in Mode,
           \A x \in S : <<table, x>> \in Object, table # "revision of all"
    PROVE  /\ Locks(table, order, mode) \in Seq(LockOp)
           /\ \A x \in S : Has(Locks(table, order, mode), <<"lock", <<table, x>>, mode>>)
<1> DEFINE locks == Locks(table, order, mode)
<1>1. /\ order \in Seq(S) /\ DOMAIN order = 1..Len(order) /\ Len(order) \in Nat
      /\ \A x \in S : \E i \in 1..Len(order) : order[i] = x
  BY Enumeration
<1>2. \A x \in S : Lock(table, x, mode) \in LockOp
  BY LockOps
<1>3. locks \in Seq(LockOp) /\ Len(locks) = Len(order)
  <2> DEFINE n == Len(order)
  <2>1. \A i \in 1..n : order[i] \in S
    BY <1>1, SeqElements
  <2>2. locks = [i \in 1..n |-> Lock(table, order[i], mode)]
    BY <1>1 DEF Locks
  <2> HIDE DEF locks, n
  <2>3. locks \in [1..n -> LockOp]
    BY <1>2, <2>1, <2>2
  <2>4. n \in Nat
    BY <1>1 DEF n
  <2>5. locks \in Seq(LockOp) /\ Len(locks) = n
    BY <2>3, <2>4, SeqOfFunction
  <2>6. QED
    BY <2>5 DEF n
<1>4. \A i \in 1..Len(order) : locks[i] = Lock(table, order[i], mode)
  BY <1>1 DEF Locks
<1> HIDE DEF locks
<1>5. \A x \in S : Has(locks, Lock(table, x, mode))
  BY <1>1, <1>3, <1>4 DEF Has
<1>6. QED
  BY <1>3, <1>5 DEF Lock, locks

(* Operations of a request that are no steps, its steps, and both.                  *)
Before(q, pre) ==
    /\ pre \in Seq(Op)
    /\ \A i \in 1..Len(pre) : ~IsStep(pre[i]) /\ (pre[i][1] # "lock" => pre[i] \in OpsOf(q))

Steps(q, steps) ==
    steps \in Seq(Op) /\ \A i \in 1..Len(steps) : IsStep(steps[i]) /\ steps[i] \in OpsOf(q)

Shape(q, pre, steps, program) ==
    /\ program \in Seq(Op)
    /\ \A i \in DOMAIN program :
          /\ program[i][1] # "lock" => program[i] \in OpsOf(q)
          /\ IsStep(program[i]) /\ Len(steps) = 1 => i = Len(program)
    /\ steps # <<>> => /\ \A op : Has(pre, op) => AheadIn(program, op)
                       /\ \E i \in DOMAIN program : IsStep(program[i])

LEMMA ProgramShape ==
    ASSUME NEW q, NEW pre, NEW steps, Before(q, pre), Steps(q, steps)
    PROVE  Shape(q, pre, steps, pre \o steps)
<1> USE DEF Before, Steps
<1> PICK program : program = pre \o steps
  OBVIOUS
<1> DEFINE a == Len(pre)
           b == Len(steps)
<1>1. /\ program \in Seq(Op) /\ Len(program) = a + b /\ a \in Nat /\ b \in Nat
      /\ DOMAIN program = 1..Len(program)
      /\ \A i \in 1..a : program[i] = pre[i]
      /\ \A i \in 1..b : program[a + i] = steps[i]
  OBVIOUS
<1>2. steps # <<>> => 1 \in 1..b
  OBVIOUS
<1> HIDE DEF a, b
<1>3. ASSUME NEW i \in DOMAIN program
      PROVE  /\ program[i][1] # "lock" => program[i] \in OpsOf(q)
             /\ IsStep(program[i]) /\ b = 1 => i = Len(program)
  <2>1. CASE i <= a
    <3>1. i \in 1..a /\ program[i] = pre[i]
      BY <1>1, <1>3, <2>1
    <3>2. QED
      BY <3>1 DEF a
  <2>2. CASE i > a
    <3>1. i - a \in 1..b /\ i = a + (i - a)
      BY <1>1, <1>3, <2>2
    <3>2. program[a + (i - a)] = steps[i - a]
      BY <1>1, <3>1
    <3>3. program[i] \in OpsOf(q)
      BY <3>1, <3>2 DEF b
    <3>4. b = 1 => i = Len(program)
      BY <1>1, <1>3, <3>1
    <3>5. QED
      BY <3>3, <3>4
  <2>3. QED
    BY <1>1, <1>3, <2>1, <2>2
<1>4. ASSUME steps # <<>>
      PROVE  a + 1 \in DOMAIN program /\ IsStep(program[a + 1])
  BY <1>1, <1>2, <1>4 DEF b
<1>5. ASSUME steps # <<>>, NEW op, Has(pre, op)
      PROVE  AheadIn(program, op)
  <2>1. PICK i \in 1..a : pre[i] = op
    BY <1>5 DEF Has, a
  <2>2. /\ i \in DOMAIN program /\ program[i] = op /\ i < a + 1
        /\ \A k \in 1..i : ~IsStep(program[k])
    BY <1>1, <2>1 DEF a
  <2>3. QED
    BY <1>4, <1>5, <2>2 DEF AheadIn
<1>6. QED
  BY <1>1, <1>3, <1>4, <1>5 DEF b, Shape

(* What the program of a request is made of.                                        *)
Programmed(q, program) ==
    /\ program \in Seq(Op)
    /\ \A i \in DOMAIN program :
          /\ program[i][1] # "lock" => program[i] \in OpsOf(q)
          /\ IsStep(program[i]) /\ q.kind \notin {"change", "batch"} => i = Len(program)
    /\ \A lock \in BaseLocks(q) : AheadIn(program, <<"lock", lock[1], lock[2]>>)
    /\ q.kind = "result" => AheadIn(program, <<"contest of row">>)
    /\ q.kind = "remove" =>
          LET c == row[q.submission].contest
          IN  c # None => AheadIn(program, <<"lock", <<"contest", c>>, "share">>)
    /\ q.kind \in {"result", "create", "remove", "delete"} =>
          \E i \in DOMAIN program : IsStep(program[i])

LEMMA OneStep ==
    ASSUME NEW q, NEW step \in Op, IsStep(step), step \in OpsOf(q), NEW steps, steps = <<step>>
    PROVE  Steps(q, steps) /\ Len(steps) = 1 /\ steps # <<>>
BY OneElement DEF Steps

LEMMA OnlyLocks ==
    ASSUME NEW q, NEW pre \in Seq(LockOp)
    PROVE  Before(q, pre)
<1>1. \A op \in LockOp : op \in Op /\ ~IsStep(op) /\ op[1] = "lock"
  BY LockOpFacts
<1>2. QED
  BY <1>1 DEF Before

LEMMA NamedStep ==
    ASSUME NEW name \in {"result", "create", "remove", "edit", "cascade", "refresh"}
    PROVE  <<name>> \in Op /\ IsStep(<<name>>)
<1>1. <<name>>[1] = name
  OBVIOUS
<1>2. <<name>> \in NamedOp
  BY DEF NamedOp
<1>3. QED
  BY <1>1, <1>2 DEF Op, IsStep

(* Locks first and then one step.                                                   *)
LEMMA LocksThenStep ==
    ASSUME NEW q, q.kind # "result", NEW pre \in Seq(LockOp),
           NEW step \in Op, IsStep(step), step \in OpsOf(q),
           \A lock \in BaseLocks(q) : Has(pre, <<"lock", lock[1], lock[2]>>),
           q.kind = "remove" =>
               LET c == row[q.submission].contest
               IN  c # None => Has(pre, <<"lock", <<"contest", c>>, "share">>),
           NEW program, program = pre \o <<step>>
    PROVE  Programmed(q, program)
<1>1. PICK steps : steps = <<step>>
  OBVIOUS
<1>2. Steps(q, steps) /\ Len(steps) = 1 /\ steps # <<>>
  BY <1>1, OneStep
<1>3. Before(q, pre)
  BY OnlyLocks
<1>4. Shape(q, pre, steps, program)
  <2>1. program = pre \o steps
    BY <1>1
  <2>2. QED
    BY <1>2, <1>3, <2>1, ProgramShape
<1>5. QED
  BY <1>2, <1>4 DEF Programmed, Shape

LEMMA ThreeElements ==
    ASSUME NEW S, NEW a \in S, NEW b \in S, NEW c \in S, NEW seq, seq = <<a, b, c>>
    PROVE  /\ seq \in Seq(S) /\ \A i \in 1..Len(seq) : seq[i] \in {a, b, c}
           /\ Has(seq, a) /\ Has(seq, b) /\ Has(seq, c)
<1>1. /\ seq \in Seq(S) /\ Len(seq) = 3 /\ seq[1] = a /\ seq[2] = b /\ seq[3] = c
  OBVIOUS
<1>2. 1 \in 1..3 /\ 2 \in 1..3 /\ 3 \in 1..3 /\ \A i \in 1..3 : i = 1 \/ i = 2 \/ i = 3
  OBVIOUS
<1>3. QED
  BY <1>1, <1>2 DEF Has

LEMMA ResultProgrammed ==
    ASSUME NEW q \in Request, q.kind = "result"
    PROVE  Programmed(q, resultProgram(q))
<1>1. q.submission \in Submission /\ ProblemOf[q.submission] \in Problem
  BY RequestFacts
<1>2. PICK a : a = Lock("problem", ProblemOf[q.submission], "share")
  OBVIOUS
<1>3. PICK b : b = <<"contest of row">>
  OBVIOUS
<1>4. PICK c : c = Lock("submission", q.submission, "update")
  OBVIOUS
<1>5. PICK d : d = <<"result">>
  OBVIOUS
<1>6. a \in LockOp /\ c \in LockOp
  BY <1>1, <1>2, <1>4, LockOps DEF Object, Mode
<1>7. /\ a \in Op /\ ~IsStep(a) /\ a[1] = "lock"
      /\ c \in Op /\ ~IsStep(c) /\ c[1] = "lock"
  BY <1>6, LockOpFacts
<1>8. b[1] = "contest of row" /\ b \in Op /\ ~IsStep(b) /\ d \in Op /\ IsStep(d)
  <2>1. b[1] = "contest of row"
    BY <1>3
  <2>2. b \in Op
    BY <1>3 DEF Op, NamedOp
  <2>3. d \in Op /\ IsStep(d)
    BY <1>5, NamedStep
  <2>4. QED
    BY <2>1, <2>2, <2>3 DEF IsStep
<1>9. b \in OpsOf(q) /\ d \in OpsOf(q)
  BY <1>3, <1>5 DEF OpsOf
<1>10. PICK pre : pre = <<a, b, c>>
  OBVIOUS
<1>11. PICK steps : steps = <<d>>
  OBVIOUS
<1>12. PICK program : program = <<a, b, c, d>>
  OBVIOUS
<1>13. /\ pre \in Seq(Op) /\ \A i \in 1..Len(pre) : pre[i] \in {a, b, c}
       /\ Has(pre, a) /\ Has(pre, b) /\ Has(pre, c)
  <2>1. a \in Op /\ b \in Op /\ c \in Op
    BY <1>7, <1>8
  <2>2. QED
    BY <1>10, <2>1, ThreeElements
<1>14. program = pre \o steps
  BY <1>10, <1>11, <1>12
<1>15. Steps(q, steps) /\ Len(steps) = 1 /\ steps # <<>>
  BY <1>8, <1>9, <1>11, OneStep
<1>16. Before(q, pre)
  BY <1>7, <1>8, <1>9, <1>13 DEF Before
<1>17. Shape(q, pre, steps, program)
  BY <1>14, <1>15, <1>16, ProgramShape
<1>18. \A lock \in BaseLocks(q) : Has(pre, <<"lock", lock[1], lock[2]>>)
  <2>1. SUFFICES ASSUME NEW lock \in BaseLocks(q)
                 PROVE  Has(pre, <<"lock", lock[1], lock[2]>>)
    OBVIOUS
  <2>2. \/ lock = <<<<"problem", ProblemOf[q.submission]>>, "share">>
        \/ lock = <<<<"submission", q.submission>>, "update">>
    BY DEF BaseLocks
  <2>3. <<"lock", lock[1], lock[2]>> \in {a, c}
    BY <1>2, <1>4, <2>2 DEF Lock
  <2>4. QED
    BY <1>13, <2>3
<1>19. Programmed(q, program)
  BY <1>3, <1>13, <1>15, <1>17, <1>18 DEF Programmed, Shape
<1>20. program = resultProgram(q)
  BY <1>2, <1>3, <1>4, <1>5, <1>12 DEF resultProgram
<1>21. QED
  BY <1>19, <1>20

LEMMA LockAs ==
    ASSUME NEW pre, NEW object, NEW mode, Has(pre, <<"lock", object, mode>>),
           NEW lock, lock = <<object, mode>>
    PROVE  Has(pre, <<"lock", lock[1], lock[2]>>)
<1>1. lock[1] = object /\ lock[2] = mode
  OBVIOUS
<1>2. QED
  BY <1>1

(* The locks of a problem and, inside of one, of a contest.                         *)
LEMMA ProjectionHosts ==
    ASSUME NEW p \in Problem, NEW c \in Contest \cup {None}
    PROVE  /\ lockProjectionHosts(p, c) \in Seq(LockOp)
           /\ Has(lockProjectionHosts(p, c), <<"lock", <<"problem", p>>, "share">>)
           /\ c # None => Has(lockProjectionHosts(p, c), <<"lock", <<"contest", c>>, "share">>)
<1>1. PICK a : a = <<Lock("problem", p, "share")>>
  OBVIOUS
<1>2. PICK b : b = IF c = None THEN <<>> ELSE <<Lock("contest", c, "share")>>
  OBVIOUS
<1>3. Lock("problem", p, "share") \in LockOp
  BY LockOps DEF Object, Mode
<1>4. a \in Seq(LockOp) /\ Has(a, Lock("problem", p, "share"))
  BY <1>1, <1>3, HasOne
<1>5. b \in Seq(LockOp) /\ (c # None => Has(b, Lock("contest", c, "share")))
  <2>1. CASE c = None
    BY <1>2, <2>1
  <2>2. CASE c # None
    <3>1. Lock("contest", c, "share") \in LockOp
      BY <2>2, LockOps DEF Object, Mode
    <3>2. QED
      BY <1>2, <2>2, <3>1, HasOne
  <2>3. QED
    BY <2>1, <2>2
<1>6. /\ a \o b \in Seq(LockOp)
      /\ \A x : Has(a, x) \/ Has(b, x) => Has(a \o b, x)
  BY <1>4, <1>5, HasJoined
<1>7. lockProjectionHosts(p, c) = a \o b
  BY <1>1, <1>2 DEF lockProjectionHosts
<1>8. QED
  BY <1>4, <1>5, <1>6, <1>7 DEF Lock

LEMMA CreateProgrammed ==
    ASSUME NEW q \in Request, q.kind = "create"
    PROVE  Programmed(q, createProgram(q))
<1>1. ProblemOf[q.submission] \in Problem /\ q.contest \in Contest \cup {None}
  BY RequestFacts
<1>2. PICK pre : pre = lockProjectionHosts(ProblemOf[q.submission], q.contest)
  OBVIOUS
<1>3. PICK step : step = <<"create">>
  OBVIOUS
<1>4. step \in Op /\ IsStep(step) /\ step \in OpsOf(q)
  BY <1>3, NamedStep DEF OpsOf
<1>5. /\ pre \in Seq(LockOp)
      /\ Has(pre, <<"lock", <<"problem", ProblemOf[q.submission]>>, "share">>)
      /\ q.contest # None => Has(pre, <<"lock", <<"contest", q.contest>>, "share">>)
  BY <1>1, <1>2, ProjectionHosts
<1>6. \A lock \in BaseLocks(q) : Has(pre, <<"lock", lock[1], lock[2]>>)
  <2>1. SUFFICES ASSUME NEW lock \in BaseLocks(q)
                 PROVE  Has(pre, <<"lock", lock[1], lock[2]>>)
    OBVIOUS
  <2>2. \/ lock = <<<<"problem", ProblemOf[q.submission]>>, "share">>
        \/ q.contest # None /\ lock = <<<<"contest", q.contest>>, "share">>
    BY DEF BaseLocks
  <2>3. QED
    BY <1>5, <2>2, LockAs
<1>7. PICK program : program = pre \o <<step>>
  OBVIOUS
<1>8. Programmed(q, program)
  BY <1>4, <1>5, <1>6, <1>7, LocksThenStep
<1>9. program = createProgram(q)
  BY <1>2, <1>3, <1>7 DEF createProgram
<1>10. QED
  BY <1>8, <1>9

LEMMA TwoLast ==
    ASSUME NEW S, NEW a \in Seq(S), NEW x \in S, NEW y \in S
    PROVE  a \o <<x, y>> = (a \o <<x>>) \o <<y>>
<1> DEFINE b == a \o <<x, y>>
           c == (a \o <<x>>) \o <<y>>
<1>1. /\ b \in Seq(S) /\ Len(b) = Len(a) + 2 /\ Len(a) \in Nat
      /\ \A i \in 1..Len(a) : b[i] = a[i]
      /\ b[Len(a) + 1] = x /\ b[Len(a) + 2] = y
  OBVIOUS
<1>2. /\ c \in Seq(S) /\ Len(c) = Len(a) + 2
      /\ \A i \in 1..Len(a) : c[i] = a[i]
      /\ c[Len(a) + 1] = x /\ c[Len(a) + 2] = y
  OBVIOUS
<1> HIDE DEF b, c
<1>3. \A i \in 1..Len(b) : b[i] = c[i]
  BY <1>1, <1>2
<1>4. b = c
  BY <1>1, <1>2, <1>3
<1>5. QED
  BY <1>4 DEF b, c

LEMMA RemoveProgrammed ==
    ASSUME DbTyped, NEW q \in Request, q.kind = "remove"
    PROVE  Programmed(q, removeProgram(q))
<1> DEFINE s == q.submission
           c == row[s].contest
<1>1. s \in Submission /\ ProblemOf[s] \in Problem /\ c \in Contest \cup {None}
  BY RequestFacts DEF DbTyped, RowTyped
<1>2. PICK hosts : hosts = lockProjectionHosts(ProblemOf[s], c)
  OBVIOUS
<1>3. PICK mine : mine = Lock("submission", s, "update")
  OBVIOUS
<1>4. PICK step : step = <<"remove">>
  OBVIOUS
<1>5. PICK last : last = <<mine>>
  OBVIOUS
<1>6. PICK pre : pre = hosts \o last
  OBVIOUS
<1>7. step \in Op /\ IsStep(step) /\ step \in OpsOf(q)
  BY <1>4, NamedStep DEF OpsOf
<1>8. /\ hosts \in Seq(LockOp)
      /\ Has(hosts, <<"lock", <<"problem", ProblemOf[s]>>, "share">>)
      /\ c # None => Has(hosts, <<"lock", <<"contest", c>>, "share">>)
  BY <1>1, <1>2, ProjectionHosts
<1>9. mine \in LockOp
  BY <1>1, <1>3, LockOps DEF Object, Mode
<1>10. last \in Seq(LockOp) /\ Has(last, mine)
  BY <1>5, <1>9, HasOne
<1>11. /\ hosts \o last \in Seq(LockOp)
       /\ \A x : Has(hosts, x) \/ Has(last, x) => Has(hosts \o last, x)
  BY <1>8, <1>10, HasJoined
<1>12. /\ pre \in Seq(LockOp) /\ Has(pre, mine)
       /\ Has(pre, <<"lock", <<"problem", ProblemOf[s]>>, "share">>)
       /\ c # None => Has(pre, <<"lock", <<"contest", c>>, "share">>)
  BY <1>6, <1>8, <1>10, <1>11
<1>13. \A lock \in BaseLocks(q) : Has(pre, <<"lock", lock[1], lock[2]>>)
  <2>1. SUFFICES ASSUME NEW lock \in BaseLocks(q)
                 PROVE  Has(pre, <<"lock", lock[1], lock[2]>>)
    OBVIOUS
  <2>2. \/ lock = <<<<"problem", ProblemOf[s]>>, "share">>
        \/ lock = <<<<"submission", s>>, "update">>
    BY DEF BaseLocks
  <2>3. CASE lock = <<<<"submission", s>>, "update">>
    BY <1>3, <1>12, <2>3 DEF Lock
  <2>4. QED
    BY <1>12, <2>2, <2>3, LockAs
<1>14. PICK program : program = pre \o <<step>>
  OBVIOUS
<1>15. Programmed(q, program)
  <2>1. LET d == row[q.submission].contest
        IN  d # None => Has(pre, <<"lock", <<"contest", d>>, "share">>)
    BY <1>12
  <2>2. QED
    BY <1>7, <1>12, <1>13, <1>14, <2>1, LocksThenStep
<1>16. program = removeProgram(q)
  <2>1. hosts \o <<mine, step>> = (hosts \o <<mine>>) \o <<step>>
    <3>1. hosts \in Seq(Op) /\ mine \in Op
      BY <1>8, <1>9, OnlyLocks, LockOpFacts DEF Before
    <3>2. QED
      BY <1>7, <3>1, TwoLast
  <2>2. removeProgram(q) = hosts \o <<mine, step>>
    BY <1>2, <1>3, <1>4 DEF removeProgram
  <2>3. QED
    BY <1>5, <1>6, <1>14, <2>1, <2>2
<1>17. QED
  BY <1>15, <1>16

LEMMA TwoOnly ==
    ASSUME NEW S, NEW x \in S, NEW y \in S, NEW a, a = <<x>>, NEW b, b = a \o <<y>>
    PROVE  b = <<x, y>>
<1>1. a \in Seq(S) /\ Len(a) = 1 /\ a[1] = x
  OBVIOUS
<1>2. b \in Seq(S) /\ Len(b) = 2 /\ b[1] = x /\ b[2] = y
  BY <1>1
<1>3. \A c \in Seq(S) : Len(c) = 2 => c = <<c[1], c[2]>>
  OBVIOUS
<1>4. QED
  BY <1>2, <1>3

LEMMA DeleteProgrammed ==
    ASSUME NEW q \in Request, q.kind = "delete"
    PROVE  Programmed(q, <<Lock("contest", q.contest, "update"), <<"cascade">>>>)
<1>1. PICK mine : mine = Lock("contest", q.contest, "update")
  OBVIOUS
<1>2. PICK step : step = <<"cascade">>
  OBVIOUS
<1>3. PICK pre : pre = <<mine>>
  OBVIOUS
<1>4. step \in Op /\ IsStep(step) /\ step \in OpsOf(q)
  BY <1>2, NamedStep DEF OpsOf
<1>5. mine \in LockOp
  BY <1>1, LockOps, RequestFacts DEF Object, Mode
<1>6. pre \in Seq(LockOp) /\ Has(pre, mine)
  BY <1>3, <1>5, HasOne
<1>7. \A lock \in BaseLocks(q) : Has(pre, <<"lock", lock[1], lock[2]>>)
  <2>1. BaseLocks(q) = {<<<<"contest", q.contest>>, "update">>}
    BY DEF BaseLocks
  <2>2. QED
    BY <1>1, <1>6, <2>1 DEF Lock
<1>8. PICK program : program = pre \o <<step>>
  OBVIOUS
<1>9. Programmed(q, program)
  BY <1>4, <1>6, <1>7, <1>8, LocksThenStep
<1>10. program = <<mine, step>>
  <2>1. mine \in Op /\ step \in Op
    BY <1>4, <1>5, LockOpFacts
  <2>2. QED
    BY <1>3, <1>8, <2>1, TwoOnly
<1>11. QED
  BY <1>1, <1>2, <1>9, <1>10

LEMMA EditProgrammed ==
    ASSUME DbTyped, NEW q \in Request, q.kind = "edit"
    PROVE  Programmed(q, editProgram(q))
<1> DEFINE previous == {p \in Problem : binding[<<q.contest, p>>] # None}
           given == IF q.problems = None THEN {} ELSE q.problems
<1>1. /\ q.contest \in Contest /\ q.problems \in (SUBSET Problem) \cup {None}
      /\ IsFiniteSet(Problem) /\ Problem \subseteq Nat
  BY RequestFacts, EffectiveAssumption
<1>2. PICK S : S = previous \cup given
  OBVIOUS
<1>3. S \subseteq Problem /\ S \subseteq Nat /\ IsFiniteSet(S)
  <2>0. q.problems # None => q.problems \subseteq Problem
    BY <1>1
  <2>1. given \subseteq Problem /\ previous \subseteq Problem
    BY <2>0
  <2> HIDE DEF given, previous
  <2>2. S \subseteq Problem
    BY <1>2, <2>1
  <2>3. QED
    BY <1>1, <2>2, FS_Subset
<1>4. PICK order : order = Ascending(S)
  OBVIOUS
<1>5. order \in SetToSeqs(S)
  BY <1>3, <1>4, AscendingSorted
<1>6. PICK locks : locks = Locks("problem", order, "share")
  OBVIOUS
<1>7. /\ locks \in Seq(LockOp)
      /\ \A p \in S : Has(locks, <<"lock", <<"problem", p>>, "share">>)
  <2>1. \A p \in S : <<"problem", p>> \in Object
    BY <1>3 DEF Object
  <2>2. QED
    BY <1>3, <1>5, <1>6, <2>1, LocksHas DEF Mode
<1>8. PICK mine : mine = Lock("contest", q.contest, "update")
  OBVIOUS
<1>9. PICK step : step = <<"edit">>
  OBVIOUS
<1>10. PICK last : last = <<mine>>
  OBVIOUS
<1>11. PICK pre : pre = locks \o last
  OBVIOUS
<1>12. step \in Op /\ IsStep(step) /\ step \in OpsOf(q)
  BY <1>9, NamedStep DEF OpsOf
<1>13. mine \in LockOp
  BY <1>1, <1>8, LockOps DEF Object, Mode
<1>14. last \in Seq(LockOp) /\ Has(last, mine)
  BY <1>10, <1>13, HasOne
<1>15. /\ locks \o last \in Seq(LockOp)
       /\ \A x : Has(locks, x) \/ Has(last, x) => Has(locks \o last, x)
  BY <1>7, <1>14, HasJoined
<1>16. /\ pre \in Seq(LockOp) /\ Has(pre, mine)
       /\ \A p \in S : Has(pre, <<"lock", <<"problem", p>>, "share">>)
  BY <1>7, <1>11, <1>14, <1>15
<1>17. \A lock \in BaseLocks(q) : Has(pre, <<"lock", lock[1], lock[2]>>)
  <2>1. SUFFICES ASSUME NEW lock \in BaseLocks(q)
                 PROVE  Has(pre, <<"lock", lock[1], lock[2]>>)
    OBVIOUS
  <2>2. \/ lock = <<<<"contest", q.contest>>, "update">>
        \/ \E p \in given : lock = <<<<"problem", p>>, "share">>
    BY DEF BaseLocks
  <2>3. CASE lock = <<<<"contest", q.contest>>, "update">>
    BY <1>8, <1>16, <2>3 DEF Lock
  <2>4. CASE \E p \in given : lock = <<<<"problem", p>>, "share">>
    <3>1. PICK p \in S : lock = <<<<"problem", p>>, "share">>
      BY <1>2, <2>4
    <3>2. QED
      BY <1>16, <3>1, LockAs
  <2>5. QED
    BY <2>2, <2>3, <2>4
<1>18. PICK program : program = pre \o <<step>>
  OBVIOUS
<1>19. Programmed(q, program)
  BY <1>12, <1>16, <1>17, <1>18, LocksThenStep
<1>20. program = editProgram(q)
  <2>1. locks \o <<mine, step>> = (locks \o <<mine>>) \o <<step>>
    <3>1. locks \in Seq(Op) /\ mine \in Op
      BY <1>7, <1>13, OnlyLocks, LockOpFacts DEF Before
    <3>2. QED
      BY <1>12, <3>1, TwoLast
  <2>2. editProgram(q) = locks \o <<mine, step>>
    BY <1>2, <1>4, <1>6, <1>8, <1>9 DEF editProgram
  <2>3. QED
    BY <1>10, <1>11, <1>18, <2>1, <2>2
<1>21. QED
  BY <1>19, <1>20

(* The locks of the hosts of policies, problems first.                              *)
LEMMA EffectiveHosts ==
    ASSUME NEW problems, problems \subseteq Problem, NEW contests, contests \subseteq Contest,
           NEW pm \in Mode, NEW cm \in Mode
    PROVE  LET hosts == lockEffectivePolicyHosts(problems, contests, pm, cm)
           IN  /\ hosts \in Seq(LockOp)
               /\ \A p \in problems : Has(hosts, <<"lock", <<"problem", p>>, pm>>)
               /\ \A c \in contests : Has(hosts, <<"lock", <<"contest", c>>, cm>>)
<1>1. /\ problems \subseteq Nat /\ IsFiniteSet(problems)
      /\ contests \subseteq Nat /\ IsFiniteSet(contests)
  BY EffectiveAssumption, FS_Subset
<1>2. PICK first : first = Ascending(problems)
  OBVIOUS
<1>3. PICK second : second = Ascending(contests)
  OBVIOUS
<1>4. PICK a : a = Locks("problem", first, pm)
  OBVIOUS
<1>5. PICK b : b = Locks("contest", second, cm)
  OBVIOUS
<1>6. a \in Seq(LockOp) /\ \A p \in problems : Has(a, <<"lock", <<"problem", p>>, pm>>)
  <2>1. first \in SetToSeqs(problems) /\ \A p \in problems : <<"problem", p>> \in Object
    BY <1>1, <1>2, AscendingSorted DEF Object
  <2>2. QED
    BY <1>1, <1>4, <2>1, LocksHas
<1>7. b \in Seq(LockOp) /\ \A c \in contests : Has(b, <<"lock", <<"contest", c>>, cm>>)
  <2>1. second \in SetToSeqs(contests) /\ \A c \in contests : <<"contest", c>> \in Object
    BY <1>1, <1>3, AscendingSorted DEF Object
  <2>2. QED
    BY <1>1, <1>5, <2>1, LocksHas
<1>8. /\ a \o b \in Seq(LockOp)
      /\ \A x : Has(a, x) \/ Has(b, x) => Has(a \o b, x)
  BY <1>6, <1>7, HasJoined
<1>9. lockEffectivePolicyHosts(problems, contests, pm, cm) = a \o b
  BY <1>2, <1>3, <1>4, <1>5 DEF lockEffectivePolicyHosts
<1>10. QED
  BY <1>6, <1>7, <1>8, <1>9

LEMMA ChangeStep ==
    ASSUME NEW q, q.kind \in {"change", "batch"}, q.changes \subseteq Change, NEW ch \in q.changes
    PROVE  <<"change", ch>> \in Op /\ IsStep(<<"change", ch>>) /\ <<"change", ch>> \in OpsOf(q)
<1>1. <<"change", ch>>[1] = "change"
  OBVIOUS
<1>2. \A A : "change" \in A => <<"change", ch>> \in A \X q.changes /\ <<"change", ch>> \in A \X Change
  OBVIOUS
<1>3. <<"change", ch>> \in {"change"} \X q.changes /\ <<"change", ch>> \in {"change"} \X Change
  BY <1>2
<1>4. QED
  BY <1>1, <1>3 DEF Op, ChangeOp, IsStep, OpsOf

LEMMA ChangeProgrammed ==
    ASSUME NEW q \in Request, q.kind = "change", NEW ch \in q.changes
    PROVE  Programmed(q, changeProgram(ch))
<1>1. q.changes \subseteq Change /\ IsFiniteSet(q.changes) /\ Cardinality(q.changes) = 1
  BY RequestFacts
<1>2. q.changes = {ch}
  <2>1. PICK x : q.changes = {x}
    BY <1>1, FS_Singleton
  <2>2. QED
    BY <2>1
<1>3. ch.problem \in Problem /\ ch.contest \in Contest \cup {None}
  BY <1>1, ChangeFacts
<1>4. BaseLocks(q) = HostLocks("change", ch)
  BY <1>2 DEF BaseLocks
<1>5. PICK pre : pre = IF ch.contest = None THEN <<Lock("problem", ch.problem, "update")>>
                       ELSE lockEffectivePolicyHosts({ch.problem}, {ch.contest}, "share", "update")
  OBVIOUS
<1>6. PICK step : step = <<"change", ch>>
  OBVIOUS
<1>7. step \in Op /\ IsStep(step) /\ step \in OpsOf(q)
  BY <1>1, <1>6, ChangeStep
<1>8. /\ pre \in Seq(LockOp)
      /\ \A lock \in BaseLocks(q) : Has(pre, <<"lock", lock[1], lock[2]>>)
  <2>1. CASE ch.contest = None
    <3>1. PICK mine : mine = Lock("problem", ch.problem, "update")
      OBVIOUS
    <3>2. mine \in LockOp
      BY <1>3, <3>1, LockOps DEF Object, Mode
    <3>3. pre = <<mine>>
      BY <1>5, <2>1, <3>1
    <3>4. pre \in Seq(LockOp) /\ Has(pre, mine)
      BY <3>2, <3>3, HasOne
    <3>5. BaseLocks(q) = {<<<<"problem", ch.problem>>, "update">>}
      BY <1>4, <2>1 DEF HostLocks
    <3>6. Has(pre, <<"lock", <<"problem", ch.problem>>, "update">>)
      BY <3>1, <3>4 DEF Lock
    <3>7. QED
      BY <3>4, <3>5, <3>6, LockAs
  <2>2. CASE ch.contest # None
    <3>1. ch.contest \in Contest
      BY <1>3, <2>2
    <3>2. PICK ps : ps = {ch.problem}
      OBVIOUS
    <3>3. PICK cs : cs = {ch.contest}
      OBVIOUS
    <3>4. pre = lockEffectivePolicyHosts(ps, cs, "share", "update")
      BY <1>5, <2>2, <3>2, <3>3
    <3>5. /\ pre \in Seq(LockOp)
          /\ \A p \in ps : Has(pre, <<"lock", <<"problem", p>>, "share">>)
          /\ \A c \in cs : Has(pre, <<"lock", <<"contest", c>>, "update">>)
      <4>1. ps \subseteq Problem /\ cs \subseteq Contest /\ "share" \in Mode /\ "update" \in Mode
        BY <1>3, <3>1, <3>2, <3>3 DEF Mode
      <4>2. QED
        BY <3>4, <4>1, EffectiveHosts
    <3>6. BaseLocks(q) = {<<<<"problem", ch.problem>>, "share">>, <<<<"contest", ch.contest>>, "update">>}
      BY <1>4, <2>2 DEF HostLocks
    <3>7. /\ Has(pre, <<"lock", <<"problem", ch.problem>>, "share">>)
          /\ Has(pre, <<"lock", <<"contest", ch.contest>>, "update">>)
      BY <3>2, <3>3, <3>5
    <3>8. QED
      BY <3>5, <3>6, <3>7, LockAs
  <2>3. QED
    BY <2>1, <2>2
<1>9. PICK program : program = pre \o <<step>>
  OBVIOUS
<1>10. Programmed(q, program)
  BY <1>7, <1>8, <1>9, LocksThenStep
<1>11. program = changeProgram(ch)
  BY <1>5, <1>6, <1>9 DEF changeProgram
<1>12. QED
  BY <1>10, <1>11

LEMMA BatchProgrammed ==
    ASSUME NEW q \in Request, q.kind = "batch"
    PROVE  Programmed(q, batchProgram(q.changes))
<1> DEFINE problems == {ch.problem : ch \in q.changes}
           contests == {ch.contest : ch \in q.changes} \ {None}
<1>1. q.changes \subseteq Change /\ IsFiniteSet(q.changes)
  BY RequestFacts
<1>2. \A ch \in q.changes : ch.problem \in Problem /\ ch.contest \in Contest \cup {None}
  BY <1>1, ChangeFacts
<1>3. PICK ordered : ordered = InOrder(q.changes)
  OBVIOUS
<1>4. /\ ordered \in Seq(q.changes) /\ Len(ordered) \in Nat /\ DOMAIN ordered = 1..Len(ordered)
      /\ \A ch \in q.changes : \E i \in 1..Len(ordered) : ordered[i] = ch
  <2>1. ordered \in SetToSeqs(q.changes)
    BY <1>1, <1>3, EffectiveAssumption, InOrderComplete
  <2>2. QED
    BY <1>1, <2>1, Enumeration
<1>5. PICK steps : steps = [i \in DOMAIN ordered |-> <<"change", ordered[i]>>]
  OBVIOUS
<1>6. PICK pre : pre = lockEffectivePolicyHosts(problems, contests, "update", "update")
  OBVIOUS
<1>7. /\ pre \in Seq(LockOp)
      /\ \A p \in problems : Has(pre, <<"lock", <<"problem", p>>, "update">>)
      /\ \A c \in contests : Has(pre, <<"lock", <<"contest", c>>, "update">>)
  <2>1. problems \subseteq Problem /\ contests \subseteq Contest /\ "update" \in Mode
    BY <1>2 DEF Mode
  <2> HIDE DEF problems, contests
  <2>2. QED
    BY <1>6, <2>1, EffectiveHosts
<1>8. Steps(q, steps) /\ (q.changes # {} => steps # <<>>)
  <2>1. \A i \in 1..Len(ordered) : ordered[i] \in q.changes
    BY <1>4, SeqElements
  <2>2. \A i \in 1..Len(ordered) : /\ <<"change", ordered[i]>> \in Op /\ IsStep(<<"change", ordered[i]>>)
                                   /\ <<"change", ordered[i]>> \in OpsOf(q)
    BY <1>1, <2>1, ChangeStep
  <2>3. PICK n \in Nat : n = Len(ordered)
    BY <1>4
  <2>4. steps = [i \in 1..n |-> <<"change", ordered[i]>>]
    BY <1>4, <1>5, <2>3
  <2>5. /\ steps \in [1..n -> Op]
        /\ \A i \in 1..n : IsStep(steps[i]) /\ steps[i] \in OpsOf(q)
    BY <2>2, <2>3, <2>4
  <2>6. steps \in Seq(Op) /\ Len(steps) = n
    BY <2>5, SeqOfFunction
  <2>7. q.changes # {} => n # 0
    BY <1>4, <2>3
  <2>8. QED
    BY <2>5, <2>6, <2>7 DEF Steps
<1>9. Before(q, pre)
  BY <1>7, OnlyLocks
<1>10. PICK program : program = pre \o steps
  OBVIOUS
<1>11. Shape(q, pre, steps, program)
  BY <1>8, <1>9, <1>10, ProgramShape
<1>12. \A lock \in BaseLocks(q) : q.changes # {} /\ Has(pre, <<"lock", lock[1], lock[2]>>)
  <2>1. SUFFICES ASSUME NEW lock \in BaseLocks(q)
                 PROVE  q.changes # {} /\ Has(pre, <<"lock", lock[1], lock[2]>>)
    OBVIOUS
  <2>2. BaseLocks(q) = UNION {HostLocks("batch", ch) : ch \in q.changes}
    BY DEF BaseLocks
  <2>3. PICK ch \in q.changes : lock \in HostLocks("batch", ch)
    BY <2>1, <2>2
  <2>4. \/ lock = <<<<"problem", ch.problem>>, "update">>
        \/ ch.contest # None /\ lock = <<<<"contest", ch.contest>>, "update">>
    BY <2>3 DEF HostLocks
  <2>5. /\ Has(pre, <<"lock", <<"problem", ch.problem>>, "update">>)
        /\ ch.contest # None => Has(pre, <<"lock", <<"contest", ch.contest>>, "update">>)
    BY <1>7
  <2>6. QED
    BY <2>4, <2>5, LockAs
<1>13. Programmed(q, program)
  BY <1>8, <1>11, <1>12 DEF Programmed, Shape
<1>14. program = batchProgram(q.changes)
  BY <1>3, <1>5, <1>6, <1>10 DEF batchProgram
<1>15. QED
  BY <1>13, <1>14

LEMMA ConvertProgrammed ==
    ASSUME NEW q \in Request, q.kind = "convert", NEW ids \in SetToSeqs(q.problems)
    PROVE  Programmed(q, Locks("problem", ids, "update"))
<1>1. q.problems \subseteq Problem /\ IsFiniteSet(q.problems)
  BY RequestFacts, EffectiveAssumption, FS_Subset
<1>2. PICK program : program = Locks("problem", ids, "update")
  OBVIOUS
<1>3. program \in Seq(LockOp)
  <2>1. \A p \in q.problems : <<"problem", p>> \in Object
    BY <1>1 DEF Object
  <2>2. QED
    BY <1>1, <1>2, <2>1, LocksHas DEF Mode
<1>4. Before(q, program)
  BY <1>3, OnlyLocks
<1>5. \A i \in DOMAIN program : program[i][1] = "lock" /\ ~IsStep(program[i])
  <2>1. \A op \in LockOp : op[1] = "lock" /\ ~IsStep(op)
    BY LockOpFacts
  <2>2. QED
    BY <1>3, <2>1
<1>6. BaseLocks(q) = {}
  BY DEF BaseLocks
<1>7. QED
  BY <1>2, <1>4, <1>5, <1>6 DEF Programmed, Before

LEMMA AllProgrammed ==
    ASSUME DbTyped, NEW q \in Request, NEW program \in Programs(q)
    PROVE  Programmed(q, program)
<1>1. q.kind \in {"result", "create", "remove", "change", "batch", "edit", "delete", "convert"}
  BY RequestFacts
<1>2. CASE q.kind = "result"
  BY <1>2, ResultProgrammed DEF Programs
<1>3. CASE q.kind = "create"
  BY <1>3, CreateProgrammed DEF Programs
<1>4. CASE q.kind = "remove"
  BY <1>4, RemoveProgrammed DEF Programs
<1>5. CASE q.kind = "change"
  <2>1. PICK ch \in q.changes : program = changeProgram(ch)
    BY <1>5 DEF Programs
  <2>2. QED
    BY <1>5, <2>1, ChangeProgrammed
<1>6. CASE q.kind = "batch"
  BY <1>6, BatchProgrammed DEF Programs
<1>7. CASE q.kind = "edit"
  BY <1>7, EditProgrammed DEF Programs
<1>8. CASE q.kind = "delete"
  BY <1>8, DeleteProgrammed DEF Programs
<1>9. CASE q.kind = "convert"
  <2>1. PICK ids \in SetToSeqs(q.problems) : program = Locks("problem", ids, "update")
    BY <1>9 DEF Programs
  <2>2. QED
    BY <1>9, <2>1, ConvertProgrammed
<1>10. QED
  BY <1>1, <1>2, <1>3, <1>4, <1>5, <1>6, <1>7, <1>8, <1>9

-----------------------------------------------------------------------------
(* A request starts.                                                                *)

LEMMA BeginTx ==
    ASSUME IInv, NEW t \in Transaction, NEW q \in requests, Possible(q),
           NEW program \in Programs(q), NEW seen \in Seen(q),
           tx'[t] = Open(q, program, seen), requests' = requests \ {q},
           UNCHANGED <<committed, now>>
    PROVE  TxOK(t)'
<1> DEFINE x == tx'[t]
<1>1. DbTyped /\ q \in Request
  BY DEF IInv, DbTyped
<1>2. Programmed(q, program)
  BY <1>1, AllProgrammed
<1>3. /\ x.request = q /\ x.todo = program /\ x.held = {} /\ x.seen = seen
      /\ x.writes = NoWrites /\ x.start = now
      /\ x = [request |-> x.request, todo |-> x.todo, held |-> x.held,
              seen |-> x.seen, writes |-> x.writes, start |-> x.start]
  BY OpenRecord
<1> HIDE DEF x
<1>4. q.kind \in {"result", "create", "remove", "change", "batch", "edit", "delete", "convert"}
  BY <1>1, RequestFacts
<1>5. \A op : AheadIn(program, op) => Ahead(t, op)'
  BY <1>3 DEF AheadIn, Ahead, x
<1>6. TxTyped(t)'
  <2>1. x.request \in (Request \ requests') \cup SystemRequests
    BY <1>1, <1>3
  <2>2. x.todo \in Seq(Op) /\ x.held \subseteq (Object \X Mode) \cup {AdvisoryLock}
    BY <1>2, <1>3 DEF Programmed
  <2>3. x.start \in Nat /\ x.start <= now' /\ x.writes.bumps \in Nat
    BY <1>1, <1>3, NoWritesRecord DEF DbTyped
  <2>4. QED
    BY <1>3, <2>1, <2>2, <2>3, NoWritesRecord DEF TxTyped, x
<1>7. OpsOK(t)'
  BY <1>2, <1>3 DEF Programmed, OpsOK, x
<1>8. BaseLocked(t)' /\ RowContestLocked(t)'
  <2>1. BaseLocked(t)'
    <3>1. ~Computed(x.writes)
      BY <1>3, NoWritesRecord DEF Computed
    <3>2. \A lock \in BaseLocks(x.request) : Planned(t, lock)'
      BY <1>2, <1>3, <1>5 DEF Programmed, Planned
    <3>3. QED
      BY <3>1, <3>2 DEF BaseLocked, x
  <2>2. UNCHANGED row
    BY DEF committed
  <2>3. PICK c : c = row'[q.submission].contest
    OBVIOUS
  <2>4. PICK lock : lock = <<<<"contest", c>>, "share">>
    OBVIOUS
  <2>5. q.kind = "result" => Ahead(t, <<"contest of row">>)'
    BY <1>2, <1>5 DEF Programmed
  <2>6. ASSUME q.kind = "remove", c # None
        PROVE  Ahead(t, <<"lock", lock[1], lock[2]>>)'
    <3>1. AheadIn(program, <<"lock", <<"contest", c>>, "share">>)
      BY <1>2, <2>2, <2>3, <2>6 DEF Programmed
    <3>2. <<"lock", lock[1], lock[2]>> = <<"lock", <<"contest", c>>, "share">>
      BY <2>4
    <3>3. QED
      BY <1>5, <3>1, <3>2
  <2>7. RowContestLocked(t)'
    BY <1>3, <2>3, <2>4, <2>5, <2>6 DEF RowContestLocked, Planned, x
  <2>8. QED
    BY <2>1, <2>7
<1>9. q.kind \in {"result", "create", "remove", "delete"} => ~NoStep(t)'
  BY <1>2, <1>3 DEF Programmed, NoStep, x
<1>10. /\ ResultReady(t)' /\ CreateReady(t)' /\ RemoveReady(t)' /\ EditReady(t)'
       /\ DeleteReady(t)' /\ OtherReady(t)' /\ RefreshReady(t)'
  BY <1>3, <1>4, <1>9, NoWritesRecord DEF ResultReady, CreateReady, RemoveReady, EditReady,
     DeleteReady, OtherReady, RefreshReady, x
<1>11. ChangeReady(t)'
  <2>1. DOMAIN <<>> = {}
    OBVIOUS
  <2>2. QED
    BY <1>3, <2>1, NoWritesRecord DEF ChangeReady, x
<1>12. SeenOK(t)'
  <2> SUFFICES ASSUME q.kind \in {"change", "batch"}
               PROVE  /\ DOMAIN seen = q.changes
                      /\ \A ch \in q.changes : ch.contest = None =>
                            seen[ch] \in PolicyRow /\ seen[ch] = policy[ch.problem]
    <3>1. UNCHANGED policy
      BY DEF committed
    <3>2. \A row1 \in PolicyRow : row1.revision <= row1.revision
      BY DEF PolicyRow
    <3>3. QED
      BY <1>3, <3>1, <3>2 DEF SeenOK, x
  <2>1. /\ DOMAIN seen = q.changes
        /\ \A ch \in q.changes : seen[ch] = Host(ch) \/ (seen[ch] = None /\ ch.pinned # None)
    BY DEF Seen
  <2>2. ASSUME NEW ch \in q.changes, ch.contest = None
        PROVE  seen[ch] \in PolicyRow /\ seen[ch] = policy[ch.problem]
    <3>1. ch \in Change
      BY <1>1, RequestFacts
    <3>2. ch.problem \in Problem /\ ch.pinned = None
      BY <2>2, <3>1, ChangeFacts
    <3>3. seen[ch] = policy[ch.problem]
      BY <2>1, <2>2, <3>2 DEF Host
    <3>4. QED
      BY <1>1, <3>2, <3>3 DEF DbTyped
  <2>3. QED
    BY <2>1, <2>2
<1>13. BumpsOK(t)'
  <2>1. DOMAIN <<>> = {} /\ ~(0 > 0)
    OBVIOUS
  <2>2. QED
    BY <1>3, <1>4, <1>9, <2>1, NoWritesRecord DEF BumpsOK, Ranked, x
<1>14. QED
  BY <1>6, <1>7, <1>8, <1>10, <1>11, <1>12, <1>13 DEF TxOK

LEMMA BeginCreations ==
    ASSUME IInv, NEW t \in Transaction, NEW q \in requests, Possible(q), tx[t] = None,
           tx'[t].request = q, \A u \in Transaction \ {t} : tx'[u] = tx[u],
           requests' = requests \ {q}, UNCHANGED row
    PROVE  CreationsOK'
<1>1. DbTyped /\ RowsOK /\ CreationsOK /\ q \in Request
  BY DEF IInv, DbTyped
<1>2. \A s \in Submission : Created(s) => Created(s)'
  BY DEF Created
<1>3. \A u \in Transaction \ {t} : /\ OnRow(u)' = OnRow(u) /\ tx'[u].request = tx[u].request
                                   /\ \A s : Creates(u, s)' = Creates(u, s)
  BY DEF OnRow, Creates
<1>4. OnRow(t)' => q.kind \in {"result", "remove"}
  BY DEF OnRow
<1>5. \A s : Creates(t, s)' => q.kind = "create" /\ q.submission = s
  BY DEF Creates
<1>6. q.kind \in {"result", "remove"} => row[q.submission].exists /\ q.submission \in Submission
  BY <1>1, RequestFacts DEF Possible
<1>7. q.kind = "create" => ~Created(q.submission)
  BY DEF Possible, Created
<1>8. ASSUME NEW u \in Transaction, NEW s, Creates(u, s)
      PROVE  Created(s)
  <2>1. tx[u] # None /\ tx[u].request.kind = "create" /\ tx[u].request.submission = s
    BY <1>8 DEF Creates
  <2>2. tx[u].request \in (Request \ requests) \cup SystemRequests
    BY <2>1 DEF IInv, TxOK, TxTyped
  <2>3. tx[u].request \in Request \ requests
    BY <2>1, <2>2, SystemFacts
  <2>4. QED
    BY <2>1, <2>3 DEF Created
<1>9. ASSUME NEW u \in Transaction, OnRow(u)'
      PROVE  Created(tx[u].request.submission)'
  <2>1. CASE u = t
    <3>1. q.kind \in {"result", "remove"}
      BY <1>4, <1>9, <2>1
    <3>2. Created(q.submission)' /\ tx'[u].request.submission = q.submission
      BY <1>1, <1>2, <1>6, <2>1, <3>1 DEF RowsOK
    <3>3. QED
      BY <3>2 DEF Created
  <2>2. CASE u # t
    <3>1. OnRow(u) /\ tx[u] # None /\ tx'[u].request = tx[u].request
      BY <1>3, <1>9, <2>2 DEF OnRow
    <3>2. Created(tx[u].request.submission)
      BY <1>1, <3>1 DEF CreationsOK
    <3>3. tx[u].request.submission \in Submission
      <4>1. tx[u].request \in (Request \ requests) \cup SystemRequests
        BY <3>1 DEF IInv, TxOK, TxTyped
      <4>2. QED
        BY <3>1, <4>1, RequestFacts, SystemFacts DEF OnRow
    <3>4. Created(tx[u].request.submission) => \/ tx[u].request.submission \in DOMAIN InitialRows
                                                \/ \E r \in Request \ requests :
                                                      /\ r.kind = "create"
                                                      /\ r.submission = tx[u].request.submission
      BY DEF Created
    <3>5. QED
      BY <3>1, <3>2, <3>4 DEF Created
  <2>3. QED
    BY <2>1, <2>2
<1>10. ASSUME NEW u \in Transaction, NEW s \in Submission, Creates(u, s)'
       PROVE  /\ ~row[s].exists
              /\ \A v \in Transaction : /\ OnRow(v)' => tx'[v].request.submission # s
                                        /\ v # u => ~Creates(v, s)'
  <2>1. CASE u = t
    <3>1. q.kind = "create" /\ ~Created(s)
      BY <1>5, <1>7, <1>10, <2>1
    <3>2. ~row[s].exists
      BY <1>1, <3>1 DEF RowsOK
    <3>3. \A v \in Transaction \ {t} : /\ OnRow(v)' => tx'[v].request.submission # s
                                       /\ ~Creates(v, s)'
      BY <1>1, <1>3, <1>8, <3>1 DEF CreationsOK
    <3>4. ~OnRow(t)'
      BY <1>4, <3>1
    <3>5. QED
      BY <2>1, <3>2, <3>3, <3>4
  <2>2. CASE u # t
    <3>1. Creates(u, s)
      BY <1>3, <1>10, <2>2
    <3>2. /\ ~row[s].exists
          /\ \A v \in Transaction : /\ OnRow(v) => tx[v].request.submission # s
                                    /\ v # u => ~Creates(v, s)
      BY <1>1, <3>1 DEF CreationsOK
    <3>3. OnRow(t)' => tx'[t].request.submission # s
      BY <1>4, <1>6, <3>2
    <3>4. ~Creates(t, s)'
      BY <1>5, <1>7, <1>8, <3>1
    <3>5. QED
      BY <1>3, <3>2, <3>3, <3>4
  <2>3. QED
    BY <2>1, <2>2
<1>11. QED
  BY <1>9, <1>10 DEF CreationsOK

LEMMA BeginInv ==
    ASSUME IInv, NEW t \in Transaction, Begin(t)
    PROVE  IInv'
<1>1. DbTyped /\ tx[t] = None /\ UNCHANGED <<committed, now>>
  BY DEF IInv, Begin
<1>2. PICK q \in requests : /\ Possible(q) /\ requests' = requests \ {q}
                            /\ \E program \in Programs(q), seen \in Seen(q) :
                                  tx' = [tx EXCEPT ![t] = Open(q, program, seen)]
  BY DEF Begin
<1>3. PICK program \in Programs(q), seen \in Seen(q) :
          tx' = [tx EXCEPT ![t] = Open(q, program, seen)]
  BY <1>2
<1>4. /\ tx'[t] = Open(q, program, seen) /\ tx' = [tx EXCEPT ![t] = tx'[t]]
      /\ \A u \in Transaction \ {t} : tx'[u] = tx[u]
  BY <1>1, <1>3 DEF DbTyped
<1>5. tx'[t].request = q /\ tx'[t].held = {}
  BY <1>4, OpenRecord
<1>6. TxOK(t)'
  BY <1>1, <1>2, <1>3, <1>4, BeginTx
<1>7. Exclusive'
  BY <1>4, <1>5 DEF IInv, Exclusive
<1>8. CreationsOK'
  BY <1>1, <1>2, <1>4, <1>5, BeginCreations DEF committed
<1>9. requests' \subseteq requests
  BY <1>2
<1>10. QED
  BY <1>1, <1>4, <1>6, <1>7, <1>8, <1>9, QuietStep

LEMMA AbortInv ==
    ASSUME IInv, NEW t \in Transaction, DeadlockAbort(t) \/ Crash(t)
    PROVE  IInv'
BY CloseStep DEF DeadlockAbort, Crash

LEMMA TickInv ==
    ASSUME IInv, Tick
    PROVE  IInv'
<1>1. /\ DbTyped /\ UNCHANGED <<committed, tx, requests>> /\ now \in Nat /\ now' = now + 1
  BY DEF IInv, DbTyped, Tick
<1>2. now' \in Nat /\ now <= now' /\ view.at \in Nat /\ (view.at <= now => view.at <= now')
  BY <1>1 DEF DbTyped
<1>3. \A t \in Transaction : TxOK(t)'
  BY <1>1, <1>2, TxFrame DEF IInv
<1>4. DbTyped'
  BY <1>1, <1>2 DEF DbTyped, committed
<1>5. Exclusive' /\ RowsOK' /\ CreationsOK'
  BY <1>1 DEF IInv, Exclusive, RowsOK, CreationsOK, Created, OnRow, Creates, committed
<1>6. ProjectionsOK'
  BY <1>1 DEF IInv, ProjectionsOK, GlobalProjectionCurrent, ContestProjectionCurrent, committed
<1>7. ViewOK'
  BY <1>1, <1>2 DEF IInv, ViewOK, committed
<1>8. QED
  BY <1>3, <1>4, <1>5, <1>6, <1>7 DEF IInv

-----------------------------------------------------------------------------
(* A commit.                                                                        *)

(* What a commit changes is under the locks of its transaction.                     *)
SameRow(s) ==
    /\ row'[s].exists = row[s].exists /\ row'[s].results = row[s].results
    /\ row'[s].contest = row[s].contest
OrphanedRow(t, s) ==
    /\ row'[s].exists = row[s].exists /\ row'[s].results = row[s].results
    /\ row[s].contest # None /\ row'[s].contest = None
    /\ <<<<"contest", row[s].contest>>, "update">> \in tx[t].held
OwnRow(t, s) ==
    /\ OnRow(t) /\ tx[t].request.submission = s
    /\ <<<<"submission", s>>, "update">> \in tx[t].held
    /\ <<<<"problem", ProblemOf[s]>>, "share">> \in tx[t].held
    /\ row[s].contest # None => <<<<"contest", row[s].contest>>, "share">> \in tx[t].held
    /\ row'[s].contest \in {row[s].contest, None}
CreatedRow(t, s) ==
    /\ Creates(t, s) /\ row'[s].exists
    /\ <<<<"problem", ProblemOf[s]>>, "share">> \in tx[t].held
    /\ row'[s].contest # None => <<<<"contest", row'[s].contest>>, "share">> \in tx[t].held

Effects(t) ==
    /\ \A p \in Problem : policy'[p] # policy[p] =>
          /\ <<<<"problem", p>>, "update">> \in tx[t].held
          /\ policy'[p].revision > policy[p].revision
    /\ \A c \in Contest, p \in Problem : binding'[<<c, p>>] # binding[<<c, p>>] =>
          /\ <<<<"contest", c>>, "update">> \in tx[t].held
          /\ binding'[<<c, p>>] # None => \E mode \in Mode : <<<<"problem", p>>, mode>> \in tx[t].held
    /\ \A c \in Contest :
          /\ contest'[c] # contest[c] => <<<<"contest", c>>, "update">> \in tx[t].held
          /\ contest'[c].exists => contest[c].exists
    /\ \A s \in Submission : SameRow(s) \/ OrphanedRow(t, s) \/ OwnRow(t, s) \/ CreatedRow(t, s)

TablesOK ==
    /\ policy \in [Problem -> PolicyRow]
    /\ binding \in [Pair -> Binding \cup {None}]
    /\ contest \in [Contest -> ContestRow]
    /\ row = [s \in Submission |-> row[s]] /\ \A s \in Submission : RowTyped(row[s])
    /\ RowsOK /\ ProjectionsOK

(* Without a revision raised, only a deletion changes what the ranking reads.       *)
Good(t) ==
    /\ Effects(t) /\ TablesOK'
    /\ tx[t].writes.bumps = 0 /\ tx[t].request.kind # "delete" => UNCHANGED <<row, contest>>

LEMMA SecuredHeld ==
    ASSUME NEW t, NEW table, NEW id, NEW mode, Secured(t, <<<<table, id>>, mode>>)
    PROVE  \/ <<<<table, id>>, mode>> \in tx[t].held
           \/ table = "contest" /\ id \in Contest /\ ~contest[id].exists
BY DEF Secured

LEMMA OverNothing ==
    ASSUME NEW S, NEW f, f = [x \in S |-> f[x]]
    PROVE  Over(<<>>, f) = f
<1>1. DOMAIN f = S /\ DOMAIN <<>> = {}
  OBVIOUS
<1>2. Over(<<>>, f) = [x \in S |-> f[x]]
  BY <1>1 DEF Over
<1>3. QED
  BY <1>2

LEMMA NothingOver ==
    ASSUME DbTyped
    PROVE  /\ Over(<<>>, policy) = policy /\ Over(<<>>, binding) = binding
           /\ Over(<<>>, contest) = contest
<1>1. /\ policy = [p \in Problem |-> policy[p]] /\ binding = [pair \in Pair |-> binding[pair]]
      /\ contest = [c \in Contest |-> contest[c]]
  BY DEF DbTyped
<1>2. QED
  BY <1>1, OverNothing

LEMMA CommitFacts ==
    ASSUME IInv, NEW t \in Transaction, Commit(t)
    PROVE  LET q == tx[t].request
               w == tx[t].writes
           IN  /\ tx[t] # None /\ TxOK(t) /\ NoStep(t) /\ ~Untried(t)
               /\ q \in (Request \ requests) \cup SystemRequests
               /\ \A lock \in BaseLocks(q) : Secured(t, lock)
               /\ q.kind \in {"result", "remove"} =>
                     LET c == row[q.submission].contest
                     IN  c # None => <<<<"contest", c>>, "share">> \in tx[t].held
               /\ w.bumps \in Nat /\ (Ranked(t) => w.bumps > 0)
               /\ policy' = Over(w.policy, policy) /\ binding' = Over(w.binding, binding)
               /\ contest' = Over(w.contest, contest) /\ row' = NewRows(q, w)
               /\ UNCHANGED <<now, requests>>
<1> DEFINE q == tx[t].request
           w == tx[t].writes
<1>1. tx[t] # None /\ TxOK(t) /\ tx[t].todo = <<>>
  BY DEF Commit, IInv
<1>2. DOMAIN tx[t].todo = {} /\ tx[t].todo # <<<<"try">>>>
  BY <1>1
<1>3. NoStep(t) /\ ~Untried(t) /\ \A op : ~Ahead(t, op)
  BY <1>2 DEF NoStep, Untried, Ahead
<1>4. q \in (Request \ requests) \cup SystemRequests /\ w.bumps \in Nat
  BY <1>1 DEF TxOK, TxTyped
<1>5. \A lock \in BaseLocks(q) : Secured(t, lock)
  BY <1>1, <1>3 DEF TxOK, BaseLocked, Planned
<1>6. ASSUME q.kind \in {"result", "remove"}, NEW c, c = row[q.submission].contest, c # None
      PROVE  <<<<"contest", c>>, "share">> \in tx[t].held
  <2>1. q.submission \in Submission
    BY <1>4, <1>6, RequestFacts, SystemFacts
  <2>2. c \in Contest /\ contest[c].exists
    BY <1>6, <2>1 DEF IInv, RowsOK, DbTyped, RowTyped
  <2>3. Secured(t, <<<<"contest", c>>, "share">>)
    BY <1>1, <1>3, <1>6 DEF TxOK, RowContestLocked, Planned
  <2>4. QED
    BY <2>2, <2>3, SecuredHeld
<1>7. Ranked(t) => w.bumps > 0
  BY <1>1, <1>2, <1>3 DEF TxOK, BumpsOK
<1>8. /\ policy' = Over(w.policy, policy) /\ binding' = Over(w.binding, binding)
      /\ contest' = Over(w.contest, contest) /\ row' = NewRows(q, w)
      /\ UNCHANGED <<now, requests>>
  BY DEF Commit
<1>9. QED
  BY <1>1, <1>3, <1>4, <1>5, <1>6, <1>7, <1>8

LEMMA CommitQuiet ==
    ASSUME IInv, NEW t \in Transaction, Commit(t),
           tx[t].request.kind \in {"convert", "announce", "refresh"}
    PROVE  Good(t)
<1> DEFINE q == tx[t].request
           w == tx[t].writes
<1>1. DbTyped /\ TxOK(t) /\ tx[t] # None
  BY CommitFacts DEF IInv
<1>2. NoHostWrites(w) /\ w.shown = <<>>
  BY <1>1 DEF TxOK, OtherReady, RefreshReady
<1>3. UNCHANGED <<policy, binding, contest, requests>>
  BY <1>1, <1>2, CommitFacts, NothingOver DEF NoHostWrites
<1>4. UNCHANGED row
  <2>1. row' = NewRows(q, w) /\ DOMAIN w.shown = {}
    <3>1. DOMAIN <<>> = {}
      OBVIOUS
    <3>2. QED
      BY <1>2, <3>1, CommitFacts
  <2>2. NewRows(q, w) = [s \in Submission |-> row[s]]
    BY <2>1 DEF NewRows
  <2>3. QED
    BY <1>1, <2>1, <2>2 DEF DbTyped
<1>5. Effects(t)
  BY <1>3, <1>4 DEF Effects, SameRow
<1>6. TablesOK'
  BY <1>1, <1>3, <1>4 DEF TablesOK, IInv, DbTyped, RowsOK, Created, ProjectionsOK,
     GlobalProjectionCurrent, ContestProjectionCurrent
<1>7. QED
  BY <1>3, <1>4, <1>5, <1>6 DEF Good

(* All the invariants say of one row.                                               *)
RowGood(s) ==
    /\ RowTyped(row[s])
    /\ row[s].exists => Created(s)
    /\ ~row[s].exists => row[s].contest = None
    /\ row[s].contest # None => contest[row[s].contest].exists
    /\ \A r1, r2 \in row[s].results : r1.version = r2.version => r1 = r2
    /\ row[s].exists =>
          /\ row[s].shown.global = Selection(row[s].results, policy[ProblemOf[s]].policy)
          /\ row[s].results # {} => row[s].shown.globalRevision = policy[ProblemOf[s]].revision
    /\ Bound(s) # None /\ row[s].shown.contestRevision = Bound(s).revision =>
          row[s].shown.contest = Selection(row[s].results, Bound(s).policy)
    /\ row[s].shown.contestRevision = 0 =>
          row[s].shown.contest = Selection(row[s].results, AnyVersion)

BindingGood(pair) ==
    /\ binding[pair] # None => contest[pair[1]].exists
    /\ binding[pair] # None /\ binding[pair].revision = 0 => binding[pair].policy = AnyVersion

LEMMA TablesByRow ==
    ASSUME policy' \in [Problem -> PolicyRow], binding' \in [Pair -> Binding \cup {None}],
           contest' \in [Contest -> ContestRow], row' = [s \in Submission |-> row'[s]],
           \A s \in Submission : RowGood(s)', \A pair \in Pair : BindingGood(pair)'
    PROVE  TablesOK'
<1>1. /\ \A s \in Submission : RowTyped(row[s])'
      /\ RowsOK'
  BY DEF RowGood, BindingGood, RowsOK
<1>2. GlobalProjectionCurrent' /\ ContestProjectionCurrent'
  BY DEF RowGood, GlobalProjectionCurrent, ContestProjectionCurrent, Bound
<1>3. ProjectionsOK'
  BY <1>2 DEF RowGood, BindingGood, ProjectionsOK
<1>4. QED
  BY <1>1, <1>3 DEF TablesOK

LEMMA RowsGood ==
    ASSUME IInv
    PROVE  (\A s \in Submission : RowGood(s)) /\ \A pair \in Pair : BindingGood(pair)
BY DEF IInv, DbTyped, RowsOK, ProjectionsOK, GlobalProjectionCurrent, ContestProjectionCurrent,
       RowGood, BindingGood, Bound

(* A row left alone, with its hosts.                                                *)
LEMMA RowKept ==
    ASSUME NEW s \in Submission, RowGood(s), row'[s] = row[s], UNCHANGED requests,
           policy'[ProblemOf[s]] = policy[ProblemOf[s]],
           row[s].contest # None =>
              /\ contest'[row[s].contest].exists
              /\ binding'[<<row[s].contest, ProblemOf[s]>>] = binding[<<row[s].contest, ProblemOf[s]>>]
    PROVE  RowGood(s)'
<1>1. Bound(s)' = Bound(s)
  BY DEF Bound, BindingOf
<1>2. Created(s)' = Created(s)
  BY DEF Created
<1>3. QED
  BY <1>1, <1>2 DEF RowGood

LEMMA CommitResult ==
    ASSUME IInv, NEW t \in Transaction, Commit(t), tx[t].request.kind = "result"
    PROVE  Good(t)
<1> PICK q : q = tx[t].request
  OBVIOUS
<1> PICK w : w = tx[t].writes
  OBVIOUS
<1> DEFINE s == q.submission
           p == ProblemOf[s]
<1>1. DbTyped /\ TxOK(t) /\ NoStep(t) /\ tx[t] # None /\ UNCHANGED requests
  BY CommitFacts DEF IInv
<1>2. q \in Request /\ s \in Submission /\ p \in Problem /\ q.result \in Result
  <2>1. q \in Request
    BY CommitFacts, SystemFacts
  <2>2. QED
    BY <2>1, RequestFacts
<1>3. PICK shown : shown = Projection(Upsert(row[s].results, q.result), policy[p], Bound(s))
  OBVIOUS
<1>4. NoHostWrites(w) /\ row[s].exists /\ w.shown = Only(s, shown)
  BY <1>1, <1>3 DEF TxOK, ResultReady
<1>5. UNCHANGED <<policy, binding, contest>>
  BY <1>1, <1>4, CommitFacts, NothingOver DEF NoHostWrites
<1>6. /\ row' = [row EXCEPT ![s] = row'[s]]
      /\ row'[s] = [row[s] EXCEPT !.results = Upsert(@, q.result), !.shown = shown]
  <2>0. w.shown[s] = shown
    <3>1. Only(s, shown)[s] = shown
      BY OnlyFacts
    <3>2. QED
      BY <1>4, <3>1
  <2>1. row' = NewRows(q, w) /\ w.shown[s] = shown
    BY <2>0, CommitFacts
  <2>2. row' = [row EXCEPT ![s].results = Upsert(@, q.result), ![s].shown = shown]
    BY <2>1 DEF NewRows
  <2>3. QED
    BY <1>1, <1>2, <2>2 DEF DbTyped
<1>7. /\ row'[s].exists = row[s].exists /\ row'[s].contest = row[s].contest
      /\ row'[s].results = Upsert(row[s].results, q.result) /\ row'[s].shown = shown
      /\ row'[s] = [exists |-> row'[s].exists, contest |-> row'[s].contest,
                    version |-> row'[s].version, results |-> row'[s].results,
                    shown |-> row'[s].shown]
  <2>1. row[s] = [exists |-> row[s].exists, contest |-> row[s].contest, version |-> row[s].version,
                  results |-> row[s].results, shown |-> row[s].shown]
    BY <1>1, <1>2 DEF DbTyped, RowTyped
  <2>2. QED
    BY <1>6, <2>1
<1>8. \A x \in Submission \ {s} : row'[x] = row[x]
  BY <1>1, <1>6 DEF DbTyped
<1>9. Effects(t)
  <2>1. BaseLocks(q) = {<<<<"problem", p>>, "share">>, <<<<"submission", s>>, "update">>}
    BY DEF BaseLocks
  <2>2. Secured(t, <<<<"problem", p>>, "share">>) /\ Secured(t, <<<<"submission", s>>, "update">>)
    BY <2>1, CommitFacts
  <2>3. <<<<"problem", p>>, "share">> \in tx[t].held /\ <<<<"submission", s>>, "update">> \in tx[t].held
    BY <2>2, SecuredHeld
  <2>4. OwnRow(t, s)
    BY <1>1, <1>7, <2>3, CommitFacts DEF OwnRow, OnRow
  <2>5. QED
    BY <1>5, <1>8, <2>4 DEF Effects, SameRow
<1>10. RowGood(s)'
  <2>1. RowGood(s)
    BY <1>2, RowsGood
  <2>2. row'[s].results \subseteq Result /\ \A r1, r2 \in row'[s].results :
                                              r1.version = r2.version => r1 = r2
    BY <1>2, <1>7, <2>1 DEF RowGood, RowTyped, Upsert
  <2>3. PICK bound : bound = Bound(s)
    OBVIOUS
  <2>4. /\ bound = None \/ bound \in Binding
        /\ bound # None /\ bound.revision = 0 => bound.policy = AnyVersion
    <3>1. CASE row[s].contest = None
      BY <2>3, <3>1 DEF Bound, BindingOf
    <3>2. CASE row[s].contest # None
      <4>1. <<row[s].contest, p>> \in Pair
        BY <1>1, <1>2, <3>2 DEF DbTyped, RowTyped, Pair
      <4>2. bound = binding[<<row[s].contest, p>>]
        BY <2>3, <3>2 DEF Bound, BindingOf
      <4>3. BindingGood(<<row[s].contest, p>>) /\ bound \in Binding \cup {None}
        BY <1>1, <4>1, <4>2, RowsGood DEF DbTyped
      <4>4. QED
        BY <4>2, <4>3 DEF BindingGood
    <3>3. QED
      BY <3>1, <3>2
  <2>5. PICK results : results = row'[s].results
    OBVIOUS
  <2>6. shown = Projection(results, policy[p], bound)
    BY <1>3, <1>7, <2>3, <2>5
  <2>7. /\ shown.global = Selection(results, policy[p].policy)
        /\ shown.globalRevision = policy[p].revision
        /\ bound # None => shown.contest = Selection(results, bound.policy)
        /\ shown.contestRevision = 0 => shown.contest = Selection(results, AnyVersion)
    BY <2>4, <2>6, ProjectionFacts
  <2>8. Bound(s)' = bound /\ Created(s)' = Created(s)
    BY <1>1, <1>5, <1>7, <2>3 DEF Bound, Created
  <2>9. RowTyped(row[s])' /\ row'[s].exists
    BY <1>4, <1>7, <2>1, <2>2 DEF RowGood, RowTyped
  <2>10. QED
    BY <1>4, <1>5, <1>7, <2>1, <2>2, <2>5, <2>7, <2>8, <2>9 DEF RowGood
<1>11. TablesOK'
  <2>1. \A x \in Submission \ {s} : RowGood(x)'
    <3> SUFFICES ASSUME NEW x \in Submission \ {s}
                 PROVE  RowGood(x)'
      OBVIOUS
    <3>1. RowGood(x) /\ row'[x] = row[x]
      BY <1>8, RowsGood
    <3>2. QED
      BY <1>1, <1>5, <3>1, RowKept DEF RowGood
  <2>2. \A pair \in Pair : BindingGood(pair)'
    BY <1>5, RowsGood DEF BindingGood
  <2>3. row' = [x \in Submission |-> row'[x]]
    BY <1>1, <1>6 DEF DbTyped
  <2>4. /\ policy' \in [Problem -> PolicyRow] /\ binding' \in [Pair -> Binding \cup {None}]
        /\ contest' \in [Contest -> ContestRow]
    BY <1>1, <1>5 DEF DbTyped
  <2>5. QED
    BY <1>10, <2>1, <2>2, <2>3, <2>4, TablesByRow
<1>12. w.bumps > 0
  BY CommitFacts DEF Ranked
<1>13. QED
  BY <1>9, <1>11, <1>12, CommitFacts DEF Good

FreshRow(there, c, version) ==
    [exists |-> there, contest |-> c, version |-> version, results |-> {},
     shown |-> [global |-> NothingSelected, globalRevision |-> 0,
                contest |-> NothingSelected, contestRevision |-> None]]

LEMMA NewRowFacts ==
    ASSUME NEW there \in BOOLEAN, NEW c \in Contest \cup {None}, NEW version,
           NEW r, r = FreshRow(there, c, version)
    PROVE  /\ RowTyped(r) /\ r.exists = there /\ r.contest = c /\ r.results = {}
           /\ r.shown.contestRevision = None
           /\ \A pol : r.shown.global = Selection({}, pol)
<1>1. /\ r.exists = there /\ r.contest = c /\ r.results = {} /\ r.version = version
      /\ r = [exists |-> r.exists, contest |-> r.contest, version |-> r.version,
              results |-> r.results, shown |-> r.shown]
  BY DEF FreshRow
<1>2. r.shown.contestRevision = None /\ r.shown.global = NothingSelected
  BY DEF FreshRow
<1>3. RowTyped(r)
  BY <1>1 DEF RowTyped
<1>4. QED
  BY <1>1, <1>2, <1>3, NothingFromNothing

LEMMA NoRevision ==
    ASSUME IInv
    PROVE  /\ None # 0 /\ \A bound \in Binding : bound.revision # None
BY EffectiveAssumption DEF Binding

LEMMA CommitCreate ==
    ASSUME IInv, NEW t \in Transaction, Commit(t), tx[t].request.kind = "create"
    PROVE  Good(t)
<1> PICK q : q = tx[t].request
  OBVIOUS
<1> PICK w : w = tx[t].writes
  OBVIOUS
<1> DEFINE s == q.submission
           c == q.contest
<1>1. DbTyped /\ TxOK(t) /\ NoStep(t) /\ tx[t] # None /\ UNCHANGED requests
  BY CommitFacts DEF IInv
<1>2. /\ q \in Request \ requests /\ s \in Submission /\ ProblemOf[s] \in Problem
      /\ c \in Contest \cup {None}
  <2>1. q \in Request \ requests
    BY CommitFacts, SystemFacts
  <2>2. QED
    BY <2>1, RequestFacts
<1>3. NoHostWrites(w) /\ (c # None => binding[<<c, ProblemOf[s]>>] # None)
  BY <1>1 DEF TxOK, CreateReady
<1>4. UNCHANGED <<policy, binding, contest>>
  BY <1>1, <1>3, CommitFacts, NothingOver DEF NoHostWrites
<1>5. row' = [row EXCEPT ![s] = row'[s]] /\ row'[s] = [NewRow(s, TRUE, c) EXCEPT !.version = q.version]
  <2>1. row' = NewRows(q, w)
    BY CommitFacts
  <2>2. row' = [row EXCEPT ![s] = [NewRow(s, TRUE, c) EXCEPT !.version = q.version]]
    BY <2>1 DEF NewRows
  <2>3. QED
    BY <1>1, <1>2, <2>2 DEF DbTyped
<1>6. /\ RowTyped(row'[s]) /\ row'[s].exists = TRUE /\ row'[s].contest = c /\ row'[s].results = {}
      /\ row'[s].shown.contestRevision = None
      /\ \A pol : row'[s].shown.global = Selection({}, pol)
  <2>1. PICK there \in BOOLEAN : there = TRUE
    OBVIOUS
  <2>2. PICK version : version = q.version
    OBVIOUS
  <2>3. row'[s] = FreshRow(there, c, version)
    BY <1>5, <2>1, <2>2 DEF NewRow, FreshRow
  <2>4. PICK r : r = row'[s]
    OBVIOUS
  <2>5. /\ RowTyped(r) /\ r.exists = there /\ r.contest = c /\ r.results = {}
        /\ r.shown.contestRevision = None
        /\ \A pol : r.shown.global = Selection({}, pol)
    BY <1>2, <2>3, <2>4, NewRowFacts
  <2>6. QED
    BY <2>1, <2>4, <2>5
<1>7. \A x \in Submission \ {s} : row'[x] = row[x]
  BY <1>1, <1>5 DEF DbTyped
<1>8. c # None => c \in Contest /\ <<c, ProblemOf[s]>> \in Pair /\ contest[c].exists
  <2>1. c # None => c \in Contest /\ <<c, ProblemOf[s]>> \in Pair
    BY <1>2 DEF Pair
  <2>2. QED
    BY <1>3, <2>1, RowsGood DEF BindingGood
<1>9. Effects(t)
  <2>1. BaseLocks(q) = {<<<<"problem", ProblemOf[s]>>, "share">>}
                \cup (IF c = None THEN {} ELSE {<<<<"contest", c>>, "share">>})
    BY DEF BaseLocks
  <2>2. Secured(t, <<<<"problem", ProblemOf[s]>>, "share">>)
    BY <2>1, CommitFacts
  <2>3. c # None => Secured(t, <<<<"contest", c>>, "share">>)
    BY <2>1, CommitFacts
  <2>4. <<<<"problem", ProblemOf[s]>>, "share">> \in tx[t].held
    BY <2>2, SecuredHeld
  <2>5. c # None => <<<<"contest", c>>, "share">> \in tx[t].held
    BY <1>8, <2>3, SecuredHeld
  <2>6. CreatedRow(t, s)
    BY <1>1, <1>6, <2>4, <2>5 DEF CreatedRow, Creates
  <2>7. QED
    BY <1>4, <1>7, <2>6 DEF Effects, SameRow
<1>10. RowGood(s)'
  <2>1. Created(s)'
    BY <1>1, <1>2 DEF Created
  <2>2. Bound(s)' # None => Bound(s)' \in Binding
    <3>1. Bound(s)' = BindingOf(binding, c, ProblemOf[s])
      BY <1>4, <1>6 DEF Bound
    <3>2. CASE c = None
      BY <3>1, <3>2 DEF BindingOf
    <3>3. CASE c # None
      <4>1. Bound(s)' = binding[<<c, ProblemOf[s]>>]
        BY <3>1, <3>3 DEF BindingOf
      <4>2. QED
        BY <1>1, <1>8, <3>3, <4>1 DEF DbTyped
    <3>4. QED
      BY <3>2, <3>3
  <2>3. ~(Bound(s)' # None /\ row'[s].shown.contestRevision = Bound(s)'.revision)
    BY <1>6, <2>2, NoRevision
  <2>4. row'[s].shown.contestRevision # 0
    BY <1>6, NoRevision
  <2>5. row'[s].contest # None => contest'[row'[s].contest].exists
    BY <1>4, <1>6, <1>8
  <2>6. QED
    BY <1>6, <2>1, <2>3, <2>4, <2>5 DEF RowGood
<1>11. TablesOK'
  <2>1. \A x \in Submission \ {s} : RowGood(x)'
    <3> SUFFICES ASSUME NEW x \in Submission \ {s}
                 PROVE  RowGood(x)'
      OBVIOUS
    <3>1. RowGood(x) /\ row'[x] = row[x]
      BY <1>7, RowsGood
    <3>2. QED
      BY <1>1, <1>4, <3>1, RowKept DEF RowGood
  <2>2. \A pair \in Pair : BindingGood(pair)'
    BY <1>4, RowsGood DEF BindingGood
  <2>3. row' = [x \in Submission |-> row'[x]]
    BY <1>1, <1>5 DEF DbTyped
  <2>4. /\ policy' \in [Problem -> PolicyRow] /\ binding' \in [Pair -> Binding \cup {None}]
        /\ contest' \in [Contest -> ContestRow]
    BY <1>1, <1>4 DEF DbTyped
  <2>5. QED
    BY <1>10, <2>1, <2>2, <2>3, <2>4, TablesByRow
<1>12. w.bumps > 0
  BY CommitFacts DEF Ranked
<1>13. QED
  BY <1>9, <1>11, <1>12, CommitFacts DEF Good

LEMMA CommitRemove ==
    ASSUME IInv, NEW t \in Transaction, Commit(t), tx[t].request.kind = "remove"
    PROVE  Good(t)
<1> PICK q : q = tx[t].request
  OBVIOUS
<1> PICK w : w = tx[t].writes
  OBVIOUS
<1> DEFINE s == q.submission
           p == ProblemOf[s]
<1>1. DbTyped /\ TxOK(t) /\ tx[t] # None /\ UNCHANGED requests
  BY CommitFacts DEF IInv
<1>2. s \in Submission
  <2>1. q \in Request
    BY CommitFacts, SystemFacts
  <2>2. QED
    BY <2>1, RequestFacts
<1>3. NoHostWrites(w)
  BY <1>1 DEF TxOK, RemoveReady
<1>4. UNCHANGED <<policy, binding, contest>>
  BY <1>1, <1>3, CommitFacts, NothingOver DEF NoHostWrites
<1>5. row' = [row EXCEPT ![s] = row'[s]] /\ row'[s] = NewRow(s, FALSE, None)
  <2>1. row' = NewRows(q, w)
    BY CommitFacts
  <2>2. row' = [row EXCEPT ![s] = NewRow(s, FALSE, None)]
    BY <2>1 DEF NewRows
  <2>3. QED
    BY <1>1, <1>2, <2>2 DEF DbTyped
<1>6. /\ RowTyped(row'[s]) /\ row'[s].exists = FALSE /\ row'[s].contest = None
      /\ row'[s].results = {} /\ row'[s].shown.contestRevision = None
  <2>1. PICK there \in BOOLEAN : there = FALSE
    OBVIOUS
  <2>2. PICK version : version = Latest[ProblemOf[s]]
    OBVIOUS
  <2>3. row'[s] = FreshRow(there, None, version)
    BY <1>5, <2>1, <2>2 DEF NewRow, FreshRow
  <2>4. QED
    BY <2>1, <2>3, NewRowFacts
<1>7. \A x \in Submission \ {s} : row'[x] = row[x]
  BY <1>1, <1>5 DEF DbTyped
<1>8. Effects(t)
  <2>1. BaseLocks(q) = {<<<<"problem", p>>, "share">>, <<<<"submission", s>>, "update">>}
    BY DEF BaseLocks
  <2>2. Secured(t, <<<<"problem", p>>, "share">>) /\ Secured(t, <<<<"submission", s>>, "update">>)
    BY <2>1, CommitFacts
  <2>3. <<<<"problem", p>>, "share">> \in tx[t].held /\ <<<<"submission", s>>, "update">> \in tx[t].held
    BY <2>2, SecuredHeld
  <2>4. OwnRow(t, s)
    BY <1>1, <1>6, <2>3, CommitFacts DEF OwnRow, OnRow
  <2>5. QED
    BY <1>4, <1>7, <2>4 DEF Effects, SameRow
<1>9. RowGood(s)'
  <2>1. Bound(s)' = None
    BY <1>6 DEF Bound, BindingOf
  <2>2. row'[s].shown.contestRevision # 0
    BY <1>6, NoRevision
  <2>3. QED
    BY <1>6, <2>1, <2>2 DEF RowGood
<1>10. TablesOK'
  <2>1. \A x \in Submission \ {s} : RowGood(x)'
    <3> SUFFICES ASSUME NEW x \in Submission \ {s}
                 PROVE  RowGood(x)'
      OBVIOUS
    <3>1. RowGood(x) /\ row'[x] = row[x]
      BY <1>7, RowsGood
    <3>2. QED
      BY <1>1, <1>4, <3>1, RowKept DEF RowGood
  <2>2. \A pair \in Pair : BindingGood(pair)'
    BY <1>4, RowsGood DEF BindingGood
  <2>3. row' = [x \in Submission |-> row'[x]]
    BY <1>1, <1>5 DEF DbTyped
  <2>4. /\ policy' \in [Problem -> PolicyRow] /\ binding' \in [Pair -> Binding \cup {None}]
        /\ contest' \in [Contest -> ContestRow]
    BY <1>1, <1>4 DEF DbTyped
  <2>5. QED
    BY <1>9, <2>1, <2>2, <2>3, <2>4, TablesByRow
<1>11. w.bumps > 0
  BY CommitFacts DEF Ranked
<1>12. QED
  BY <1>8, <1>10, <1>11, CommitFacts DEF Good

LEMMA CommitDelete ==
    ASSUME IInv, NEW t \in Transaction, Commit(t), tx[t].request.kind = "delete"
    PROVE  Good(t)
<1> PICK q : q = tx[t].request
  OBVIOUS
<1> PICK w : w = tx[t].writes
  OBVIOUS
<1> PICK c : c = q.contest
  OBVIOUS
<1>1. DbTyped /\ TxOK(t) /\ NoStep(t) /\ tx[t] # None /\ UNCHANGED requests
  BY CommitFacts DEF IInv
<1>2. c \in Contest /\ c # None
  <2>1. q \in Request
    BY CommitFacts, SystemFacts
  <2>2. QED
    BY <2>1, RequestFacts, EffectiveAssumption
<1>3. PICK gone : gone = [contest[c] EXCEPT !.exists = FALSE]
  OBVIOUS
<1>4. /\ w.policy = <<>> /\ contest[c].exists /\ w.contest = Only(c, gone)
      /\ w.binding = [pair \in {c} \X Problem |-> None]
  BY <1>1, <1>3 DEF TxOK, DeleteReady
<1>5. UNCHANGED policy
  BY <1>1, <1>4, CommitFacts, NothingOver
<1>6. /\ contest' \in [Contest -> ContestRow] /\ contest'[c] = gone /\ gone.exists = FALSE
      /\ \A d \in Contest \ {c} : contest'[d] = contest[d]
  <2>1. gone \in ContestRow /\ gone.exists = FALSE
    BY <1>1, <1>2, <1>3 DEF DbTyped, ContestRow
  <2>2. contest' = [d \in Contest |-> IF d = c THEN gone ELSE contest[d]]
    <3>1. contest' = Over(Only(c, gone), contest)
      BY <1>4, CommitFacts
    <3>2. DOMAIN contest = Contest /\ DOMAIN Only(c, gone) = {c} /\ Only(c, gone)[c] = gone
      BY <1>1, DbDomains, OnlyFacts
    <3>3. {c} \cup Contest = Contest
      BY <1>2
    <3>4. QED
      BY <3>1, <3>2, <3>3 DEF Over
  <2>3. QED
    BY <1>1, <1>2, <2>1, <2>2 DEF DbTyped
<1>7. /\ binding' \in [Pair -> Binding \cup {None}]
      /\ \A d \in Contest, p \in Problem :
            binding'[<<d, p>>] = IF d = c THEN None ELSE binding[<<d, p>>]
  <2>1. binding' = Over(w.binding, binding)
    BY CommitFacts
  <2>2. DOMAIN w.binding = {c} \X Problem /\ DOMAIN binding = Pair /\ ({c} \X Problem) \cup Pair = Pair
    BY <1>1, <1>2, <1>4, DbDomains DEF Pair
  <2>3. binding' = [pair \in Pair |-> IF pair \in {c} \X Problem THEN None ELSE binding[pair]]
    BY <1>4, <2>1, <2>2 DEF Over
  <2>4. binding' \in [Pair -> Binding \cup {None}]
    BY <1>1, <2>3 DEF DbTyped
  <2>5. \A d \in Contest, p \in Problem : /\ <<d, p>> \in Pair
                                          /\ <<d, p>> \in {c} \X Problem <=> d = c
    BY DEF Pair
  <2>6. QED
    BY <2>3, <2>4, <2>5
<1>8. row' = [s \in Submission |-> IF row[s].contest = c THEN [row[s] EXCEPT !.contest = None]
                                   ELSE row[s]]
  <2>1. row' = NewRows(q, w)
    BY CommitFacts
  <2>2. QED
    BY <1>3, <2>1 DEF NewRows
<1>9. <<<<"contest", c>>, "update">> \in tx[t].held
  <2>1. BaseLocks(q) = {<<<<"contest", c>>, "update">>}
    BY DEF BaseLocks
  <2>2. Secured(t, <<<<"contest", c>>, "update">>)
    BY <2>1, CommitFacts
  <2>3. QED
    BY <1>4, <2>2, SecuredHeld
<1>10. \A s \in Submission :
          IF row[s].contest = c
          THEN /\ RowTyped(row'[s]) /\ row'[s].exists = row[s].exists /\ row'[s].contest = None
               /\ row'[s].results = row[s].results /\ row'[s].shown = row[s].shown
          ELSE row'[s] = row[s]
  <2> SUFFICES ASSUME NEW s \in Submission, row[s].contest = c
               PROVE  /\ RowTyped(row'[s]) /\ row'[s].exists = row[s].exists /\ row'[s].contest = None
                      /\ row'[s].results = row[s].results /\ row'[s].shown = row[s].shown
    BY <1>8
  <2>1. /\ row[s] = [exists |-> row[s].exists, contest |-> row[s].contest,
                     version |-> row[s].version, results |-> row[s].results,
                     shown |-> row[s].shown]
        /\ row[s].exists \in BOOLEAN /\ row[s].results \subseteq Result
    BY <1>1 DEF DbTyped, RowTyped
  <2>2. row'[s] = [exists |-> row[s].exists, contest |-> None, version |-> row[s].version,
                   results |-> row[s].results, shown |-> row[s].shown]
    BY <1>8, <2>1
  <2>3. QED
    BY <2>1, <2>2 DEF RowTyped
<1>11. Effects(t)
  <2>1. \A s \in Submission : SameRow(s) \/ OrphanedRow(t, s)
    BY <1>2, <1>9, <1>10 DEF SameRow, OrphanedRow
  <2>2. QED
    BY <1>4, <1>5, <1>6, <1>7, <1>9, <2>1 DEF Effects
<1>12. ASSUME NEW s \in Submission
       PROVE  RowGood(s)'
  <2>1. RowGood(s)
    BY RowsGood
  <2>2. CASE row[s].contest = c
    <3>1. Bound(s)' = None
      BY <1>10, <2>2 DEF Bound, BindingOf
    <3>2. Created(s)' = Created(s)
      BY <1>1 DEF Created
    <3>3. QED
      BY <1>5, <1>10, <2>1, <2>2, <3>1, <3>2 DEF RowGood
  <2>3. CASE row[s].contest # c
    <3>1. row'[s] = row[s]
      BY <1>10, <2>3
    <3>2. ProblemOf[s] \in Problem
      BY EffectiveAssumption
    <3>3. row[s].contest # None =>
             /\ contest'[row[s].contest].exists
             /\ binding'[<<row[s].contest, ProblemOf[s]>>] = binding[<<row[s].contest, ProblemOf[s]>>]
      BY <1>6, <1>7, <2>1, <2>3, <3>2 DEF RowGood, RowTyped
    <3>4. QED
      BY <1>1, <1>5, <2>1, <3>1, <3>3, RowKept
  <2>4. QED
    BY <2>2, <2>3
<1>13. ASSUME NEW pair \in Pair
       PROVE  BindingGood(pair)'
  <2>1. PICK d \in Contest, p \in Problem : pair = <<d, p>>
    BY DEF Pair
  <2>2. pair[1] = d /\ BindingGood(pair)
    BY <2>1, RowsGood
  <2>3. QED
    BY <1>6, <1>7, <2>1, <2>2 DEF BindingGood
<1>14. TablesOK'
  <2>1. row' = [x \in Submission |-> row'[x]]
    BY <1>8
  <2>2. policy' \in [Problem -> PolicyRow]
    BY <1>1, <1>5 DEF DbTyped
  <2>3. QED
    BY <1>6, <1>7, <1>12, <1>13, <2>1, <2>2, TablesByRow
<1>15. QED
  BY <1>11, <1>14 DEF Good

LEMMA CommitEdit ==
    ASSUME IInv, NEW t \in Transaction, Commit(t), tx[t].request.kind = "edit"
    PROVE  Good(t)
<1> PICK q : q = tx[t].request
  OBVIOUS
<1> PICK w : w = tx[t].writes
  OBVIOUS
<1> PICK c : c = q.contest
  OBVIOUS
<1>1. DbTyped /\ TxOK(t) /\ tx[t] # None /\ UNCHANGED requests
  BY CommitFacts DEF IInv
<1>2. /\ c \in Contest /\ c # None /\ q.end \in Nat \cup {None}
      /\ q.affects \in BOOLEAN \cup {None}
      /\ q.problems # None => q.problems \subseteq Problem
  <2>1. q \in Request
    BY CommitFacts, SystemFacts
  <2>2. /\ q.contest \in Contest /\ q.end \in Nat \cup {None}
        /\ q.affects \in BOOLEAN \cup {None}
        /\ q.problems \in (SUBSET Problem) \cup {None}
    BY <2>1, RequestFacts
  <2>3. QED
    BY <2>2, EffectiveAssumption
<1>3. PICK new : new = [contest[c] EXCEPT !.end = IF q.end = None THEN @ ELSE q.end,
                                          !.affects = IF q.affects = None THEN @ ELSE q.affects]
  OBVIOUS
<1>4. /\ w.policy = <<>> /\ w.shown = <<>>
      /\ \/ w.contest = <<>> /\ w.binding = <<>>
         \/ /\ contest[c].exists /\ w.contest = Only(c, new)
            /\ w.binding = IF q.problems = None THEN <<>> ELSE NewBindings(q)
  BY <1>1, <1>3 DEF TxOK, EditReady
<1>5. UNCHANGED policy
  BY <1>1, <1>4, CommitFacts, NothingOver
<1>6. UNCHANGED row
  <2>1. row' = NewRows(q, w)
    BY CommitFacts
  <2>2. DOMAIN w.shown = {}
    BY <1>4
  <2>3. NewRows(q, w) = [s \in Submission |-> row[s]]
    BY <2>2 DEF NewRows
  <2>4. QED
    BY <1>1, <2>1, <2>3 DEF DbTyped
<1>7. CASE w.contest = <<>> /\ w.binding = <<>>
  <2>1. UNCHANGED <<binding, contest>>
    BY <1>1, <1>7, CommitFacts, NothingOver
  <2>2. Effects(t)
    BY <1>5, <1>6, <2>1 DEF Effects, SameRow
  <2>3. TablesOK'
    BY <1>1, <1>5, <1>6, <2>1 DEF TablesOK, IInv, DbTyped, RowsOK, Created, ProjectionsOK,
       GlobalProjectionCurrent, ContestProjectionCurrent
  <2>4. QED
    BY <1>6, <2>1, <2>2, <2>3 DEF Good
<1>8. CASE /\ contest[c].exists /\ w.contest = Only(c, new)
           /\ w.binding = IF q.problems = None THEN <<>> ELSE NewBindings(q)
  <2>1. /\ contest[c] = [exists |-> contest[c].exists, end |-> contest[c].end,
                         affects |-> contest[c].affects]
        /\ contest[c].end \in Nat /\ contest[c].affects \in BOOLEAN
    BY <1>1, <1>2 DEF DbTyped, ContestRow
  <2>2. /\ new = [exists |-> contest[c].exists,
                  end |-> IF q.end = None THEN contest[c].end ELSE q.end,
                  affects |-> IF q.affects = None THEN contest[c].affects ELSE q.affects]
    BY <1>3, <2>1
  <2>3. new \in ContestRow /\ new.exists
    BY <1>2, <1>8, <2>1, <2>2 DEF ContestRow
  <2>4. q.end = None /\ q.affects = None => new = contest[c]
    BY <2>1, <2>2
  <2>5. contest' = [d \in Contest |-> IF d = c THEN new ELSE contest[d]]
    <3>1. contest' = Over(Only(c, new), contest)
      BY <1>8, CommitFacts
    <3>2. DOMAIN contest = Contest /\ DOMAIN Only(c, new) = {c} /\ Only(c, new)[c] = new
      BY <1>1, DbDomains, OnlyFacts
    <3>3. {c} \cup Contest = Contest
      BY <1>2
    <3>4. QED
      BY <3>1, <3>2, <3>3 DEF Over
  <2>6. /\ contest' \in [Contest -> ContestRow] /\ contest'[c] = new
        /\ \A d \in Contest \ {c} : contest'[d] = contest[d]
    BY <1>1, <1>2, <2>3, <2>5 DEF DbTyped
  <2>7. w.bumps = 0 => UNCHANGED contest
    <3>1. w.contest # <<>>
      <4>1. DOMAIN Only(c, new) = {c}
        BY OnlyFacts
      <4>2. DOMAIN <<>> = {}
        OBVIOUS
      <4>3. QED
        BY <1>8, <4>1, <4>2
    <3>2. w.bumps = 0 => q.end = None /\ q.affects = None
      <4>1. Ranked(t) => w.bumps > 0
        BY CommitFacts
      <4>2. (q.end # None \/ q.affects # None) => Ranked(t)
        BY <3>1 DEF Ranked
      <4>3. QED
        BY <4>1, <4>2
    <3>3. new = contest[c] => contest' = contest
      BY <1>1, <2>5 DEF DbTyped
    <3>4. QED
      BY <2>4, <3>2, <3>3
  <2>8. /\ binding' \in [Pair -> Binding \cup {None}]
        /\ \A d \in Contest \ {c}, p \in Problem : binding'[<<d, p>>] = binding[<<d, p>>]
        /\ \A p \in Problem :
              \/ binding'[<<c, p>>] = binding[<<c, p>>]
              \/ binding'[<<c, p>>] = None
              \/ /\ q.problems # None /\ p \in q.problems
                 /\ binding'[<<c, p>>].policy = AnyVersion /\ binding'[<<c, p>>].revision = 0
    <3>1. CASE q.problems = None
      <4>1. UNCHANGED binding
        BY <1>1, <1>8, <3>1, CommitFacts, NothingOver
      <4>2. QED
        BY <1>1, <4>1 DEF DbTyped
    <3>2. CASE q.problems # None
      <4>1. PICK given : given = NewBindings(q)
        OBVIOUS
      <4>2. /\ DOMAIN given = {c} \X Problem
            /\ \A p \in Problem : <<c, p>> \in {c} \X Problem /\
                  given[<<c, p>>] = IF p \notin q.problems THEN None
                                    ELSE IF binding[<<c, p>>] # None THEN binding[<<c, p>>]
                                    ELSE [policy |-> AnyVersion, pinned |-> Latest[p],
                                          revision |-> 0]
        BY <1>3, <4>1 DEF NewBindings
      <4>3. \A p \in Problem :
               /\ given[<<c, p>>] \in Binding \cup {None}
               /\ \/ given[<<c, p>>] = binding[<<c, p>>]
                  \/ given[<<c, p>>] = None
                  \/ /\ p \in q.problems /\ given[<<c, p>>].policy = AnyVersion
                     /\ given[<<c, p>>].revision = 0
        <5> SUFFICES ASSUME NEW p \in Problem
                     PROVE  /\ given[<<c, p>>] \in Binding \cup {None}
                            /\ \/ given[<<c, p>>] = binding[<<c, p>>]
                               \/ given[<<c, p>>] = None
                               \/ /\ p \in q.problems /\ given[<<c, p>>].policy = AnyVersion
                                  /\ given[<<c, p>>].revision = 0
          OBVIOUS
        <5>1. CASE p \notin q.problems
          <6>1. given[<<c, p>>] = None
            BY <4>2, <5>1
          <6>2. QED
            BY <6>1
        <5>2. CASE p \in q.problems /\ binding[<<c, p>>] # None
          <6>1. <<c, p>> \in Pair
            BY <1>2 DEF Pair
          <6>2. binding[<<c, p>>] \in Binding \cup {None}
            BY <1>1, <6>1 DEF DbTyped
          <6>3. QED
            BY <4>2, <5>2, <6>2
        <5>3. CASE p \in q.problems /\ binding[<<c, p>>] = None
          <6>1. given[<<c, p>>] = [policy |-> AnyVersion, pinned |-> Latest[p], revision |-> 0]
            BY <4>2, <5>3
          <6>2. Latest[p] \in Version /\ AnyVersion \in Policy
            BY EffectiveAssumption DEF Policy
          <6>3. /\ given[<<c, p>>] \in Binding /\ given[<<c, p>>].policy = AnyVersion
                /\ given[<<c, p>>].revision = 0
            BY <6>1, <6>2 DEF Binding
          <6>4. QED
            BY <5>3, <6>3
        <5>4. QED
          BY <5>1, <5>2, <5>3
      <4>4. binding' = [pair \in Pair |-> IF pair \in {c} \X Problem THEN given[pair] ELSE binding[pair]]
        <5>1. binding' = Over(given, binding)
          BY <1>8, <3>2, <4>1, CommitFacts
        <5>2. DOMAIN binding = Pair /\ ({c} \X Problem) \cup Pair = Pair
          BY <1>1, <1>2, DbDomains DEF Pair
        <5>3. QED
          BY <4>2, <5>1, <5>2 DEF Over
      <4>5. /\ \A d \in Contest, p \in Problem : /\ <<d, p>> \in Pair
                                                 /\ <<d, p>> \in {c} \X Problem <=> d = c
            /\ \A pair \in {c} \X Problem : \E p \in Problem : pair = <<c, p>>
        BY DEF Pair
      <4>6. binding' \in [Pair -> Binding \cup {None}]
        BY <1>1, <4>3, <4>4, <4>5 DEF DbTyped
      <4>7. QED
        BY <1>2, <3>2, <4>3, <4>4, <4>5, <4>6
    <3>3. QED
      BY <3>1, <3>2
  <2>9. <<<<"contest", c>>, "update">> \in tx[t].held
    <3>1. <<<<"contest", c>>, "update">> \in BaseLocks(q)
      BY <1>3 DEF BaseLocks
    <3>2. Secured(t, <<<<"contest", c>>, "update">>)
      BY <3>1, CommitFacts
    <3>3. QED
      BY <1>8, <3>2, SecuredHeld
  <2>10. ASSUME q.problems # None, NEW p \in q.problems
         PROVE  <<<<"problem", p>>, "share">> \in tx[t].held
    <3>1. <<<<"problem", p>>, "share">> \in BaseLocks(q)
      BY <2>10 DEF BaseLocks
    <3>2. Secured(t, <<<<"problem", p>>, "share">>)
      BY <3>1, CommitFacts
    <3>3. QED
      BY <3>2, SecuredHeld
  <2>11. Effects(t)
    <3>1. "share" \in Mode
      BY DEF Mode
    <3>2. \A d \in Contest, p \in Problem : binding'[<<d, p>>] # binding[<<d, p>>] =>
             /\ <<<<"contest", d>>, "update">> \in tx[t].held
             /\ binding'[<<d, p>>] # None => \E mode \in Mode : <<<<"problem", p>>, mode>> \in tx[t].held
      BY <2>8, <2>9, <2>10, <3>1
    <3>3. \A d \in Contest : /\ contest'[d] # contest[d] => <<<<"contest", d>>, "update">> \in tx[t].held
                             /\ contest'[d].exists => contest[d].exists
      BY <1>8, <2>6, <2>9
    <3>4. QED
      BY <1>5, <1>6, <3>2, <3>3 DEF Effects, SameRow
  <2>12. ASSUME NEW s \in Submission
         PROVE  RowGood(s)'
    <3>1. RowGood(s) /\ ProblemOf[s] \in Problem
      BY RowsGood, EffectiveAssumption
    <3>2. row[s].contest # None => contest'[row[s].contest].exists
      BY <2>3, <2>6, <3>1 DEF RowGood, RowTyped
    <3>3. CASE row[s].contest # None => binding'[<<row[s].contest, ProblemOf[s]>>]
                                           = binding[<<row[s].contest, ProblemOf[s]>>]
      BY <1>1, <1>5, <1>6, <3>1, <3>2, <3>3, RowKept
    <3>4. CASE row[s].contest # None /\ binding'[<<row[s].contest, ProblemOf[s]>>]
                                           # binding[<<row[s].contest, ProblemOf[s]>>]
      <4>1. row[s].contest = c
        BY <2>8, <3>1, <3>4 DEF RowGood, RowTyped
      <4>2. Bound(s)' = binding'[<<c, ProblemOf[s]>>]
        BY <1>2, <1>6, <4>1 DEF Bound, BindingOf
      <4>3. Bound(s)' # None => Bound(s)'.policy = AnyVersion /\ Bound(s)'.revision = 0
        BY <2>8, <3>1, <3>4, <4>1, <4>2
      <4>4. Created(s)' = Created(s)
        BY <1>1 DEF Created
      <4>5. QED
        BY <1>5, <1>6, <3>1, <3>2, <4>3, <4>4 DEF RowGood
    <3>5. QED
      BY <3>3, <3>4
  <2>13. ASSUME NEW pair \in Pair
         PROVE  BindingGood(pair)'
    <3>1. PICK d \in Contest, p \in Problem : pair = <<d, p>>
      BY DEF Pair
    <3>2. pair[1] = d /\ BindingGood(pair)
      BY <3>1, RowsGood
    <3>3. CASE d # c
      BY <2>6, <2>8, <3>1, <3>2, <3>3 DEF BindingGood
    <3>4. CASE d = c
      <4>1. contest'[d].exists
        BY <2>3, <2>6, <3>4
      <4>2. \/ binding'[pair] = binding[pair] \/ binding'[pair] = None
            \/ binding'[pair].policy = AnyVersion
        BY <2>8, <3>1, <3>4
      <4>3. QED
        BY <3>2, <4>1, <4>2 DEF BindingGood
    <3>5. QED
      BY <3>3, <3>4
  <2>14. TablesOK'
    <3>1. row' = [x \in Submission |-> row'[x]] /\ policy' \in [Problem -> PolicyRow]
      BY <1>1, <1>5, <1>6 DEF DbTyped
    <3>2. QED
      BY <2>6, <2>8, <2>12, <2>13, <3>1, TablesByRow
  <2>15. QED
    BY <1>6, <2>7, <2>11, <2>14 DEF Good
<1>9. QED
  BY <1>4, <1>7, <1>8


(* The locks of a change, and of a batch of changes.                                *)
LEMMA ChangeLocks ==
    ASSUME IInv, NEW t \in Transaction, Commit(t), tx[t].request.kind \in {"change", "batch"},
           NEW ch \in tx[t].request.changes
    PROVE  /\ ch.contest = None => <<<<"problem", ch.problem>>, "update">> \in tx[t].held
           /\ ch.contest # None =>
                 /\ \E mode \in Mode : <<<<"problem", ch.problem>>, mode>> \in tx[t].held
                 /\ ch.contest \in Contest /\ contest[ch.contest].exists =>
                       <<<<"contest", ch.contest>>, "update">> \in tx[t].held
<1> PICK q : q = tx[t].request
  OBVIOUS
<1>1. \A lock \in HostLocks(q.kind, ch) : Secured(t, lock)
  <2>1. BaseLocks(q) = UNION {HostLocks(q.kind, x) : x \in q.changes}
    BY DEF BaseLocks
  <2>2. HostLocks(q.kind, ch) \subseteq BaseLocks(q)
    BY <2>1
  <2>3. QED
    BY <2>2, CommitFacts
<1>2. CASE ch.contest = None
  <2>1. <<<<"problem", ch.problem>>, "update">> \in HostLocks(q.kind, ch)
    BY <1>2 DEF HostLocks
  <2>2. QED
    BY <1>1, <1>2, <2>1, SecuredHeld
<1>3. CASE ch.contest # None
  <2>1. PICK mode \in Mode : <<<<"problem", ch.problem>>, mode>> \in HostLocks(q.kind, ch)
    BY <1>3 DEF HostLocks, Mode
  <2>2. <<<<"contest", ch.contest>>, "update">> \in HostLocks(q.kind, ch)
    BY <1>3 DEF HostLocks
  <2>3. Secured(t, <<<<"problem", ch.problem>>, mode>>)
    BY <1>1, <2>1
  <2>4. Secured(t, <<<<"contest", ch.contest>>, "update">>)
    BY <1>1, <2>2
  <2>5. <<<<"problem", ch.problem>>, mode>> \in tx[t].held
    BY <2>3, SecuredHeld
  <2>6. QED
    BY <1>3, <2>4, <2>5, SecuredHeld
<1>4. QED
  BY <1>2, <1>3

LEMMA CommitChange ==
    ASSUME IInv, NEW t \in Transaction, Commit(t), tx[t].request.kind \in {"change", "batch"}
    PROVE  Good(t)
<1> PICK q : q = tx[t].request
  OBVIOUS
<1> PICK w : w = tx[t].writes
  OBVIOUS
<1>1. DbTyped /\ TxOK(t) /\ tx[t] # None /\ UNCHANGED requests
  BY CommitFacts DEF IInv
<1>2. /\ w.contest = <<>>
      /\ \A p \in DOMAIN w.policy : PolicyReady(t, p)
      /\ \A pair \in DOMAIN w.binding : BindingReady(t, pair)
      /\ \A s \in DOMAIN w.shown : ShownReady(t, s)
  BY <1>1 DEF TxOK, ChangeReady
<1>3. UNCHANGED contest
  BY <1>1, <1>2, CommitFacts, NothingOver
<1>4. /\ policy' = Over(w.policy, policy)
      /\ policy' = [p \in Problem |-> IF p \in DOMAIN w.policy THEN w.policy[p] ELSE policy[p]]
      /\ policy' \in [Problem -> PolicyRow]
  <2>1. policy' = Over(w.policy, policy)
    BY CommitFacts
  <2>2. /\ \A p \in DOMAIN w.policy : p \in Problem /\ w.policy[p] \in PolicyRow
        /\ DOMAIN policy = Problem
    BY <1>1, <1>2, DbDomains DEF PolicyReady
  <2>3. DOMAIN w.policy \cup DOMAIN policy = Problem
    BY <2>2
  <2>4. policy' = [p \in Problem |-> IF p \in DOMAIN w.policy THEN w.policy[p] ELSE policy[p]]
    BY <2>1, <2>3 DEF Over
  <2>5. QED
    BY <1>1, <2>1, <2>2, <2>4 DEF DbTyped
<1>5. /\ binding' = Over(w.binding, binding)
      /\ binding' = [pair \in Pair |-> IF pair \in DOMAIN w.binding THEN w.binding[pair]
                                       ELSE binding[pair]]
      /\ binding' \in [Pair -> Binding \cup {None}]
  <2>1. binding' = Over(w.binding, binding)
    BY CommitFacts
  <2>2. /\ \A pair \in DOMAIN w.binding : pair \in Pair /\ w.binding[pair] \in Binding
        /\ DOMAIN binding = Pair
    BY <1>1, <1>2, DbDomains DEF BindingReady
  <2>3. DOMAIN w.binding \cup DOMAIN binding = Pair
    BY <2>2
  <2>4. binding' = [pair \in Pair |-> IF pair \in DOMAIN w.binding THEN w.binding[pair]
                                      ELSE binding[pair]]
    BY <2>1, <2>3 DEF Over
  <2>5. QED
    BY <1>1, <2>1, <2>2, <2>4 DEF DbTyped
<1>6. row' = [s \in Submission |-> IF s \in DOMAIN w.shown
                                   THEN [row[s] EXCEPT !.shown = w.shown[s]] ELSE row[s]]
  <2>1. row' = NewRows(q, w)
    BY CommitFacts
  <2>2. QED
    BY <2>1 DEF NewRows
<1>7. ASSUME NEW s \in Submission
      PROVE  /\ RowTyped(row'[s]) /\ row'[s].exists = row[s].exists
             /\ row'[s].contest = row[s].contest /\ row'[s].results = row[s].results
             /\ IF s \in DOMAIN w.shown THEN row'[s].shown = w.shown[s] ELSE row'[s] = row[s]
  <2>1. /\ row[s] = [exists |-> row[s].exists, contest |-> row[s].contest,
                     version |-> row[s].version, results |-> row[s].results,
                     shown |-> row[s].shown]
        /\ RowTyped(row[s])
    BY <1>1 DEF DbTyped, RowTyped
  <2>2. CASE s \in DOMAIN w.shown
    <3>1. row'[s] = [exists |-> row[s].exists, contest |-> row[s].contest,
                     version |-> row[s].version, results |-> row[s].results,
                     shown |-> w.shown[s]]
      BY <1>6, <2>1, <2>2
    <3>2. QED
      BY <2>1, <2>2, <3>1 DEF RowTyped
  <2>3. CASE s \notin DOMAIN w.shown
    BY <1>6, <2>1, <2>3
  <2>4. QED
    BY <2>2, <2>3
<1>8. Effects(t)
  <2>1. ASSUME NEW p \in Problem, policy'[p] # policy[p]
        PROVE  /\ <<<<"problem", p>>, "update">> \in tx[t].held
               /\ policy'[p].revision > policy[p].revision
    <3>1. p \in DOMAIN w.policy /\ policy'[p] = w.policy[p]
      BY <1>4, <2>1
    <3>2. PolicyReady(t, p)
      BY <1>2, <3>1
    <3>3. PICK ch \in q.changes : ch.problem = p /\ ch.contest = None
      BY <3>2 DEF PolicyReady
    <3>4. QED
      BY <3>1, <3>2, <3>3, ChangeLocks DEF PolicyReady
  <2>2. ASSUME NEW c \in Contest, NEW p \in Problem, binding'[<<c, p>>] # binding[<<c, p>>]
        PROVE  /\ <<<<"contest", c>>, "update">> \in tx[t].held
               /\ \E mode \in Mode : <<<<"problem", p>>, mode>> \in tx[t].held
    <3>0. <<c, p>> \in Pair
      BY DEF Pair
    <3>1. PICK pair \in Pair : pair = <<c, p>> /\ pair[1] = c /\ pair[2] = p
      BY <3>0
    <3>2. pair \in DOMAIN w.binding
      BY <1>5, <2>2, <3>1
    <3>3. BindingReady(t, pair) /\ binding[pair] # None
      BY <1>2, <3>2 DEF BindingReady
    <3>4. PICK ch \in q.changes : ch.contest = c /\ ch.problem = p
      BY <3>1, <3>3 DEF BindingReady
    <3>5. contest[c].exists /\ c # None
      BY <3>1, <3>3, RowsGood, EffectiveAssumption DEF BindingGood
    <3>6. QED
      BY <3>4, <3>5, ChangeLocks
  <2>3. \A c \in Contest : contest'[c] = contest[c]
    BY <1>3
  <2>4. \A s \in Submission : SameRow(s)
    BY <1>7 DEF SameRow
  <2>5. QED
    BY <2>1, <2>2, <2>3, <2>4 DEF Effects
<1>9. ASSUME NEW s \in Submission
      PROVE  RowGood(s)'
  <2>1. RowGood(s) /\ ProblemOf[s] \in Problem
    BY RowsGood, EffectiveAssumption
  <2>2. Created(s)' = Created(s)
    BY <1>1 DEF Created
  <2>3. PICK p \in Problem : p = ProblemOf[s]
    BY <2>1
  <2>4. PICK c : c = row[s].contest
    OBVIOUS
  <2>5. c = None \/ <<c, p>> \in Pair
    BY <2>1, <2>4 DEF RowGood, RowTyped, Pair
  <2>6. CASE s \in DOMAIN w.shown
    <3>1. ShownReady(t, s)
      BY <1>2, <2>6
    <3>2. NewPolicy(t, p) = policy'[p] /\ NewBinding(t, c, p) = Bound(s)'
      <4>1. Bound(s)' = BindingOf(binding', c, p)
        BY <1>7, <2>3, <2>4 DEF Bound
      <4>2. QED
        BY <1>4, <1>5, <4>1 DEF NewPolicy, NewBinding
    <3>3. /\ row'[s].shown.global = Selection(row[s].results, policy'[p].policy)
          /\ row'[s].shown.globalRevision = policy'[p].revision
          /\ Bound(s)' # None => /\ row'[s].shown.contest = Selection(row[s].results, Bound(s)'.policy)
                                 /\ row'[s].shown.contestRevision = Bound(s)'.revision
          /\ row'[s].shown.contestRevision = 0 =>
                row'[s].shown.contest = Selection(row[s].results, AnyVersion)
      BY <1>7, <2>3, <2>4, <2>6, <3>1, <3>2 DEF ShownReady
    <3>4. QED
      BY <1>3, <1>7, <2>1, <2>2, <2>3, <3>3 DEF RowGood
  <2>7. CASE s \notin DOMAIN w.shown /\ row[s].exists
    <3>1. row'[s] = row[s]
      BY <1>7, <2>7
    <3>2. p \notin DOMAIN w.policy
      BY <1>2, <2>3, <2>7 DEF PolicyReady
    <3>3. c # None => <<c, p>> \notin DOMAIN w.binding
      <4> SUFFICES ASSUME c # None, <<c, p>> \in DOMAIN w.binding
                   PROVE  FALSE
        OBVIOUS
      <4>1. PICK pair \in DOMAIN w.binding : pair = <<c, p>> /\ pair[1] = c /\ pair[2] = p
        OBVIOUS
      <4>2. BindingReady(t, pair)
        BY <1>2, <4>1
      <4>3. QED
        BY <2>3, <2>4, <2>7, <4>1, <4>2 DEF BindingReady
    <3>4. policy'[p] = policy[p] /\ (c # None => binding'[<<c, p>>] = binding[<<c, p>>])
      BY <1>4, <1>5, <2>5, <3>2, <3>3
    <3>5. c # None => contest'[c].exists
      BY <1>3, <2>1, <2>4 DEF RowGood
    <3>6. QED
      BY <1>1, <2>1, <2>3, <2>4, <3>1, <3>4, <3>5, RowKept
  <2>8. CASE s \notin DOMAIN w.shown /\ ~row[s].exists
    <3>1. row'[s] = row[s] /\ row[s].contest = None
      BY <1>7, <2>1, <2>8 DEF RowGood
    <3>2. Bound(s)' = None
      BY <3>1 DEF Bound, BindingOf
    <3>3. QED
      BY <2>1, <2>2, <2>8, <3>1, <3>2 DEF RowGood
  <2>9. QED
    BY <2>6, <2>7, <2>8
<1>10. ASSUME NEW pair \in Pair
       PROVE  BindingGood(pair)'
  <2>1. BindingGood(pair)
    BY RowsGood
  <2>2. CASE pair \notin DOMAIN w.binding
    BY <1>3, <1>5, <2>1, <2>2 DEF BindingGood
  <2>3. CASE pair \in DOMAIN w.binding
    <3>1. BindingReady(t, pair) /\ binding'[pair] = w.binding[pair]
      BY <1>2, <1>5, <2>3
    <3>2. binding[pair] # None /\ binding'[pair].revision > 0
      BY <3>1 DEF BindingReady
    <3>3. binding'[pair].revision # 0
      BY <1>5, <3>2
    <3>4. QED
      BY <1>3, <2>1, <3>2, <3>3 DEF BindingGood
  <2>4. QED
    BY <2>2, <2>3
<1>11. TablesOK'
  <2>1. row' = [x \in Submission |-> row'[x]] /\ contest' \in [Contest -> ContestRow]
    BY <1>1, <1>3, <1>6 DEF DbTyped
  <2>2. QED
    BY <1>4, <1>5, <1>9, <1>10, <2>1, TablesByRow
<1>12. w.bumps = 0 => UNCHANGED row
  <2> SUFFICES ASSUME w.bumps = 0
               PROVE  UNCHANGED row
    OBVIOUS
  <2>1. ~Ranked(t)
    <3>1. Ranked(t) => w.bumps > 0
      BY CommitFacts
    <3>2. QED
      BY <3>1
  <2>2. DOMAIN w.shown = {}
    BY <2>1 DEF Ranked
  <2>3. row' = [s \in Submission |-> row[s]]
    BY <1>6, <2>2
  <2>4. QED
    BY <1>1, <2>3 DEF DbTyped
<1>13. QED
  BY <1>3, <1>8, <1>11, <1>12 DEF Good

LEMMA CommitGood ==
    ASSUME IInv, NEW t \in Transaction, Commit(t)
    PROVE  Good(t)
<1>1. \/ tx[t].request \in SystemRequests
      \/ tx[t].request \in Request
  BY CommitFacts
<1>2. tx[t].request.kind \in {"result", "create", "remove", "change", "batch", "edit", "delete",
                              "convert", "announce", "refresh"}
  BY <1>1, RequestFacts, SystemFacts
<1>3. QED
  BY <1>2, CommitQuiet, CommitResult, CommitCreate, CommitRemove, CommitDelete, CommitEdit,
     CommitChange

-----------------------------------------------------------------------------
(* The other transactions when one commits.                                         *)

(* Another transaction is open when t commits.                                      *)
Aside(t, u) ==
    /\ u # t /\ tx[t] # None /\ tx[u] # None /\ tx'[u] = tx[u]
    /\ IInv /\ Commit(t) /\ Good(t)

LEMMA NoConflict ==
    ASSUME NEW t \in Transaction, NEW u \in Transaction, Aside(t, u),
           NEW object, NEW mode, NEW other,
           <<object, mode>> \in tx[t].held, <<object, other>> \in tx[u].held
    PROVE  mode = "share" /\ other = "share"
<1>1. /\ <<object, mode>>[1] = object /\ <<object, mode>>[2] = mode
      /\ <<object, other>>[1] = object /\ <<object, other>>[2] = other
  OBVIOUS
<1>2. Exclusive /\ t # u /\ tx[t] # None /\ tx[u] # None
  BY DEF Aside, IInv
<1>3. QED
  BY <1>1, <1>2 DEF Exclusive

LEMMA Modes == "share" # "update" /\ \A mode \in Mode : mode = "share" \/ mode = "update"
BY DEF Mode

(* What a transaction holds a lock on is not changed under it.                      *)
LEMMA HostsKept ==
    ASSUME NEW t \in Transaction, NEW u \in Transaction, Aside(t, u), NEW mode
    PROVE  /\ \A p \in Problem : <<<<"problem", p>>, mode>> \in tx[u].held =>
                 policy'[p] = policy[p]
           /\ \A c \in Contest : <<<<"contest", c>>, mode>> \in tx[u].held =>
                 /\ contest'[c] = contest[c]
                 /\ \A p \in Problem : binding'[<<c, p>>] = binding[<<c, p>>]
<1>1. Effects(t)
  BY DEF Aside, Good
<1>2. ASSUME NEW p \in Problem, <<<<"problem", p>>, mode>> \in tx[u].held
      PROVE  policy'[p] = policy[p]
  <2>1. <<<<"problem", p>>, "update">> \notin tx[t].held
    BY <1>2, NoConflict, Modes
  <2>2. QED
    BY <1>1, <2>1 DEF Effects
<1>3. ASSUME NEW c \in Contest, <<<<"contest", c>>, mode>> \in tx[u].held
      PROVE  /\ contest'[c] = contest[c]
             /\ \A p \in Problem : binding'[<<c, p>>] = binding[<<c, p>>]
  <2>1. <<<<"contest", c>>, "update">> \notin tx[t].held
    BY <1>3, NoConflict, Modes
  <2>2. QED
    BY <1>1, <2>1 DEF Effects
<1>4. QED
  BY <1>2, <1>3

(* Rows that come, go or leave their contest.                                       *)
LEMMA RowChange ==
    ASSUME NEW t \in Transaction, NEW u \in Transaction, Aside(t, u), NEW s \in Submission
    PROVE  /\ SameRow(s) \/ OrphanedRow(t, s) \/ OwnRow(t, s) \/ CreatedRow(t, s)
           /\ row[s].contest \in Contest \cup {None}
           /\ row[s].contest # None => contest[row[s].contest].exists
           /\ CreatedRow(t, s) => /\ ~row[s].exists
                                  /\ OnRow(u) => tx[u].request.submission # s
<1>1. SameRow(s) \/ OrphanedRow(t, s) \/ OwnRow(t, s) \/ CreatedRow(t, s)
  BY DEF Aside, Good, Effects
<1>2. /\ row[s].contest \in Contest \cup {None}
      /\ row[s].contest # None => contest[row[s].contest].exists
  BY DEF Aside, IInv, DbTyped, RowTyped, RowsOK
<1>3. CreatedRow(t, s) => /\ ~row[s].exists
                          /\ OnRow(u) => tx[u].request.submission # s
  BY DEF Aside, IInv, CreationsOK, CreatedRow
<1>4. QED
  BY <1>1, <1>2, <1>3

LEMMA SecuredStays ==
    ASSUME NEW t \in Transaction, NEW u \in Transaction, Aside(t, u), NEW lock, Secured(u, lock)
    PROVE  Secured(u, lock)'
<1>1. \A c \in Contest : ~contest[c].exists => ~contest'[c].exists
  BY DEF Aside, Good, Effects
<1>2. QED
  BY <1>1 DEF Secured, Aside

LEMMA OthersLocked ==
    ASSUME NEW t \in Transaction, NEW u \in Transaction, Aside(t, u), TxOK(u)
    PROVE  BaseLocked(u)' /\ RowContestLocked(u)'
<1>1. tx'[u] = tx[u]
  BY DEF Aside
<1>2. \A lock : Planned(u, lock) => Planned(u, lock)'
  <2>1. \A op : Ahead(u, op)' = Ahead(u, op)
    BY <1>1 DEF Ahead
  <2>2. QED
    BY <2>1, SecuredStays DEF Planned
<1>3. Untried(u)' = Untried(u)
  BY <1>1 DEF Untried
<1>4. BaseLocked(u)'
  BY <1>1, <1>2, <1>3, SecuredStays DEF TxOK, BaseLocked, Aside
<1>5. RowContestLocked(u)'
  <2> PICK q : q = tx[u].request
    OBVIOUS
  <2> PICK c : c = row'[q.submission].contest
    OBVIOUS
  <2> SUFFICES ASSUME q.kind \in {"result", "remove"}, c # None
               PROVE  Planned(u, <<<<"contest", c>>, "share">>)' \/ Ahead(u, <<"contest of row">>)'
    BY <1>1 DEF RowContestLocked
  <2>1. q.submission \in Submission
    <3>1. q \in Request \/ q \in SystemRequests
      BY DEF Aside, TxOK, TxTyped
    <3>2. QED
      BY <3>1, RequestFacts, SystemFacts
  <2>2. OnRow(u) /\ tx[u] # None
    BY DEF Aside, OnRow
  <2>3. c = row[q.submission].contest
    BY <2>1, <2>2, RowChange DEF SameRow, OrphanedRow, OwnRow
  <2>4. Planned(u, <<<<"contest", c>>, "share">>) \/ Ahead(u, <<"contest of row">>)
    BY <2>2, <2>3 DEF TxOK, RowContestLocked
  <2>5. Ahead(u, <<"contest of row">>)' = Ahead(u, <<"contest of row">>)
    BY <1>1 DEF Ahead
  <2>6. QED
    BY <1>2, <2>4, <2>5
<1>6. QED
  BY <1>4, <1>5

(* Who has no step left, or has computed what it writes, holds its locks.           *)
LEMMA OthersHold ==
    ASSUME NEW t \in Transaction, NEW u \in Transaction, Aside(t, u), TxOK(u),
           (NoStep(u) /\ ~Untried(u)) \/ Computed(tx[u].writes)
    PROVE  /\ \A lock \in BaseLocks(tx[u].request) : Secured(u, lock)
           /\ tx[u].request.kind \in {"result", "remove"} /\ NoStep(u) =>
                 LET c == row[tx[u].request.submission].contest
                 IN  c # None => Secured(u, <<<<"contest", c>>, "share">>)
<1>1. NoStep(u) => \A op : ~Ahead(u, op)
  BY DEF NoStep, Ahead
<1>2. QED
  BY <1>1 DEF TxOK, BaseLocked, RowContestLocked, Planned, Aside

LEMMA OthersResult ==
    ASSUME NEW t \in Transaction, NEW u \in Transaction, Aside(t, u), TxOK(u)
    PROVE  ResultReady(u)' /\ CreateReady(u)' /\ RemoveReady(u)'
<1> PICK q : q = tx[u].request
  OBVIOUS
<1>1. /\ tx'[u] = tx[u] /\ NoStep(u)' = NoStep(u) /\ tx[u] # None
      /\ q \in Request \/ q \in SystemRequests
      /\ q.kind # "refresh" => ~Untried(u)
  BY DEF Aside, NoStep, TxOK, TxTyped, Untried
<1>2. ASSUME q.kind = "result", NoStep(u)
      PROVE  LET s == q.submission
             IN  /\ row'[s].exists = row[s].exists /\ row'[s].results = row[s].results
                 /\ policy'[ProblemOf[s]] = policy[ProblemOf[s]]
                 /\ Bound(s)' = Bound(s)
  <2> PICK s : s = q.submission
    OBVIOUS
  <2> PICK p : p = ProblemOf[s]
    OBVIOUS
  <2> PICK c : c = row[s].contest
    OBVIOUS
  <2>1. s \in Submission /\ p \in Problem
    BY <1>1, <1>2, RequestFacts, SystemFacts
  <2>2. /\ <<<<"problem", p>>, "share">> \in tx[u].held
        /\ <<<<"submission", s>>, "update">> \in tx[u].held
    <3>1. BaseLocks(q) = {<<<<"problem", p>>, "share">>, <<<<"submission", s>>, "update">>}
      BY <1>2 DEF BaseLocks
    <3>2. Secured(u, <<<<"problem", p>>, "share">>) /\ Secured(u, <<<<"submission", s>>, "update">>)
      BY <1>1, <1>2, <3>1, OthersHold
    <3>3. QED
      BY <3>2, SecuredHeld
  <2>3. c # None => <<<<"contest", c>>, "share">> \in tx[u].held
    <3> SUFFICES ASSUME c # None
                 PROVE  <<<<"contest", c>>, "share">> \in tx[u].held
      OBVIOUS
    <3>1. Secured(u, <<<<"contest", c>>, "share">>)
      BY <1>1, <1>2, OthersHold
    <3>2. contest[c].exists
      BY <2>1, RowChange
    <3>3. QED
      BY <3>1, <3>2, SecuredHeld
  <2>4. ~OwnRow(t, s)
    BY <2>2, NoConflict, Modes DEF OwnRow
  <2>5. ~OrphanedRow(t, s)
    BY <2>3, NoConflict, Modes DEF OrphanedRow
  <2>6. ~CreatedRow(t, s)
    BY <1>1, <1>2, <2>1, RowChange DEF OnRow
  <2>7. SameRow(s)
    BY <2>1, <2>4, <2>5, <2>6, RowChange
  <2>8. c # None => c \in Contest /\ binding'[<<c, p>>] = binding[<<c, p>>]
    BY <2>1, <2>3, HostsKept, RowChange
  <2>9. Bound(s)' = Bound(s)
    BY <2>7, <2>8 DEF Bound, BindingOf, SameRow
  <2>10. QED
    BY <2>1, <2>2, <2>7, <2>9, HostsKept DEF SameRow
<1>3. ResultReady(u)'
  <2>1. ResultReady(u)
    BY <1>1 DEF TxOK
  <2>2. QED
    BY <1>1, <1>2, <2>1 DEF ResultReady
<1>4. ASSUME q.kind = "create", NoStep(u), q.contest # None
      PROVE  /\ binding[<<q.contest, ProblemOf[q.submission]>>] # None
             /\ binding'[<<q.contest, ProblemOf[q.submission]>>]
                   = binding[<<q.contest, ProblemOf[q.submission]>>]
  <2> PICK c : c = q.contest
    OBVIOUS
  <2> PICK p : p = ProblemOf[q.submission]
    OBVIOUS
  <2>1. c \in Contest /\ p \in Problem /\ <<c, p>> \in Pair
    <3>1. c \in Contest /\ p \in Problem
      BY <1>1, <1>4, RequestFacts, SystemFacts
    <3>2. QED
      BY <3>1 DEF Pair
  <2>2. binding[<<c, p>>] # None
    BY <1>1, <1>4 DEF TxOK, CreateReady
  <2>3. contest[c].exists
    BY <2>1, <2>2, RowsGood DEF Aside, BindingGood
  <2>4. <<<<"contest", c>>, "share">> \in tx[u].held
    <3>1. <<<<"contest", c>>, "share">> \in BaseLocks(q)
      BY <1>4 DEF BaseLocks
    <3>2. Secured(u, <<<<"contest", c>>, "share">>)
      BY <1>1, <1>4, <3>1, OthersHold
    <3>3. QED
      BY <2>3, <3>2, SecuredHeld
  <2>5. QED
    BY <2>1, <2>2, <2>4, HostsKept
<1>5. CreateReady(u)'
  <2>1. CreateReady(u)
    BY <1>1 DEF TxOK
  <2>2. QED
    BY <1>1, <1>4, <2>1 DEF CreateReady
<1>6. RemoveReady(u)'
  BY <1>1 DEF TxOK, RemoveReady
<1>7. QED
  BY <1>3, <1>5, <1>6

LEMMA OthersEdit ==
    ASSUME NEW t \in Transaction, NEW u \in Transaction, Aside(t, u), TxOK(u)
    PROVE  EditReady(u)' /\ DeleteReady(u)' /\ OtherReady(u)'
<1> PICK q : q = tx[u].request
  OBVIOUS
<1> PICK c : c = q.contest
  OBVIOUS
<1>1. /\ tx'[u] = tx[u] /\ NoStep(u)' = NoStep(u) /\ tx[u] # None
      /\ q \in Request \/ q \in SystemRequests
  BY DEF Aside, NoStep, TxOK, TxTyped
<1>2. ASSUME q.kind \in {"edit", "delete"}, tx[u].writes.contest # <<>>
      PROVE  /\ contest'[c] = contest[c] /\ (q.kind = "edit" => NewBindings(q)' = NewBindings(q))
  <2>1. c \in Contest
    BY <1>1, <1>2, RequestFacts, SystemFacts
  <2>2. contest[c].exists
    BY <1>1, <1>2 DEF TxOK, EditReady, DeleteReady
  <2>3. <<<<"contest", c>>, "update">> \in tx[u].held
    <3>1. <<<<"contest", c>>, "update">> \in BaseLocks(q)
      BY <1>2 DEF BaseLocks
    <3>2. Secured(u, <<<<"contest", c>>, "update">>)
      BY <1>2, <3>1, OthersHold DEF Computed
    <3>3. QED
      BY <2>2, <3>2, SecuredHeld
  <2>4. contest'[c] = contest[c] /\ \A p \in Problem : binding'[<<c, p>>] = binding[<<c, p>>]
    BY <2>1, <2>3, HostsKept
  <2>5. \A pair \in {c} \X Problem : binding'[pair] = binding[pair]
    BY <2>4
  <2>6. NewBindings(q)' = NewBindings(q)
    BY <2>5 DEF NewBindings
  <2>7. QED
    BY <2>4, <2>6
<1>3. \A x, y : Only(x, y) # <<>>
  <2>1. \A x, y : DOMAIN Only(x, y) = {x}
    BY DEF Only
  <2>2. DOMAIN <<>> = {}
    OBVIOUS
  <2>3. QED
    BY <2>1, <2>2
<1>4. EditReady(u)'
  <2> SUFFICES ASSUME q.kind = "edit"
               PROVE  EditReady(u)'
    BY <1>1 DEF EditReady
  <2>1. EditReady(u)
    BY <1>1 DEF TxOK
  <2>2. CASE tx[u].writes.contest = <<>>
    BY <1>1, <1>3, <2>1, <2>2 DEF EditReady
  <2>3. CASE tx[u].writes.contest # <<>>
    BY <1>1, <1>2, <2>1, <2>3 DEF EditReady
  <2>4. QED
    BY <2>2, <2>3
<1>5. DeleteReady(u)'
  <2> SUFFICES ASSUME q.kind = "delete"
               PROVE  DeleteReady(u)'
    BY <1>1 DEF DeleteReady
  <2>1. DeleteReady(u)
    BY <1>1 DEF TxOK
  <2>2. CASE tx[u].writes.contest = <<>>
    BY <1>1, <1>3, <2>1, <2>2 DEF DeleteReady
  <2>3. CASE tx[u].writes.contest # <<>>
    BY <1>1, <1>2, <2>1, <2>3 DEF DeleteReady
  <2>4. QED
    BY <2>2, <2>3
<1>6. OtherReady(u)'
  BY <1>1 DEF TxOK, OtherReady
<1>7. QED
  BY <1>4, <1>5, <1>6

(* The locks of the policy that another transaction changes.                        *)
LEMMA OthersChangeLocks ==
    ASSUME NEW t \in Transaction, NEW u \in Transaction, Aside(t, u), TxOK(u),
           tx[u].request.kind \in {"change", "batch"}, Computed(tx[u].writes),
           NEW ch \in tx[u].request.changes
    PROVE  /\ ch.contest = None => <<<<"problem", ch.problem>>, "update">> \in tx[u].held
           /\ ch.contest # None =>
                 /\ \E mode \in Mode : <<<<"problem", ch.problem>>, mode>> \in tx[u].held
                 /\ ch.contest \in Contest /\ contest[ch.contest].exists =>
                       <<<<"contest", ch.contest>>, "update">> \in tx[u].held
<1> PICK q : q = tx[u].request
  OBVIOUS
<1>1. \A lock \in HostLocks(q.kind, ch) : Secured(u, lock)
  <2>1. BaseLocks(q) = UNION {HostLocks(q.kind, x) : x \in q.changes}
    BY DEF BaseLocks
  <2>2. HostLocks(q.kind, ch) \subseteq BaseLocks(q)
    BY <2>1
  <2>3. QED
    BY <2>2, OthersHold
<1>2. CASE ch.contest = None
  <2>1. <<<<"problem", ch.problem>>, "update">> \in HostLocks(q.kind, ch)
    BY <1>2 DEF HostLocks
  <2>2. QED
    BY <1>1, <1>2, <2>1, SecuredHeld
<1>3. CASE ch.contest # None
  <2>1. PICK mode \in Mode : <<<<"problem", ch.problem>>, mode>> \in HostLocks(q.kind, ch)
    BY <1>3 DEF HostLocks, Mode
  <2>2. <<<<"contest", ch.contest>>, "update">> \in HostLocks(q.kind, ch)
    BY <1>3 DEF HostLocks
  <2>3. Secured(u, <<<<"problem", ch.problem>>, mode>>)
    BY <1>1, <2>1
  <2>4. Secured(u, <<<<"contest", ch.contest>>, "update">>)
    BY <1>1, <2>2
  <2>5. <<<<"problem", ch.problem>>, mode>> \in tx[u].held
    BY <2>3, SecuredHeld
  <2>6. QED
    BY <1>3, <2>4, <2>5, SecuredHeld
<1>4. QED
  BY <1>2, <1>3

LEMMA OthersPolicy ==
    ASSUME NEW t \in Transaction, NEW u \in Transaction, Aside(t, u), TxOK(u),
           tx[u].request.kind \in {"change", "batch"}, NEW p \in DOMAIN tx[u].writes.policy
    PROVE  PolicyReady(u, p)'
<1> PICK q : q = tx[u].request
  OBVIOUS
<1>1. PolicyReady(u, p) /\ p \in Problem /\ tx'[u] = tx[u]
  BY DEF TxOK, ChangeReady, PolicyReady, Aside
<1>2. Computed(tx[u].writes)
  <2>1. DOMAIN <<>> = {}
    OBVIOUS
  <2>2. QED
    BY <2>1 DEF Computed
<1>3. PICK ch \in q.changes : ch.problem = p /\ ch.contest = None
  BY <1>1 DEF PolicyReady
<1>4. <<<<"problem", p>>, "update">> \in tx[u].held
  BY <1>2, <1>3, OthersChangeLocks
<1>5. policy'[p] = policy[p]
  BY <1>1, <1>4, HostsKept
<1>6. ASSUME NEW s \in Submission, row'[s].exists, ProblemOf[s] = p
      PROVE  row[s].exists
  <2>1. ~OwnRow(t, s) /\ ~CreatedRow(t, s)
    BY <1>4, <1>6, NoConflict, Modes DEF OwnRow, CreatedRow
  <2>2. QED
    BY <1>6, <2>1, RowChange DEF SameRow, OrphanedRow
<1>7. QED
  BY <1>1, <1>5, <1>6 DEF PolicyReady

LEMMA OthersBinding ==
    ASSUME NEW t \in Transaction, NEW u \in Transaction, Aside(t, u), TxOK(u),
           tx[u].request.kind \in {"change", "batch"}, NEW pair \in DOMAIN tx[u].writes.binding
    PROVE  BindingReady(u, pair)'
<1> PICK q : q = tx[u].request
  OBVIOUS
<1>1. BindingReady(u, pair) /\ pair \in Pair /\ tx'[u] = tx[u] /\ binding[pair] # None
  BY DEF TxOK, ChangeReady, BindingReady, Aside
<1>2. Computed(tx[u].writes)
  <2>1. DOMAIN <<>> = {}
    OBVIOUS
  <2>2. QED
    BY <2>1 DEF Computed
<1>3. PICK c \in Contest, p \in Problem : pair = <<c, p>>
  BY <1>1 DEF Pair
<1>4. pair[1] = c /\ pair[2] = p
  BY <1>3
<1>5. PICK ch \in q.changes : ch.contest = c /\ ch.problem = p
  BY <1>1, <1>4 DEF BindingReady
<1>6. contest[c].exists /\ c # None
  BY <1>1, <1>4, RowsGood, EffectiveAssumption DEF BindingGood, Aside
<1>7. <<<<"contest", c>>, "update">> \in tx[u].held
  BY <1>2, <1>5, <1>6, OthersChangeLocks
<1>8. binding'[pair] = binding[pair]
  BY <1>3, <1>7, HostsKept
<1>9. ASSUME NEW s \in Submission, row'[s].exists, row'[s].contest = c
      PROVE  row[s].exists /\ row[s].contest = c
  <2>1. ~OwnRow(t, s) /\ ~CreatedRow(t, s) /\ ~OrphanedRow(t, s)
    BY <1>6, <1>7, <1>9, NoConflict, Modes DEF OwnRow, CreatedRow, OrphanedRow
  <2>2. QED
    BY <1>9, <2>1, RowChange DEF SameRow
<1>10. QED
  BY <1>1, <1>4, <1>8, <1>9 DEF BindingReady

(* The binding that a projection is computed from stays, or its row leaves it.      *)
LEMMA OthersShown ==
    ASSUME NEW t \in Transaction, NEW u \in Transaction, Aside(t, u), TxOK(u),
           tx[u].request.kind \in {"change", "batch"}, NEW s \in DOMAIN tx[u].writes.shown
    PROVE  ShownReady(u, s)'
<1> PICK q : q = tx[u].request
  OBVIOUS
<1> PICK w : w = tx[u].writes
  OBVIOUS
<1> PICK p : p = ProblemOf[s]
  OBVIOUS
<1> PICK c : c = row[s].contest
  OBVIOUS
<1>1. ShownReady(u, s) /\ s \in Submission /\ row[s].exists /\ tx'[u] = tx[u]
  BY DEF TxOK, ChangeReady, ShownReady, Aside
<1>2. Computed(tx[u].writes)
  <2>1. DOMAIN <<>> = {}
    OBVIOUS
  <2>2. QED
    BY <2>1 DEF Computed
<1>3. /\ p \in Problem /\ c \in Contest \cup {None} /\ (c # None => contest[c].exists)
      /\ c # None => <<c, p>> \in Pair
  <2>1. p \in Problem /\ c \in Contest \cup {None} /\ (c # None => contest[c].exists)
    BY <1>1, RowChange, EffectiveAssumption
  <2>2. QED
    BY <2>1 DEF Pair
<1>4. PICK ch \in q.changes : ch.problem = p /\ ch.contest \in {None, c}
  BY <1>1 DEF ShownReady
<1>5. PICK mode \in Mode : <<<<"problem", p>>, mode>> \in tx[u].held
  BY <1>2, <1>4, OthersChangeLocks DEF Mode
<1>6. NewPolicy(u, p)' = NewPolicy(u, p)
  <2>1. policy'[p] = policy[p] /\ DOMAIN policy' = DOMAIN policy /\ p \in DOMAIN policy
    <3>1. policy'[p] = policy[p]
      BY <1>3, <1>5, HostsKept
    <3>2. policy' \in [Problem -> PolicyRow] /\ policy \in [Problem -> PolicyRow]
      BY DEF Aside, Good, TablesOK, IInv, DbTyped
    <3>3. QED
      BY <1>3, <3>1, <3>2
  <2>2. Over(w.policy, policy')[p] = Over(w.policy, policy)[p]
    BY <2>1 DEF Over
  <2>3. QED
    BY <1>1, <2>2 DEF NewPolicy
<1>7. ~CreatedRow(t, s)
  BY <1>1, RowChange
<1>8. \/ SameRow(s) /\ (c # None => binding'[<<c, p>>] \in {binding[<<c, p>>], None})
      \/ /\ row'[s].exists = row[s].exists /\ row'[s].results = row[s].results
         /\ row'[s].contest = None /\ ch.contest = None
  <2>1. CASE ch.contest = None
    <3>1. <<<<"problem", p>>, "update">> \in tx[u].held
      BY <1>2, <1>4, <2>1, OthersChangeLocks
    <3>2. ~OwnRow(t, s)
      BY <3>1, NoConflict, Modes DEF OwnRow
    <3>3. \A other \in Mode : <<<<"problem", p>>, other>> \notin tx[t].held
      BY <3>1, NoConflict, Modes
    <3>4. c # None => binding'[<<c, p>>] \in {binding[<<c, p>>], None}
      BY <1>3, <3>3 DEF Aside, Good, Effects
    <3>5. QED
      BY <1>1, <1>7, <2>1, <3>2, <3>4, RowChange DEF OrphanedRow
  <2>2. CASE ch.contest = c /\ c # None
    <3>1. <<<<"contest", c>>, "update">> \in tx[u].held
      BY <1>2, <1>3, <1>4, <2>2, OthersChangeLocks
    <3>2. ~OwnRow(t, s) /\ ~OrphanedRow(t, s)
      BY <2>2, <3>1, NoConflict, Modes DEF OwnRow, OrphanedRow
    <3>3. binding'[<<c, p>>] = binding[<<c, p>>]
      BY <1>3, <2>2, <3>1, HostsKept
    <3>4. QED
      BY <1>1, <1>7, <3>2, <3>3, RowChange
  <2>3. QED
    BY <1>4, <2>1, <2>2
<1>9. CASE SameRow(s) /\ (c # None => binding'[<<c, p>>] \in {binding[<<c, p>>], None})
  <2>1. row'[s].contest = c /\ row'[s].exists /\ row'[s].results = row[s].results
    BY <1>1, <1>9 DEF SameRow
  <2>2. BindingOf(Over(w.binding, binding'), c, p) \in {BindingOf(Over(w.binding, binding), c, p), None}
    <3>1. CASE c = None
      BY <3>1 DEF BindingOf
    <3>2. CASE c # None
      <4>1. <<c, p>> \in DOMAIN binding /\ DOMAIN binding' = DOMAIN binding
        BY <1>3, <3>2 DEF Aside, Good, TablesOK, IInv, DbTyped
      <4>2. Over(w.binding, binding')[<<c, p>>] \in {Over(w.binding, binding)[<<c, p>>], None}
        BY <1>9, <3>2, <4>1 DEF Over
      <4>3. QED
        BY <3>2, <4>2 DEF BindingOf
    <3>3. QED
      BY <3>1, <3>2
  <2>3. NewBinding(u, c, p)' \in {NewBinding(u, c, p), None}
    BY <1>1, <2>2 DEF NewBinding
  <2>4. QED
    BY <1>1, <1>6, <2>1, <2>3 DEF ShownReady
<1>10. CASE /\ row'[s].exists = row[s].exists /\ row'[s].results = row[s].results
            /\ row'[s].contest = None /\ ch.contest = None
  <2>1. NewBinding(u, None, p)' = None
    BY DEF NewBinding, BindingOf
  <2>2. \E x \in q.changes : x.problem = p /\ x.contest \in {None, row'[s].contest}
    BY <1>4, <1>10
  <2>3. QED
    BY <1>1, <1>6, <1>10, <2>1, <2>2 DEF ShownReady
<1>11. QED
  BY <1>8, <1>9, <1>10

LEMMA OthersChange ==
    ASSUME NEW t \in Transaction, NEW u \in Transaction, Aside(t, u), TxOK(u)
    PROVE  ChangeReady(u)' /\ SeenOK(u)'
<1> PICK q : q = tx[u].request
  OBVIOUS
<1>1. /\ tx'[u] = tx[u] /\ tx[u] # None /\ ChangeReady(u) /\ SeenOK(u)
      /\ q \in Request \/ q \in SystemRequests
  BY DEF Aside, TxOK, TxTyped
<1>2. ChangeReady(u)'
  BY <1>1, OthersPolicy, OthersBinding, OthersShown DEF ChangeReady
<1>3. SeenOK(u)'
  <2> SUFFICES ASSUME q.kind \in {"change", "batch"}
               PROVE  SeenOK(u)'
    BY <1>1 DEF SeenOK
  <2>1. q.changes \subseteq Change
    BY <1>1, RequestFacts, SystemFacts
  <2>2. ASSUME NEW ch \in q.changes, ch.contest = None
        PROVE  LET seen == tx[u].seen
               IN  /\ seen[ch] \in PolicyRow
                   /\ seen[ch].revision <= policy'[ch.problem].revision
                   /\ seen[ch].revision = policy'[ch.problem].revision
                         => seen[ch] = policy'[ch.problem]
    <3> PICK p : p = ch.problem
      OBVIOUS
    <3> PICK seen : seen = tx[u].seen[ch]
      OBVIOUS
    <3>1. p \in Problem
      BY <2>1, ChangeFacts
    <3>2. policy'[p] \in PolicyRow /\ policy[p] \in PolicyRow
      BY <3>1 DEF Aside, Good, TablesOK, IInv, DbTyped
    <3>3. /\ seen \in PolicyRow /\ seen.revision <= policy[p].revision
          /\ seen.revision = policy[p].revision => seen = policy[p]
      BY <1>1, <2>2 DEF SeenOK
    <3>4. policy'[p] = policy[p] \/ policy'[p].revision > policy[p].revision
      BY <3>1 DEF Aside, Good, Effects
    <3>5. /\ policy[p].revision \in Nat /\ policy'[p].revision \in Nat /\ seen.revision \in Nat
      BY <3>2, <3>3 DEF PolicyRow
    <3>6. QED
      BY <3>3, <3>4, <3>5
  <2>3. QED
    BY <1>1, <2>2 DEF SeenOK
<1>4. QED
  BY <1>2, <1>3

LEMMA OthersRefresh ==
    ASSUME NEW t \in Transaction, NEW u \in Transaction, Aside(t, u), TxOK(u)
    PROVE  RefreshReady(u)' /\ BumpsOK(u)'
<1> PICK q : q = tx[u].request
  OBVIOUS
<1> PICK w : w = tx[u].writes
  OBVIOUS
<1>1. /\ tx'[u] = tx[u] /\ tx[u] # None /\ RefreshReady(u) /\ BumpsOK(u)
      /\ NoStep(u)' = NoStep(u) /\ Untried(u)' = Untried(u)
  BY DEF Aside, TxOK, NoStep, Untried
<1>2. BumpsOK(u)'
  BY <1>1 DEF BumpsOK, Ranked
<1>3. ASSUME q.kind = "refresh", w.view # None
      PROVE  /\ data' = data /\ now' = now
             /\ ~unannounced' => ~unannounced /\ UNCHANGED <<row, contest>>
  <2>1. NoStep(u) /\ ~Untried(u)
    BY <1>1, <1>3 DEF RefreshReady
  <2>2. RevisionLock \in tx[u].held
    <3>1. RevisionLock \in BaseLocks(q)
      BY <1>3 DEF BaseLocks
    <3>2. Secured(u, RevisionLock)
      BY <2>1, <3>1, OthersHold
    <3>3. RevisionLock[1][1] # "contest"
      BY DEF RevisionLock
    <3>4. QED
      BY <3>2, <3>3 DEF Secured
  <2>3. RevisionLock \notin tx[t].held
    BY <2>2, NoConflict, Modes DEF RevisionLock
  <2> PICK n : n = tx[t].writes.bumps
    OBVIOUS
  <2>4. n = 0
    <3>1. BumpsOK(t) /\ n \in Nat
      BY DEF Aside, IInv, TxOK, TxTyped
    <3>2. n > 0 => RevisionLock \in tx[t].held
      BY <3>1 DEF BumpsOK
    <3>3. QED
      BY <2>3, <3>1, <3>2
  <2>5. /\ data' = data + n /\ now' = now
        /\ unannounced' = IF n > 0 THEN FALSE
                          ELSE unannounced \/ tx[t].request.kind = "delete"
    BY DEF Aside, Commit
  <2>6. data \in Nat
    BY DEF Aside, IInv, DbTyped
  <2>7. data' = data /\ (~unannounced' => ~unannounced /\ tx[t].request.kind # "delete")
    <3>1. data' = data + 0 /\ ~(n > 0)
      BY <2>4, <2>5
    <3>2. data' = data
      BY <2>6, <3>1
    <3>3. unannounced' = (unannounced \/ tx[t].request.kind = "delete")
      BY <2>5, <3>1
    <3>4. QED
      BY <3>2, <3>3
  <2>8. QED
    BY <2>4, <2>5, <2>7 DEF Aside, Good
<1>4. RefreshReady(u)'
  BY <1>1, <1>3 DEF RefreshReady
<1>5. QED
  BY <1>2, <1>4

LEMMA OthersKept ==
    ASSUME IInv, NEW t \in Transaction, Commit(t), NEW u \in Transaction, u # t
    PROVE  TxOK(u)'
<1>1. tx'[u] = tx[u] /\ TxOK(u) /\ Good(t) /\ tx[t] # None /\ UNCHANGED <<now, requests>>
  BY CommitGood DEF IInv, DbTyped, Commit
<1>2. CASE tx[u] = None
  BY <1>1, <1>2 DEF TxOK
<1>3. CASE tx[u] # None
  <2>1. Aside(t, u)
    BY <1>1, <1>3 DEF Aside
  <2>2. TxTyped(u)' /\ OpsOK(u)'
    BY <1>1, <1>3 DEF TxOK, TxTyped, OpsOK
  <2>3. QED
    BY <1>1, <2>1, <2>2, OthersLocked, OthersResult, OthersEdit, OthersChange, OthersRefresh DEF TxOK
<1>4. QED
  BY <1>2, <1>3

-----------------------------------------------------------------------------
(* A commit keeps the invariant.                                                    *)

LEMMA CommitNumbers ==
    ASSUME IInv, NEW t \in Transaction, Commit(t)
    PROVE  LET n == tx[t].writes.bumps
               w == tx[t].writes
           IN  /\ data' \in Nat /\ data <= data' /\ (data' = data => n = 0)
               /\ unannounced' \in BOOLEAN
               /\ n = 0 /\ ~unannounced' => ~unannounced /\ UNCHANGED <<row, contest>>
               /\ view' = IF w.view = None THEN view ELSE w.view
               /\ w.view # None => /\ w.view.revision = data
                                   /\ w.view.at \in Nat /\ w.view.at <= now
                                   /\ ~unannounced => w.view.content = Standing(row, contest, w.view.at)
<1> PICK n : n = tx[t].writes.bumps
  OBVIOUS
<1> PICK w : w = tx[t].writes
  OBVIOUS
<1>1. TxOK(t) /\ tx[t] # None /\ n \in Nat /\ data \in Nat /\ unannounced \in BOOLEAN
  BY CommitFacts DEF IInv, DbTyped
<1>2. /\ data' = data + n /\ view' = IF w.view = None THEN view ELSE w.view
      /\ unannounced' = IF n > 0 THEN FALSE ELSE unannounced \/ tx[t].request.kind = "delete"
  BY DEF Commit
<1>3. data' \in Nat /\ data <= data' /\ (data' = data => n = 0)
  BY <1>1, <1>2
<1>4. unannounced' \in BOOLEAN
  BY <1>1, <1>2
<1>5. ASSUME n = 0, ~unannounced'
      PROVE  ~unannounced /\ UNCHANGED <<row, contest>>
  <2>1. ~(n > 0)
    BY <1>5
  <2>2. ~unannounced /\ tx[t].request.kind # "delete"
    BY <1>2, <1>5, <2>1
  <2>3. Good(t)
    BY CommitGood
  <2>4. QED
    BY <1>5, <2>2, <2>3 DEF Good
<1>6. ASSUME w.view # None
      PROVE  /\ w.view.revision = data
             /\ w.view.at \in Nat /\ w.view.at <= now
             /\ ~unannounced => w.view.content = Standing(row, contest, w.view.at)
  <2>1. tx[t].request \in Request \/ tx[t].request \in SystemRequests
    BY CommitFacts
  <2>2. tx[t].request.kind \in {"result", "create", "remove", "change", "batch", "edit", "delete",
                                "convert", "announce", "refresh"}
    BY <2>1, RequestFacts, SystemFacts
  <2>3. tx[t].request.kind = "refresh"
    BY <1>1, <1>6, <2>2 DEF TxOK, ResultReady, CreateReady, RemoveReady, ChangeReady, EditReady,
       DeleteReady, OtherReady
  <2>4. QED
    BY <1>1, <1>6, <2>3 DEF TxOK, RefreshReady
<1>7. QED
  BY <1>2, <1>3, <1>4, <1>5, <1>6

LEMMA CommitView ==
    ASSUME IInv, NEW t \in Transaction, Commit(t)
    PROVE  view'.revision \in Nat /\ view'.at \in Nat /\ ViewOK'
<1> PICK w : w = tx[t].writes
  OBVIOUS
<1> PICK n : n = tx[t].writes.bumps
  OBVIOUS
<1>1. /\ data' \in Nat /\ data <= data' /\ (data' = data => n = 0) /\ data \in Nat
      /\ n = 0 /\ ~unannounced' => ~unannounced /\ UNCHANGED <<row, contest>>
      /\ view.revision \in Nat /\ view.at \in Nat /\ ViewOK /\ UNCHANGED now
  BY CommitNumbers, CommitFacts DEF IInv, DbTyped
<1>2. CASE w.view = None
  <2>1. view' = view
    BY <1>2, CommitNumbers
  <2>2. view.revision = data' => data' = data
    BY <1>1 DEF ViewOK
  <2>3. view.revision <= data'
    BY <1>1 DEF ViewOK
  <2>4. QED
    BY <1>1, <2>1, <2>2, <2>3 DEF ViewOK
<1>3. CASE w.view # None
  <2>1. /\ view' = w.view /\ w.view.revision = data
        /\ w.view.at \in Nat /\ w.view.at <= now
        /\ ~unannounced => w.view.content = Standing(row, contest, w.view.at)
    BY <1>3, CommitNumbers
  <2>2. view'.revision = data' => n = 0
    BY <1>1, <2>1
  <2>3. QED
    BY <1>1, <2>1, <2>2 DEF ViewOK
<1>4. QED
  BY <1>2, <1>3

LEMMA CommitInv ==
    ASSUME IInv, NEW t \in Transaction, Commit(t)
    PROVE  IInv'
<1>1. /\ DbTyped /\ tx' = [tx EXCEPT ![t] = Afterwards(tx[t].request)] /\ tx[t] # None
      /\ UNCHANGED <<now, requests>> /\ now \in Nat
  BY DEF IInv, DbTyped, Commit
<1>2. /\ tx'[t] = Afterwards(tx[t].request) /\ tx' = [tx EXCEPT ![t] = tx'[t]]
      /\ \A u \in Transaction \ {t} : tx'[u] = tx[u]
  BY <1>1 DEF DbTyped
<1>3. Effects(t) /\ TablesOK'
  BY CommitGood DEF Good
<1>4. /\ TxOK(t)'
      /\ \/ tx'[t] = None
         \/ tx'[t].held = {} /\ tx'[t].request.kind \in {"refresh", "announce"}
  <2>1. CASE tx[t].request.kind = "result"
    <3>1. tx'[t] = Refresh
      BY <1>2, <2>1 DEF Afterwards
    <3>2. QED
      BY <1>1, <3>1, RefreshOK
  <2>2. CASE tx[t].request.kind = "delete"
    <3>1. tx'[t] = Open([kind |-> "announce"], bumpGlobal, <<>>)
      BY <1>2, <2>2 DEF Afterwards
    <3>2. QED
      BY <1>1, <3>1, AnnounceOK
  <2>3. CASE tx[t].request.kind \notin {"result", "delete"}
    <3>1. tx'[t] = None
      BY <1>2, <2>3 DEF Afterwards
    <3>2. QED
      BY <3>1 DEF TxOK
  <2>4. QED
    BY <2>1, <2>2, <2>3
<1>5. \A u \in Transaction : TxOK(u)'
  BY <1>4, OthersKept
<1>6. DbTyped'
  <2>1. data' \in Nat /\ unannounced' \in BOOLEAN /\ view'.revision \in Nat /\ view'.at \in Nat
    BY CommitNumbers, CommitView
  <2>2. tx' = [u \in Transaction |-> tx'[u]] /\ requests' \subseteq Request /\ now' \in Nat
    BY <1>1 DEF DbTyped
  <2>3. QED
    BY <1>3, <2>1, <2>2 DEF TablesOK, DbTyped
<1>7. Exclusive'
  BY <1>2, <1>4 DEF IInv, Exclusive
<1>8. CreationsOK'
  <2>1. /\ \A s : \A u \in Transaction : Creates(u, s)' => u # t /\ Creates(u, s)
        /\ \A u \in Transaction : OnRow(u)' => u # t /\ OnRow(u) /\ tx'[u] = tx[u]
    BY <1>2, <1>4 DEF Creates, OnRow
  <2>2. \A s : Created(s)' = Created(s)
    BY <1>1 DEF Created
  <2>3. ASSUME NEW u \in Transaction, NEW s \in Submission, Creates(u, s), u # t
        PROVE  ~row'[s].exists
    <3>1. /\ ~row[s].exists /\ ~Creates(t, s)
          /\ ~(OnRow(t) /\ tx[t].request.submission = s)
      BY <2>3 DEF IInv, CreationsOK
    <3>2. SameRow(s) \/ OrphanedRow(t, s)
      BY <1>3, <3>1 DEF Effects, OwnRow, CreatedRow
    <3>3. QED
      BY <3>1, <3>2 DEF SameRow, OrphanedRow
  <2>4. QED
    BY <2>1, <2>2, <2>3 DEF IInv, CreationsOK
<1>9. RowsOK' /\ ProjectionsOK'
  BY <1>3 DEF TablesOK
<1>10. ViewOK'
  BY CommitView
<1>11. QED
  BY <1>5, <1>6, <1>7, <1>8, <1>9, <1>10 DEF IInv

-----------------------------------------------------------------------------
(* Every step keeps the invariant.                                                  *)

LEMMA StutterInv ==
    ASSUME IInv, UNCHANGED vars
    PROVE  IInv'
<1>1. /\ DbTyped /\ UNCHANGED <<committed, now, requests, tx>> /\ now \in Nat
  BY DEF IInv, DbTyped, vars, committed
<1>2. \A t \in Transaction : TxOK(t)'
  BY <1>1, TxFrame DEF IInv
<1>3. DbTyped' /\ Exclusive' /\ RowsOK' /\ CreationsOK'
  BY <1>1 DEF IInv, DbTyped, Exclusive, RowsOK, CreationsOK, Created, OnRow, Creates, committed
<1>4. ProjectionsOK' /\ ViewOK'
  BY <1>1 DEF IInv, ProjectionsOK, GlobalProjectionCurrent, ContestProjectionCurrent, ViewOK,
     committed
<1>5. QED
  BY <1>2, <1>3, <1>4 DEF IInv

LEMMA NextInv == IInv /\ [Next]_vars => IInv'
<1> SUFFICES ASSUME IInv, [Next]_vars
             PROVE  IInv'
  OBVIOUS
<1>1. CASE UNCHANGED vars
  BY <1>1, StutterInv
<1>2. CASE Tick
  BY <1>2, TickInv
<1>3. ASSUME NEW t \in Transaction, Begin(t) \/ Acquire(t) \/ ReadContest(t)
      PROVE  IInv'
  BY <1>3, BeginInv, AcquireInv, ReadContestInv
<1>4. ASSUME NEW t \in Transaction,
             applyAttemptResult(t) \/ createSubmission(t) \/ deleteSubmission(t)
      PROVE  IInv'
  BY <1>4, ResultInv, CreateInv, RemoveInv
<1>5. ASSUME NEW t \in Transaction,
             \/ setProblemPolicy(t) \/ setContestPolicy(t)
             \/ updateContest(t) \/ cascadeContest(t)
      PROVE  IInv'
  BY <1>5, ProblemPolicyInv, ContestPolicyInv, EditInv, CascadeInv
<1>6. ASSUME NEW t \in Transaction,
             tryRefresh(t) \/ refreshRankingsView(t) \/ scheduleRankingsRefresh(t)
      PROVE  IInv'
  BY <1>6, TryInv, RefreshInv, ScheduleInv
<1>7. ASSUME NEW t \in Transaction, Commit(t) \/ DeadlockAbort(t) \/ Crash(t)
      PROVE  IInv'
  BY <1>7, CommitInv, AbortInv
<1>8. QED
  BY <1>1, <1>2, <1>3, <1>4, <1>5, <1>6, <1>7 DEF Next

\* The invariant of everything that follows: whatever is committed, and whatever
\* an open transaction is about to commit, under the locks it holds.
THEOREM ResultsInvariant == Spec => []IInv
<1> QED
  BY InitInv, NextInv, PTL DEF Spec

\* Policies and bindings stay in their domains, a row has one result per version,
\* and no two transactions hold conflicting locks.
THEOREM ResultsTypeCorrect == Spec => []TypeOK
<1>1. IInv => TypeOK
  <2> SUFFICES ASSUME IInv
               PROVE  TypeOK
    OBVIOUS
  <2>1. \A p \in Problem : policy[p] \in PolicyRow
    BY DEF IInv, DbTyped
  <2>2. \A pair \in Pair : \/ binding[pair] = None
                           \/ contest[pair[1]].exists /\ binding[pair] \in Binding
    BY DEF IInv, DbTyped, RowsOK
  <2>3. \A s \in Submission :
           /\ row[s].contest = None \/ contest[row[s].contest].exists
           /\ \A r1, r2 \in row[s].results : r1.version = r2.version => r1 = r2
    BY DEF IInv, RowsOK
  <2>4. \A t \in Transaction : tx[t] # None => \A lock \in tx[t].held :
           \A u \in Transaction \ {t} : tx[u] # None =>
              \A other \in tx[u].held :
                 lock[1] = other[1] => lock[2] = "share" /\ other[2] = "share"
    BY DEF IInv, Exclusive
  <2>5. QED
    BY <2>1, <2>2, <2>3, <2>4 DEF TypeOK
<1> QED
  BY <1>1, ResultsInvariant, PTL

\* What a row shows for its problem is always what the committed policy selects from
\* its committed results, however results, policy changes and batches interleave.
THEOREM GlobalProjectionsCurrent == Spec => []GlobalProjectionCurrent
<1>1. IInv => GlobalProjectionCurrent
  BY DEF IInv, ProjectionsOK
<1> QED
  BY <1>1, ResultsInvariant, PTL

\* A projection that carries the revision of the binding of its contest shows what
\* that binding selects, also after the contest was edited or deleted.
THEOREM ContestProjectionsCurrent == Spec => []ContestProjectionCurrent
<1>1. IInv => ContestProjectionCurrent
  BY DEF IInv, ProjectionsOK
<1> QED
  BY <1>1, ResultsInvariant, PTL

\* Whenever readers trust the view, it holds what the ranking would compute now:
\* its revision covers the data, and no contest that counts has ended since.
THEOREM ViewIsHonest == Spec => []ViewHonest
<1>1. IInv => ViewHonest
  <2> SUFFICES ASSUME IInv, Trusted, ~unannounced
               PROVE  view.content = Standing(row, contest, now)
    BY DEF ViewHonest
  <2>1. view.content = Standing(row, contest, view.at) /\ view.at \in Nat /\ now \in Nat
        /\ view.at <= now
    <3>1. view.revision = data
      BY DEF IInv, ViewOK, DbTyped, Trusted
    <3>2. QED
      BY <3>1 DEF IInv, ViewOK, DbTyped
  <2>2. ASSUME NEW s \in Submission, row[s].exists, row[s].contest # None,
               contest[row[s].contest].affects
        PROVE  contest[row[s].contest].end <= view.at <=> contest[row[s].contest].end <= now
    <3>1. PICK c \in Contest : c = row[s].contest
      BY <2>2 DEF IInv, DbTyped, RowTyped
    <3>2. contest[c].exists /\ contest[c].affects /\ contest[c].end \in Nat
      BY <2>2, <3>1 DEF IInv, DbTyped, RowsOK, ContestRow
    <3>3. ~(view.at < contest[c].end /\ contest[c].end <= now)
      BY <3>2 DEF Trusted
    <3>4. QED
      BY <2>1, <3>1, <3>2, <3>3
  <2>3. Standing(row, contest, view.at) = Standing(row, contest, now)
    BY <2>2 DEF Standing
  <2>4. QED
    BY <2>1, <2>3
<1> QED
  BY <1>1, ResultsInvariant, PTL

-----------------------------------------------------------------------------
(* What a step may never do.                                                        *)

(* Only a commit changes what is committed.                                         *)
LEMMA OnlyCommits ==
    ASSUME [Next]_vars
    PROVE  (\E t \in Transaction : Commit(t)) \/ UNCHANGED committed
<1>1. CASE UNCHANGED vars \/ Tick
  BY <1>1 DEF vars, committed, Tick
<1>2. ASSUME NEW t \in Transaction,
             \/ Begin(t) \/ Acquire(t) \/ ReadContest(t)
             \/ applyAttemptResult(t) \/ createSubmission(t) \/ deleteSubmission(t)
             \/ setProblemPolicy(t) \/ setContestPolicy(t)
             \/ updateContest(t) \/ cascadeContest(t)
             \/ tryRefresh(t) \/ refreshRankingsView(t) \/ scheduleRankingsRefresh(t)
             \/ DeadlockAbort(t) \/ Crash(t)
      PROVE  UNCHANGED committed
  BY <1>2 DEF Begin, Acquire, ReadContest, applyAttemptResult, createSubmission, deleteSubmission,
     setProblemPolicy, setContestPolicy, updateContest, cascadeContest, tryRefresh,
     refreshRankingsView, scheduleRankingsRefresh, DeadlockAbort, Crash
<1>3. QED
  BY <1>1, <1>2 DEF Next

LEMMA PinnedStep ==
    ASSUME IInv, NEW t \in Transaction, Commit(t),
           NEW s \in Submission, ~row[s].exists, row'[s].exists, row'[s].contest # None
    PROVE  LET bound == binding[<<row'[s].contest, ProblemOf[s]>>]
           IN  bound # None /\ bound.pinned = row'[s].version
<1> PICK q : q = tx[t].request
  OBVIOUS
<1>1. DbTyped /\ TxOK(t) /\ NoStep(t) /\ tx[t] # None /\ row' = NewRows(q, tx[t].writes)
      /\ (q \in Request \/ q \in SystemRequests)
  BY CommitFacts DEF IInv
<1>2. Effects(t)
  BY CommitGood DEF Good
<1>3. OwnRow(t, s) \/ CreatedRow(t, s)
  BY <1>2 DEF Effects, SameRow, OrphanedRow
<1>4. q.kind \in {"result", "remove", "create"} /\ q.submission = s
  BY <1>3 DEF OwnRow, OnRow, CreatedRow, Creates
<1>5. q.kind # "result"
  BY <1>1, <1>4 DEF TxOK, ResultReady
<1>6. q.kind # "remove"
  <2> SUFFICES ASSUME q.kind = "remove"
               PROVE  FALSE
    OBVIOUS
  <2>1. row' = [row EXCEPT ![s] = NewRow(s, FALSE, None)]
    BY <1>1, <1>4 DEF NewRows
  <2>2. row'[s] = NewRow(s, FALSE, None)
    BY <1>1, <2>1 DEF DbTyped
  <2>3. QED
    BY <2>2 DEF NewRow
<1>7. q.kind = "create"
  BY <1>4, <1>5, <1>6
<1>8. row'[s].contest = q.contest /\ row'[s].version = q.version
  <2>1. row' = [row EXCEPT ![s] = [NewRow(s, TRUE, q.contest) EXCEPT !.version = q.version]]
    BY <1>1, <1>4, <1>7 DEF NewRows
  <2>2. row'[s] = [NewRow(s, TRUE, q.contest) EXCEPT !.version = q.version]
    BY <1>1, <2>1 DEF DbTyped
  <2>3. QED
    BY <2>2 DEF NewRow
<1>9. QED
  BY <1>1, <1>4, <1>7, <1>8 DEF TxOK, CreateReady

\* A submission that enters a contest is on the version that the contest pins at the
\* moment of the commit, although the version was read before any lock.
THEOREM SubmissionsOnPinned == Spec => CreatedOnPinned
<1>1. IInv /\ [Next]_vars =>
        [\A s \in Submission : ~row[s].exists /\ row'[s].exists /\ row'[s].contest # None =>
            LET bound == binding[<<row'[s].contest, ProblemOf[s]>>]
            IN  bound # None /\ bound.pinned = row'[s].version]_vars
  <2> SUFFICES ASSUME IInv, [Next]_vars, NEW s \in Submission,
                      ~row[s].exists, row'[s].exists, row'[s].contest # None
               PROVE  LET bound == binding[<<row'[s].contest, ProblemOf[s]>>]
                      IN  bound # None /\ bound.pinned = row'[s].version
    OBVIOUS
  <2>1. PICK t \in Transaction : Commit(t)
    BY OnlyCommits DEF committed
  <2>2. QED
    BY <2>1, PinnedStep
<1> QED
  BY <1>1, ResultsInvariant, PTL DEF Spec, CreatedOnPinned

LEMMA PolicyStep ==
    ASSUME IInv, NEW t \in Transaction, Commit(t), NEW p \in Problem, policy'[p] # policy[p]
    PROVE  /\ tx[t] # None /\ tx'[t] = None
           /\ \E change \in DOMAIN tx[t].seen :
                 /\ change.problem = p /\ change.contest = None
                 /\ tx[t].seen[change] = policy[p]
<1> PICK q : q = tx[t].request
  OBVIOUS
<1> PICK w : w = tx[t].writes
  OBVIOUS
<1>1. /\ DbTyped /\ TxOK(t) /\ tx[t] # None /\ policy' = Over(w.policy, policy)
      /\ (q \in Request \/ q \in SystemRequests)
  BY CommitFacts DEF IInv
<1>2. p \in DOMAIN w.policy
  BY <1>1, DbDomains, OverElse
<1>3. w.policy # <<>>
  <2>1. DOMAIN <<>> = {}
    OBVIOUS
  <2>2. QED
    BY <1>2, <2>1
<1>4. q.kind \in {"change", "batch"}
  <2>1. q.kind \in {"result", "create", "remove", "change", "batch", "edit", "delete",
                    "convert", "announce", "refresh"}
    BY <1>1, RequestFacts, SystemFacts
  <2>2. QED
    BY <1>1, <1>3, <2>1 DEF TxOK, ResultReady, CreateReady, RemoveReady, EditReady, DeleteReady,
       OtherReady, RefreshReady, NoHostWrites
<1>5. PolicyReady(t, p) /\ DOMAIN tx[t].seen = q.changes
  BY <1>1, <1>2, <1>4 DEF TxOK, ChangeReady, SeenOK
<1>6. tx'[t] = None
  <2>1. tx' = [tx EXCEPT ![t] = Afterwards(q)]
    BY DEF Commit
  <2>2. tx'[t] = Afterwards(q)
    BY <1>1, <2>1 DEF DbTyped
  <2>3. QED
    BY <1>4, <2>2 DEF Afterwards
<1>7. QED
  BY <1>1, <1>5, <1>6 DEF PolicyReady

\* No policy of a problem is replaced by someone who had not seen it: of two changes
\* made side by side from the same revision, one is refused.
THEOREM NoPolicyChangeLost == Spec => NoLostPolicyChange
<1>1. IInv /\ [Next]_vars =>
        [\A p \in Problem : policy'[p] # policy[p] =>
            \E t \in Transaction : /\ tx[t] # None /\ tx'[t] = None
                                   /\ \E change \in DOMAIN tx[t].seen :
                                         /\ change.problem = p /\ change.contest = None
                                         /\ tx[t].seen[change] = policy[p]]_vars
  <2> SUFFICES ASSUME IInv, [Next]_vars, NEW p \in Problem, policy'[p] # policy[p]
               PROVE  \E t \in Transaction :
                         /\ tx[t] # None /\ tx'[t] = None
                         /\ \E change \in DOMAIN tx[t].seen :
                               /\ change.problem = p /\ change.contest = None
                               /\ tx[t].seen[change] = policy[p]
    OBVIOUS
  <2>1. PICK t \in Transaction : Commit(t)
    BY OnlyCommits DEF committed
  <2>2. QED
    BY <2>1, PolicyStep
<1> QED
  BY <1>1, ResultsInvariant, PTL DEF Spec, NoLostPolicyChange

-----------------------------------------------------------------------------
(* The order of locks.                                                              *)

OneRow == {"result", "create", "remove"}

(* The place of an operation in the common order; a step has that of the first      *)
(* revision it raises.                                                              *)
TableLevel(table) ==
    CASE table = "problem" -> 1
      [] table = "contest" -> 2
      [] table = "submission" -> 3
      [] table = "revision of problem" -> 4
      [] table = "revision of contest" -> 5
      [] OTHER -> 6
Level(op) == IF op[1] = "lock" THEN TableLevel(op[2][1])
             ELSE IF op[1] = "contest of row" THEN 2 ELSE 4

IsHost(op) == op[1] = "lock" /\ op[2][1] \in {"problem", "contest"}
Precedes(a, b) ==
    \/ Level(a) < Level(b)
    \/ Level(a) = Level(b) /\ IsHost(a) /\ IsHost(b) /\ a[2][2] < b[2][2]

LockOf(lock) == <<"lock", lock[1], lock[2]>>

(* Problems and contests are locked in their order and before anything else; all    *)
(* that a request for one row locks is in order.                                    *)
InLine(held, ops, all) ==
    \A j \in DOMAIN ops : IsHost(ops[j]) \/ all =>
        /\ \A i \in 1..(j - 1) : Precedes(ops[i], ops[j])
        /\ \A lock \in held : Precedes(LockOf(lock), ops[j])

(* Who locks a submission or a revision has its hosts locked.                       *)
Hosted(x, host) ==
    \/ <<host, "update">> \in x.held
    \/ x.request.kind \in OneRow /\ <<host, "share">> \in x.held

Covered(x, o) ==
    /\ o[1] = "submission" =>
          \/ x.request.kind \in {"result", "remove"} /\ o[2] = x.request.submission
          \/ x.request.kind \in {"change", "batch"} /\ o[2] \in DOMAIN x.writes.shown
    /\ o[1] = "revision of problem" => Hosted(x, <<"problem", o[2]>>)
    /\ o[1] = "revision of contest" => Hosted(x, <<"contest", o[2]>>)

LocksCovered(x, ops) == \A i \in DOMAIN ops : ops[i][1] = "lock" => Covered(x, ops[i][2])

HeldCovered(x) ==
    \A lock \in x.held : Covered(x, lock[1]) /\ (lock[1][1] = "revision of all" => lock[2] = "update")

Unordered == {"delete", "convert"}

Ordered(x) ==
    x.request.kind \notin Unordered =>
        /\ InLine(x.held, x.todo, x.request.kind \in OneRow)
        /\ LocksCovered(x, x.todo) /\ HeldCovered(x)

OrderInv == \A t \in Transaction : tx[t] # None => Ordered(tx[t])

LEMMA TableLevels ==
    /\ TableLevel("problem") = 1 /\ TableLevel("contest") = 2 /\ TableLevel("submission") = 3
    /\ TableLevel("revision of problem") = 4 /\ TableLevel("revision of contest") = 5
    /\ TableLevel("revision of all") = 6
    /\ \A table : TableLevel(table) \in 1..6
BY DEF TableLevel

LEMMA LockLevel ==
    ASSUME NEW table, NEW id, NEW mode
    PROVE  /\ Level(Lock(table, id, mode)) = TableLevel(table)
           /\ IsHost(Lock(table, id, mode)) <=> table \in {"problem", "contest"}
           /\ Lock(table, id, mode)[1] = "lock" /\ Lock(table, id, mode)[2] = <<table, id>>
BY DEF Level, IsHost, Lock

LEMMA OpLevel ==
    ASSUME NEW op
    PROVE  /\ Level(op) \in 1..6
           /\ op[1] = "contest of row" => Level(op) = 2 /\ ~IsHost(op)
           /\ op[1] \notin {"lock", "contest of row"} => Level(op) = 4 /\ ~IsHost(op)
           /\ IsHost(op) => Level(op) \in {1, 2}
BY TableLevels DEF Level, IsHost

LEMMA LevelNumber == \A op : Level(op) \in Nat
<1>1. \A table : TableLevel(table) \in Nat
  BY DEF TableLevel
<1>2. QED
  BY <1>1 DEF Level

LEMMA InLineTail ==
    ASSUME NEW S, NEW ops \in Seq(S), ops # <<>>, NEW held, NEW all, InLine(held, ops, all)
    PROVE  /\ InLine(held, Tail(ops), all)
           /\ \A j \in DOMAIN Tail(ops) : IsHost(Tail(ops)[j]) \/ all =>
                 Precedes(Head(ops), Tail(ops)[j])
           /\ IsHost(Head(ops)) \/ all => \A lock \in held : Precedes(LockOf(lock), Head(ops))
           /\ \A j \in DOMAIN Tail(ops) : j + 1 \in DOMAIN ops /\ Tail(ops)[j] = ops[j + 1]
           /\ 1 \in DOMAIN ops /\ Head(ops) = ops[1]
<1>1. /\ \A j \in DOMAIN Tail(ops) : j \in Nat \ {0} /\ j + 1 \in DOMAIN ops /\ Tail(ops)[j] = ops[j + 1]
      /\ 1 \in DOMAIN ops /\ Head(ops) = ops[1]
      /\ \A j \in DOMAIN Tail(ops) : \A i \in 1..(j - 1) : i \in DOMAIN Tail(ops)
  OBVIOUS
<1>2. ASSUME NEW j \in DOMAIN Tail(ops), IsHost(Tail(ops)[j]) \/ all
      PROVE  /\ \A i \in 1..(j - 1) : Precedes(Tail(ops)[i], Tail(ops)[j])
             /\ \A lock \in held : Precedes(LockOf(lock), Tail(ops)[j])
             /\ Precedes(Head(ops), Tail(ops)[j])
  <2>1. /\ \A i \in 1..j : Precedes(ops[i], ops[j + 1])
        /\ \A lock \in held : Precedes(LockOf(lock), ops[j + 1])
    <3>1. j + 1 - 1 = j
      BY <1>1
    <3>2. QED
      BY <1>1, <1>2, <3>1 DEF InLine
  <2>2. \A i \in 1..(j - 1) : i + 1 \in 1..j /\ Tail(ops)[i] = ops[i + 1]
    BY <1>1
  <2>3. 1 \in 1..j
    BY <1>1
  <2>4. QED
    BY <1>1, <2>1, <2>2, <2>3
<1>3. InLine(held, Tail(ops), all)
  BY <1>2 DEF InLine
<1>4. IsHost(Head(ops)) \/ all => \A lock \in held : Precedes(LockOf(lock), Head(ops))
  BY <1>1 DEF InLine
<1>5. QED
  BY <1>1, <1>2, <1>3, <1>4

LEMMA InLineJoined ==
    ASSUME NEW S, NEW a \in Seq(S), NEW b \in Seq(S), NEW held, NEW all,
           InLine(held, a, all), InLine(held, b, all),
           \A i \in DOMAIN a, j \in DOMAIN b : IsHost(b[j]) \/ all => Precedes(a[i], b[j])
    PROVE  InLine(held, a \o b, all)
<1> DEFINE c == a \o b
<1>1. /\ Len(a) \in Nat /\ Len(b) \in Nat /\ DOMAIN a = 1..Len(a) /\ DOMAIN b = 1..Len(b)
      /\ DOMAIN c = 1..(Len(a) + Len(b))
      /\ \A i \in 1..Len(a) : c[i] = a[i]
      /\ \A i \in 1..Len(b) : c[Len(a) + i] = b[i]
  OBVIOUS
<1> HIDE DEF c
<1>2. ASSUME NEW j \in DOMAIN c, IsHost(c[j]) \/ all
      PROVE  /\ \A i \in 1..(j - 1) : Precedes(c[i], c[j])
             /\ \A lock \in held : Precedes(LockOf(lock), c[j])
  <2>1. CASE j <= Len(a)
    <3>1. j \in DOMAIN a /\ c[j] = a[j] /\ \A i \in 1..(j - 1) : c[i] = a[i]
      BY <1>1, <2>1
    <3>2. QED
      BY <1>2, <3>1 DEF InLine
  <2>2. CASE j > Len(a)
    <3>1. PICK k \in DOMAIN b : j = Len(a) + k /\ c[j] = b[k]
      <4>1. j - Len(a) \in DOMAIN b /\ j = Len(a) + (j - Len(a))
        BY <1>1, <2>2
      <4>2. c[Len(a) + (j - Len(a))] = b[j - Len(a)]
        BY <1>1, <4>1
      <4>3. QED
        BY <4>1, <4>2
    <3>2. ASSUME NEW i \in 1..(j - 1)
          PROVE  Precedes(c[i], c[j])
      <4>1. CASE i <= Len(a)
        <5>1. i \in DOMAIN a /\ c[i] = a[i]
          BY <1>1, <4>1
        <5>2. QED
          BY <1>2, <3>1, <5>1
      <4>2. CASE i > Len(a)
        <5>1. i - Len(a) \in 1..(k - 1) /\ i - Len(a) \in 1..Len(b) /\ i = Len(a) + (i - Len(a))
          BY <1>1, <3>1, <4>2
        <5>2. c[Len(a) + (i - Len(a))] = b[i - Len(a)]
          BY <1>1, <5>1
        <5>3. Precedes(b[i - Len(a)], b[k])
          BY <1>2, <3>1, <5>1 DEF InLine
        <5>4. QED
          BY <3>1, <5>1, <5>2, <5>3
      <4>3. QED
        BY <1>1, <4>1, <4>2
    <3>3. \A lock \in held : Precedes(LockOf(lock), c[j])
      BY <1>2, <3>1 DEF InLine
    <3>4. QED
      BY <3>2, <3>3
  <2>3. QED
    BY <1>1, <2>1, <2>2
<1>3. QED
  BY <1>2 DEF InLine, c

(* What holds for both parts holds for what they are joined to.                     *)
LEMMA ElementsJoined ==
    ASSUME NEW S, NEW a \in Seq(S), NEW b \in Seq(S)
    PROVE  \A j \in DOMAIN (a \o b) : \/ \E i \in DOMAIN a : (a \o b)[j] = a[i]
                                      \/ \E i \in DOMAIN b : (a \o b)[j] = b[i]
<1> DEFINE c == a \o b
<1>1. /\ Len(a) \in Nat /\ Len(b) \in Nat /\ DOMAIN a = 1..Len(a) /\ DOMAIN b = 1..Len(b)
      /\ DOMAIN c = 1..(Len(a) + Len(b))
      /\ \A i \in 1..Len(a) : c[i] = a[i]
      /\ \A i \in 1..Len(b) : c[Len(a) + i] = b[i]
  OBVIOUS
<1> HIDE DEF c
<1>2. ASSUME NEW j \in DOMAIN c
      PROVE  (\E i \in DOMAIN a : c[j] = a[i]) \/ (\E i \in DOMAIN b : c[j] = b[i])
  <2>1. CASE j <= Len(a)
    BY <1>1, <2>1
  <2>2. CASE j > Len(a)
    <3>1. j - Len(a) \in 1..Len(b) /\ j = Len(a) + (j - Len(a))
      BY <1>1, <2>2
    <3>2. c[Len(a) + (j - Len(a))] = b[j - Len(a)]
      BY <1>1, <3>1
    <3>3. QED
      BY <1>1, <3>1, <3>2
  <2>3. QED
    BY <1>1, <2>1, <2>2
<1>3. QED
  BY <1>2 DEF c

LEMMA NoHosts ==
    ASSUME NEW held, NEW ops, \A j \in DOMAIN ops : ~IsHost(ops[j])
    PROVE  InLine(held, ops, FALSE)
BY DEF InLine

LEMMA NothingInLine ==
    ASSUME NEW held, NEW all
    PROVE  InLine(held, <<>>, all)
BY DEF InLine

-----------------------------------------------------------------------------
(* What steps do to the order.                                                      *)

(* A transaction goes on: it keeps its request, its locks and what it shows.        *)
Follows(x, y) ==
    /\ y.request = x.request /\ x.held \subseteq y.held
    /\ x.request.kind \in {"change", "batch"} =>
          DOMAIN x.writes.shown \subseteq DOMAIN y.writes.shown

LEMMA CoveredMore ==
    ASSUME NEW x, NEW y, Follows(x, y), NEW o, Covered(x, o)
    PROVE  Covered(y, o)
<1>1. \A host : Hosted(x, host) => Hosted(y, host)
  BY DEF Hosted, Follows
<1>2. QED
  BY <1>1 DEF Covered, Follows

LEMMA CoveredJoined ==
    ASSUME NEW S, NEW a \in Seq(S), NEW b \in Seq(S), NEW x, LocksCovered(x, a), LocksCovered(x, b)
    PROVE  LocksCovered(x, a \o b)
<1>1. /\ \A i \in DOMAIN a : a[i][1] = "lock" => Covered(x, a[i][2])
      /\ \A i \in DOMAIN b : b[i][1] = "lock" => Covered(x, b[i][2])
  BY DEF LocksCovered
<1>2. \A j \in DOMAIN (a \o b) : \/ \E i \in DOMAIN a : (a \o b)[j] = a[i]
                                 \/ \E i \in DOMAIN b : (a \o b)[j] = b[i]
  BY ElementsJoined
<1>3. \A j \in DOMAIN (a \o b) : (a \o b)[j][1] = "lock" => Covered(x, (a \o b)[j][2])
  BY <1>1, <1>2
<1>4. QED
  BY <1>3 DEF LocksCovered

LEMMA NoHostsJoined ==
    ASSUME NEW S, NEW a \in Seq(S), NEW b \in Seq(S), NEW held,
           \A j \in DOMAIN a : ~IsHost(a[j]), \A j \in DOMAIN b : ~IsHost(b[j])
    PROVE  InLine(held, a \o b, FALSE)
<1>1. \A j \in DOMAIN (a \o b) : \/ \E i \in DOMAIN a : (a \o b)[j] = a[i]
                                 \/ \E i \in DOMAIN b : (a \o b)[j] = b[i]
  BY ElementsJoined
<1>2. \A j \in DOMAIN (a \o b) : ~IsHost((a \o b)[j])
  BY <1>1
<1>3. QED
  BY <1>2, NoHosts

LEMMA CoveredTail ==
    ASSUME NEW x, NEW y, Follows(x, y), NEW S, NEW ops \in Seq(S), ops # <<>>, LocksCovered(x, ops)
    PROVE  LocksCovered(y, Tail(ops))
<1>1. \A j \in DOMAIN Tail(ops) : j + 1 \in DOMAIN ops /\ Tail(ops)[j] = ops[j + 1]
  OBVIOUS
<1>2. SUFFICES ASSUME NEW j \in DOMAIN Tail(ops), Tail(ops)[j][1] = "lock"
               PROVE  Covered(y, Tail(ops)[j][2])
  BY DEF LocksCovered
<1>3. Covered(x, Tail(ops)[j][2])
  BY <1>1, <1>2 DEF LocksCovered
<1>4. PICK o : o = Tail(ops)[j][2]
  OBVIOUS
<1>5. Covered(y, o)
  BY <1>3, <1>4, CoveredMore
<1>6. QED
  BY <1>4, <1>5

LEMMA OrderedNext ==
    ASSUME NEW x, NEW y, Ordered(x), y.held = x.held, Follows(x, y), NEW todo \in Seq(Op),
           todo = x.todo, todo # <<>>, NEW ops \in Seq(Op), y.todo = ops \o Tail(todo),
           x.request.kind \notin Unordered =>
              InLine(x.held, y.todo, x.request.kind \in OneRow) /\ LocksCovered(y, ops)
    PROVE  Ordered(y)
<1> SUFFICES ASSUME x.request.kind \notin Unordered
             PROVE  Ordered(y)
  BY DEF Ordered, Follows
<1>1. LocksCovered(x, todo) /\ HeldCovered(x)
  BY DEF Ordered
<1>2. PICK rest : rest = Tail(todo)
  OBVIOUS
<1>3. rest \in Seq(Op) /\ LocksCovered(y, rest)
  BY <1>1, <1>2, CoveredTail
<1>4. LocksCovered(y, y.todo)
  BY <1>2, <1>3, CoveredJoined
<1>5. HeldCovered(y)
  BY <1>1, CoveredMore DEF HeldCovered
<1>6. InLine(y.held, y.todo, y.request.kind \in OneRow)
  BY DEF Follows
<1>7. QED
  BY <1>4, <1>5, <1>6 DEF Ordered

(* All operations come from a place on.                                             *)
From(n, ops) == \A i \in DOMAIN ops : Level(ops[i]) >= n

LEMMA FromJoined ==
    ASSUME NEW S, NEW a \in Seq(S), NEW b \in Seq(S), NEW n, From(n, a), From(n, b)
    PROVE  From(n, a \o b)
<1>1. (\A i \in DOMAIN a : Level(a[i]) >= n) /\ (\A i \in DOMAIN b : Level(b[i]) >= n)
  BY DEF From
<1>2. \A j \in DOMAIN (a \o b) : \/ \E i \in DOMAIN a : (a \o b)[j] = a[i]
                                 \/ \E i \in DOMAIN b : (a \o b)[j] = b[i]
  BY ElementsJoined
<1>3. \A j \in DOMAIN (a \o b) : Level((a \o b)[j]) >= n
  BY <1>1, <1>2
<1>4. QED
  BY <1>3 DEF From

(* After a step only submissions and revisions are locked, and no host.             *)
LEMMA StepInLine ==
    ASSUME NEW held, NEW todo \in Seq(Op), todo # <<>>, NEW all, InLine(held, todo, all),
           IsStep(Head(todo)), NEW ops \in Seq(Op), all \in BOOLEAN,
           From(3, ops),
           all => Len(todo) = 1 /\ InLine({}, ops, TRUE) /\ From(4, ops)
    PROVE  InLine(held, ops \o Tail(todo), all)
<1> PICK rest : rest = Tail(todo)
  OBVIOUS
<1> PICK op : op = Head(todo)
  OBVIOUS
<1>1. Level(op) = 4 /\ ~IsHost(op)
  BY OpLevel DEF IsStep
<1>2. /\ rest \in Seq(Op)
      /\ \A j \in DOMAIN rest : IsHost(rest[j]) \/ all => Precedes(op, rest[j])
      /\ IsHost(op) \/ all => \A lock \in held : Precedes(LockOf(lock), op)
  BY InLineTail
<1>3. \A i \in DOMAIN ops : ~IsHost(ops[i])
  <2>1. \A i \in DOMAIN ops : Level(ops[i]) \notin {1, 2}
    BY DEF From
  <2>2. QED
    BY <2>1, OpLevel
<1>4. CASE ~all
  <2>1. \A j \in DOMAIN rest : ~IsHost(rest[j])
    <3>1. SUFFICES ASSUME NEW j \in DOMAIN rest, IsHost(rest[j])
                   PROVE  FALSE
      OBVIOUS
    <3>2. Precedes(op, rest[j])
      BY <1>2, <3>1
    <3>3. Level(rest[j]) \in {1, 2}
      BY <3>1, OpLevel
    <3>4. QED
      BY <1>1, <3>2, <3>3 DEF Precedes
  <2>2. InLine(held, ops \o rest, FALSE)
    BY <1>2, <1>3, <2>1, NoHostsJoined
  <2>3. all = FALSE
    BY <1>4
  <2>4. QED
    BY <2>2, <2>3
<1>5. CASE all
  <2>1. rest = <<>>
    BY <1>5
  <2>2. ops \o rest = ops
    <3>1. \A seq \in Seq(Op) : seq \o <<>> = seq
      OBVIOUS
    <3>2. QED
      BY <2>1, <3>1
  <2>3. \A j \in DOMAIN ops, lock \in held : Precedes(LockOf(lock), ops[j])
    <3>1. SUFFICES ASSUME NEW j \in DOMAIN ops, NEW lock \in held
                   PROVE  Precedes(LockOf(lock), ops[j])
      OBVIOUS
    <3>2. Precedes(LockOf(lock), op)
      BY <1>2, <1>5
    <3>3. Level(LockOf(lock)) < 4
      BY <1>1, <3>2 DEF Precedes
    <3>4. Level(ops[j]) >= 4 /\ Level(ops[j]) \in 1..6 /\ Level(LockOf(lock)) \in 1..6
      BY <1>5, OpLevel DEF From
    <3>5. QED
      BY <3>3, <3>4 DEF Precedes
  <2>4. InLine(held, ops, all)
    BY <1>5, <2>3 DEF InLine
  <2>5. QED
    BY <2>2, <2>4
<1>6. QED
  BY <1>4, <1>5

LEMMA StepOrdered ==
    ASSUME NEW x, NEW y, Ordered(x), y.held = x.held, Follows(x, y), NEW todo \in Seq(Op),
           todo = x.todo, todo # <<>>, IsStep(Head(todo)), NEW ops \in Seq(Op), y.todo = ops \o Tail(todo),
           From(3, ops),
           x.request.kind \in OneRow =>
              Len(todo) = 1 /\ InLine({}, ops, TRUE) /\ From(4, ops),
           x.request.kind \notin Unordered => LocksCovered(y, ops)
    PROVE  Ordered(y)
<1>1. ASSUME x.request.kind \notin Unordered
      PROVE  InLine(x.held, y.todo, x.request.kind \in OneRow)
  <2> DEFINE all == x.request.kind \in OneRow
  <2>1. all \in BOOLEAN
    OBVIOUS
  <2>2. InLine(x.held, todo, all)
    BY <1>1 DEF Ordered
  <2>3. PICK held : held = x.held
    OBVIOUS
  <2>0. all => Len(todo) = 1 /\ InLine({}, ops, TRUE) /\ From(4, ops)
    OBVIOUS
  <2> HIDE DEF all
  <2>4. InLine(held, ops \o Tail(todo), all)
    BY <2>0, <2>1, <2>2, <2>3, StepInLine
  <2>5. QED
    BY <2>3, <2>4 DEF all
<1>2. QED
  BY <1>1, OrderedNext

(* The rest of the transactions is as ordered as before.                            *)
LEMMA OrderKept ==
    ASSUME DbTyped, OrderInv, NEW t \in Transaction, tx' = [tx EXCEPT ![t] = tx'[t]],
           tx'[t] # None => Ordered(tx'[t])
    PROVE  OrderInv'
<1>1. ASSUME NEW u \in Transaction, u # t
      PROVE  tx'[u] = tx[u]
  <2>1. PICK y : y = tx'[t]
    OBVIOUS
  <2>2. tx' = [tx EXCEPT ![t] = y] /\ DOMAIN tx = Transaction
    BY <2>1, DbDomains
  <2>3. QED
    BY <1>1, <2>2
<1>2. ASSUME NEW u \in Transaction, tx'[u] # None
      PROVE  Ordered(tx'[u])
  BY <1>1, <1>2 DEF OrderInv
<1>3. QED
  BY <1>2 DEF OrderInv

LEMMA OrderClosed ==
    ASSUME DbTyped, OrderInv, NEW t \in Transaction, Close(t)
    PROVE  OrderInv'
<1>1. tx' = [tx EXCEPT ![t] = tx'[t]] /\ tx'[t] = None
  BY DbDomains DEF Close, DbTyped
<1>2. QED
  BY <1>1, OrderKept

LEMMA AcquireOrdered ==
    ASSUME IInv, OrderInv, NEW t \in Transaction, Acquire(t)
    PROVE  OrderInv'
<1> DEFINE x == tx[t]
           op == Head(tx[t].todo)
<1>1. DbTyped /\ TxOK(t) /\ x # None /\ x.todo # <<>> /\ op[1] = "lock" /\ TxTyped(t)
  BY DEF IInv, Acquire, Running, TxOK
<1>2. x.todo \in Seq(Op) /\ op \in Op
  BY <1>1 DEF TxTyped
<1>3. op = <<"lock", op[2], op[3]>> /\ (op[2][1] = "revision of all" => op[3] = "update")
  <2>1. op \in LockOp
    BY <1>1, <1>2, LockHead
  <2>2. op = <<op[1], op[2], op[3]>> /\ (op[2][1] = "revision of all" => op = AllBump)
    BY <2>1, LockOpFacts
  <2>3. AllBump[3] = "update"
    BY DEF AllBump, Lock
  <2>4. QED
    BY <1>1, <2>2, <2>3
<1>4. PICK y : y = tx'[t]
  OBVIOUS
<1>5. /\ tx' = [tx EXCEPT ![t] = y]
      /\ y.request = x.request /\ y.todo = Tail(x.todo) /\ y.writes.shown = x.writes.shown
      /\ x.held \subseteq y.held /\ y.held \subseteq x.held \cup {<<op[2], op[3]>>}
  <2>1. PICK there : there = (op[2][1] = "contest" => contest[op[2][2]].exists)
    OBVIOUS
  <2>2. PICK raises : raises = (op[2][1] = "revision of all" /\ x.request.kind # "refresh")
    OBVIOUS
  <2>3. PICK w : w = x.writes
    OBVIOUS
  <2>4. PICK w2 : w2 = [w EXCEPT !.bumps = IF raises THEN @ + 1 ELSE @]
    OBVIOUS
  <2>5. /\ tx' = [tx EXCEPT ![t] = y]
        /\ y = [request |-> x.request, todo |-> Tail(x.todo),
                held |-> IF there THEN x.held \cup {<<op[2], op[3]>>} ELSE x.held,
                seen |-> x.seen, writes |-> w2, start |-> x.start]
    BY <1>1, <1>4, <2>1, <2>2, <2>3, <2>4, AcquireRecord
  <2>6. w2.shown = w.shown
    BY <1>1, <2>3, <2>4 DEF TxTyped
  <2>7. QED
    BY <2>3, <2>5, <2>6
<1>6. Ordered(x)
  BY <1>1 DEF OrderInv
<1>7. Ordered(y)
  <2> SUFFICES ASSUME x.request.kind \notin Unordered
               PROVE  Ordered(y)
    BY <1>5 DEF Ordered
  <2> DEFINE all == x.request.kind \in OneRow
             rest == Tail(x.todo)
  <2>1. /\ InLine(x.held, rest, all)
        /\ \A j \in DOMAIN rest : IsHost(rest[j]) \/ all => Precedes(op, rest[j])
        /\ \A j \in DOMAIN rest : j + 1 \in DOMAIN x.todo /\ rest[j] = x.todo[j + 1]
        /\ 1 \in DOMAIN x.todo /\ op = x.todo[1]
    BY <1>1, <1>2, <1>6, InLineTail DEF Ordered
  <2>2. Follows(x, y) /\ \A o : Covered(x, o) => Covered(y, o)
    <3>1. Follows(x, y)
      BY <1>5 DEF Follows
    <3>2. QED
      BY <3>1, CoveredMore
  <2>3. LockOf(<<op[2], op[3]>>) = op
    BY <1>3 DEF LockOf
  <2> HIDE DEF all, rest, x, op
  <2>4. InLine(y.held, rest, all)
    <3>1. ASSUME NEW j \in DOMAIN rest, IsHost(rest[j]) \/ all
          PROVE  \A lock \in y.held : Precedes(LockOf(lock), rest[j])
      <4>1. SUFFICES ASSUME NEW lock \in y.held
                     PROVE  Precedes(LockOf(lock), rest[j])
        OBVIOUS
      <4>2. CASE lock \in x.held
        BY <2>1, <3>1, <4>2 DEF InLine
      <4>3. CASE lock = <<op[2], op[3]>>
        BY <2>1, <2>3, <3>1, <4>3
      <4>4. QED
        BY <1>5, <4>2, <4>3
    <3>2. QED
      BY <2>1, <3>1 DEF InLine
  <2>5. LocksCovered(y, rest)
    BY <1>1, <1>2, <1>6, <2>2, CoveredTail DEF Ordered, rest
  <2>6. Covered(x, op[2])
    BY <1>1, <1>6, <2>1 DEF Ordered, LocksCovered
  <2>7. ASSUME NEW lock \in y.held
        PROVE  Covered(y, lock[1]) /\ (lock[1][1] = "revision of all" => lock[2] = "update")
    <3>1. CASE lock \in x.held
      BY <1>6, <2>2, <3>1 DEF Ordered, HeldCovered
    <3>2. CASE lock = <<op[2], op[3]>>
      BY <1>3, <2>2, <2>6, <3>2
    <3>3. QED
      BY <1>5, <3>1, <3>2
  <2>8. y.request = x.request /\ y.todo = rest
    BY <1>5 DEF rest
  <2>9. InLine(y.held, y.todo, y.request.kind \in OneRow)
    BY <2>4, <2>8 DEF all
  <2>10. QED
    BY <2>5, <2>7, <2>8, <2>9 DEF Ordered, HeldCovered
<1>8. QED
  BY <1>1, <1>4, <1>5, <1>7, OrderKept

-----------------------------------------------------------------------------
(* The locks that follow a step.                                                    *)

(* Operations that may follow: from a place on, and covered by what is locked.      *)
Fits(y, n, ops) == ops \in Seq(Op) /\ From(n, ops) /\ LocksCovered(y, ops)

LEMMA FitsJoined ==
    ASSUME NEW y, NEW n, NEW a, NEW b, Fits(y, n, a), Fits(y, n, b)
    PROVE  Fits(y, n, a \o b)
<1>1. a \in Seq(Op) /\ b \in Seq(Op) /\ From(n, a) /\ From(n, b) /\ LocksCovered(y, a) /\ LocksCovered(y, b)
  BY DEF Fits
<1>2. a \o b \in Seq(Op)
  BY <1>1
<1>3. From(n, a \o b)
  BY <1>1, FromJoined
<1>4. LocksCovered(y, a \o b)
  BY <1>1, CoveredJoined
<1>5. QED
  BY <1>2, <1>3, <1>4 DEF Fits

LEMMA FitsLess ==
    ASSUME NEW y, NEW n \in Nat, NEW m \in Nat, m <= n, NEW ops, Fits(y, n, ops)
    PROVE  Fits(y, m, ops)
<1>1. \A i \in DOMAIN ops : Level(ops[i]) \in Nat
  BY LevelNumber
<1>2. \A i \in DOMAIN ops : Level(ops[i]) >= n
  BY DEF Fits, From
<1>3. \A i \in DOMAIN ops : Level(ops[i]) >= m
  BY <1>1, <1>2
<1>4. QED
  BY <1>3 DEF Fits, From

LEMMA NothingFits ==
    ASSUME NEW y, NEW n
    PROVE  Fits(y, n, <<>>)
<1>1. <<>> \in Seq(Op) /\ DOMAIN <<>> = {}
  OBVIOUS
<1>2. QED
  BY <1>1 DEF Fits, From, LocksCovered

LEMMA OneFits ==
    ASSUME NEW y, NEW op \in Op, Covered(y, op[2])
    PROVE  /\ Fits(y, Level(op), <<op>>)
           /\ DOMAIN <<op>> = 1..1 /\ <<op>>[1] = op
<1>1. <<op>> \in Seq(Op) /\ DOMAIN <<op>> = 1..1 /\ <<op>>[1] = op
  OBVIOUS
<1>2. PICK ops : ops = <<op>>
  OBVIOUS
<1>3. \A i \in DOMAIN ops : ops[i] = op
  <2>1. 1..1 = {1}
    OBVIOUS
  <2>2. QED
    BY <1>1, <1>2, <2>1
<1>4. From(Level(op), ops)
  <2>1. Level(op) >= Level(op)
    BY LevelNumber
  <2>2. QED
    BY <1>3, <2>1 DEF From
<1>5. LocksCovered(y, ops)
  BY <1>3 DEF LocksCovered
<1>6. Fits(y, Level(op), ops)
  BY <1>1, <1>2, <1>4, <1>5 DEF Fits
<1>7. QED
  BY <1>1, <1>2, <1>6

LEMMA BumpsFit ==
    ASSUME NEW y
    PROVE  /\ Fits(y, 6, bumpGlobal) /\ DOMAIN bumpGlobal = 1..1 /\ Level(bumpGlobal[1]) = 6
           /\ \A p \in Problem : Hosted(y, <<"problem", p>>) =>
                 /\ Fits(y, 4, bumpProblem(p))
                 /\ DOMAIN bumpProblem(p) = 1..1 /\ Level(bumpProblem(p)[1]) = 4
           /\ \A c \in Contest : Hosted(y, <<"contest", c>>) =>
                 /\ Fits(y, 5, bumpContest(c))
                 /\ DOMAIN bumpContest(c) = 1..1 /\ Level(bumpContest(c)[1]) = 5
<1>1. "update" \in Mode
  BY DEF Mode
<1>2. Fits(y, 6, bumpGlobal) /\ DOMAIN bumpGlobal = 1..1 /\ Level(bumpGlobal[1]) = 6
  <2>1. Covered(y, <<"revision of all", 0>>) /\ <<"revision of all", 0>> \in Object
    BY DEF Covered, Object
  <2>2. PICK op : op = Lock("revision of all", 0, "update")
    OBVIOUS
  <2>3. op \in Op
    <3>1. Lock("revision of all", 0, "update") \in LockOp
      BY <1>1, <2>1, LockOps
    <3>2. QED
      BY <2>2, <3>1, LockOpFacts
  <2>4. Level(op) = 6 /\ Covered(y, op[2])
    <3>1. Level(Lock("revision of all", 0, "update")) = TableLevel("revision of all")
      BY LockLevel
    <3>2. Lock("revision of all", 0, "update")[2] = <<"revision of all", 0>>
      BY DEF Lock
    <3>3. TableLevel("revision of all") = 6
      BY TableLevels
    <3>4. QED
      BY <2>1, <2>2, <3>1, <3>2, <3>3
  <2>5. Fits(y, 6, <<op>>) /\ DOMAIN <<op>> = 1..1 /\ Level(<<op>>[1]) = 6
    BY ONLY <2>3, <2>4, OneFits
  <2>6. QED
    BY <2>2, <2>5 DEF bumpGlobal
<1>3. ASSUME NEW p \in Problem, Hosted(y, <<"problem", p>>)
      PROVE  /\ Fits(y, 4, bumpProblem(p))
             /\ DOMAIN bumpProblem(p) = 1..1 /\ Level(bumpProblem(p)[1]) = 4
  <2>1. Covered(y, <<"revision of problem", p>>) /\ <<"revision of problem", p>> \in Object
    BY <1>3 DEF Covered, Object
  <2>2. PICK op : op = Lock("revision of problem", p, "update")
    OBVIOUS
  <2>3. op \in Op
    <3>1. Lock("revision of problem", p, "update") \in LockOp
      BY <1>1, <2>1, LockOps
    <3>2. QED
      BY <2>2, <3>1, LockOpFacts
  <2>4. Level(op) = 4 /\ Covered(y, op[2])
    <3>1. Level(Lock("revision of problem", p, "update")) = TableLevel("revision of problem")
      BY LockLevel
    <3>2. Lock("revision of problem", p, "update")[2] = <<"revision of problem", p>>
      BY DEF Lock
    <3>3. TableLevel("revision of problem") = 4
      BY TableLevels
    <3>4. QED
      BY <2>1, <2>2, <3>1, <3>2, <3>3
  <2>5. Fits(y, 4, <<op>>) /\ DOMAIN <<op>> = 1..1 /\ Level(<<op>>[1]) = 4
    BY ONLY <2>3, <2>4, OneFits
  <2>6. QED
    BY <2>2, <2>5 DEF bumpProblem
<1>4. ASSUME NEW c \in Contest, Hosted(y, <<"contest", c>>)
      PROVE  /\ Fits(y, 5, bumpContest(c))
             /\ DOMAIN bumpContest(c) = 1..1 /\ Level(bumpContest(c)[1]) = 5
  <2>1. Covered(y, <<"revision of contest", c>>) /\ <<"revision of contest", c>> \in Object
    BY <1>4 DEF Covered, Object
  <2>2. PICK op : op = Lock("revision of contest", c, "update")
    OBVIOUS
  <2>3. op \in Op
    <3>1. Lock("revision of contest", c, "update") \in LockOp
      BY <1>1, <2>1, LockOps
    <3>2. QED
      BY <2>2, <3>1, LockOpFacts
  <2>4. Level(op) = 5 /\ Covered(y, op[2])
    <3>1. Level(Lock("revision of contest", c, "update")) = TableLevel("revision of contest")
      BY LockLevel
    <3>2. Lock("revision of contest", c, "update")[2] = <<"revision of contest", c>>
      BY DEF Lock
    <3>3. TableLevel("revision of contest") = 5
      BY TableLevels
    <3>4. QED
      BY <2>1, <2>2, <3>1, <3>2, <3>3
  <2>5. Fits(y, 5, <<op>>) /\ DOMAIN <<op>> = 1..1 /\ Level(<<op>>[1]) = 5
    BY ONLY <2>3, <2>4, OneFits
  <2>6. QED
    BY <2>2, <2>5, EffectiveAssumption DEF bumpContest
<1>5. QED
  BY <1>2, <1>3, <1>4

LEMMA ShortInLine ==
    ASSUME NEW ops, DOMAIN ops = 1..1 \/ DOMAIN ops = {}, NEW all
    PROVE  InLine({}, ops, all)
BY DEF InLine

LEMMA RowBumpsOrdered ==
    ASSUME NEW p \in Problem, NEW c \in Contest \cup {None}, NEW y,
           Hosted(y, <<"problem", p>>), c # None => Hosted(y, <<"contest", c>>),
           NEW ops, ops = bumpProblem(p) \o bumpContest(c) \o bumpGlobal
    PROVE  Fits(y, 4, ops) /\ InLine({}, ops, TRUE)
<1>1. PICK a : a = bumpProblem(p)
  OBVIOUS
<1>2. PICK b : b = bumpContest(c)
  OBVIOUS
<1>3. PICK d : d = bumpGlobal
  OBVIOUS
<1>4. Fits(y, 4, a) /\ DOMAIN a = 1..1 /\ Level(a[1]) = 4
  BY <1>1, BumpsFit
<1>5. Fits(y, 4, b) /\ InLine({}, b, TRUE) /\ \A i \in DOMAIN b : Level(b[i]) = 5
  <2>1. CASE c = None
    <3>1. b = <<>> /\ DOMAIN b = {}
      BY <1>2, <2>1 DEF bumpContest
    <3>2. Fits(y, 4, b)
      BY <3>1, NothingFits
    <3>3. InLine({}, b, TRUE)
      BY <3>1, ShortInLine
    <3>4. QED
      BY <3>1, <3>2, <3>3
  <2>2. CASE c # None
    <3>1. Fits(y, 5, b) /\ DOMAIN b = 1..1 /\ Level(b[1]) = 5
      BY <1>2, <2>2, BumpsFit
    <3>2. Fits(y, 4, b)
      BY <3>1, FitsLess
    <3>3. InLine({}, b, TRUE)
      BY <3>1, ShortInLine
    <3>4. \A i \in DOMAIN b : Level(b[i]) = 5
      BY <3>1
    <3>5. QED
      BY <3>2, <3>3, <3>4
  <2>3. QED
    BY <2>1, <2>2
<1>6. Fits(y, 4, d) /\ DOMAIN d = 1..1 /\ Level(d[1]) = 6
  <2>1. Fits(y, 6, d) /\ DOMAIN d = 1..1 /\ Level(d[1]) = 6
    BY <1>3, BumpsFit
  <2>2. Fits(y, 4, d)
    BY <2>1, FitsLess
  <2>3. QED
    BY <2>1, <2>2
<1>7. a \in Seq(Op) /\ b \in Seq(Op) /\ d \in Seq(Op)
  BY <1>4, <1>5, <1>6 DEF Fits
<1>8. PICK e : e = a \o b
  OBVIOUS
<1>9. e \in Seq(Op) /\ Fits(y, 4, e)
  <2>1. Fits(y, 4, e)
    BY <1>4, <1>5, <1>8, FitsJoined
  <2>2. QED
    BY <2>1 DEF Fits
<1>10. \A i \in DOMAIN e : Level(e[i]) \in {4, 5}
  <2>0. a \in Seq(Op) /\ b \in Seq(Op)
    BY <1>7
  <2>1. \A j \in DOMAIN (a \o b) : \/ \E i \in DOMAIN a : (a \o b)[j] = a[i]
                                   \/ \E i \in DOMAIN b : (a \o b)[j] = b[i]
    BY ONLY <2>0, ElementsJoined
  <2>2. \A i \in DOMAIN a : Level(a[i]) = 4
    BY <1>4
  <2>3. QED
    BY <1>5, <1>8, <2>1, <2>2
<1>11. InLine({}, e, TRUE)
  <2>1. \A i \in DOMAIN a, j \in DOMAIN b : Precedes(a[i], b[j])
    BY <1>4, <1>5 DEF Precedes
  <2>2. InLine({}, a, TRUE) /\ InLine({}, b, TRUE)
    BY <1>4, <1>5, ShortInLine
  <2>3. QED
    BY <1>7, <1>8, <2>1, <2>2, InLineJoined
<1>12. InLine({}, e \o d, TRUE)
  <2>1. \A i \in DOMAIN e, j \in DOMAIN d : Precedes(e[i], d[j])
    <3>1. \A i \in DOMAIN e, j \in DOMAIN d : Level(d[j]) = 6 /\ Level(e[i]) < 6
      BY <1>6, <1>10
    <3>2. QED
      BY <3>1 DEF Precedes
  <2>2. InLine({}, d, TRUE)
    BY <1>6, ShortInLine
  <2>3. QED
    BY <1>7, <1>9, <1>11, <2>1, <2>2, InLineJoined
<1>13. Fits(y, 4, e \o d)
  BY <1>6, <1>9, FitsJoined
<1>14. ops = e \o d
  BY <1>1, <1>2, <1>3, <1>8
<1>15. QED
  BY <1>12, <1>13, <1>14

(* The rows that a change shows again, in any order.                                *)
RowsShown(y, S, order) ==
    /\ IsFiniteSet(S) /\ S \subseteq Submission /\ order \in SetToSeqs(S)
    /\ y.request.kind \in {"change", "batch"} /\ S \subseteq DOMAIN y.writes.shown

LEMMA RowLocksOrdered ==
    ASSUME NEW y, NEW S, NEW order, RowsShown(y, S, order), NEW bump, Fits(y, 4, bump),
           NEW ops, ops = Locks("submission", order, "update") \o bump \o bumpGlobal
    PROVE  Fits(y, 3, ops)
<1>0. /\ IsFiniteSet(S) /\ S \subseteq Submission /\ order \in SetToSeqs(S)
      /\ y.request.kind \in {"change", "batch"} /\ S \subseteq DOMAIN y.writes.shown
  BY DEF RowsShown
<1>1. PICK a : a = Locks("submission", order, "update")
  OBVIOUS
<1>2. /\ order \in Seq(S) /\ DOMAIN order = 1..Len(order)
      /\ \A i \in 1..Len(order) : order[i] \in S
  BY <1>0, Enumeration, SeqElements
<1>3. \A i \in DOMAIN a : \E s \in S : a[i] = Lock("submission", s, "update")
  BY <1>1, <1>2 DEF Locks
<1>4. a \in Seq(Op)
  <2>1. \A s \in S : <<"submission", s>> \in Object
    BY <1>0 DEF Object
  <2>2. a \in Seq(LockOp)
    BY <1>0, <1>1, <2>1, LocksHas DEF Mode
  <2>3. QED
    BY <2>2, OnlyLocks DEF Before
<1>5. From(3, a)
  <2>1. \A s : Level(Lock("submission", s, "update")) = TableLevel("submission")
    BY LockLevel
  <2>2. TableLevel("submission") = 3
    BY TableLevels
  <2>3. QED
    BY <1>3, <2>1, <2>2 DEF From
<1>6. LocksCovered(y, a)
  <2>1. \A s \in S : Covered(y, Lock("submission", s, "update")[2])
    BY <1>0 DEF Covered, Lock
  <2>2. QED
    BY <1>3, <2>1 DEF LocksCovered
<1>7. Fits(y, 3, a)
  BY <1>4, <1>5, <1>6 DEF Fits
<1>8. Fits(y, 3, bump)
  BY FitsLess
<1>9. Fits(y, 3, a \o bump)
  BY <1>7, <1>8, FitsJoined
<1>10. PICK d : d = bumpGlobal
  OBVIOUS
<1>11. Fits(y, 3, d)
  <2>1. Fits(y, 6, d)
    BY <1>10, BumpsFit
  <2>2. QED
    BY <2>1, FitsLess
<1>12. PICK e : e = a \o bump
  OBVIOUS
<1>13. Fits(y, 3, e \o d)
  BY <1>9, <1>11, <1>12, FitsJoined
<1>14. ops = e \o d
  BY <1>1, <1>10, <1>12
<1>15. QED
  BY <1>13, <1>14

(* A step that goes on with operations that fit keeps the order.                    *)
LEMMA ContinueOrdered ==
    ASSUME IInv, OrderInv, NEW t \in Transaction, tx[t] # None, tx[t].todo # <<>>,
           IsStep(Head(tx[t].todo)), NEW ops, NEW w, Continue(t, ops, w),
           tx[t].request.kind \in {"change", "batch"} =>
              DOMAIN tx[t].writes.shown \subseteq DOMAIN w.shown,
           NEW y, y.request = tx[t].request, y.held = tx[t].held, y.writes = w, Fits(y, 3, ops),
           tx[t].request.kind \in OneRow => Fits(y, 4, ops) /\ InLine({}, ops, TRUE)
    PROVE  OrderInv'
<1>1. DbTyped /\ TxOK(t) /\ TxTyped(t) /\ Ordered(tx[t])
  BY DEF IInv, TxOK, OrderInv
<1>2. PICK x : x = tx[t]
  OBVIOUS
<1>3. PICK z : z = tx'[t]
  OBVIOUS
<1>4. /\ tx' = [tx EXCEPT ![t] = z]
      /\ z.request = x.request /\ z.held = x.held /\ z.writes = w /\ z.todo = ops \o Tail(x.todo)
  <2>1. /\ tx' = [tx EXCEPT ![t] = tx'[t]]
        /\ tx'[t] = [request |-> tx[t].request, todo |-> ops \o Tail(tx[t].todo),
                     held |-> tx[t].held, seen |-> tx[t].seen, writes |-> w,
                     start |-> tx[t].start]
    BY <1>1, ContinueRecord
  <2>2. QED
    BY <1>2, <1>3, <2>1
<1>5. Follows(x, z)
  BY <1>2, <1>4 DEF Follows
<1>6. ops \in Seq(Op) /\ From(3, ops) /\ LocksCovered(z, ops)
  <2>1. \A o : Covered(y, o) => Covered(z, o)
    BY <1>2, <1>4 DEF Covered, Hosted
  <2>2. QED
    BY <2>1 DEF Fits, LocksCovered
<1>7. x.request.kind \in OneRow => Len(x.todo) = 1 /\ InLine({}, ops, TRUE) /\ From(4, ops)
  BY <1>1, <1>2, StepHasLocks DEF Fits, OneRow
<1>8. PICK todo : todo = x.todo
  OBVIOUS
<1>9. todo \in Seq(Op) /\ todo # <<>> /\ IsStep(Head(todo))
  BY <1>1, <1>2, <1>8 DEF TxTyped
<1>10. Ordered(x)
  BY <1>1, <1>2
<1>11. z.todo = ops \o Tail(todo)
  BY <1>4, <1>8
<1>12. z.held = x.held
  BY <1>4
<1>13. x.request.kind \in OneRow => Len(todo) = 1 /\ InLine({}, ops, TRUE) /\ From(4, ops)
  BY <1>7, <1>8
<1>14. Ordered(z)
  BY ONLY <1>5, <1>6, <1>8, <1>9, <1>10, <1>11, <1>12, <1>13, StepOrdered
<1>15. QED
  BY <1>1, <1>3, <1>4, <1>14, OrderKept

(* The locks of the hosts of a row, which its request has.                          *)
LEMMA RowOrdered ==
    ASSUME IInv, OrderInv, NEW t \in Transaction, tx[t] # None, tx[t].todo # <<>>,
           IsStep(Head(tx[t].todo)), tx[t].request.kind \in OneRow,
           NEW p \in Problem, NEW c \in Contest \cup {None},
           Secured(t, <<<<"problem", p>>, "share">>),
           c # None => Secured(t, <<<<"contest", c>>, "share">>) /\ contest[c].exists,
           NEW ops, ops = bumpProblem(p) \o bumpContest(c) \o bumpGlobal, NEW w, Continue(t, ops, w)
    PROVE  OrderInv'
<1>1. PICK y : y = [request |-> tx[t].request, held |-> tx[t].held, writes |-> w]
  OBVIOUS
<1>2. y.request = tx[t].request /\ y.held = tx[t].held /\ y.writes = w
  BY <1>1
<1>3. Hosted(y, <<"problem", p>>)
  <2>1. <<<<"problem", p>>, "share">> \in tx[t].held
    BY SecuredHeld
  <2>2. QED
    BY <1>2, <2>1 DEF Hosted
<1>4. c # None => Hosted(y, <<"contest", c>>)
  <2>1. c # None => <<<<"contest", c>>, "share">> \in tx[t].held
    BY SecuredHeld
  <2>2. QED
    BY <1>2, <2>1 DEF Hosted
<1>5. Fits(y, 4, ops) /\ InLine({}, ops, TRUE)
  BY ONLY <1>3, <1>4, p \in Problem, c \in Contest \cup {None},
          ops = bumpProblem(p) \o bumpContest(c) \o bumpGlobal, RowBumpsOrdered
<1>6. Fits(y, 3, ops)
  BY <1>5, FitsLess
<1>7. tx[t].request.kind \notin {"change", "batch"}
  BY DEF OneRow
<1>8. QED
  BY <1>2, <1>5, <1>6, <1>7, ContinueOrdered

LEMMA ResultOrdered ==
    ASSUME IInv, OrderInv, NEW t \in Transaction, applyAttemptResult(t)
    PROVE  OrderInv'
<1> DEFINE s == tx[t].request.submission
           p == ProblemOf[s]
           shown == Projection(Upsert(row[s].results, tx[t].request.result), policy[p],
                               BindingOf(binding, row[s].contest, p))
<1>1. DbTyped /\ TxOK(t) /\ Running(t, "result") /\ RowsOK
  BY DEF IInv, applyAttemptResult
<1>2. /\ tx[t] # None /\ tx[t].todo # <<>> /\ IsStep(Head(tx[t].todo))
      /\ tx[t].request.kind = "result" /\ tx[t].request \in Request
  BY <1>1, HeadOp
<1>3. s \in Submission /\ p \in Problem
  BY <1>2, RequestFacts
<1>4. CASE ~row[s].exists
  <2>1. Close(t)
    BY <1>4 DEF applyAttemptResult
  <2>2. QED
    BY <1>1, <2>1, OrderClosed
<1>5. CASE row[s].exists
  <2>1. PICK c : c = row[s].contest
    OBVIOUS
  <2>2. PICK ops : ops = bumpProblem(p) \o bumpContest(c) \o bumpGlobal
    OBVIOUS
  <2>3. PICK w : w = [tx[t].writes EXCEPT !.shown = Only(s, shown)]
    OBVIOUS
  <2>4. Continue(t, ops, w)
    BY <1>5, <2>1, <2>2, <2>3 DEF applyAttemptResult
  <2>5. c \in Contest \cup {None} /\ (c # None => contest[c].exists)
    BY <1>1, <1>3, <2>1 DEF DbTyped, RowTyped, RowsOK
  <2>6. Secured(t, <<<<"problem", p>>, "share">>)
    BY <1>1, <1>2, StepHasLocks DEF BaseLocks
  <2>7. c # None => Secured(t, <<<<"contest", c>>, "share">>)
    BY <1>1, <1>2, <2>1, StepHasLocks
  <2>8. tx[t].request.kind \in OneRow
    BY <1>2 DEF OneRow
  <2> HIDE DEF p, shown, s
  <2>9. QED
    BY <1>2, <1>3, <2>2, <2>4, <2>5, <2>6, <2>7, <2>8, RowOrdered
<1>6. QED
  BY <1>4, <1>5

LEMMA CreateOrdered ==
    ASSUME IInv, OrderInv, NEW t \in Transaction, createSubmission(t)
    PROVE  OrderInv'
<1> DEFINE q == tx[t].request
           p == ProblemOf[q.submission]
           bound == BindingOf(binding, q.contest, p)
           refused == q.contest # None /\ (bound = None \/ bound.pinned # q.version)
<1>1. DbTyped /\ TxOK(t) /\ Running(t, "create") /\ RowsOK
  BY DEF IInv, createSubmission
<1>2. /\ tx[t] # None /\ tx[t].todo # <<>> /\ IsStep(Head(tx[t].todo))
      /\ q.kind = "create" /\ q \in Request
  BY <1>1, HeadOp
<1>3. p \in Problem /\ q.contest \in Contest \cup {None}
  BY <1>2, RequestFacts
<1>4. CASE refused
  <2>1. Close(t)
    BY <1>4 DEF createSubmission
  <2>2. QED
    BY <1>1, <2>1, OrderClosed
<1>5. CASE ~refused
  <2>1. PICK c : c = q.contest
    OBVIOUS
  <2>2. PICK ops : ops = bumpProblem(p) \o bumpContest(c) \o bumpGlobal
    OBVIOUS
  <2>3. PICK w : w = tx[t].writes
    OBVIOUS
  <2>4. Continue(t, ops, w)
    BY <1>5, <2>1, <2>2, <2>3 DEF createSubmission
  <2>5. c \in Contest \cup {None} /\ (c # None => contest[c].exists)
    <3>1. c # None => binding[<<c, p>>] # None /\ c \in Contest
      BY <1>3, <1>5, <2>1 DEF BindingOf
    <3>2. c # None => <<c, p>> \in Pair /\ <<c, p>>[1] = c
      BY <1>3, <3>1 DEF Pair
    <3>3. QED
      BY <1>1, <1>3, <2>1, <3>1, <3>2 DEF RowsOK
  <2>6. Secured(t, <<<<"problem", p>>, "share">>)
    BY <1>1, <1>2, StepHasLocks DEF BaseLocks
  <2>7. c # None => Secured(t, <<<<"contest", c>>, "share">>)
    BY <1>1, <1>2, <2>1, StepHasLocks DEF BaseLocks
  <2>8. q.kind \in OneRow
    BY <1>2 DEF OneRow
  <2> HIDE DEF p
  <2>9. QED
    BY <1>2, <1>3, <2>2, <2>4, <2>5, <2>6, <2>7, <2>8, RowOrdered
<1>6. QED
  BY <1>4, <1>5

LEMMA RemoveOrdered ==
    ASSUME IInv, OrderInv, NEW t \in Transaction, deleteSubmission(t)
    PROVE  OrderInv'
<1> DEFINE s == tx[t].request.submission
           p == ProblemOf[s]
<1>1. DbTyped /\ TxOK(t) /\ Running(t, "remove") /\ RowsOK
  BY DEF IInv, deleteSubmission
<1>2. /\ tx[t] # None /\ tx[t].todo # <<>> /\ IsStep(Head(tx[t].todo))
      /\ tx[t].request.kind = "remove" /\ tx[t].request \in Request
  BY <1>1, HeadOp
<1>3. s \in Submission /\ p \in Problem
  BY <1>2, RequestFacts
<1>4. CASE Close(t)
  BY <1>1, <1>4, OrderClosed
<1>5. CASE ~Close(t)
  <2>1. PICK c : c = row[s].contest
    OBVIOUS
  <2>2. PICK ops : ops = bumpProblem(p) \o bumpContest(c) \o bumpGlobal
    OBVIOUS
  <2>3. PICK w : w = tx[t].writes
    OBVIOUS
  <2>4. Continue(t, ops, w)
    BY <1>5, <2>1, <2>2, <2>3 DEF deleteSubmission
  <2>5. c \in Contest \cup {None} /\ (c # None => contest[c].exists)
    BY <1>1, <1>3, <2>1 DEF DbTyped, RowTyped, RowsOK
  <2>6. Secured(t, <<<<"problem", p>>, "share">>)
    BY <1>1, <1>2, StepHasLocks DEF BaseLocks
  <2>7. c # None => Secured(t, <<<<"contest", c>>, "share">>)
    BY <1>1, <1>2, <2>1, StepHasLocks
  <2>8. tx[t].request.kind \in OneRow
    BY <1>2 DEF OneRow
  <2> HIDE DEF p, s
  <2>9. QED
    BY <1>2, <1>3, <2>2, <2>4, <2>5, <2>6, <2>7, <2>8, RowOrdered
<1>6. QED
  BY <1>4, <1>5

(* The locks of the rows of a change, and the revision of its host.                 *)
LEMMA ChangeOrdered ==
    ASSUME IInv, OrderInv, NEW t \in Transaction, tx[t] # None, tx[t].todo # <<>>,
           IsStep(Head(tx[t].todo)), tx[t].request.kind \in {"change", "batch"},
           NEW S, IsFiniteSet(S), S \subseteq Submission, NEW order \in SetToSeqs(S),
           NEW bump, NEW host, <<host, "update">> \in tx[t].held,
           \A y : Hosted(y, host) => Fits(y, 4, bump),
           NEW ops, ops = Locks("submission", order, "update") \o bump \o bumpGlobal,
           NEW w, Continue(t, ops, w), DOMAIN w.shown = S \cup DOMAIN tx[t].writes.shown
    PROVE  OrderInv'
<1>1. PICK y : y = [request |-> tx[t].request, held |-> tx[t].held, writes |-> w]
  OBVIOUS
<1>2. y.request = tx[t].request /\ y.held = tx[t].held /\ y.writes = w
  BY <1>1
<1>3. Hosted(y, host)
  BY <1>2 DEF Hosted
<1>4. Fits(y, 4, bump)
  BY <1>3
<1>5. RowsShown(y, S, order)
  BY <1>2 DEF RowsShown
<1>6. Fits(y, 3, ops)
  BY <1>4, <1>5, RowLocksOrdered
<1>7. tx[t].request.kind \notin OneRow
  BY DEF OneRow
<1>8. DOMAIN tx[t].writes.shown \subseteq DOMAIN w.shown
  OBVIOUS
<1>9. QED
  BY ONLY IInv, OrderInv, t \in Transaction, tx[t] # None, tx[t].todo # <<>>,
          IsStep(Head(tx[t].todo)), Continue(t, ops, w), <1>2, <1>6, <1>7, <1>8, ContinueOrdered

(* The hosts of a change are locked when it is made.                                *)
LEMMA ChangeSecured ==
    ASSUME IInv, NEW t \in Transaction, tx[t] # None, tx[t].todo # <<>>, IsStep(Head(tx[t].todo)),
           tx[t].request.kind \in {"change", "batch"}, NEW ch \in tx[t].request.changes
    PROVE  /\ ch.contest = None => <<<<"problem", ch.problem>>, "update">> \in tx[t].held
           /\ ch.contest # None /\ contest[ch.contest].exists =>
                 <<<<"contest", ch.contest>>, "update">> \in tx[t].held
<1> PICK q : q = tx[t].request
  OBVIOUS
<1>1. \A lock \in HostLocks(q.kind, ch) : Secured(t, lock)
  <2>1. BaseLocks(q) = UNION {HostLocks(q.kind, x) : x \in q.changes}
    BY DEF BaseLocks
  <2>2. HostLocks(q.kind, ch) \subseteq BaseLocks(q)
    BY <2>1
  <2>3. TxOK(t)
    BY DEF IInv
  <2>4. QED
    BY <2>2, <2>3, StepHasLocks
<1>2. CASE ch.contest = None
  <2>1. <<<<"problem", ch.problem>>, "update">> \in HostLocks(q.kind, ch)
    BY <1>2 DEF HostLocks
  <2>2. QED
    BY <1>1, <1>2, <2>1, SecuredHeld
<1>3. CASE ch.contest # None
  <2>1. <<<<"contest", ch.contest>>, "update">> \in HostLocks(q.kind, ch)
    BY <1>3 DEF HostLocks
  <2>2. Secured(t, <<<<"contest", ch.contest>>, "update">>)
    BY <1>1, <2>1
  <2>3. QED
    BY <1>3, <2>2, SecuredHeld
<1>4. QED
  BY <1>2, <1>3

LEMMA HeadChange ==
    ASSUME NEW q, q.kind \in {"change", "batch"}, NEW op \in OpsOf(q)
    PROVE  op[2] \in q.changes
<1>1. PICK A : A = {"change"}
  OBVIOUS
<1>2. \A x \in A \X q.changes : x[2] \in q.changes
  BY PairFacts
<1>3. QED
  BY <1>1, <1>2 DEF OpsOf

LEMMA ProblemPolicyOrdered ==
    ASSUME IInv, OrderInv, NEW t \in Transaction, setProblemPolicy(t)
    PROVE  OrderInv'
<1> DEFINE q == tx[t].request
           w == tx[t].writes
<1>1. DbTyped /\ TxOK(t) /\ Running(t, "change") /\ Head(tx[t].todo)[2].contest = None
  BY DEF IInv, setProblemPolicy
<1>2. /\ tx[t] # None /\ tx[t].todo # <<>> /\ IsStep(Head(tx[t].todo)) /\ TxTyped(t)
      /\ q.kind \in {"change", "batch"} /\ q \in Request /\ Head(tx[t].todo) \in OpsOf(q)
  BY <1>1, HeadOp DEF TxOK
<1>3. PICK change : change = Head(tx[t].todo)[2]
  OBVIOUS
<1>4. change \in q.changes /\ change.contest = None
  BY <1>1, <1>2, <1>3, HeadChange
<1>5. PICK p : p = change.problem
  OBVIOUS
<1>6. p \in Problem
  BY <1>2, <1>4, <1>5, RequestFacts, ChangeFacts
<1>7. PICK old : old = Over(w.policy, policy)[p]
  OBVIOUS
<1>8. PICK new : new = [policy |-> change.policy, revision |-> old.revision + 1]
  OBVIOUS
<1>9. PICK sources : sources = {s \in Submission : row[s].exists /\ ProblemOf[s] = p}
  OBVIOUS
<1>10. PICK shown : shown = [s \in sources |->
               Projection(row[s].results, new,
                          BindingOf(Over(w.binding, binding), row[s].contest, p))]
  OBVIOUS
<1>11. CASE ~Expected(t, change, old)
  <2>1. Close(t)
    BY <1>3, <1>5, <1>7, <1>11 DEF setProblemPolicy
  <2>2. QED
    BY <1>1, <2>1, OrderClosed
<1>12. CASE Expected(t, change, old)
  <2>1. PICK w2 : w2 = [w EXCEPT !.policy = Over(Only(p, new), @), !.shown = Over(shown, @)]
    OBVIOUS
  <2>2. PICK order \in SetToSeqs(sources) :
            Continue(t, Locks("submission", order, "update") \o bumpProblem(p) \o bumpGlobal, w2)
    BY <1>3, <1>5, <1>7, <1>8, <1>9, <1>10, <1>12, <2>1 DEF setProblemPolicy
  <2>3. PICK bump : bump = bumpProblem(p)
    OBVIOUS
  <2>4. PICK ops : ops = Locks("submission", order, "update") \o bump \o bumpGlobal
    OBVIOUS
  <2>5. Continue(t, ops, w2)
    BY <2>2, <2>3, <2>4
  <2>6. IsFiniteSet(sources) /\ sources \subseteq Submission
    BY <1>9, EffectiveAssumption, FS_Subset
  <2>7. w2.shown = Over(shown, w.shown) /\ DOMAIN w2.shown = sources \cup DOMAIN w.shown
    <3>1. w2.shown = Over(shown, w.shown)
      BY <1>2, <2>1 DEF TxTyped
    <3>2. QED
      BY <1>10, <3>1 DEF Over
  <2>8. PICK host : host = <<"problem", p>>
    OBVIOUS
  <2>9. <<host, "update">> \in tx[t].held
    BY <1>2, <1>4, <1>5, <2>8, ChangeSecured
  <2>10. \A y : Hosted(y, host) => Fits(y, 4, bump)
    BY <1>6, <2>3, <2>8, BumpsFit
  <2>11. QED
    BY <1>2, <2>2, <2>4, <2>5, <2>6, <2>7, <2>9, <2>10, ChangeOrdered
<1>13. QED
  BY <1>11, <1>12

LEMMA ContestPolicyOrdered ==
    ASSUME IInv, OrderInv, NEW t \in Transaction, setContestPolicy(t)
    PROVE  OrderInv'
<1> DEFINE q == tx[t].request
           w == tx[t].writes
<1>1. DbTyped /\ TxOK(t) /\ Running(t, "change") /\ Head(tx[t].todo)[2].contest # None /\ RowsOK
  BY DEF IInv, setContestPolicy
<1>2. /\ tx[t] # None /\ tx[t].todo # <<>> /\ IsStep(Head(tx[t].todo)) /\ TxTyped(t)
      /\ q.kind \in {"change", "batch"} /\ q \in Request /\ Head(tx[t].todo) \in OpsOf(q)
  BY <1>1, HeadOp DEF TxOK
<1>3. PICK change : change = Head(tx[t].todo)[2]
  OBVIOUS
<1>4. change \in q.changes /\ change.contest # None
  BY <1>1, <1>2, <1>3, HeadChange
<1>5. PICK p : p = change.problem
  OBVIOUS
<1>6. PICK c : c = change.contest
  OBVIOUS
<1>7. p \in Problem /\ c \in Contest /\ c # None /\ <<c, p>> \in Pair /\ <<c, p>>[1] = c
  <2>1. change \in Change
    BY <1>2, <1>4, RequestFacts
  <2>2. QED
    BY <1>4, <1>5, <1>6, <2>1, ChangeFacts DEF Pair
<1>8. PICK old : old = Over(w.binding, binding)[<<c, p>>]
  OBVIOUS
<1>9. PICK chosen : chosen = IF change.policy = None THEN old.policy ELSE change.policy
  OBVIOUS
<1>10. PICK pinned : pinned = IF change.pinned # None THEN change.pinned
                              ELSE IF chosen = AnyVersion THEN old.pinned ELSE chosen
  OBVIOUS
<1>11. PICK new : new = [policy |-> chosen, pinned |-> pinned, revision |-> old.revision + 1]
  OBVIOUS
<1>12. PICK sources : sources = {s \in Submission : /\ row[s].exists
                                                    /\ row[s].contest = c /\ ProblemOf[s] = p}
  OBVIOUS
<1>13. PICK shown : shown = [s \in sources |->
               Projection(row[s].results, Over(w.policy, policy)[p], new)]
  OBVIOUS
<1>14. CASE old = None \/ ~Expected(t, change, old) \/ Conflicting(chosen, pinned)
  <2>1. Close(t)
    BY <1>3, <1>5, <1>6, <1>8, <1>9, <1>10, <1>14 DEF setContestPolicy
  <2>2. QED
    BY <1>1, <2>1, OrderClosed
<1>15. CASE ~(old = None \/ ~Expected(t, change, old) \/ Conflicting(chosen, pinned))
  <2>1. PICK w2 : w2 = [w EXCEPT !.binding = Over(Only(<<c, p>>, new), @), !.shown = Over(shown, @)]
    OBVIOUS
  <2>2. PICK order \in SetToSeqs(sources) :
            Continue(t, Locks("submission", order, "update") \o bumpContest(c) \o bumpGlobal, w2)
    BY <1>3, <1>5, <1>6, <1>8, <1>9, <1>10, <1>11, <1>12, <1>13, <1>15, <2>1 DEF setContestPolicy
  <2>3. PICK bump : bump = bumpContest(c)
    OBVIOUS
  <2>4. PICK ops : ops = Locks("submission", order, "update") \o bump \o bumpGlobal
    OBVIOUS
  <2>5. Continue(t, ops, w2)
    BY <2>2, <2>3, <2>4
  <2>6. IsFiniteSet(sources) /\ sources \subseteq Submission
    BY <1>12, EffectiveAssumption, FS_Subset
  <2>7. w2.shown = Over(shown, w.shown) /\ DOMAIN w2.shown = sources \cup DOMAIN w.shown
    <3>1. w2.shown = Over(shown, w.shown)
      BY <1>2, <2>1 DEF TxTyped
    <3>2. QED
      BY <1>13, <3>1 DEF Over
  <2>8. PICK host : host = <<"contest", c>>
    OBVIOUS
  <2>9. contest[c].exists
    <3>1. old = NewBinding(t, c, p)
      BY <1>7, <1>8 DEF NewBinding, BindingOf
    <3>2. binding[<<c, p>>] # None
      BY <1>2, <1>7, <1>15, <3>1, NewHosts
    <3>3. QED
      BY <1>1, <1>7, <3>2 DEF RowsOK
  <2>10. <<host, "update">> \in tx[t].held
    BY <1>2, <1>4, <1>6, <2>8, <2>9, ChangeSecured
  <2>11. \A y : Hosted(y, host) => Fits(y, 4, bump)
    <3>1. SUFFICES ASSUME NEW y, Hosted(y, host)
                   PROVE  Fits(y, 4, bump)
      OBVIOUS
    <3>2. Fits(y, 5, bump)
      BY <1>7, <2>3, <2>8, <3>1, BumpsFit
    <3>3. QED
      BY <3>2, FitsLess
  <2>12. QED
    BY <1>2, <2>2, <2>4, <2>5, <2>6, <2>7, <2>10, <2>11, ChangeOrdered
<1>16. QED
  BY <1>14, <1>15

LEMMA EditOrdered ==
    ASSUME IInv, OrderInv, NEW t \in Transaction, updateContest(t)
    PROVE  OrderInv'
<1> DEFINE q == tx[t].request
           old == contest[q.contest]
           new == [old EXCEPT !.end = IF q.end = None THEN @ ELSE q.end,
                              !.affects = IF q.affects = None THEN @ ELSE q.affects]
<1>1. DbTyped /\ TxOK(t) /\ Running(t, "edit")
  BY DEF IInv, updateContest
<1>2. tx[t] # None /\ tx[t].todo # <<>> /\ IsStep(Head(tx[t].todo)) /\ q.kind = "edit"
  BY <1>1, HeadOp
<1>3. CASE Close(t)
  BY <1>1, <1>3, OrderClosed
<1>4. CASE ~Close(t)
  <2>1. PICK ops : ops = IF q.end = None /\ q.affects = None THEN <<>> ELSE bumpGlobal
    OBVIOUS
  <2>2. PICK w : w = [tx[t].writes EXCEPT
                        !.contest = IF old.exists THEN Only(q.contest, new) ELSE <<>>,
                        !.binding = IF q.problems = None THEN <<>> ELSE NewBindings(q)]
    OBVIOUS
  <2>3. Continue(t, ops, w)
    BY <1>4, <2>1, <2>2 DEF updateContest
  <2>4. PICK y : y = [request |-> q, held |-> tx[t].held, writes |-> w]
    OBVIOUS
  <2>5. y.request = q /\ y.held = tx[t].held /\ y.writes = w
    BY <2>4
  <2>6. Fits(y, 3, ops)
    <3>1. Fits(y, 3, <<>>)
      BY NothingFits
    <3>2. Fits(y, 6, bumpGlobal)
      BY BumpsFit
    <3>3. Fits(y, 3, bumpGlobal)
      BY <3>2, FitsLess
    <3>4. QED
      BY <2>1, <3>1, <3>3
  <2>7. q.kind \notin {"change", "batch"} /\ q.kind \notin OneRow
    BY <1>2 DEF OneRow
  <2>8. QED
    BY <1>2, <2>3, <2>5, <2>6, <2>7, ContinueOrdered
<1>5. QED
  BY <1>3, <1>4

LEMMA RefreshOrdered ==
    ASSUME IInv, OrderInv, NEW t \in Transaction, refreshRankingsView(t)
    PROVE  OrderInv'
<1> DEFINE q == tx[t].request
           built == [revision |-> data, at |-> BuiltAt(t),
                     content |-> Standing(row, contest, tx[t].start)]
<1>1. DbTyped /\ TxOK(t) /\ Running(t, "refresh")
  BY DEF IInv, refreshRankingsView
<1>2. tx[t] # None /\ tx[t].todo # <<>> /\ IsStep(Head(tx[t].todo)) /\ q.kind = "refresh"
  BY <1>1, HeadOp
<1>3. PICK ops : ops = <<>>
  OBVIOUS
<1>4. PICK w : w = [tx[t].writes EXCEPT !.view = built]
  OBVIOUS
<1>5. Continue(t, ops, w)
  BY <1>3, <1>4 DEF refreshRankingsView
<1>6. PICK y : y = [request |-> q, held |-> tx[t].held, writes |-> w]
  OBVIOUS
<1>7. y.request = q /\ y.held = tx[t].held /\ y.writes = w
  BY <1>6
<1>8. Fits(y, 3, ops)
  BY <1>3, NothingFits
<1>9. q.kind \notin {"change", "batch"} /\ q.kind \notin OneRow
  BY <1>2 DEF OneRow
<1>10. QED
  BY <1>2, <1>5, <1>7, <1>8, <1>9, ContinueOrdered

LEMMA CascadeOrdered ==
    ASSUME IInv, OrderInv, NEW t \in Transaction, cascadeContest(t)
    PROVE  OrderInv'
<1>1. DbTyped /\ TxOK(t) /\ Running(t, "cascade")
  BY DEF IInv, cascadeContest
<1>2. tx[t] # None /\ tx[t].request.kind = "delete" /\ TxTyped(t)
  BY <1>1, HeadOp DEF TxOK
<1>3. CASE Close(t)
  BY <1>1, <1>3, OrderClosed
<1>4. CASE ~Close(t)
  <2>0. PICK c, w : c = tx[t].request.contest /\
                    w = [tx[t].writes EXCEPT
                            !.contest = Only(c, [contest[c] EXCEPT !.exists = FALSE]),
                            !.binding = [pair \in {c} \X Problem |-> None]]
    OBVIOUS
  <2>9. PICK S : S = SetToSeqs({s \in Submission : row[s].contest = c})
    OBVIOUS
  <2>10. PICK order \in S : Continue(t, Locks("submission", order, "update"), w)
    BY <1>4, <2>0, <2>9 DEF cascadeContest
  <2>1. PICK ops : Continue(t, ops, w)
    BY <2>10
  <2>2. tx' = [tx EXCEPT ![t] = tx'[t]] /\ tx'[t].request = tx[t].request
    <3>1. /\ tx' = [tx EXCEPT ![t] = tx'[t]]
          /\ tx'[t] = [request |-> tx[t].request, todo |-> ops \o Tail(tx[t].todo),
                       held |-> tx[t].held, seen |-> tx[t].seen, writes |-> w,
                       start |-> tx[t].start]
      BY ONLY <1>1, <1>2, <2>1, t \in Transaction, ContinueRecord
    <3>2. PICK y : y = tx'[t]
      OBVIOUS
    <3>3. y.request = tx[t].request
      BY <3>1, <3>2
    <3>4. QED
      BY ONLY <3>1, <3>2, <3>3
  <2>3. Ordered(tx'[t])
    BY <1>2, <2>2 DEF Ordered, Unordered
  <2>4. QED
    BY <1>1, <2>2, <2>3, OrderKept
<1>5. QED
  BY <1>3, <1>4

(* The contest of a row stands where its unread contest stood.                      *)
LEMMA ContestInLine ==
    ASSUME NEW held, NEW todo \in Seq(Op), todo # <<>>, InLine(held, todo, TRUE),
           Level(Head(todo)) = 2, ~IsHost(Head(todo)),
           NEW ops \in Seq(Op), \A i \in DOMAIN ops : Level(ops[i]) = 2,
           InLine({}, ops, TRUE)
    PROVE  InLine(held, ops \o Tail(todo), TRUE)
<1> PICK rest : rest = Tail(todo)
  OBVIOUS
<1> PICK op : op = Head(todo)
  OBVIOUS
<1>1. Level(op) = 2 /\ ~IsHost(op)
  OBVIOUS
<1>2. /\ rest \in Seq(Op)
      /\ InLine(held, rest, TRUE)
      /\ \A j \in DOMAIN rest : Precedes(op, rest[j])
      /\ \A lock \in held : Precedes(LockOf(lock), op)
  <2>1. rest \in Seq(Op)
    OBVIOUS
  <2>2. QED
    BY <2>1, InLineTail
<1>3. \A i \in DOMAIN ops, j \in DOMAIN rest : Precedes(ops[i], rest[j])
  <2>1. SUFFICES ASSUME NEW i \in DOMAIN ops, NEW j \in DOMAIN rest
                 PROVE  Precedes(ops[i], rest[j])
    OBVIOUS
  <2>2. Level(op) < Level(rest[j])
    BY <1>1, <1>2 DEF Precedes
  <2>3. Level(ops[i]) < Level(rest[j])
    BY <1>1, <2>2
  <2>4. QED
    BY <2>3 DEF Precedes
<1>4. \A j \in DOMAIN ops, lock \in held : Precedes(LockOf(lock), ops[j])
  <2>1. SUFFICES ASSUME NEW j \in DOMAIN ops, NEW lock \in held
                 PROVE  Precedes(LockOf(lock), ops[j])
    OBVIOUS
  <2>2. Level(LockOf(lock)) < Level(op)
    BY <1>1, <1>2 DEF Precedes
  <2>3. Level(LockOf(lock)) < Level(ops[j])
    BY <1>1, <2>2
  <2>4. QED
    BY <2>3 DEF Precedes
<1>5. InLine(held, ops, TRUE)
  BY <1>4 DEF InLine
<1>6. InLine(held, ops \o rest, TRUE)
  BY <1>2, <1>3, <1>5, InLineJoined
<1>7. QED
  BY <1>6

LEMMA ReadContestOrdered ==
    ASSUME IInv, OrderInv, NEW t \in Transaction, ReadContest(t)
    PROVE  OrderInv'
<1> DEFINE q == tx[t].request
           c == row[q.submission].contest
<1>1. DbTyped /\ TxOK(t) /\ Running(t, "contest of row") /\ Ordered(tx[t])
  BY DEF IInv, ReadContest, OrderInv, Running
<1>2. /\ tx[t] # None /\ TxTyped(t) /\ tx[t].todo \in Seq(Op) /\ tx[t].todo # <<>>
      /\ q.kind = "result" /\ q \in Request
  BY <1>1, HeadOp DEF TxOK
<1>3. c \in Contest \cup {None}
  BY <1>1, <1>2, RequestFacts DEF DbTyped, RowTyped
<1>4. Level(Head(tx[t].todo)) = 2 /\ ~IsHost(Head(tx[t].todo))
  BY <1>1, OpLevel DEF Running
<1>5. PICK ops : ops = IF c = None THEN <<>> ELSE <<Lock("contest", c, "share")>>
  OBVIOUS
<1>6. PICK x : x = tx[t]
  OBVIOUS
<1>7. PICK z : z = tx'[t]
  OBVIOUS
<1>8. /\ ops \in Seq(Op) /\ InLine({}, ops, TRUE) /\ LocksCovered(z, ops)
      /\ \A i \in DOMAIN ops : Level(ops[i]) = 2
  <2>1. CASE c = None
    <3>1. ops = <<>> /\ DOMAIN ops = {} /\ ops \in Seq(Op)
      BY <1>5, <2>1
    <3>2. InLine({}, ops, TRUE)
      BY <3>1, ShortInLine
    <3>3. LocksCovered(z, ops)
      BY <3>1 DEF LocksCovered
    <3>4. QED
      BY <3>1, <3>2, <3>3
  <2>2. CASE c # None
    <3>1. PICK op : op = Lock("contest", c, "share")
      OBVIOUS
    <3>2. op \in Op
      <4>1. <<"contest", c>> \in Object /\ "share" \in Mode
        BY <1>3, <2>2 DEF Object, Mode
      <4>2. Lock("contest", c, "share") \in LockOp
        BY <4>1, LockOps
      <4>3. QED
        BY <3>1, <4>2, LockOpFacts
    <3>3. Level(op) = 2
      <4>1. Level(Lock("contest", c, "share")) = TableLevel("contest")
        BY LockLevel
      <4>2. QED
        BY <3>1, <4>1, TableLevels
    <3>4. Covered(z, op[2])
      BY <3>1 DEF Covered, Lock
    <3>5. ops = <<op>>
      BY <1>5, <2>2, <3>1
    <3>6. Fits(z, Level(op), <<op>>) /\ DOMAIN <<op>> = 1..1 /\ <<op>>[1] = op
      BY <3>2, <3>4, OneFits
    <3>7. ops \in Seq(Op) /\ LocksCovered(z, ops)
      BY <3>5, <3>6 DEF Fits
    <3>8. InLine({}, ops, TRUE)
      BY <3>5, <3>6, ShortInLine
    <3>9. \A i \in DOMAIN ops : Level(ops[i]) = 2
      <4>1. \A i \in 1..1 : i = 1
        OBVIOUS
      <4>2. QED
        BY <3>3, <3>5, <3>6, <4>1
    <3>10. QED
      BY <3>7, <3>8, <3>9
  <2>3. QED
    BY <2>1, <2>2
<1>9. /\ tx' = [tx EXCEPT ![t] = z]
      /\ z.request = x.request /\ z.held = x.held /\ z.writes = x.writes
      /\ z.todo = ops \o Tail(x.todo)
  <2>1. Continue(t, ops, tx[t].writes)
    BY <1>5 DEF ReadContest
  <2>2. /\ tx' = [tx EXCEPT ![t] = tx'[t]]
        /\ tx'[t] = [request |-> tx[t].request, todo |-> ops \o Tail(tx[t].todo),
                     held |-> tx[t].held, seen |-> tx[t].seen, writes |-> tx[t].writes,
                     start |-> tx[t].start]
    BY <1>1, <1>2, <2>1, ContinueRecord
  <2>3. QED
    BY <1>6, <1>7, <2>2
<1>10. Follows(x, z)
  BY <1>9 DEF Follows
<1>11. PICK todo : todo = x.todo
  OBVIOUS
<1>12. todo \in Seq(Op) /\ todo # <<>> /\ Ordered(x) /\ z.held = x.held /\ z.todo = ops \o Tail(todo)
  BY <1>1, <1>2, <1>6, <1>9, <1>11
<1>13. x.request.kind \in OneRow /\ x.request.kind \notin Unordered
  BY <1>2, <1>6 DEF OneRow, Unordered
<1>14. InLine(x.held, z.todo, TRUE)
  <2>1. PICK held : held = x.held
    OBVIOUS
  <2>2. InLine(held, todo, TRUE)
    <3>1. (x.request.kind \in OneRow) = TRUE
      BY <1>13
    <3>2. QED
      BY <1>11, <1>12, <1>13, <2>1, <3>1 DEF Ordered
  <2>3. Level(Head(todo)) = 2 /\ ~IsHost(Head(todo))
    BY <1>4, <1>6, <1>11
  <2>4. InLine(held, ops \o Tail(todo), TRUE)
    BY ONLY <1>8, <1>12, <2>2, <2>3, ContestInLine
  <2>5. QED
    BY <1>12, <2>1, <2>4
<1>15. InLine(x.held, z.todo, x.request.kind \in OneRow)
  <2>1. (x.request.kind \in OneRow) = TRUE
    BY <1>13
  <2>2. QED
    BY <1>14, <2>1
<1>16. Ordered(z)
  BY ONLY <1>8, <1>10, <1>11, <1>12, <1>15, OrderedNext
<1>17. QED
  BY <1>1, <1>7, <1>9, <1>16, OrderKept

(* A transaction that locks no host, and of others only the revision of all.        *)
LEMMA PlainOrdered ==
    ASSUME NEW y, \A i \in DOMAIN y.todo : \/ y.todo[i][1] \notin {"lock", "contest of row"}
                                           \/ y.todo[i] = AllBump,
           \A lock \in y.held : lock = AdvisoryLock, y.request.kind \notin OneRow
    PROVE  Ordered(y)
<1>1. ~IsHost(AllBump) /\ Covered(y, AllBump[2])
  BY DEF IsHost, AllBump, Lock, Covered
<1>2. \A i \in DOMAIN y.todo : ~IsHost(y.todo[i])
  BY <1>1 DEF IsHost
<1>3. InLine(y.held, y.todo, y.request.kind \in OneRow)
  BY <1>2 DEF InLine
<1>4. LocksCovered(y, y.todo)
  BY <1>1 DEF LocksCovered
<1>5. HeldCovered(y)
  <2>1. \A lock \in y.held : lock[1] = <<"advisory", 0>> /\ lock[1][1] = "advisory"
    <3>1. AdvisoryLock[1] = <<"advisory", 0>> /\ <<"advisory", 0>>[1] = "advisory"
      BY DEF AdvisoryLock
    <3>2. QED
      BY <3>1
  <2>2. \A lock \in y.held : Covered(y, lock[1]) /\ lock[1][1] # "revision of all"
    BY <2>1 DEF Covered
  <2>3. QED
    BY <2>2 DEF HeldCovered
<1>6. QED
  BY <1>3, <1>4, <1>5 DEF Ordered

LEMMA RefreshIsOrdered == Ordered(Refresh)
<1>1. Refresh.request = [kind |-> "refresh"] /\ Refresh.todo = <<<<"try">>>> /\ Refresh.held = {}
  BY OpenRecord DEF Refresh
<1>2. \A i \in DOMAIN Refresh.todo : Refresh.todo[i][1] \notin {"lock", "contest of row"}
  <2>1. \A op : \A i \in DOMAIN <<op>> : <<op>>[i] = op
    OBVIOUS
  <2>2. <<"try">>[1] = "try"
    OBVIOUS
  <2>3. \A i \in DOMAIN Refresh.todo : Refresh.todo[i] = <<"try">>
    BY ONLY <1>1, <2>1
  <2>4. QED
    BY ONLY <2>2, <2>3
<1>3. Refresh.request.kind \notin OneRow
  BY <1>1 DEF OneRow
<1>4. QED
  BY <1>1, <1>2, <1>3, PlainOrdered

LEMMA AnnounceIsOrdered ==
    ASSUME NEW y, y = Open([kind |-> "announce"], bumpGlobal, <<>>)
    PROVE  Ordered(y)
<1>1. y.request = [kind |-> "announce"] /\ y.todo = bumpGlobal /\ y.held = {}
  BY OpenRecord
<1>2. \A i \in DOMAIN y.todo : y.todo[i] = AllBump
  <2>1. \A op : \A i \in DOMAIN <<op>> : <<op>>[i] = op
    OBVIOUS
  <2>2. y.todo = <<AllBump>>
    BY <1>1 DEF bumpGlobal, AllBump
  <2>3. QED
    BY ONLY <2>1, <2>2
<1>3. y.request.kind \notin OneRow
  BY <1>1 DEF OneRow
<1>4. QED
  BY <1>1, <1>2, <1>3, PlainOrdered

LEMMA ScheduleOrdered ==
    ASSUME IInv, OrderInv, NEW t \in Transaction, scheduleRankingsRefresh(t)
    PROVE  OrderInv'
<1>1. DbTyped /\ DOMAIN tx = Transaction
  BY DbDomains DEF IInv
<1>2. tx' = [tx EXCEPT ![t] = tx'[t]] /\ tx'[t] = Refresh
  BY <1>1 DEF scheduleRankingsRefresh
<1>3. QED
  BY <1>1, <1>2, RefreshIsOrdered, OrderKept

LEMMA CommitOrdered ==
    ASSUME IInv, OrderInv, NEW t \in Transaction, Commit(t)
    PROVE  OrderInv'
<1>1. DbTyped /\ DOMAIN tx = Transaction
  BY DbDomains DEF IInv
<1>2. tx' = [tx EXCEPT ![t] = tx'[t]] /\ tx'[t] = Afterwards(tx[t].request)
  BY <1>1 DEF Commit
<1>3. tx'[t] # None => Ordered(tx'[t])
  BY <1>2, RefreshIsOrdered, AnnounceIsOrdered DEF Afterwards
<1>4. QED
  BY <1>1, <1>2, <1>3, OrderKept

LEMMA TryOrdered ==
    ASSUME IInv, OrderInv, NEW t \in Transaction, tryRefresh(t)
    PROVE  OrderInv'
<1>1. DbTyped /\ TxOK(t) /\ Running(t, "try")
  BY DEF IInv, tryRefresh
<1>2. tx[t] # None /\ tx[t].request.kind = "refresh" /\ TxTyped(t)
  BY <1>1, HeadOp DEF TxOK
<1>3. CASE Close(t)
  BY <1>1, <1>3, OrderClosed
<1>4. CASE ~Close(t)
  <2>1. PICK todo : todo = <<AllBump, <<"refresh">>>>
    OBVIOUS
  <2>2. tx' = [tx EXCEPT ![t].todo = todo, ![t].held = {AdvisoryLock}, ![t].start = now]
    BY <1>4, <2>1 DEF tryRefresh, AdvisoryLock, AllBump
  <2>3. PICK y : y = tx'[t]
    OBVIOUS
  <2>4. /\ tx' = [tx EXCEPT ![t] = y]
        /\ y.request = tx[t].request /\ y.todo = todo /\ y.held = {AdvisoryLock}
    BY <1>1, <1>2, <2>2, <2>3 DEF DbTyped, TxTyped
  <2>5. \A i \in DOMAIN todo : todo[i][1] \notin {"lock", "contest of row"} \/ todo[i] = AllBump
    <3>1. \A a, b : \A i \in DOMAIN <<a, b>> : <<a, b>>[i] \in {a, b}
      OBVIOUS
    <3>2. <<"refresh">>[1] = "refresh"
      OBVIOUS
    <3>3. \A i \in DOMAIN todo : todo[i] \in {AllBump, <<"refresh">>}
      BY ONLY <2>1, <3>1
    <3>4. QED
      BY ONLY <3>2, <3>3
  <2>6. Ordered(y)
    BY <1>2, <2>4, <2>5, PlainOrdered DEF OneRow
  <2>7. QED
    BY <1>1, <2>3, <2>4, <2>6, OrderKept
<1>5. QED
  BY <1>3, <1>4

-----------------------------------------------------------------------------
(* The programs of requests are in order.                                           *)

(* Operations in line, up to a place, of a transaction that may ask for them.       *)
Climbs(y, n, all, ops) ==
    /\ ops \in Seq(Op) /\ InLine({}, ops, all) /\ LocksCovered(y, ops)
    /\ \A i \in DOMAIN ops : Level(ops[i]) <= n

LEMMA ClimbsJoined ==
    ASSUME NEW y, NEW all, NEW n \in Nat, NEW m \in Nat, n < m, NEW a, NEW b,
           Climbs(y, n, all, a), Climbs(y, m, all, b), From(n + 1, b)
    PROVE  Climbs(y, m, all, a \o b)
<1>1. a \in Seq(Op) /\ b \in Seq(Op) /\ a \o b \in Seq(Op)
  BY Joined DEF Climbs
<1>2. \A i \in DOMAIN a, j \in DOMAIN b : Precedes(a[i], b[j])
  <2>1. \A i \in DOMAIN a, j \in DOMAIN b : Level(a[i]) <= n /\ Level(b[j]) >= n + 1
    BY DEF Climbs, From
  <2>2. \A i \in DOMAIN a, j \in DOMAIN b : Level(a[i]) < Level(b[j])
    BY <2>1, LevelNumber
  <2>3. QED
    BY <2>2 DEF Precedes
<1>3. InLine({}, a \o b, all)
  <2>1. InLine({}, a, all) /\ InLine({}, b, all)
    BY DEF Climbs
  <2>2. QED
    BY <1>1, <1>2, <2>1, InLineJoined
<1>4. LocksCovered(y, a \o b)
  BY <1>1, CoveredJoined DEF Climbs
<1>5. \A j \in DOMAIN (a \o b) : Level((a \o b)[j]) <= m
  <2>1. \A i \in DOMAIN a : Level(a[i]) <= m
    BY LevelNumber DEF Climbs
  <2>2. \A i \in DOMAIN b : Level(b[i]) <= m
    BY DEF Climbs
  <2>3. \A j \in DOMAIN (a \o b) : \/ \E i \in DOMAIN a : (a \o b)[j] = a[i]
                                   \/ \E i \in DOMAIN b : (a \o b)[j] = b[i]
    BY <1>1, ElementsJoined
  <2>4. QED
    BY ONLY <2>1, <2>2, <2>3
<1>6. QED
  BY <1>1, <1>3, <1>4, <1>5 DEF Climbs

LEMMA OneClimbs ==
    ASSUME NEW y, NEW all, NEW op \in Op, op[1] = "lock" => Covered(y, op[2]),
           NEW n \in Nat, Level(op) = n
    PROVE  Climbs(y, n, all, <<op>>) /\ From(n, <<op>>)
<1>1. <<op>> \in Seq(Op) /\ DOMAIN <<op>> = 1..1 /\ <<op>>[1] = op
  OBVIOUS
<1>2. PICK ops : ops = <<op>>
  OBVIOUS
<1>3. \A i \in DOMAIN ops : ops[i] = op
  <2>1. 1..1 = {1}
    OBVIOUS
  <2>2. QED
    BY <1>1, <1>2, <2>1
<1>4. \A i \in DOMAIN ops : Level(ops[i]) = n
  BY <1>3
<1>5. From(n, ops)
  BY <1>4 DEF From
<1>6. \A i \in DOMAIN ops : Level(ops[i]) <= n
  BY <1>4
<1>7. LocksCovered(y, ops)
  BY <1>3 DEF LocksCovered
<1>8. InLine({}, ops, all)
  BY <1>1, <1>2, ShortInLine
<1>9. Climbs(y, n, all, ops)
  BY <1>1, <1>2, <1>6, <1>7, <1>8 DEF Climbs
<1>10. QED
  BY <1>2, <1>5, <1>9

LEMMA ClimbsThen ==
    ASSUME NEW y, NEW all, NEW n \in Nat, NEW m \in Nat, n < m, NEW a, Climbs(y, n, all, a),
           NEW op \in Op, op[1] = "lock" => Covered(y, op[2]), Level(op) = m
    PROVE  Climbs(y, m, all, a \o <<op>>)
<1>1. Climbs(y, m, all, <<op>>) /\ From(m, <<op>>)
  BY OneClimbs
<1>2. From(n + 1, <<op>>)
  <2>1. \A i \in DOMAIN <<op>> : Level(<<op>>[i]) >= m
    BY <1>1 DEF From
  <2>2. \A i \in DOMAIN <<op>> : Level(<<op>>[i]) >= n + 1
    BY <2>1, LevelNumber
  <2>3. QED
    BY <2>2 DEF From
<1>3. QED
  BY <1>1, <1>2, ClimbsJoined

(* The lock of a host, for which nothing else is needed.                            *)
LEMMA HostLock ==
    ASSUME NEW table \in {"problem", "contest"}, NEW id, <<table, id>> \in Object, NEW mode \in Mode,
           NEW op, op = Lock(table, id, mode)
    PROVE  /\ op \in Op /\ Level(op) = TableLevel(table) /\ IsHost(op) /\ op[2] = <<table, id>>
           /\ \A y : Covered(y, op[2])
<1>1. op \in Op
  <2>1. Lock(table, id, mode) \in LockOp
    BY LockOps
  <2>2. QED
    BY <2>1, LockOpFacts
<1>2. Level(op) = TableLevel(table)
  BY LockLevel
<1>3. IsHost(op) /\ op[2] = <<table, id>> /\ op[2][1] = table
  BY DEF IsHost, Lock
<1>4. \A y : Covered(y, op[2])
  BY <1>3 DEF Covered
<1>5. QED
  BY <1>1, <1>2, <1>3, <1>4

LEMMA SubmissionLock ==
    ASSUME NEW s \in Submission, NEW y, y.request.kind \in {"result", "remove"},
           s = y.request.submission, NEW op, op = Lock("submission", s, "update")
    PROVE  op \in Op /\ Level(op) = 3 /\ Covered(y, op[2])
<1>1. op \in Op
  <2>1. <<"submission", s>> \in Object /\ "update" \in Mode
    BY DEF Object, Mode
  <2>2. Lock("submission", s, "update") \in LockOp
    BY <2>1, LockOps
  <2>3. QED
    BY <2>2, LockOpFacts
<1>2. Level(op) = 3
  <2>1. Level(Lock("submission", s, "update")) = TableLevel("submission")
    BY LockLevel
  <2>2. QED
    BY <2>1, TableLevels
<1>3. Covered(y, op[2])
  BY DEF Covered, Lock
<1>4. QED
  BY <1>1, <1>2, <1>3

(* Locks taken in ascending order.                                                  *)
LEMMA SortedClimbs ==
    ASSUME NEW table \in {"problem", "contest"}, NEW S, IsFiniteSet(S), S \subseteq Nat,
           \A x \in S : <<table, x>> \in Object, NEW mode \in Mode, NEW y, NEW all,
           NEW ops, ops = Locks(table, Ascending(S), mode), NEW n \in Nat, n = TableLevel(table)
    PROVE  Climbs(y, n, all, ops) /\ From(n, ops)
<1>1. PICK order : order = Ascending(S)
  OBVIOUS
<1>2. /\ order \in SetToSeqs(S)
      /\ \A i, j \in DOMAIN order : i < j => order[i] < order[j]
  BY <1>1, AscendingSorted
<1>3. /\ order \in Seq(S) /\ DOMAIN order = 1..Len(order) /\ Len(order) \in Nat
      /\ \A i \in 1..Len(order) : order[i] \in S
  BY <1>2, Enumeration, SeqElements
<1>4. ops \in Seq(Op)
  <2>1. ops \in Seq(LockOp)
    BY <1>1, <1>2, LocksHas
  <2>2. QED
    BY <2>1, OnlyLocks DEF Before
<1>5. DOMAIN ops = DOMAIN order /\ \A i \in DOMAIN order : ops[i] = Lock(table, order[i], mode)
  BY <1>1 DEF Locks
<1>6. \A i \in DOMAIN order : /\ Level(ops[i]) = n /\ IsHost(ops[i])
                              /\ ops[i][2] = <<table, order[i]>> /\ Covered(y, ops[i][2])
  <2>1. SUFFICES ASSUME NEW i \in DOMAIN order
                 PROVE  /\ Level(ops[i]) = n /\ IsHost(ops[i])
                        /\ ops[i][2] = <<table, order[i]>> /\ Covered(y, ops[i][2])
    OBVIOUS
  <2>2. PICK op : op = ops[i]
    OBVIOUS
  <2>3. PICK id \in S : id = order[i]
    BY <1>3
  <2>4. op = Lock(table, id, mode) /\ <<table, id>> \in Object
    BY <1>5, <2>2, <2>3
  <2>5. Level(op) = TableLevel(table) /\ IsHost(op) /\ op[2] = <<table, id>> /\ Covered(y, op[2])
    BY <2>4, HostLock
  <2>6. QED
    BY <2>2, <2>3, <2>5
<1>7. \A i, j \in DOMAIN order : i < j => Precedes(ops[i], ops[j])
  <2>1. SUFFICES ASSUME NEW i \in DOMAIN order, NEW j \in DOMAIN order, i < j
                 PROVE  Precedes(ops[i], ops[j])
    OBVIOUS
  <2>2. ops[i][2][2] < ops[j][2][2]
    <3>1. ops[i][2] = <<table, order[i]>> /\ ops[j][2] = <<table, order[j]>>
      BY <1>6
    <3>2. ops[i][2][2] = order[i] /\ ops[j][2][2] = order[j]
      BY <3>1
    <3>3. order[i] < order[j]
      BY <1>2, <2>1
    <3>4. QED
      BY <3>2, <3>3
  <2>3. QED
    BY <1>6, <2>2 DEF Precedes
<1>8. InLine({}, ops, all)
  <2>1. SUFFICES ASSUME NEW j \in DOMAIN order, NEW i \in 1..(j - 1)
                 PROVE  Precedes(ops[i], ops[j])
    BY <1>5 DEF InLine
  <2>2. i \in DOMAIN order /\ i < j
    BY <1>3
  <2>3. QED
    BY <1>7, <2>2
<1>9. LocksCovered(y, ops)
  BY <1>5, <1>6 DEF LocksCovered
<1>10. (\A i \in DOMAIN ops : Level(ops[i]) <= n) /\ (\A i \in DOMAIN ops : Level(ops[i]) >= n)
  BY <1>5, <1>6
<1>11. QED
  BY <1>4, <1>8, <1>9, <1>10 DEF Climbs, From

LEMMA LevelsOfTables == TableLevel("problem") = 1 /\ TableLevel("contest") = 2
BY TableLevels

LEMMA EffectiveClimbs ==
    ASSUME NEW problems, problems \subseteq Problem, NEW contests, contests \subseteq Contest,
           NEW pm \in Mode, NEW cm \in Mode, NEW y, NEW all,
           NEW hosts, hosts = lockEffectivePolicyHosts(problems, contests, pm, cm)
    PROVE  Climbs(y, 2, all, hosts)
<1>1. /\ problems \subseteq Nat /\ IsFiniteSet(problems)
      /\ contests \subseteq Nat /\ IsFiniteSet(contests)
  BY EffectiveAssumption, FS_Subset
<1>2. PICK a : a = Locks("problem", Ascending(problems), pm)
  OBVIOUS
<1>3. PICK b : b = Locks("contest", Ascending(contests), cm)
  OBVIOUS
<1>4. Climbs(y, 1, all, a)
  <2>1. \A p \in problems : <<"problem", p>> \in Object
    BY DEF Object
  <2>2. "problem" \in {"problem", "contest"} /\ 1 \in Nat /\ 1 = TableLevel("problem")
    BY LevelsOfTables
  <2>3. QED
    BY <1>1, <1>2, <2>1, <2>2, SortedClimbs
<1>5. Climbs(y, 2, all, b) /\ From(2, b)
  <2>1. \A c \in contests : <<"contest", c>> \in Object
    BY DEF Object
  <2>2. "contest" \in {"problem", "contest"} /\ 2 \in Nat /\ 2 = TableLevel("contest")
    BY LevelsOfTables
  <2>3. QED
    BY <1>1, <1>3, <2>1, <2>2, SortedClimbs
<1>6. Climbs(y, 2, all, a \o b)
  <2>1. 1 \in Nat /\ 2 \in Nat /\ 1 < 2 /\ 1 + 1 = 2
    OBVIOUS
  <2>2. From(1 + 1, b)
    BY <1>5, <2>1
  <2>3. QED
    BY ONLY <1>4, <1>5, <2>1, <2>2, ClimbsJoined
<1>7. hosts = a \o b
  BY <1>2, <1>3 DEF lockEffectivePolicyHosts
<1>8. QED
  BY <1>6, <1>7

LEMMA ProjectionClimbs ==
    ASSUME NEW p \in Problem, NEW c \in Contest \cup {None}, NEW y, NEW all,
           NEW hosts, hosts = lockProjectionHosts(p, c)
    PROVE  Climbs(y, 2, all, hosts)
<1>1. PICK a : a = Lock("problem", p, "share")
  OBVIOUS
<1>2. a \in Op /\ Level(a) = 1 /\ Covered(y, a[2])
  <2>1. <<"problem", p>> \in Object /\ "share" \in Mode /\ "problem" \in {"problem", "contest"}
    BY DEF Object, Mode
  <2>2. QED
    BY <1>1, <2>1, HostLock, LevelsOfTables
<1>3. PICK first : first = <<a>>
  OBVIOUS
<1>4. Climbs(y, 1, all, first)
  BY <1>2, <1>3, OneClimbs
<1>5. first \in Seq(Op)
  BY <1>4 DEF Climbs
<1>6. CASE c = None
  <2>1. hosts = first \o <<>>
    BY <1>1, <1>3, <1>6 DEF lockProjectionHosts
  <2>2. first \o <<>> = first
    BY <1>5
  <2>3. \A i \in DOMAIN first : Level(first[i]) <= 2
    <3>1. \A i \in DOMAIN first : Level(first[i]) <= 1
      BY <1>4 DEF Climbs
    <3>2. QED
      BY <3>1, LevelNumber
  <2>4. Climbs(y, 2, all, first)
    BY <1>4, <2>3 DEF Climbs
  <2>5. QED
    BY <2>1, <2>2, <2>4
<1>7. CASE c # None
  <2>1. PICK b : b = Lock("contest", c, "share")
    OBVIOUS
  <2>2. b \in Op /\ Level(b) = 2 /\ Covered(y, b[2])
    <3>1. <<"contest", c>> \in Object /\ "share" \in Mode /\ "contest" \in {"problem", "contest"}
      BY <1>7 DEF Object, Mode
    <3>2. QED
      BY <2>1, <3>1, HostLock, LevelsOfTables
  <2>3. 1 \in Nat /\ 2 \in Nat /\ 1 < 2
    OBVIOUS
  <2>4. Climbs(y, 2, all, first \o <<b>>)
    BY ONLY <1>4, <2>2, <2>3, ClimbsThen
  <2>5. hosts = first \o <<b>>
    BY <1>1, <1>3, <1>7, <2>1 DEF lockProjectionHosts
  <2>6. QED
    BY <2>4, <2>5
<1>8. QED
  BY <1>6, <1>7

(* The step at the end of a program comes after all its locks.                      *)
LEMMA StepLevel ==
    ASSUME NEW op, IsStep(op)
    PROVE  Level(op) = 4 /\ op[1] # "lock" /\ ~IsHost(op)
BY OpLevel DEF IsStep

LEMMA ThenStep ==
    ASSUME NEW y, NEW all, NEW n \in Nat, n < 4, NEW pre, Climbs(y, n, all, pre),
           NEW step \in Op, IsStep(step)
    PROVE  Climbs(y, 4, all, pre \o <<step>>)
<1>1. Level(step) = 4 /\ (step[1] = "lock" => Covered(y, step[2]))
  BY StepLevel
<1>2. 4 \in Nat
  OBVIOUS
<1>3. QED
  BY <1>1, <1>2, ClimbsThen

(* What a transaction is when it begins.                                            *)
Asks(y, q) == y.request = q /\ y.held = {}

LEMMA ThreeOnly ==
    ASSUME NEW S, NEW x \in S, NEW y \in S, NEW z \in S,
           NEW a, a = <<x, y>>, NEW b, b = a \o <<z>>
    PROVE  b = <<x, y, z>>
<1>1. a \in Seq(S) /\ Len(a) = 2 /\ a[1] = x /\ a[2] = y
  OBVIOUS
<1>2. b \in Seq(S) /\ Len(b) = 3 /\ b[1] = x /\ b[2] = y /\ b[3] = z
  BY <1>1
<1>3. \A c \in Seq(S) : Len(c) = 3 => c = <<c[1], c[2], c[3]>>
  OBVIOUS
<1>4. QED
  BY <1>2, <1>3

LEMMA FourOnly ==
    ASSUME NEW S, NEW x \in S, NEW y \in S, NEW z \in S, NEW v \in S
    PROVE  <<x, y, z>> \o <<v>> = <<x, y, z, v>>
<1> DEFINE a == <<x, y, z>>
           b == a \o <<v>>
<1>1. a \in Seq(S) /\ Len(a) = 3 /\ a[1] = x /\ a[2] = y /\ a[3] = z
  OBVIOUS
<1>2. b \in Seq(S) /\ Len(b) = 4 /\ b[1] = x /\ b[2] = y /\ b[3] = z /\ b[4] = v
  BY <1>1
<1>3. \A c \in Seq(S) : Len(c) = 4 => c = <<c[1], c[2], c[3], c[4]>>
  OBVIOUS
<1>4. QED
  BY <1>2, <1>3

LEMMA ResultClimbs ==
    ASSUME NEW q \in Request, q.kind = "result", NEW y, Asks(y, q), NEW all
    PROVE  Climbs(y, 4, all, resultProgram(q))
<1>1. q.submission \in Submission /\ ProblemOf[q.submission] \in Problem
  BY RequestFacts
<1>2. PICK a : a = Lock("problem", ProblemOf[q.submission], "share")
  OBVIOUS
<1>3. PICK b : b = <<"contest of row">>
  OBVIOUS
<1>4. PICK c : c = Lock("submission", q.submission, "update")
  OBVIOUS
<1>5. PICK d : d = <<"result">>
  OBVIOUS
<1>6. a \in Op /\ Level(a) = 1 /\ Covered(y, a[2])
  <2>1. /\ <<"problem", ProblemOf[q.submission]>> \in Object /\ "share" \in Mode
        /\ "problem" \in {"problem", "contest"}
    BY <1>1 DEF Object, Mode
  <2>2. QED
    BY <1>2, <2>1, HostLock, LevelsOfTables
<1>7. b \in Op /\ Level(b) = 2 /\ b[1] # "lock"
  <2>1. b[1] = "contest of row"
    BY <1>3
  <2>2. b \in Op
    BY <1>3 DEF Op, NamedOp
  <2>3. QED
    BY <2>1, <2>2, OpLevel
<1>8. c \in Op /\ Level(c) = 3 /\ Covered(y, c[2])
  <2>1. y.request.kind \in {"result", "remove"} /\ q.submission = y.request.submission
    BY DEF Asks
  <2>2. QED
    BY <1>1, <1>4, <2>1, SubmissionLock
<1>9. d \in Op /\ IsStep(d)
  BY <1>5, NamedStep
<1>10. 1 \in Nat /\ 2 \in Nat /\ 3 \in Nat /\ 1 < 2 /\ 2 < 3 /\ 3 < 4
  OBVIOUS
<1>11. PICK s1 : s1 = <<a>>
  OBVIOUS
<1>12. Climbs(y, 1, all, s1)
  BY <1>6, <1>10, <1>11, OneClimbs
<1>13. PICK s2 : s2 = s1 \o <<b>>
  OBVIOUS
<1>14. Climbs(y, 2, all, s2)
  BY ONLY <1>7, <1>10, <1>12, <1>13, ClimbsThen
<1>15. PICK s3 : s3 = s2 \o <<c>>
  OBVIOUS
<1>16. Climbs(y, 3, all, s3)
  BY ONLY <1>8, <1>10, <1>14, <1>15, ClimbsThen
<1>17. PICK s4 : s4 = s3 \o <<d>>
  OBVIOUS
<1>18. Climbs(y, 4, all, s4)
  BY ONLY <1>9, <1>10, <1>16, <1>17, ThenStep
<1>19. s4 = resultProgram(q)
  <2>1. s2 = <<a, b>>
    BY ONLY <1>6, <1>7, <1>11, <1>13, TwoOnly
  <2>2. s3 = <<a, b, c>>
    BY ONLY <1>6, <1>7, <1>8, <1>15, <2>1, ThreeOnly
  <2>3. s4 = <<a, b, c, d>>
    <3>1. a \in Op /\ b \in Op /\ c \in Op /\ d \in Op
      BY <1>6, <1>7, <1>8, <1>9
    <3>2. <<a, b, c>> \o <<d>> = <<a, b, c, d>>
      BY ONLY <3>1, FourOnly
    <3>3. QED
      BY <1>17, <2>2, <3>2
  <2>4. QED
    BY <1>2, <1>3, <1>4, <1>5, <2>3 DEF resultProgram
<1>20. QED
  BY <1>18, <1>19

LEMMA CreateClimbs ==
    ASSUME NEW q \in Request, q.kind = "create", NEW y, NEW all
    PROVE  Climbs(y, 4, all, createProgram(q))
<1>1. ProblemOf[q.submission] \in Problem /\ q.contest \in Contest \cup {None}
  BY RequestFacts
<1>2. PICK hosts : hosts = lockProjectionHosts(ProblemOf[q.submission], q.contest)
  OBVIOUS
<1>3. Climbs(y, 2, all, hosts)
  BY <1>1, <1>2, ProjectionClimbs
<1>4. PICK step : step = <<"create">>
  OBVIOUS
<1>5. step \in Op /\ IsStep(step)
  BY <1>4, NamedStep
<1>6. 2 \in Nat /\ 2 < 4
  OBVIOUS
<1>7. Climbs(y, 4, all, hosts \o <<step>>)
  BY ONLY <1>3, <1>5, <1>6, ThenStep
<1>8. QED
  BY <1>2, <1>4, <1>7 DEF createProgram

LEMMA RemoveClimbs ==
    ASSUME DbTyped, NEW q \in Request, q.kind = "remove", NEW y, Asks(y, q), NEW all
    PROVE  Climbs(y, 4, all, removeProgram(q))
<1> DEFINE s == q.submission
           c == row[s].contest
<1>1. s \in Submission /\ ProblemOf[s] \in Problem /\ c \in Contest \cup {None}
  BY RequestFacts DEF DbTyped, RowTyped
<1>2. PICK hosts : hosts = lockProjectionHosts(ProblemOf[s], c)
  OBVIOUS
<1>3. PICK mine : mine = Lock("submission", s, "update")
  OBVIOUS
<1>4. PICK step : step = <<"remove">>
  OBVIOUS
<1>5. step \in Op /\ IsStep(step)
  BY <1>4, NamedStep
<1>6. Climbs(y, 2, all, hosts)
  BY <1>1, <1>2, ProjectionClimbs
<1>7. mine \in Op /\ Level(mine) = 3 /\ Covered(y, mine[2])
  <2>1. y.request.kind \in {"result", "remove"} /\ s = y.request.submission
    BY DEF Asks
  <2> HIDE DEF s
  <2>2. QED
    BY <1>1, <1>3, <2>1, SubmissionLock
<1>8. 2 \in Nat /\ 3 \in Nat /\ 2 < 3 /\ 3 < 4
  OBVIOUS
<1>9. PICK pre : pre = hosts \o <<mine>>
  OBVIOUS
<1>10. Climbs(y, 3, all, pre)
  BY ONLY <1>6, <1>7, <1>8, <1>9, ClimbsThen
<1>11. Climbs(y, 4, all, pre \o <<step>>)
  BY ONLY <1>5, <1>8, <1>10, ThenStep
<1>12. pre \o <<step>> = removeProgram(q)
  <2>1. hosts \o <<mine, step>> = (hosts \o <<mine>>) \o <<step>>
    <3>1. hosts \in Seq(Op)
      BY <1>6 DEF Climbs
    <3>2. QED
      BY ONLY <1>5, <1>7, <3>1, TwoLast
  <2>2. removeProgram(q) = hosts \o <<mine, step>>
    BY <1>2, <1>3, <1>4 DEF removeProgram
  <2>3. QED
    BY <1>9, <2>1, <2>2
<1>13. QED
  BY <1>11, <1>12

LEMMA ChangeClimbs ==
    ASSUME NEW q \in Request, q.kind = "change", NEW ch \in q.changes, NEW y, NEW all
    PROVE  Climbs(y, 4, all, changeProgram(ch))
<1>1. q.changes \subseteq Change /\ ch.problem \in Problem /\ ch.contest \in Contest \cup {None}
  BY RequestFacts, ChangeFacts
<1>2. PICK pre : pre = IF ch.contest = None THEN <<Lock("problem", ch.problem, "update")>>
                       ELSE lockEffectivePolicyHosts({ch.problem}, {ch.contest}, "share", "update")
  OBVIOUS
<1>3. PICK step : step = <<"change", ch>>
  OBVIOUS
<1>4. step \in Op /\ IsStep(step)
  BY <1>1, <1>3, ChangeStep
<1>5. PICK n \in {1, 2} : Climbs(y, n, all, pre)
  <2>1. CASE ch.contest = None
    <3>1. PICK op : op = Lock("problem", ch.problem, "update")
      OBVIOUS
    <3>2. op \in Op /\ Level(op) = 1 /\ Covered(y, op[2])
      <4>1. <<"problem", ch.problem>> \in Object /\ "update" \in Mode /\ "problem" \in {"problem", "contest"}
        BY <1>1 DEF Object, Mode
      <4>2. QED
        BY <3>1, <4>1, HostLock, LevelsOfTables
    <3>3. Climbs(y, 1, all, <<op>>)
      BY <3>2, OneClimbs
    <3>4. QED
      BY <1>2, <2>1, <3>1, <3>3
  <2>2. CASE ch.contest # None
    <3>1. PICK ps : ps = {ch.problem}
      OBVIOUS
    <3>2. PICK cs : cs = {ch.contest}
      OBVIOUS
    <3>3. ps \subseteq Problem /\ cs \subseteq Contest /\ "share" \in Mode /\ "update" \in Mode
      BY <1>1, <2>2, <3>1, <3>2 DEF Mode
    <3>4. pre = lockEffectivePolicyHosts(ps, cs, "share", "update")
      BY <1>2, <2>2, <3>1, <3>2
    <3>5. Climbs(y, 2, all, pre)
      BY <3>3, <3>4, EffectiveClimbs
    <3>6. QED
      BY <3>5
  <2>3. QED
    BY <2>1, <2>2
<1>6. n \in Nat /\ n < 4
  OBVIOUS
<1>7. Climbs(y, 4, all, pre \o <<step>>)
  BY ONLY <1>4, <1>5, <1>6, ThenStep
<1>8. QED
  BY <1>2, <1>3, <1>7 DEF changeProgram

LEMMA BatchClimbs ==
    ASSUME NEW q \in Request, q.kind = "batch", NEW y
    PROVE  Climbs(y, 4, FALSE, batchProgram(q.changes))
<1> DEFINE problems == {ch.problem : ch \in q.changes}
           contests == {ch.contest : ch \in q.changes} \ {None}
<1>1. q.changes \subseteq Change /\ IsFiniteSet(q.changes)
  BY RequestFacts
<1>2. \A ch \in q.changes : ch.problem \in Problem /\ ch.contest \in Contest \cup {None}
  BY <1>1, ChangeFacts
<1>3. PICK ordered : ordered = InOrder(q.changes)
  OBVIOUS
<1>4. /\ ordered \in Seq(q.changes) /\ Len(ordered) \in Nat /\ DOMAIN ordered = 1..Len(ordered)
      /\ \A i \in 1..Len(ordered) : ordered[i] \in q.changes
  <2>1. ordered \in SetToSeqs(q.changes)
    BY <1>1, <1>3, EffectiveAssumption, InOrderComplete
  <2>2. ordered \in Seq(q.changes) /\ Len(ordered) \in Nat /\ DOMAIN ordered = 1..Len(ordered)
    BY <1>1, <2>1, Enumeration
  <2>3. QED
    BY <2>2, SeqElements
<1>5. PICK steps : steps = [i \in DOMAIN ordered |-> <<"change", ordered[i]>>]
  OBVIOUS
<1>6. PICK pre : pre = lockEffectivePolicyHosts(problems, contests, "update", "update")
  OBVIOUS
<1>7. Climbs(y, 2, FALSE, pre)
  <2>1. problems \subseteq Problem /\ contests \subseteq Contest /\ "update" \in Mode
    BY <1>2 DEF Mode
  <2> HIDE DEF problems, contests
  <2>2. QED
    BY <1>6, <2>1, EffectiveClimbs
<1>8. Climbs(y, 4, FALSE, steps) /\ From(3, steps)
  <2>1. \A i \in 1..Len(ordered) : <<"change", ordered[i]>> \in Op /\ IsStep(<<"change", ordered[i]>>)
    BY <1>1, <1>4, ChangeStep
  <2>2. PICK n \in Nat : n = Len(ordered)
    BY <1>4
  <2>3. steps = [i \in 1..n |-> <<"change", ordered[i]>>]
    BY <1>4, <1>5, <2>2
  <2>4. steps \in [1..n -> Op] /\ \A i \in DOMAIN steps : IsStep(steps[i])
    BY <2>1, <2>2, <2>3
  <2>5. steps \in Seq(Op)
    BY <2>4, SeqOfFunction
  <2>6. \A i \in DOMAIN steps : Level(steps[i]) = 4 /\ steps[i][1] # "lock" /\ ~IsHost(steps[i])
    BY <2>4, StepLevel
  <2>7. InLine({}, steps, FALSE)
    BY <2>6, NoHosts
  <2>8. LocksCovered(y, steps)
    BY <2>6 DEF LocksCovered
  <2>9. (\A i \in DOMAIN steps : Level(steps[i]) <= 4) /\ (\A i \in DOMAIN steps : Level(steps[i]) >= 3)
    BY <2>6
  <2>10. QED
    BY <2>5, <2>7, <2>8, <2>9 DEF Climbs, From
<1>9. Climbs(y, 4, FALSE, pre \o steps)
  <2>1. 2 \in Nat /\ 4 \in Nat /\ 2 < 4 /\ 2 + 1 = 3
    OBVIOUS
  <2>2. From(2 + 1, steps)
    BY <1>8, <2>1
  <2>3. QED
    BY ONLY <1>7, <1>8, <2>1, <2>2, ClimbsJoined
<1>10. pre \o steps = batchProgram(q.changes)
  BY <1>3, <1>5, <1>6 DEF batchProgram
<1>11. QED
  BY <1>9, <1>10

LEMMA EditClimbs ==
    ASSUME NEW q \in Request, q.kind = "edit", NEW y, NEW all
    PROVE  Climbs(y, 4, all, editProgram(q))
<1> DEFINE previous == {p \in Problem : binding[<<q.contest, p>>] # None}
           given == IF q.problems = None THEN {} ELSE q.problems
<1>1. /\ q.contest \in Contest /\ q.problems \in (SUBSET Problem) \cup {None}
      /\ IsFiniteSet(Problem) /\ Problem \subseteq Nat
  BY RequestFacts, EffectiveAssumption
<1>2. PICK S : S = previous \cup given
  OBVIOUS
<1>3. S \subseteq Problem /\ S \subseteq Nat /\ IsFiniteSet(S)
  <2>0. q.problems # None => q.problems \subseteq Problem
    BY <1>1
  <2>1. given \subseteq Problem /\ previous \subseteq Problem
    BY <2>0
  <2> HIDE DEF given, previous
  <2>2. S \subseteq Problem
    BY <1>2, <2>1
  <2>3. QED
    BY <1>1, <2>2, FS_Subset
<1>4. PICK locks : locks = Locks("problem", Ascending(S), "share")
  OBVIOUS
<1>5. Climbs(y, 1, all, locks)
  <2>1. \A p \in S : <<"problem", p>> \in Object
    BY <1>3 DEF Object
  <2>2. /\ "problem" \in {"problem", "contest"} /\ 1 \in Nat /\ 1 = TableLevel("problem")
        /\ "share" \in Mode
    BY LevelsOfTables DEF Mode
  <2>3. QED
    BY <1>3, <1>4, <2>1, <2>2, SortedClimbs
<1>6. PICK mine : mine = Lock("contest", q.contest, "update")
  OBVIOUS
<1>7. mine \in Op /\ Level(mine) = 2 /\ Covered(y, mine[2])
  <2>1. /\ <<"contest", q.contest>> \in Object /\ "update" \in Mode
        /\ "contest" \in {"problem", "contest"}
    BY <1>1 DEF Object, Mode
  <2>2. QED
    BY <1>6, <2>1, HostLock, LevelsOfTables
<1>8. PICK step : step = <<"edit">>
  OBVIOUS
<1>9. step \in Op /\ IsStep(step)
  BY <1>8, NamedStep
<1>10. PICK pre : pre = locks \o <<mine>>
  OBVIOUS
<1>11. 1 \in Nat /\ 2 \in Nat /\ 1 < 2 /\ 2 < 4
  OBVIOUS
<1>12. Climbs(y, 2, all, pre)
  BY ONLY <1>5, <1>7, <1>10, <1>11, ClimbsThen
<1>13. Climbs(y, 4, all, pre \o <<step>>)
  BY ONLY <1>9, <1>11, <1>12, ThenStep
<1>14. pre \o <<step>> = editProgram(q)
  <2>1. locks \o <<mine, step>> = (locks \o <<mine>>) \o <<step>>
    <3>1. locks \in Seq(Op)
      BY <1>5 DEF Climbs
    <3>2. QED
      BY <1>7, <1>9, <3>1, TwoLast
  <2>2. editProgram(q) = locks \o <<mine, step>>
    BY <1>2, <1>4, <1>6, <1>8 DEF editProgram
  <2>3. QED
    BY <1>10, <2>1, <2>2
<1>15. QED
  BY <1>13, <1>14

LEMMA BeginOrdered ==
    ASSUME IInv, OrderInv, NEW t \in Transaction, Begin(t)
    PROVE  OrderInv'
<1>1. DbTyped /\ DOMAIN tx = Transaction
  BY DbDomains DEF IInv
<1>20. PICK q \in requests : \E program \in Programs(q), seen \in Seen(q) :
          tx' = [tx EXCEPT ![t] = Open(q, program, seen)]
  BY DEF Begin
<1>2. PICK program \in Programs(q), seen \in Seen(q) :
          tx' = [tx EXCEPT ![t] = Open(q, program, seen)]
  BY <1>20
<1>3. q \in Request
  BY <1>1, <1>2 DEF DbTyped
<1>4. PICK y : y = Open(q, program, seen)
  OBVIOUS
<1>5. y.request = q /\ y.todo = program /\ y.held = {}
  BY <1>4, OpenRecord
<1>6. Asks(y, q)
  BY <1>5 DEF Asks
<1>7. q.kind \notin Unordered => Climbs(y, 4, q.kind \in OneRow, program)
  <2>1. q.kind \in {"result", "create", "remove", "change", "batch", "edit", "delete", "convert"}
    BY <1>3, RequestFacts
  <2>2. CASE q.kind = "result"
    BY <1>2, <1>3, <1>6, <2>2, ResultClimbs DEF Programs
  <2>3. CASE q.kind = "create"
    BY <1>2, <1>3, <2>3, CreateClimbs DEF Programs
  <2>4. CASE q.kind = "remove"
    BY <1>1, <1>2, <1>3, <1>6, <2>4, RemoveClimbs DEF Programs
  <2>5. CASE q.kind = "change"
    <3>1. PICK ch \in q.changes : program = changeProgram(ch)
      BY <1>2, <2>5 DEF Programs
    <3>2. QED
      BY <1>3, <2>5, <3>1, ChangeClimbs
  <2>6. CASE q.kind = "batch"
    <3>1. program = batchProgram(q.changes)
      BY <1>2, <2>6 DEF Programs
    <3>2. Climbs(y, 4, FALSE, program)
      BY <1>3, <2>6, <3>1, BatchClimbs
    <3>3. (q.kind \in OneRow) = FALSE
      BY <2>6 DEF OneRow
    <3>4. QED
      BY <3>2, <3>3
  <2>7. CASE q.kind = "edit"
    BY <1>2, <1>3, <2>7, EditClimbs DEF Programs
  <2>8. CASE q.kind \in {"delete", "convert"}
    BY <2>8 DEF Unordered
  <2>9. QED
    BY <2>1, <2>2, <2>3, <2>4, <2>5, <2>6, <2>7, <2>8
<1>8. Ordered(y)
  <2>1. SUFFICES ASSUME q.kind \notin Unordered
                 PROVE  InLine({}, program, q.kind \in OneRow) /\ LocksCovered(y, program)
    BY <1>5 DEF Ordered, HeldCovered
  <2>2. QED
    BY <1>7, <2>1 DEF Climbs
<1>9. tx' = [tx EXCEPT ![t] = tx'[t]] /\ tx'[t] = y
  BY <1>1, <1>2, <1>4
<1>10. QED
  BY <1>1, <1>8, <1>9, OrderKept

LEMMA InitOrdered == Init => OrderInv
BY DEF Init, OrderInv

LEMMA QuietOrdered ==
    ASSUME OrderInv, tx' = tx
    PROVE  OrderInv'
BY DEF OrderInv

LEMMA NextOrdered == IInv /\ OrderInv /\ [Next]_vars => OrderInv'
<1> SUFFICES ASSUME IInv, OrderInv, [Next]_vars
             PROVE  OrderInv'
  OBVIOUS
<1>1. CASE UNCHANGED vars \/ Tick
  BY <1>1, QuietOrdered DEF vars, Tick
<1>2. ASSUME NEW t \in Transaction, Begin(t) \/ Acquire(t) \/ ReadContest(t)
      PROVE  OrderInv'
  BY <1>2, BeginOrdered, AcquireOrdered, ReadContestOrdered
<1>3. ASSUME NEW t \in Transaction,
             applyAttemptResult(t) \/ createSubmission(t) \/ deleteSubmission(t)
      PROVE  OrderInv'
  BY <1>3, ResultOrdered, CreateOrdered, RemoveOrdered
<1>4. ASSUME NEW t \in Transaction,
             \/ setProblemPolicy(t) \/ setContestPolicy(t)
             \/ updateContest(t) \/ cascadeContest(t)
      PROVE  OrderInv'
  BY <1>4, ProblemPolicyOrdered, ContestPolicyOrdered, EditOrdered, CascadeOrdered
<1>5. ASSUME NEW t \in Transaction,
             tryRefresh(t) \/ refreshRankingsView(t) \/ scheduleRankingsRefresh(t)
      PROVE  OrderInv'
  BY <1>5, TryOrdered, RefreshOrdered, ScheduleOrdered
<1>6. ASSUME NEW t \in Transaction, Commit(t)
      PROVE  OrderInv'
  BY <1>6, CommitOrdered
<1>7. ASSUME NEW t \in Transaction, DeadlockAbort(t) \/ Crash(t)
      PROVE  OrderInv'
  BY <1>7, OrderClosed DEF IInv, DeadlockAbort, Crash
<1>8. QED
  BY <1>1, <1>2, <1>3, <1>4, <1>5, <1>6, <1>7 DEF Next

-----------------------------------------------------------------------------
(* Who waits for whom.                                                              *)

Wanted(t) == Head(tx[t].todo)

LEMMA WaitsFor ==
    ASSUME IInv, NEW t \in Transaction, NEW u \in Blocking(t)
    PROVE  /\ u \in Transaction /\ u # t /\ tx[t] # None /\ tx[u] # None
           /\ tx[t].todo \in Seq(Op) /\ tx[t].todo # <<>>
           /\ Wanted(t) \in LockOp
           /\ \E lock \in tx[u].held : /\ lock[1] = Wanted(t)[2]
                                       /\ "update" \in {lock[2], Wanted(t)[3]}
<1>1. /\ u \in Transaction /\ u # t /\ tx[u] # None /\ Running(t, "lock")
      /\ \E lock \in tx[u].held : /\ lock[1] = Wanted(t)[2]
                                  /\ "update" \in {lock[2], Wanted(t)[3]}
  BY DEF Blocking, Wanted
<1>2. tx[t] # None /\ tx[t].todo # <<>> /\ Head(tx[t].todo)[1] = "lock"
  BY <1>1 DEF Running
<1>3. tx[t].todo \in Seq(Op)
  BY <1>2 DEF IInv, TxOK, TxTyped
<1>4. Wanted(t) \in Op /\ Wanted(t)[1] = "lock"
  BY <1>2, <1>3 DEF Wanted
<1>5. Wanted(t) \in LockOp
  <2>1. \A op \in ChangeOp : op[1] = "change"
    BY DEF ChangeOp
  <2>2. ASSUME NEW op \in NamedOp
        PROVE  op[1] # "lock"
    <3>1. PICK name \in {"contest of row", "result", "create", "remove", "edit", "cascade",
                         "try", "refresh"} : op = <<name>>
      BY DEF NamedOp
    <3>2. QED
      BY <3>1
  <2>3. QED
    BY <1>4, <2>1, <2>2 DEF Op
<1>6. QED
  BY <1>1, <1>2, <1>3, <1>5

LEMMA WantedFacts ==
    ASSUME NEW op \in LockOp
    PROVE  /\ op[1] = "lock" /\ op[2] \in Object /\ op[3] \in Mode
           /\ Level(op) = TableLevel(op[2][1]) /\ Level(op) \in 1..6
           /\ op[2][1] \in {"problem", "contest", "submission", "revision of problem",
                            "revision of contest", "revision of all"}
           /\ IsHost(op) <=> op[2][1] \in {"problem", "contest"}
           /\ IsHost(op) => op[2][2] \in Nat
           /\ op[2][1] = "revision of all" => op[2] = <<"revision of all", 0>>
<1>1. op[1] = "lock" /\ op[2] \in Object /\ op[3] \in Mode
  BY DEF LockOp
<1>2. /\ op[2][1] \in {"problem", "contest", "submission", "revision of problem",
                       "revision of contest", "revision of all"}
      /\ op[2][1] = "problem" => op[2][2] \in Problem
      /\ op[2][1] = "contest" => op[2][2] \in Contest
      /\ op[2][1] = "revision of all" => op[2] = <<"revision of all", 0>>
  <2>1. PICK o \in Object : o = op[2]
    BY <1>1
  <2>2. CASE o \in {"problem", "revision of problem"} \X Problem
    BY <2>1, <2>2
  <2>3. CASE o \in {"contest", "revision of contest"} \X Contest
    BY <2>1, <2>3
  <2>4. CASE o \in {"submission"} \X Submission
    BY <2>1, <2>4
  <2>5. CASE o = <<"revision of all", 0>>
    <3>1. o[1] = "revision of all"
      BY ONLY <2>5
    <3>2. op[2][1] = "revision of all" /\ op[2] = <<"revision of all", 0>>
      BY ONLY <2>1, <2>5, <3>1
    <3>3. QED
      BY ONLY <3>2
  <2>6. QED
    BY <2>2, <2>3, <2>4, <2>5 DEF Object
<1>3. Level(op) = TableLevel(op[2][1]) /\ Level(op) \in 1..6
  BY <1>1, OpLevel DEF Level
<1>4. IsHost(op) <=> op[2][1] \in {"problem", "contest"}
  BY <1>1 DEF IsHost
<1>5. IsHost(op) => op[2][2] \in Nat
  BY <1>2, <1>4, EffectiveAssumption
<1>6. QED
  BY <1>1, <1>2, <1>3, <1>4, <1>5

LEMMA PrecedesOnce ==
    ASSUME NEW a \in LockOp
    PROVE  ~Precedes(a, a)
<1>1. Level(a) \in Nat /\ (IsHost(a) => a[2][2] \in Nat)
  BY WantedFacts, LevelNumber
<1>2. QED
  BY <1>1 DEF Precedes

LEMMA PrecedesOn ==
    ASSUME NEW a \in LockOp, NEW b \in LockOp, NEW c \in LockOp, Precedes(a, b), Precedes(b, c)
    PROVE  Precedes(a, c)
<1>1. /\ Level(a) \in Nat /\ Level(b) \in Nat /\ Level(c) \in Nat
      /\ (IsHost(a) => a[2][2] \in Nat) /\ (IsHost(b) => b[2][2] \in Nat)
      /\ (IsHost(c) => c[2][2] \in Nat)
  BY WantedFacts, LevelNumber
<1>2. QED
  BY <1>1 DEF Precedes

(* No cycle where everyone waits for someone whose wish comes later.                *)
LEMMA NoEndlessClimb ==
    ASSUME NEW D, IsFiniteSet(D), D # {}, NEW want, \A d \in D : want[d] \in LockOp,
           \A d \in D : \E e \in D : Precedes(want[d], want[e])
    PROVE  FALSE
<1> DEFINE Later(d) == {e \in D : Precedes(want[d], want[e])}
           T == {Later(d) : d \in D}
<1>1. T \subseteq SUBSET D /\ T # {}
  OBVIOUS
<1>2. PICK s \in T : \A u \in T : u \subseteq s => u = s
  <2> HIDE DEF T
  <2>1. QED
    BY <1>1, LeastSubset
<1>3. PICK d \in D : s = Later(d)
  OBVIOUS
<1>4. PICK e \in D : Precedes(want[d], want[e])
  OBVIOUS
<1>5. Later(e) \subseteq Later(d)
  BY <1>4, PrecedesOn
<1>6. e \in Later(d) /\ e \notin Later(e)
  BY <1>4, PrecedesOnce
<1>7. QED
  BY <1>2, <1>3, <1>5, <1>6

(* The lock that one holds and the other wants stands where the wish does.          *)
LEMMA SamePlace ==
    ASSUME NEW op \in LockOp, NEW lock, lock[1] = op[2], NEW v
    PROVE  Precedes(LockOf(lock), v) <=> Precedes(op, v)
<1>1. LockOf(lock)[1] = op[1] /\ LockOf(lock)[2] = op[2]
  BY WantedFacts DEF LockOf
<1>2. Level(LockOf(lock)) = Level(op) /\ (IsHost(LockOf(lock)) <=> IsHost(op))
  BY <1>1 DEF Level, IsHost
<1>3. QED
  BY <1>1, <1>2 DEF Precedes

(* What is locked in order comes after all that is held.                            *)
LEMMA HeldPrecede ==
    ASSUME NEW x, NEW todo \in Seq(Op), todo = x.todo, Ordered(x), x.request.kind \notin Unordered,
           NEW lock \in x.held, NEW j \in DOMAIN todo,
           IsHost(todo[j]) \/ x.request.kind \in OneRow
    PROVE  Precedes(LockOf(lock), todo[j])
<1>1. InLine(x.held, todo, x.request.kind \in OneRow)
  BY DEF Ordered
<1>2. QED
  BY <1>1 DEF InLine

LEMMA RowThere ==
    ASSUME IInv, NEW s \in Submission
    PROVE  /\ ProblemOf[s] \in Problem /\ row[s].contest \in Contest \cup {None}
           /\ row[s].contest # None => contest[row[s].contest].exists
BY EffectiveAssumption DEF IInv, DbTyped, RowTyped, RowsOK

LEMMA ChangerHosts ==
    ASSUME IInv, NEW u \in Transaction, tx[u] # None, tx[u].request.kind \in {"change", "batch"},
           NEW s \in DOMAIN tx[u].writes.shown
    PROVE  /\ s \in Submission
           /\ \E mode \in Mode : <<<<"problem", ProblemOf[s]>>, mode>> \in tx[u].held
           /\ \/ <<<<"problem", ProblemOf[s]>>, "update">> \in tx[u].held
              \/ /\ row[s].contest # None
                 /\ <<<<"contest", row[s].contest>>, "update">> \in tx[u].held
<1> DEFINE p == ProblemOf[s]
           c == row[s].contest
           q == tx[u].request
<1>1. TxOK(u) /\ BaseLocked(u) /\ ShownReady(u, s)
  BY DEF IInv, TxOK, ChangeReady
<1>2. s \in Submission
  BY <1>1 DEF ShownReady
<1>3. PICK ch \in q.changes : ch.problem = p /\ ch.contest \in {None, c}
  BY <1>1 DEF ShownReady
<1>4. Computed(tx[u].writes)
  <2>1. DOMAIN tx[u].writes.shown # {} /\ DOMAIN <<>> = {}
    OBVIOUS
  <2>2. QED
    BY <2>1 DEF Computed
<1>5. \A lock \in HostLocks(q.kind, ch) : Secured(u, lock)
  <2>1. BaseLocks(q) = UNION {HostLocks(q.kind, other) : other \in q.changes}
    BY DEF BaseLocks
  <2>2. QED
    BY <1>1, <1>3, <1>4, <2>1 DEF BaseLocked
<1>6. "problem" # "contest" /\ "share" \in Mode /\ "update" \in Mode
  BY DEF Mode
<1>7. CASE ch.contest = None
  <2>1. <<<<"problem", p>>, "update">> \in HostLocks(q.kind, ch)
    BY <1>3, <1>7 DEF HostLocks
  <2>2. Secured(u, <<<<"problem", p>>, "update">>)
    BY <1>5, <2>1
  <2>3. <<<<"problem", p>>, "update">> \in tx[u].held
    BY <1>6, <2>2, SecuredHeld
  <2>4. QED
    BY <1>2, <1>6, <2>3
<1>8. CASE ch.contest # None
  <2>1. ch.contest = c /\ c # None /\ contest[c].exists
    BY <1>2, <1>3, <1>8, RowThere
  <2>2. PICK mode \in Mode : <<<<"problem", p>>, mode>> \in HostLocks(q.kind, ch)
    BY <1>3, <1>6, <1>8 DEF HostLocks
  <2>3. Secured(u, <<<<"problem", p>>, mode>>)
    BY <1>5, <2>2
  <2>4. <<<<"problem", p>>, mode>> \in tx[u].held
    BY <1>6, <2>3, SecuredHeld
  <2>5. <<<<"contest", c>>, "update">> \in HostLocks(q.kind, ch)
    BY <1>8, <2>1 DEF HostLocks
  <2>6. Secured(u, <<<<"contest", c>>, "update">>)
    BY <1>5, <2>5
  <2>7. <<<<"contest", c>>, "update">> \in tx[u].held
    BY <2>1, <2>6, SecuredHeld
  <2>8. QED
    BY <1>2, <2>1, <2>4, <2>7
<1>9. QED
  BY <1>7, <1>8

(* With its row locked, a request for one row has nothing of its hosts to come.     *)
LEMMA NothingAhead ==
    ASSUME IInv, NEW u \in Transaction, tx[u] # None, Ordered(tx[u]),
           tx[u].request.kind \in {"result", "remove"},
           NEW lock \in tx[u].held, lock[1][1] = "submission", NEW op, Level(op) < 3
    PROVE  ~Ahead(u, op)
<1> SUFFICES ASSUME Ahead(u, op)
             PROVE  FALSE
  OBVIOUS
<1>1. PICK i \in DOMAIN tx[u].todo : tx[u].todo[i] = op
  BY DEF Ahead
<1>2. PICK todo : todo = tx[u].todo
  OBVIOUS
<1>3. todo \in Seq(Op)
  BY <1>2 DEF IInv, TxOK, TxTyped
<1>4. PICK x : x = tx[u]
  OBVIOUS
<1>5. x.request.kind \in OneRow /\ x.request.kind \notin Unordered
  BY <1>4 DEF OneRow, Unordered
<1>6. Precedes(LockOf(lock), op)
  BY <1>1, <1>2, <1>3, <1>4, <1>5, HeldPrecede
<1>7. Level(LockOf(lock)) = 3 /\ Level(op) \in Nat
  <2>1. LockOf(lock)[1] = "lock" /\ LockOf(lock)[2] = lock[1]
    BY DEF LockOf
  <2>2. TableLevel("submission") = 3
    BY TableLevels
  <2>3. QED
    BY <2>1, <2>2, LevelNumber DEF Level
<1>8. QED
  BY <1>6, <1>7 DEF Precedes

LEMMA RowHosts ==
    ASSUME IInv, NEW u \in Transaction, tx[u] # None, Ordered(tx[u]),
           tx[u].request.kind \in {"result", "remove"},
           NEW lock \in tx[u].held, NEW s \in Submission,
           lock[1] = <<"submission", s>>, s = tx[u].request.submission
    PROVE  /\ <<<<"problem", ProblemOf[s]>>, "share">> \in tx[u].held
           /\ row[s].contest # None => <<<<"contest", row[s].contest>>, "share">> \in tx[u].held
<1> DEFINE p == ProblemOf[s]
           c == row[s].contest
           q == tx[u].request
<1>1. BaseLocked(u) /\ RowContestLocked(u)
  BY DEF IInv, TxOK
<1>2. lock[1][1] = "submission" /\ "problem" # "contest"
  OBVIOUS
<1>3. \A op : Level(op) < 3 => ~Ahead(u, op)
  BY <1>2, NothingAhead
<1>4. \A table, id, mode : table \in {"problem", "contest"}
        => ~Ahead(u, <<"lock", <<table, id>>, mode>>)
  <2>1. SUFFICES ASSUME NEW table \in {"problem", "contest"}, NEW id, NEW mode
                 PROVE  Level(Lock(table, id, mode)) < 3
    BY <1>3 DEF Lock
  <2>2. Level(Lock(table, id, mode)) = TableLevel(table)
    BY LockLevel
  <2>3. TableLevel(table) \in {1, 2}
    BY <2>1, TableLevels
  <2>4. Level(Lock(table, id, mode)) \in {1, 2}
    BY ONLY <2>2, <2>3
  <2>5. QED
    BY ONLY <2>4
<1>5. <<<<"problem", p>>, "share">> \in tx[u].held
  <2>1. <<<<"problem", p>>, "share">> \in BaseLocks(q)
    BY DEF BaseLocks
  <2>2. ~Untried(u)
    BY DEF Untried
  <2>3. Planned(u, <<<<"problem", p>>, "share">>)
    BY <1>1, <2>1, <2>2 DEF BaseLocked
  <2>4. ~Ahead(u, <<"lock", <<"problem", p>>, "share">>)
    BY <1>4
  <2>5. Secured(u, <<<<"problem", p>>, "share">>)
    BY <2>3, <2>4 DEF Planned
  <2>6. QED
    BY <1>2, <2>5, SecuredHeld
<1>6. ASSUME c # None
      PROVE  <<<<"contest", c>>, "share">> \in tx[u].held
  <2>1. \/ Planned(u, <<<<"contest", c>>, "share">>)
        \/ Ahead(u, <<"contest of row">>)
    BY <1>1, <1>6 DEF RowContestLocked
  <2>2. ~Ahead(u, <<"contest of row">>)
    <3>1. <<"contest of row">>[1] = "contest of row"
      OBVIOUS
    <3>2. Level(<<"contest of row">>) = 2
      BY <3>1, OpLevel
    <3>3. 2 < 3
      OBVIOUS
    <3>4. Level(<<"contest of row">>) < 3
      BY ONLY <3>2, <3>3
    <3>5. QED
      BY ONLY <1>3, <3>4
  <2>3. ~Ahead(u, <<"lock", <<"contest", c>>, "share">>)
    BY <1>4
  <2>4. Secured(u, <<<<"contest", c>>, "share">>)
    BY <2>1, <2>2, <2>3 DEF Planned
  <2>5. contest[c].exists
    BY <1>6, RowThere
  <2>6. QED
    BY <2>4, <2>5, SecuredHeld
<1>7. QED
  BY <1>5, <1>6

(* What two transactions hold of the same object they share.                        *)
LEMMA Shared ==
    ASSUME IInv, NEW t \in Transaction, NEW u \in Transaction, t # u, tx[t] # None, tx[u] # None,
           NEW o, NEW mine, NEW theirs, <<o, mine>> \in tx[t].held, <<o, theirs>> \in tx[u].held
    PROVE  mine = "share" /\ theirs = "share"
<1>1. PICK a : a = <<o, mine>>
  OBVIOUS
<1>2. PICK b : b = <<o, theirs>>
  OBVIOUS
<1>3. a[1] = b[1] /\ a[2] = mine /\ b[2] = theirs
  BY <1>1, <1>2
<1>4. QED
  BY <1>1, <1>2, <1>3 DEF IInv, Exclusive

(* What is covered by whom; a request for one row locks no row but its own.         *)
LEMMA RowCovered ==
    ASSUME NEW x, NEW s, NEW o, o = <<"submission", s>>, Covered(x, o)
    PROVE  \/ x.request.kind \in {"result", "remove"} /\ s = x.request.submission
           \/ x.request.kind \in {"change", "batch"} /\ s \in DOMAIN x.writes.shown
<1>1. o[1] = "submission" /\ o[2] = s
  OBVIOUS
<1>2. QED
  BY <1>1 DEF Covered

(* Nobody else has locked the row that a policy change is to project.               *)
LEMMA NoRowWait ==
    ASSUME IInv, NEW u \in Transaction, NEW v \in Transaction, u # v, tx[u] # None, tx[v] # None,
           Ordered(tx[v]), tx[v].request.kind \notin Unordered,
           tx[u].request.kind \in {"change", "batch"}, NEW s \in DOMAIN tx[u].writes.shown,
           NEW lock \in tx[v].held, lock[1] = <<"submission", s>>
    PROVE  FALSE
<1> DEFINE p == ProblemOf[s]
           c == row[s].contest
<1>1. /\ s \in Submission
      /\ \E mode \in Mode : <<<<"problem", p>>, mode>> \in tx[u].held
      /\ \/ <<<<"problem", p>>, "update">> \in tx[u].held
         \/ c # None /\ <<<<"contest", c>>, "update">> \in tx[u].held
  BY ChangerHosts
<1>2. PICK x : x = tx[v]
  OBVIOUS
<1>3. Covered(x, lock[1])
  BY <1>2 DEF Ordered, HeldCovered
<1>4. \/ x.request.kind \in {"result", "remove"} /\ s = x.request.submission
      \/ x.request.kind \in {"change", "batch"} /\ s \in DOMAIN x.writes.shown
  BY <1>3, RowCovered
<1>5. "share" # "update"
  OBVIOUS
<1>6. CASE x.request.kind \in {"result", "remove"} /\ s = x.request.submission
  <2>1. /\ <<<<"problem", p>>, "share">> \in tx[v].held
        /\ c # None => <<<<"contest", c>>, "share">> \in tx[v].held
    BY <1>1, <1>2, <1>6, RowHosts
  <2>2. QED
    BY <1>1, <1>5, <2>1, Shared
<1>7. CASE x.request.kind \in {"change", "batch"} /\ s \in DOMAIN x.writes.shown
  <2>1. /\ \E mode \in Mode : <<<<"problem", p>>, mode>> \in tx[v].held
        /\ \/ <<<<"problem", p>>, "update">> \in tx[v].held
           \/ c # None /\ <<<<"contest", c>>, "update">> \in tx[v].held
    BY <1>2, <1>7, ChangerHosts
  <2>2. PICK mode \in Mode : <<<<"problem", p>>, mode>> \in tx[u].held
    BY <1>1
  <2>3. PICK other \in Mode : <<<<"problem", p>>, other>> \in tx[v].held
    BY <2>1
  <2>4. <<<<"problem", p>>, "update">> \notin tx[u].held
    BY <1>5, <2>3, Shared
  <2>5. <<<<"problem", p>>, "update">> \notin tx[v].held
    BY <1>5, <2>2, Shared
  <2>6. /\ <<<<"contest", c>>, "update">> \in tx[u].held
        /\ <<<<"contest", c>>, "update">> \in tx[v].held
    BY <1>1, <2>1, <2>4, <2>5
  <2>7. QED
    BY <1>5, <2>6, Shared
<1>8. QED
  BY <1>4, <1>6, <1>7

(* Nobody else has locked the revision of a host that a change has locked.          *)
LEMMA NoRevisionWait ==
    ASSUME IInv, NEW u \in Transaction, NEW v \in Transaction, u # v, tx[u] # None, tx[v] # None,
           NEW host, Hosted(tx[u], host), Hosted(tx[v], host), tx[u].request.kind \notin OneRow
    PROVE  FALSE
<1>1. <<host, "update">> \in tx[u].held
  BY DEF Hosted
<1>2. <<host, "update">> \in tx[v].held \/ <<host, "share">> \in tx[v].held
  BY DEF Hosted
<1>3. QED
  BY <1>1, <1>2, Shared

(* A change, an edit or a refresh waits, besides hosts, for the last revision only.  *)
LEMMA WaitsAtTheEnd ==
    ASSUME IInv, OrderInv, NEW u \in Transaction, NEW v \in Blocking(u),
           tx[u].request.kind \notin Unordered, tx[u].request.kind \notin OneRow,
           tx[v].request.kind \notin Unordered, ~IsHost(Wanted(u))
    PROVE  Wanted(u)[2][1] = "revision of all" /\ \A lock \in tx[u].held : lock[1] # Wanted(u)[2]
<1> DEFINE op == Wanted(u)
<1>1. /\ v \in Transaction /\ v # u /\ tx[u] # None /\ tx[v] # None
      /\ tx[u].todo \in Seq(Op) /\ tx[u].todo # <<>> /\ op \in LockOp
  BY WaitsFor
<1>2. PICK lock \in tx[v].held : lock[1] = op[2]
  BY WaitsFor
<1>3. Ordered(tx[u]) /\ Ordered(tx[v])
  BY <1>1 DEF OrderInv
<1>4. /\ op[2][1] \in {"problem", "contest", "submission", "revision of problem",
                       "revision of contest", "revision of all"}
      /\ op[2][1] \notin {"problem", "contest"} /\ op[1] = "lock"
      /\ op[2][1] = "revision of all" => op[2] = <<"revision of all", 0>>
      /\ op[2] \in Object
  <2> HIDE DEF op
  <2>1. ~IsHost(op)
    BY DEF op
  <2>2. QED
    BY <1>1, <2>1, WantedFacts
<1>5. Covered(tx[u], op[2])
  <2>1. 1 \in DOMAIN tx[u].todo /\ tx[u].todo[1] = op
    BY <1>1 DEF Wanted
  <2>2. LocksCovered(tx[u], tx[u].todo)
    BY <1>3 DEF Ordered
  <2>3. QED
    BY <1>4, <2>1, <2>2 DEF LocksCovered
<1>6. Covered(tx[v], op[2]) /\ (op[2][1] = "revision of all" => lock[2] = "update")
  BY <1>2, <1>3 DEF Ordered, HeldCovered
<1>7. PICK o : o = op[2]
  OBVIOUS
<1> HIDE DEF op
<1>8. o[1] # "submission"
  <2>1. SUFFICES ASSUME o[1] = "submission"
                 PROVE  FALSE
    OBVIOUS
  <2>2. PICK s : o = <<"submission", s>>
    <3>1. o = <<o[1], o[2]>>
      BY <1>4, <1>7, ObjectFacts
    <3>2. QED
      BY <2>1, <3>1
  <2>3. tx[u].request.kind \in {"change", "batch"} /\ s \in DOMAIN tx[u].writes.shown
    <3>1. \/ tx[u].request.kind \in {"result", "remove"} /\ s = tx[u].request.submission
          \/ tx[u].request.kind \in {"change", "batch"} /\ s \in DOMAIN tx[u].writes.shown
      BY <1>5, <1>7, <2>2, RowCovered
    <3>2. QED
      BY <3>1 DEF OneRow
  <2>4. lock[1] = <<"submission", s>>
    BY <1>2, <1>7, <2>2
  <2>5. QED
    BY <1>1, <1>3, <2>3, <2>4, NoRowWait
<1>9. o[1] \notin {"revision of problem", "revision of contest"}
  <2>1. /\ o[1] = "revision of problem" =>
              Hosted(tx[u], <<"problem", o[2]>>) /\ Hosted(tx[v], <<"problem", o[2]>>)
        /\ o[1] = "revision of contest" =>
              Hosted(tx[u], <<"contest", o[2]>>) /\ Hosted(tx[v], <<"contest", o[2]>>)
    BY <1>5, <1>6, <1>7 DEF Covered
  <2>2. QED
    BY <1>1, <2>1, NoRevisionWait
<1>10. o[1] = "revision of all"
  BY <1>4, <1>7, <1>8, <1>9
<1>11. ASSUME NEW mine \in tx[u].held, mine[1] = o
       PROVE  FALSE
  <2>1. mine[2] = "update"
    BY <1>3, <1>10, <1>11 DEF Ordered, HeldCovered
  <2>2. lock[2] = "update" /\ lock[1] = mine[1]
    BY <1>2, <1>6, <1>7, <1>10, <1>11
  <2>3. "update" # "share"
    OBVIOUS
  <2>4. QED
    BY <1>1, <2>1, <2>2, <2>3 DEF IInv, Exclusive
<1>12. QED
  BY <1>7, <1>10, <1>11 DEF op

(* Who waits wants something before what the one it waits for wants.                *)
LEMMA WishesClimb ==
    ASSUME IInv, OrderInv, NEW t \in Transaction, NEW u \in Blocking(t), NEW v \in Blocking(u),
           tx[u].request.kind \notin Unordered, tx[v].request.kind \notin Unordered
    PROVE  Precedes(Wanted(t), Wanted(u))
<1>1. /\ u \in Transaction /\ tx[u] # None /\ Wanted(t) \in LockOp
      /\ \E lock \in tx[u].held : lock[1] = Wanted(t)[2]
  BY WaitsFor
<1>2. /\ v \in Transaction /\ tx[u].todo \in Seq(Op) /\ tx[u].todo # <<>>
      /\ Wanted(u) \in LockOp
  BY <1>1, WaitsFor
<1>3. PICK lock \in tx[u].held : lock[1] = Wanted(t)[2]
  BY <1>1
<1>4. PICK a : a = Wanted(t)
  OBVIOUS
<1>5. PICK b : b = Wanted(u)
  OBVIOUS
<1>6. CASE IsHost(b) \/ tx[u].request.kind \in OneRow
  <2>1. PICK todo : todo = tx[u].todo
    OBVIOUS
  <2>2. todo \in Seq(Op) /\ 1 \in DOMAIN todo /\ todo[1] = b
    BY <1>2, <1>5, <2>1 DEF Wanted
  <2>3. PICK x : x = tx[u]
    OBVIOUS
  <2>4. Ordered(x)
    BY <1>1, <2>3 DEF OrderInv
  <2>5. Precedes(LockOf(lock), todo[1])
    BY <1>3, <1>6, <2>1, <2>2, <2>3, <2>4, HeldPrecede
  <2>6. QED
    BY <1>1, <1>3, <1>4, <1>5, <2>2, <2>5, SamePlace
<1>7. CASE ~IsHost(b) /\ tx[u].request.kind \notin OneRow
  <2>1. b[2][1] = "revision of all" /\ lock[1] # b[2]
    BY <1>1, <1>3, <1>5, <1>7, WaitsAtTheEnd
  <2>2. a \in LockOp /\ b \in LockOp
    BY <1>1, <1>2, <1>4, <1>5
  <2>3. a[2][1] # "revision of all"
    <3>1. a[2][1] = "revision of all" => a[2] = <<"revision of all", 0>>
      BY <2>2, WantedFacts
    <3>2. b[2] = <<"revision of all", 0>>
      BY <2>1, <2>2, WantedFacts
    <3>3. a[2] # b[2]
      BY <1>3, <1>4, <2>1
    <3>4. QED
      BY <3>1, <3>2, <3>3
  <2>4. Level(b) = 6
    BY <2>1, <2>2, WantedFacts, TableLevels
  <2>5. Level(a) \in 1..5
    <3>1. /\ a[2][1] \in {"problem", "contest", "submission", "revision of problem",
                          "revision of contest"}
          /\ Level(a) = TableLevel(a[2][1])
      BY <2>2, <2>3, WantedFacts
    <3>2. \A table \in {"problem", "contest", "submission", "revision of problem",
                        "revision of contest"} : TableLevel(table) \in 1..5
      <4>1. 1 \in 1..5 /\ 2 \in 1..5 /\ 3 \in 1..5 /\ 4 \in 1..5 /\ 5 \in 1..5
        OBVIOUS
      <4>2. QED
        BY ONLY <4>1, TableLevels
    <3>3. QED
      BY ONLY <3>1, <3>2
  <2>6. QED
    BY <1>4, <1>5, <2>4, <2>5 DEF Precedes
<1>8. QED
  BY <1>6, <1>7

LEMMA OrderBreaksCycles == IInv /\ OrderInv => LockOrder
<1> SUFFICES ASSUME IInv, OrderInv, NEW D \in (SUBSET Transaction) \ {{}}, Cycle(D),
                    \A t \in D : tx[t].request.kind \notin Unordered
             PROVE  FALSE
  BY DEF LockOrder, Unordered
<1>1. IsFiniteSet(D)
  BY EffectiveAssumption, FS_Subset
<1>2. PICK want : want = [t \in D |-> Wanted(t)]
  OBVIOUS
<1>3. \A t \in D : \E u \in D : u \in Blocking(t)
  BY DEF Cycle
<1>4. ASSUME NEW t \in D
      PROVE  want[t] \in LockOp /\ \E u \in D : Precedes(want[t], want[u])
  <2>1. PICK u \in D : u \in Blocking(t)
    BY <1>3
  <2>2. PICK v \in D : v \in Blocking(u)
    BY <1>3
  <2>3. Wanted(t) \in LockOp
    BY <2>1, WaitsFor
  <2>4. Precedes(Wanted(t), Wanted(u))
    BY <2>1, <2>2, WishesClimb
  <2>5. QED
    BY <1>2, <2>3, <2>4
<1>5. QED
  BY <1>1, <1>4, NoEndlessClimb

\* Problems, contests, rows and revisions are locked in one order: transactions that
\* wait for each other in a cycle include a deletion of a contest or a conversion.
THEOREM LocksInOrder == Spec => []LockOrder
<1>1. Init => IInv /\ OrderInv
  BY InitInv, InitOrdered
<1>2. IInv /\ OrderInv /\ [Next]_vars => (IInv /\ OrderInv)'
  BY NextInv, NextOrdered
<1>3. IInv /\ OrderInv => LockOrder
  BY OrderBreaksCycles
<1>4. QED
  BY <1>1, <1>2, <1>3, PTL DEF Spec
=====================================================================================
