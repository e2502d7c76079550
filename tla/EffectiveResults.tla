----------------------------- MODULE EffectiveResults -----------------------------
(* The effective results of submissions and the ranking built on them.               *)
(*                                                                                    *)
(* A submission may have one current graded result per version of its problem. What   *)
(* counts is a projection stored in its row: the results that the policy of the       *)
(* problem accepts, and a second selection by the policy of its contest. Results,     *)
(* new submissions, policy changes, pinned versions, edits and deletions of contests  *)
(* all write it, or what it depends on, in PostgreSQL transactions that run side by   *)
(* side; a materialized view holds the ranking until its revision, or the end of a    *)
(* contest, says that it is behind.                                                   *)
(*                                                                                    *)
(* Isolation is READ COMMITTED: every statement reads what is committed, and what its *)
(* own transaction wrote. A transaction is a list of operations still "todo": row     *)
(* locks, which wait for each other, and steps that read and compute. Its writes stay *)
(* in "writes" until it commits; a rollback drops them, and either frees its locks.   *)
EXTENDS Naturals, FiniteSets, SequencesExt

CONSTANTS
    Problem, Contest,   \* IDs that the lock order sorts
    Submission, Version, Transaction,
    ProblemOf,          \* the problem of each submission
    InitialRows,        \* the contest, or None, of the submissions there from the start
    InitialBindings,    \* the pairs <<contest, problem>> there from the start
    Latest,             \* latest published version of each problem
    Request,            \* what users, administrators and judges may ask for
    AnyVersion, None,          \* the policy that accepts every version; no value
    MaxRequests, MaxTime

Policy == Version \cup {AnyVersion}
PolicyRow == [policy : Policy, revision : Nat]
Binding == [policy : Policy, pinned : Version, revision : Nat]
Result == [version : Version, sequence : Nat, score : Nat, accepted : BOOLEAN]

(* A change of the policy of a problem, or of a contest, which may upgrade the pinned  *)
(* version.                                                                            *)
Change == [problem : Problem, contest : {None}, policy : Policy, pinned : {None}]
          \cup [problem : Problem, contest : Contest, policy : Policy \cup {None},
                pinned : Version \cup {None}]

Requests ==
    [kind : {"result"}, submission : Submission, result : Result]
    \cup [kind : {"create"}, submission : Submission, contest : Contest \cup {None},
          version : Version]
    \cup [kind : {"remove"}, submission : Submission]
    \cup {q \in [kind : {"change", "batch"}, changes : SUBSET Change] :
             /\ IsFiniteSet(q.changes)
             /\ q.kind = "change" => Cardinality(q.changes) = 1}
    \cup [kind : {"edit"}, contest : Contest, end : Nat \cup {None},
          affects : BOOLEAN \cup {None}, problems : (SUBSET Problem) \cup {None}]
    \cup [kind : {"delete"}, contest : Contest]
    \cup [kind : {"convert"}, problems : SUBSET Problem]

ASSUME EffectiveAssumption ==
    /\ Problem \subseteq Nat /\ Contest \subseteq Nat \ {0}
    /\ \A S \in {Problem, Contest, Submission, Transaction} : IsFiniteSet(S)
    /\ ProblemOf \in [Submission -> Problem] /\ Latest \in [Problem -> Version]
    /\ DOMAIN InitialRows \subseteq Submission
    /\ \A s \in DOMAIN InitialRows : InitialRows[s] \in Contest \cup {None}
    /\ InitialBindings \subseteq Contest \X Problem
    /\ \A q \in Request : q \in Requests
    /\ None \notin Nat /\ None \notin Policy /\ None \notin PolicyRow \cup Binding
    /\ AnyVersion \notin Version
    /\ MaxTime \in Nat

VARIABLES
    policy,         \* problems: effective policy and its revision
    binding,        \* contest_problems: policy, pinned version and revision, or None
    contest,        \* contests: end_time, affect_global_ranking
    row,            \* submissions, their current results and their projection
    data,           \* data_revision of the scope "global"
    view,           \* user_rankings with its materialized_revision and materialized_at
    now,            \* the clock of the database
    unannounced,    \* history: a contest was deleted and "global" not raised since
    tx,             \* open transactions, None when there is none
    requests        \* the requests that nobody has made yet

vars == <<policy, binding, contest, row, data, view, now, unannounced, tx, requests>>
committed == <<policy, binding, contest, row, data, view, unannounced>>

Pair == Contest \X Problem
NoWrites == [policy |-> <<>>, binding |-> <<>>, contest |-> <<>>, shown |-> <<>>,
             view |-> None, bumps |-> 0]

(* The function f where it is defined, g elsewhere: writes over what is committed.    *)
Over(f, g) == [x \in DOMAIN f \cup DOMAIN g |-> IF x \in DOMAIN f THEN f[x] ELSE g[x]]
Only(x, y) == [z \in {x} |-> y]

-----------------------------------------------------------------------------
(* What is selected, shown and ranked.                                            *)

Accepts(pol, version) == pol \in {AnyVersion, version}

(* The sequences of the effective and of the accepted attempt, 0 for none: the best  *)
(* score, the earliest of equals; and the earliest accepted one, whatever its score. *)
Selection(results, pol) ==
    LET candidates == {r \in results : Accepts(pol, r.version)}
        best == {r \in candidates : \A other \in candidates : r.score >= other.score}
        First(S) == IF S = {} THEN 0
                    ELSE CHOOSE n \in {r.sequence : r \in S} : \A r \in S : n <= r.sequence
    IN  [effective |-> First(best), accepted |-> First({r \in candidates : r.accepted})]

NothingSelected == [effective |-> 0, accepted |-> 0]

(* The projection of a row from its results, the policy of the problem and the       *)
(* binding of its contest, None outside of contests.                                 *)
Projection(results, pol, bound) ==
    [global |-> Selection(results, pol.policy),
     globalRevision |-> pol.revision,
     contest |-> IF bound = None THEN NothingSelected ELSE Selection(results, bound.policy),
     contestRevision |-> IF bound = None THEN None ELSE bound.revision]

Upsert(results, r) == {old \in results : old.version # r.version} \cup {r}

(* The rows the ranking counts, and what it reads of them: those of no contest and   *)
(* those of contests that count globally and have ended.                             *)
Standing(rows, contests, time) ==
    {<<s, rows[s].shown.global.effective > 0, rows[s].shown.global.accepted > 0>> :
        s \in {s \in Submission :
                 /\ rows[s].exists
                 /\ \/ rows[s].contest = None
                    \/ /\ contests[rows[s].contest].affects
                       /\ contests[rows[s].contest].end <= time}}

(* Readers take the view only if its revision covers the data and no contest that    *)
(* counts has ended since it was built.                                              *)
Trusted ==
    /\ view.revision >= data
    /\ ~\E c \in Contest : /\ contest[c].exists /\ contest[c].affects
                           /\ view.at < contest[c].end /\ contest[c].end <= now

-----------------------------------------------------------------------------
(* Locks and operations.                                                           *)

Lock(table, id, mode) == <<"lock", <<table, id>>, mode>>
Locks(table, ids, mode) == [i \in DOMAIN ids |-> Lock(table, ids[i], mode)]
Ascending(S) == CHOOSE seq \in SetToSeqs(S) :
                    \A i, j \in DOMAIN seq : i < j => seq[i] < seq[j]

\* Mutant: contests before problems.
lockContestsFirst(problems, contests, problemMode, contestMode) ==
    Locks("contest", Ascending(contests), contestMode)
        \o Locks("problem", Ascending(problems), problemMode)

lockEffectivePolicyHosts(problems, contests, problemMode, contestMode) ==
    Locks("problem", Ascending(problems), problemMode)
        \o Locks("contest", Ascending(contests), contestMode)

bumpGlobal == <<Lock("revision of all", 0, "update")>>
bumpContest(c) == IF c = None THEN <<>> ELSE <<Lock("revision of contest", c, "update")>>
bumpProblem(p) == <<Lock("revision of problem", p, "update")>>

(* The changes of a batch, by problem and then by contest, those of none first.      *)
InOrder(changes) ==
    LET Key(c) == IF c = None THEN 0 ELSE c
        Before(a, b) == \/ a.problem < b.problem
                        \/ a.problem = b.problem /\ Key(a.contest) < Key(b.contest)
    IN  CHOOSE seq \in SetToSeqs(changes) :
            \A i, j \in DOMAIN seq : i < j => ~Before(seq[j], seq[i])

\* Mutant: the problem is not locked.
resultUnlocked(q) ==
    <<<<"contest of row">>, Lock("submission", q.submission, "update"), <<"result">>>>

resultProgram(q) ==
    <<Lock("problem", ProblemOf[q.submission], "share"), <<"contest of row">>,
      Lock("submission", q.submission, "update"), <<"result">>>>

\* Mutant: the contest is not locked.
createUnlocked(q) == <<Lock("problem", ProblemOf[q.submission], "share"), <<"create">>>>

lockProjectionHosts(p, c) ==
    <<Lock("problem", p, "share")>>
        \o (IF c = None THEN <<>> ELSE <<Lock("contest", c, "share")>>)

createProgram(q) == lockProjectionHosts(ProblemOf[q.submission], q.contest) \o <<<<"create">>>>

(* The contest of a submission to delete is read before any lock is held.            *)
removeProgram(q) ==
    lockProjectionHosts(ProblemOf[q.submission], row[q.submission].contest)
        \o <<Lock("submission", q.submission, "update"), <<"remove">>>>

\* Mutant: the contest is locked for reading only.
changeShared(change) ==
    (IF change.contest = None
     THEN <<Lock("problem", change.problem, "update")>>
     ELSE lockEffectivePolicyHosts({change.problem}, {change.contest}, "share", "share"))
        \o <<<<"change", change>>>>

changeProgram(change) ==
    (IF change.contest = None
     THEN <<Lock("problem", change.problem, "update")>>
     ELSE lockEffectivePolicyHosts({change.problem}, {change.contest}, "share", "update"))
        \o <<<<"change", change>>>>

batchProgram(changes) ==
    LET ordered == InOrder(changes)
    IN  lockEffectivePolicyHosts({ch.problem : ch \in changes},
            {ch.contest : ch \in changes} \ {None}, "update", "update")
            \o [i \in DOMAIN ordered |-> <<"change", ordered[i]>>]

(* The problems to lock are read before any lock is held.                            *)
editProgram(q) ==
    LET previous == {p \in Problem : binding[<<q.contest, p>>] # None}
        given == IF q.problems = None THEN {} ELSE q.problems
    IN  Locks("problem", Ascending(previous \cup given), "share")
            \o <<Lock("contest", q.contest, "update"), <<"edit">>>>

(* The rows of a conversion are locked in the order the database finds them.         *)
Programs(q) ==
    CASE q.kind = "result" -> {resultProgram(q)}
      [] q.kind = "create" -> {createProgram(q)}
      [] q.kind = "remove" -> {removeProgram(q)}
      [] q.kind = "change" -> {changeProgram(ch) : ch \in q.changes}
      [] q.kind = "batch" -> {batchProgram(q.changes)}
      [] q.kind = "edit" -> {editProgram(q)}
      [] q.kind = "delete" -> {<<Lock("contest", q.contest, "update"), <<"cascade">>>>}
      [] q.kind = "convert" -> {Locks("problem", ids, "update") : ids \in SetToSeqs(q.problems)}

Open(q, program, seen) ==
    [request |-> q, todo |-> program, held |-> {}, seen |-> seen, writes |-> NoWrites,
     start |-> now]

Refresh == Open([kind |-> "refresh"], <<<<"try">>>>, <<>>)

Running(t, operation) ==
    /\ tx[t] # None
    /\ tx[t].todo # <<>>
    /\ Head(tx[t].todo)[1] = operation

(* Replaces the current operation by others, with more writes.                       *)
Continue(t, operations, writes) ==
    tx' = [tx EXCEPT ![t].todo = operations \o Tail(@), ![t].writes = writes]

Close(t) == tx' = [tx EXCEPT ![t] = None]

(* The transactions whose locks t waits for.                                         *)
Blocking(t) ==
    {u \in Transaction \ {t} :
        /\ Running(t, "lock") /\ tx[u] # None
        /\ LET wanted == Head(tx[t].todo)
           IN  \E lock \in tx[u].held : /\ lock[1] = wanted[2]
                                        /\ "update" \in {lock[2], wanted[3]}}

-----------------------------------------------------------------------------
TypeOK ==
    /\ \A p \in Problem : policy[p] \in PolicyRow
    /\ \A pair \in Pair : \/ binding[pair] = None
                          \/ contest[pair[1]].exists /\ binding[pair] \in Binding
    /\ \A s \in Submission :
          /\ row[s].contest = None \/ contest[row[s].contest].exists
          /\ \A r1, r2 \in row[s].results : r1.version = r2.version => r1 = r2
    /\ \A t \in Transaction : tx[t] # None => \A lock \in tx[t].held :
          \A u \in Transaction \ {t} : tx[u] # None =>
              \A other \in tx[u].held :
                  lock[1] = other[1] => lock[2] = "share" /\ other[2] = "share"

NewRow(s, there, c) ==
    [exists |-> there, contest |-> c, version |-> Latest[ProblemOf[s]], results |-> {},
     shown |-> [global |-> NothingSelected, globalRevision |-> 0,
                contest |-> NothingSelected, contestRevision |-> None]]

(* A state in service: no result yet, and a view just built.                         *)
Init ==
    /\ policy = [p \in Problem |-> [policy |-> AnyVersion, revision |-> 0]]
    /\ binding = [pair \in Pair |->
          IF pair \in InitialBindings
          THEN [policy |-> AnyVersion, pinned |-> Latest[pair[2]], revision |-> 0] ELSE None]
    /\ contest = [c \in Contest |-> [exists |-> TRUE, end |-> MaxTime, affects |-> TRUE]]
    /\ row = [s \in Submission |->
          IF s \in DOMAIN InitialRows THEN NewRow(s, TRUE, InitialRows[s])
          ELSE NewRow(s, FALSE, None)]
    /\ data = 1
    /\ view = [revision |-> 1, at |-> 0, content |-> Standing(row, contest, 0)]
    /\ now = 0
    /\ unannounced = FALSE
    /\ tx = [t \in Transaction |-> None]
    /\ requests = Request

-----------------------------------------------------------------------------
(* What a policy change replaces.                                                    *)
Host(change) == IF change.contest = None THEN policy[change.problem]
                ELSE binding[<<change.contest, change.problem>>]

(* A result comes for the active attempt of a row: later than those it has, one at a *)
(* time. A submission has an ID of its own; a contest or a policy was found before.  *)
Possible(q) ==
    CASE q.kind = "result" ->
            /\ row[q.submission].exists
            /\ \A r \in row[q.submission].results : r.sequence < q.result.sequence
            /\ \A u \in Transaction : tx[u] # None /\ tx[u].request.kind = "result"
                                         => tx[u].request.submission # q.submission
      [] q.kind = "create" ->
            /\ q.submission \notin DOMAIN InitialRows
            /\ \A other \in Request \ requests :
                  other.kind = "create" => other.submission # q.submission
      [] q.kind = "remove" -> row[q.submission].exists
      [] q.kind = "edit" -> contest[q.contest].exists
      [] q.kind \in {"change", "batch"} -> \A ch \in q.changes : Host(ch) # None
      [] OTHER -> TRUE

(* A policy change carries what its author saw; None stands for an upgrade of the    *)
(* pinned version that expects no revision.                                          *)
Seen(q) ==
    IF q.kind \notin {"change", "batch"} THEN {<<>>}
    ELSE {seen \in [q.changes -> {Host(ch) : ch \in q.changes} \cup {None}] :
             \A ch \in q.changes :
                seen[ch] = Host(ch) \/ (seen[ch] = None /\ ch.pinned # None)}

Begin(t) ==
    /\ tx[t] = None
    /\ Cardinality(Request \ requests) < MaxRequests
    /\ \E q \in requests :
          /\ Possible(q)
          /\ \E program \in Programs(q), seen \in Seen(q) :
                tx' = [tx EXCEPT ![t] = Open(q, program, seen)]
          /\ requests' = requests \ {q}
    /\ UNCHANGED <<committed, now>>

(* A row that is not there is not locked. Raising a revision locks its row until the *)
(* commit; a refresh only locks it.                                                  *)
Acquire(t) ==
    /\ Running(t, "lock")
    /\ Blocking(t) = {}
    /\ LET object == Head(tx[t].todo)[2]
           there == object[1] = "contest" => contest[object[2]].exists
           raises == object[1] = "revision of all" /\ tx[t].request.kind # "refresh"
       IN  tx' = [tx EXCEPT
              ![t].todo = Tail(@),
              ![t].held = IF there THEN @ \cup {<<object, Head(tx[t].todo)[3]>>} ELSE @,
              ![t].writes.bumps = IF raises THEN @ + 1 ELSE @]
    /\ UNCHANGED <<committed, now, requests>>

(* The contest of the submission is read before its row is locked.                   *)
ReadContest(t) ==
    /\ Running(t, "contest of row")
    /\ LET c == row[tx[t].request.submission].contest
       IN  Continue(t, IF c = None THEN <<>> ELSE <<Lock("contest", c, "share")>>,
                    tx[t].writes)
    /\ UNCHANGED <<committed, now, requests>>

BindingOf(bindings, c, p) == IF c = None THEN None ELSE bindings[<<c, p>>]

(* The result of a submission deleted meanwhile is ignored.                          *)
applyAttemptResult(t) ==
    /\ Running(t, "result")
    /\ LET s == tx[t].request.submission
           p == ProblemOf[s]
           results == Upsert(row[s].results, tx[t].request.result)
           shown == Projection(results, policy[p], BindingOf(binding, row[s].contest, p))
       IN  IF ~row[s].exists THEN Close(t)
           ELSE Continue(t, bumpProblem(p) \o bumpContest(row[s].contest) \o bumpGlobal,
                         [tx[t].writes EXCEPT !.shown = Only(s, shown)])
    /\ UNCHANGED <<committed, now, requests>>

(* A submission to a contest must be on the version the contest pins, checked again  *)
(* under the locks of its hosts.                                                     *)
createSubmission(t) ==
    /\ Running(t, "create")
    /\ LET q == tx[t].request
           bound == BindingOf(binding, q.contest, ProblemOf[q.submission])
           refused == q.contest # None /\ (bound = None \/ bound.pinned # q.version)
       IN  IF refused THEN Close(t)
           ELSE Continue(t, bumpProblem(ProblemOf[q.submission]) \o bumpContest(q.contest)
                                \o bumpGlobal, tx[t].writes)
    /\ UNCHANGED <<committed, now, requests>>

(* A submission that is being judged, here by a result under way, is not deleted.     *)
deleteSubmission(t) ==
    /\ Running(t, "remove")
    /\ LET s == tx[t].request.submission
           judged == \E u \in Transaction : /\ tx[u] # None /\ tx[u].request.kind = "result"
                                             /\ tx[u].request.submission = s
       IN  IF ~row[s].exists \/ judged THEN Close(t)
           ELSE Continue(t, bumpProblem(ProblemOf[s]) \o bumpContest(row[s].contest)
                                \o bumpGlobal, tx[t].writes)
    /\ UNCHANGED <<committed, now, requests>>

(* The expected revision of a change: none, or that of the host its author saw.      *)
\* Mutant: the expected revision is not compared.
ExpectedAny(t, change, host) == TRUE
Expected(t, change, host) == tx[t].seen[change] = None
                             \/ tx[t].seen[change].revision = host.revision

(* The rows of a problem, whatever their contest, projected with its new policy. They *)
(* are read together and then written one after the other, in the order found.        *)
setProblemPolicy(t) ==
    /\ Running(t, "change") /\ Head(tx[t].todo)[2].contest = None
    /\ LET change == Head(tx[t].todo)[2]
           p == change.problem
           w == tx[t].writes
           old == Over(w.policy, policy)[p]
           new == [policy |-> change.policy, revision |-> old.revision + 1]
           sources == {s \in Submission : row[s].exists /\ ProblemOf[s] = p}
           shown == [s \in sources |->
               Projection(row[s].results, new,
                          BindingOf(Over(w.binding, binding), row[s].contest, p))]
       IN  IF ~Expected(t, change, old) THEN Close(t)
           ELSE \E order \in SetToSeqs(sources) :
                   Continue(t, Locks("submission", order, "update") \o bumpProblem(p) \o bumpGlobal,
                            [w EXCEPT !.policy = Over(Only(p, new), @), !.shown = Over(shown, @)])
    /\ UNCHANGED <<committed, now, requests>>

Conflicting(pol, pinned) == ~Accepts(pol, pinned)

(* An exact policy pins its version; an upgrade of the pinned version keeps the policy *)
(* unless it brings one, and is refused when the policy asks for another version.      *)
setContestPolicy(t) ==
    /\ Running(t, "change") /\ Head(tx[t].todo)[2].contest # None
    /\ LET change == Head(tx[t].todo)[2]
           c == change.contest
           p == change.problem
           w == tx[t].writes
           old == Over(w.binding, binding)[<<c, p>>]
           chosen == IF change.policy = None THEN old.policy ELSE change.policy
           pinned == IF change.pinned # None THEN change.pinned
                     ELSE IF chosen = AnyVersion THEN old.pinned ELSE chosen
           new == [policy |-> chosen, pinned |-> pinned, revision |-> old.revision + 1]
           sources == {s \in Submission : /\ row[s].exists
                                          /\ row[s].contest = c /\ ProblemOf[s] = p}
           shown == [s \in sources |->
               Projection(row[s].results, Over(w.policy, policy)[p], new)]
       IN  IF old = None \/ ~Expected(t, change, old) \/ Conflicting(chosen, pinned)
           THEN Close(t)
           ELSE \E order \in SetToSeqs(sources) :
                   Continue(t, Locks("submission", order, "update") \o bumpContest(c) \o bumpGlobal,
                            [w EXCEPT !.binding = Over(Only(<<c, p>>, new), @),
                                      !.shown = Over(shown, @)])
    /\ UNCHANGED <<committed, now, requests>>

(* The problems of a contest are replaced as a whole: those it had keep their binding, *)
(* the others start with the latest version and the policy that accepts every version. *)
NewBindings(q) ==
    [pair \in {q.contest} \X Problem |->
        IF pair[2] \notin q.problems THEN None
        ELSE IF binding[pair] # None THEN binding[pair]
        ELSE [policy |-> AnyVersion, pinned |-> Latest[pair[2]], revision |-> 0]]

updateContest(t) ==
    /\ Running(t, "edit")
    /\ LET q == tx[t].request
           old == contest[q.contest]
           new == [old EXCEPT !.end = IF q.end = None THEN @ ELSE q.end,
                              !.affects = IF q.affects = None THEN @ ELSE q.affects]
           writes == [tx[t].writes EXCEPT
                        !.contest = IF old.exists THEN Only(q.contest, new) ELSE <<>>,
                        !.binding = IF q.problems = None THEN <<>> ELSE NewBindings(q)]
       IN  IF ~old.exists /\ q.problems # None THEN Close(t)
           ELSE Continue(t, IF q.end = None /\ q.affects = None THEN <<>> ELSE bumpGlobal, writes)
    /\ UNCHANGED <<committed, now, requests>>

(* The deletion empties the reference of every submission to the contest, row by row. *)
cascadeContest(t) ==
    /\ Running(t, "cascade")
    /\ LET c == tx[t].request.contest
       IN  IF ~contest[c].exists THEN Close(t)
           ELSE \E order \in SetToSeqs({s \in Submission : row[s].contest = c}) :
                   Continue(t, Locks("submission", order, "update"),
                            [tx[t].writes EXCEPT
                                !.contest = Only(c, [contest[c] EXCEPT !.exists = FALSE]),
                                !.binding = [pair \in {c} \X Problem |-> None]])
    /\ UNCHANGED <<committed, now, requests>>

(* A refresh that finds another one at work returns; its time is that of its         *)
(* transaction, however long it waits for the row of the revision.                   *)
tryRefresh(t) ==
    /\ Running(t, "try")
    /\ IF \E u \in Transaction \ {t} : tx[u] # None /\ <<<<"advisory", 0>>, "update">> \in tx[u].held
       THEN Close(t)
       ELSE tx' = [tx EXCEPT ![t].todo = <<Lock("revision of all", 0, "update"), <<"refresh">>>>,
                             ![t].held = {<<<<"advisory", 0>>, "update">>},
                             ![t].start = now]
    /\ UNCHANGED <<committed, now, requests>>

\* Mutant: the clock is read when the view is built.
BuiltNow(t) == now
BuiltAt(t) == tx[t].start

refreshRankingsView(t) ==
    /\ Running(t, "refresh")
    /\ LET built == [revision |-> data, at |-> BuiltAt(t),
                     content |-> Standing(row, contest, tx[t].start)]
       IN  Continue(t, <<>>, [tx[t].writes EXCEPT !.view = built])
    /\ UNCHANGED <<committed, now, requests>>

(* A reader that does not trust the view has it refreshed.                           *)
scheduleRankingsRefresh(t) ==
    /\ tx[t] = None
    /\ ~Trusted
    /\ tx' = [tx EXCEPT ![t] = Refresh]
    /\ UNCHANGED <<committed, now, requests>>

NewRows(q, w) ==
    CASE q.kind = "result" ->
            [row EXCEPT ![q.submission].results = Upsert(@, q.result),
                        ![q.submission].shown = w.shown[q.submission]]
      [] q.kind = "create" ->
            [row EXCEPT ![q.submission] = [NewRow(q.submission, TRUE, q.contest)
                                              EXCEPT !.version = q.version]]
      [] q.kind = "remove" ->
            [row EXCEPT ![q.submission] = NewRow(q.submission, FALSE, None)]
      [] q.kind = "delete" ->
            [s \in Submission |-> IF row[s].contest = q.contest
                                  THEN [row[s] EXCEPT !.contest = None] ELSE row[s]]
      [] OTHER ->
            [s \in Submission |-> IF s \in DOMAIN w.shown
                                  THEN [row[s] EXCEPT !.shown = w.shown[s]] ELSE row[s]]

(* After the commit: a result has the view refreshed, and the deletion of a contest  *)
(* raises the revision, in a transaction of its own.                                 *)
Afterwards(q) ==
    CASE q.kind = "result" -> Refresh
      [] q.kind = "delete" -> Open([kind |-> "announce"], bumpGlobal, <<>>)
      [] OTHER -> None

Commit(t) ==
    /\ tx[t] # None /\ tx[t].todo = <<>>
    /\ LET q == tx[t].request
           w == tx[t].writes
       IN  /\ policy' = Over(w.policy, policy)
           /\ binding' = Over(w.binding, binding)
           /\ contest' = Over(w.contest, contest)
           /\ row' = NewRows(q, w)
           /\ data' = data + w.bumps
           /\ view' = IF w.view = None THEN view ELSE w.view
           /\ unannounced' = IF w.bumps > 0 THEN FALSE ELSE unannounced \/ q.kind = "delete"
           /\ tx' = [tx EXCEPT ![t] = Afterwards(q)]
    /\ UNCHANGED <<now, requests>>

(* PostgreSQL ends a transaction of a cycle of waits.                                *)
Cycle(D) == \A t \in D : Blocking(t) \cap D # {}

DeadlockAbort(t) ==
    /\ \E D \in SUBSET Transaction : t \in D /\ Cycle(D)
    /\ Close(t)
    /\ UNCHANGED <<committed, now, requests>>

(* The process, or its connection, is lost: the database rolls back.                 *)
Crash(t) ==
    /\ tx[t] # None
    /\ Close(t)
    /\ UNCHANGED <<committed, now, requests>>

Tick ==
    /\ now < MaxTime
    /\ now' = now + 1
    /\ UNCHANGED <<committed, tx, requests>>

Next ==
    \/ \E t \in Transaction :
          \/ Begin(t) \/ Acquire(t) \/ ReadContest(t)
          \/ applyAttemptResult(t) \/ createSubmission(t) \/ deleteSubmission(t)
          \/ setProblemPolicy(t) \/ setContestPolicy(t)
          \/ updateContest(t) \/ cascadeContest(t)
          \/ tryRefresh(t) \/ refreshRankingsView(t) \/ scheduleRankingsRefresh(t)
          \/ Commit(t) \/ DeadlockAbort(t) \/ Crash(t)
    \/ Tick

Spec == Init /\ [][Next]_vars

-----------------------------------------------------------------------------
(* What a row shows for its problem is always what the committed policy selects from *)
(* its committed results: no interleaving of results and policy changes leaves the   *)
(* selection of an earlier policy, or without the last result.                       *)
GlobalProjectionCurrent ==
    \A s \in Submission : row[s].exists =>
        LET pol == policy[ProblemOf[s]]
        IN  /\ row[s].shown.global = Selection(row[s].results, pol.policy)
            /\ row[s].results # {} => row[s].shown.globalRevision = pol.revision

(* What a row shows for its contest is what the binding of the contest selects,       *)
(* whenever it carries the revision of that binding: the stored revision tells a      *)
(* projection left over from an earlier binding.                                      *)
ContestProjectionCurrent ==
    \A s \in Submission :
        LET bound == BindingOf(binding, row[s].contest, ProblemOf[s])
        IN  bound # None /\ row[s].shown.contestRevision = bound.revision =>
                row[s].shown.contest = Selection(row[s].results, bound.policy)

(* Whenever readers trust the view, it holds what the ranking would compute now,      *)
(* contests that ended since included; a deleted contest is left out until its        *)
(* deletion has been announced.                                                       *)
ViewHonest ==
    Trusted /\ ~unannounced => view.content = Standing(row, contest, now)

(* Transactions that wait for each other in a cycle include the deletion of a contest *)
(* or a conversion of problems, which lock rows in no fixed order: those that follow   *)
(* the common order (results, submissions, policies, batches, edits, refreshes) are   *)
(* never the whole cycle.                                                             *)
LockOrder ==
    \A D \in (SUBSET Transaction) \ {{}} :
        Cycle(D) => \E t \in D : tx[t].request.kind \in {"delete", "convert"}

(* A submission that enters a contest is on the version pinned at that moment.         *)
CreatedOnPinned ==
    [][\A s \in Submission : ~row[s].exists /\ row'[s].exists /\ row'[s].contest # None =>
          LET bound == binding[<<row'[s].contest, ProblemOf[s]>>]
          IN  bound # None /\ bound.pinned = row'[s].version]_vars

(* The policy of a problem is only ever replaced by one whose author saw the policy it *)
(* replaces.                                                                           *)
NoLostPolicyChange ==
    [][\A p \in Problem : policy'[p] # policy[p] =>
          \E t \in Transaction : /\ tx[t] # None /\ tx'[t] = None
                                 /\ \E change \in DOMAIN tx[t].seen :
                                       /\ change.problem = p /\ change.contest = None
                                       /\ tx[t].seen[change] = policy[p]]_vars
====================================================================================
