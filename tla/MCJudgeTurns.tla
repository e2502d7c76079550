---------------------------- MODULE MCJudgeTurns -----------------------------
(* The order in which the submissions of JudgeScheduling get run slots. *)
EXTENDS MCJudgeScheduling

VARIABLE overtaken   \* history: who was granted a run slot while p waited for one

Prepared(p) == \E i \in request : i[1] = p /\ Ready(i)
Granting(p) == \E k \in 1..MaxCases : stage[<<p, k>>] = "todo" /\ stage'[<<p, k>>] = "running"

TurnsSpec ==
  /\ Init /\ overtaken = [p \in Permit |-> {}]
  /\ [][/\ Next
        /\ overtaken' = [p \in Permit |->
             IF Prepared(p) /\ Prepared(p)' THEN overtaken[p] \cup {q \in Permit : Granting(q)}
                                            ELSE {}]]_<<vars, overtaken>>

\* Run slots rotate among the prepared submissions (judge-resource-pools.md:72):
\* none gets two while another waits.
RunSlotsRotate ==
  [][\A p, q \in Permit : Granting(q) /\ Prepared(p) => q \notin overtaken[p]]_<<vars, overtaken>>
=============================================================================
