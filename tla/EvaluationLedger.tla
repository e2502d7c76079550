-------------------------- MODULE EvaluationLedger --------------------------
(* What the evaluation pipeline promises about a submission, without queues,
   processes or failures: it is opened, evaluated in a bounded number of rounds
   and decided once.  Where there are rejudges, one of these opens it again
   after it was decided, and counts its rounds afresh.                       *)
EXTENDS Naturals

CONSTANTS Submission, MaxRetries

VARIABLES phase,  \* absent, open, graded or failed
          round   \* rounds since the submission was opened

ledgerVars == <<phase, round>>

LedgerInit == /\ phase = [s \in Submission |-> "absent"]
              /\ round = [s \in Submission |-> 0]

Accept(s) == /\ phase[s] = "absent"
             /\ phase' = [phase EXCEPT ![s] = "open"]
             /\ round' = [round EXCEPT ![s] = 1]

\* A rejudge.
Reopen(s) == /\ phase[s] \in {"graded", "failed"}
             /\ phase' = [phase EXCEPT ![s] = "open"]
             /\ round' = [round EXCEPT ![s] = 1]

\* Another round, after a transient platform error.
Retry(s) == /\ phase[s] = "open" /\ round[s] <= MaxRetries
            /\ round' = [round EXCEPT ![s] = @ + 1]
            /\ UNCHANGED phase

Decide(s, outcome) == /\ phase[s] = "open"
                      /\ phase' = [phase EXCEPT ![s] = outcome]
                      /\ UNCHANGED round

LedgerNext ==
  \E s \in Submission : \/ Accept(s) \/ Retry(s)
                        \/ \E o \in {"graded", "failed"} : Decide(s, o)

LedgerSpec == LedgerInit /\ [][LedgerNext]_ledgerVars

RejudgedLedgerSpec ==
  LedgerInit /\ [][LedgerNext \/ \E s \in Submission : Reopen(s)]_ledgerVars
=============================================================================
