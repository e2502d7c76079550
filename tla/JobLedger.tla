------------------------------ MODULE JobLedger ------------------------------
(* What a batch job promises, whatever workers, leases and queues do: an item
   is accepted once and ends once, it is evaluated at most MaxRounds times and
   only succeeds if it was.  What ends the last item reports its job as finished,
   and nothing reports it before; but a report may be taken back.            *)
EXTENDS Naturals

CONSTANTS Job, Place, MaxRounds

VARIABLES outcome,   \* of each item
          round,     \* evaluations started for it
          reported   \* the jobs reported as finished

ledgerVars == <<outcome, round, reported>>
Entry == Job \X Place
Result == {"succeeded", "failed", "skipped"}

LedgerInit ==
  /\ outcome = [e \in Entry |-> "absent"] /\ round = [e \in Entry |-> 0]
  /\ reported = {}

\* Job j, on `chosen`, without evaluating those in `skipped`.
AcceptJob(j, chosen, skipped) ==
  /\ \A p \in Place : outcome[<<j, p>>] = "absent"
  /\ chosen # {}
  /\ outcome' = [e \in Entry |-> IF e[1] # j \/ e[2] \notin chosen THEN outcome[e]
                                 ELSE IF e[2] \in skipped THEN "skipped" ELSE "open"]
  /\ reported' = IF chosen \subseteq skipped THEN reported \cup {j} ELSE reported
  /\ UNCHANGED round

StartRound(e) ==
  /\ outcome[e] = "open" /\ round[e] < MaxRounds
  /\ round' = [round EXCEPT ![e] = @ + 1]
  /\ UNCHANGED <<outcome, reported>>

EndItem(e, result) ==
  /\ outcome[e] = "open" /\ (result = "succeeded" => round[e] > 0)
  /\ outcome' = [outcome EXCEPT ![e] = result]
  /\ reported' = IF \E p \in Place : <<e[1], p>> # e /\ outcome[<<e[1], p>>] = "open"
                 THEN reported ELSE reported \cup {e[1]}
  /\ UNCHANGED round

\* A report that is repeated, or overwritten by one from before the end.
Report(j) ==
  /\ \E p \in Place : outcome[<<j, p>>] # "absent"
  /\ \A p \in Place : outcome[<<j, p>>] # "open"
  /\ reported' \in {reported \cup {j}, reported \ {j}}
  /\ UNCHANGED <<outcome, round>>

LedgerNext ==
  \/ \E j \in Job : Report(j)
  \/ \E j \in Job, chosen, skipped \in SUBSET Place :
       skipped \subseteq chosen /\ AcceptJob(j, chosen, skipped)
  \/ \E e \in Entry : StartRound(e) \/ \E result \in Result : EndItem(e, result)

JobLedgerSpec == LedgerInit /\ [][LedgerNext]_ledgerVars
=============================================================================
