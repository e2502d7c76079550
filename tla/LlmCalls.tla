------------------------------ MODULE LlmCalls -------------------------------
(* Calls of evaluations to one LLM provider through the replicas of the gateway:
   the provider's slots (provider-throttle.ts), the quotas that a call is
   charged to (limits.ts), and the request that goes through both
   (routes/llm.ts).

   A step is one Redis script, with the code around it.  Time is the order in
   which admissions leave the sliding window.  Quotas are about tokens or about
   calls; a lost command may have been executed or not.                       *)
EXTENDS Integers, Sequences, FiniteSets, Functions

CONSTANTS
  Call, Replica, ServedBy,  \* requests, gateway processes, and who serves whom
  Prompt, Completion,       \* estimated tokens of a call
  Usage,                    \* usages the provider may answer: [total, billed]
  Rpm, Tpm,                 \* rpm_limit and tpm_limit, 0 is unlimited
  Meter, Charged,           \* counters, and those a call is charged to
  PerCall,                  \* the meters that count calls, not tokens
  Daily,                    \* the meters that start again every day
  Limit,                    \* -1 is unlimited, 0 allows nothing
  MaxRollovers, MaxFaults   \* bounds

ASSUME CallsAssumption ==
  /\ IsFiniteSet(Call) /\ ServedBy \in [Call -> Replica]
  /\ Prompt \in [Call -> Nat] /\ Completion \in [Call -> Nat]
  /\ Usage \subseteq [total : Nat, billed : Nat]
  /\ Rpm \in Nat /\ Tpm \in Nat /\ (Rpm > 0 \/ Tpm > 0)
  /\ Charged \in [Call -> SUBSET Meter] /\ PerCall \subseteq Meter /\ Daily \subseteq Meter
  /\ Limit \in [Meter -> Nat \cup {-1}]
  /\ MaxRollovers \in Nat /\ MaxFaults \in Nat

VARIABLES
  queue,     \* queue: waiting calls by ticket
  stale,     \* those whose heartbeat is too old
  rpm, tpm,  \* entries of the sliding window, and their tokens
  recent,    \* history: the calls admitted in the last window, oldest first
  meter,     \* counters of calls and tokens
  booked,    \* history: the calls reserved since a meter started
  late,      \* history: those settled on it but reserved before
  call,      \* requests in the gateway
  rollovers, faults

slots == <<queue, stale, rpm, tpm, recent>>
quotas == <<meter, booked, late>>
vars == <<queue, stale, rpm, tpm, recent, meter, booked, late, call, rollovers, faults>>

Estimate(c) == Prompt[c] + Completion[c]

\* How a call came out: whether its slot is settled, the tokens it took.
Outcome == [heard : BOOLEAN, total : Nat, billed : Nat]
Unanswered(c) == [heard |-> FALSE, total |-> Estimate(c), billed |-> Estimate(c)]
Unused == [heard |-> TRUE, total |-> 0, billed |-> 0]

CallPc == {"new", "waiting", "admitted", "refused", "sent", "settling", "ended", "dead"}
CallState == [pc : CallPc, slot : BOOLEAN, sent : BOOLEAN, outcome : Outcome]

TypeOK ==
  /\ queue \in Seq(Call) /\ stale \subseteq Range(queue)
  /\ rpm \subseteq Range(recent) /\ tpm \in [Call -> Nat] /\ recent \in Seq(Call)
  /\ meter \in [Meter -> Nat]
  /\ booked \in [Meter -> SUBSET Call] /\ late \in [Meter -> SUBSET Call]
  /\ call \in [Call -> CallState]
  /\ rollovers \in 0..MaxRollovers /\ faults \in 0..MaxFaults

Init ==
  /\ queue = <<>> /\ stale = {} /\ rpm = {} /\ recent = <<>>
  /\ tpm = [c \in Call |-> 0]
  /\ meter = [k \in Meter |-> 0]
  /\ booked = [k \in Meter |-> {}] /\ late = [k \in Meter |-> {}]
  /\ call = [c \in Call |-> [pc |-> "new", slot |-> FALSE, sent |-> FALSE,
                             outcome |-> Unanswered(c)]]
  /\ rollovers = 0 /\ faults = 0

Fault == faults < MaxFaults /\ faults' = faults + 1
Goto(c, pc) == call' = [call EXCEPT ![c].pc = pc]

-----------------------------------------------------------------------------
(* The slots of the provider *)

Registered(c) == IF c \in Range(queue) THEN queue ELSE Append(queue, c)

\* Mutant: a waiter that died stays at the head.
KeepHeads(c) == Registered(c)

\* Heads whose heartbeat is too old are dropped, up to the caller.
DropStaleHeads(c) ==
  LET q == Registered(c)
      first == CHOOSE n \in 1..Len(q) :
                 /\ q[n] = c \/ q[n] \notin stale
                 /\ \A m \in 1..(n - 1) : q[m] # c /\ q[m] \in stale
  IN SubSeq(q, first, Len(q))

\* Mutant: a request above tpm_limit waits like any other.
FitsAlways(c) ==
  /\ Rpm > 0 => Cardinality(rpm) < Rpm
  /\ Tpm > 0 => SumFunctionOnSet(tpm, rpm) + Estimate(c) <= Tpm

Fits(c) ==
  LET used == SumFunctionOnSet(tpm, rpm) IN
  /\ Rpm > 0 => Cardinality(rpm) < Rpm
  /\ Tpm > 0 => used = 0 \/ used + Estimate(c) <= Tpm

Admits(c) == Head(DropStaleHeads(c)) = c /\ Fits(c)

\* ACQUIRE_SCRIPT
Acquire(c) ==
  LET q == DropStaleHeads(c) IN
  /\ IF Admits(c)
       THEN /\ queue' = Tail(q)
            /\ rpm' = rpm \cup {c} /\ tpm' = [tpm EXCEPT ![c] = Estimate(c)]
            /\ recent' = Append(recent, c)
       ELSE queue' = q /\ UNCHANGED <<rpm, tpm, recent>>
  /\ stale' = (stale \ {c}) \cap Range(q)

Polling(c) == call[c].pc \in {"new", "waiting"}

Poll(c) ==
  /\ Polling(c)
  /\ Acquire(c)
  /\ call' = [call EXCEPT ![c].pc = IF Admits(c) THEN "admitted" ELSE "waiting",
                          ![c].slot = Admits(c)]
  /\ UNCHANGED <<quotas, rollovers, faults>>

\* Redis fails: the call goes on without a slot.
PollUnheard(c) ==
  /\ Polling(c) /\ Fault
  /\ Acquire(c) \/ UNCHANGED slots
  /\ Goto(c, "admitted")
  /\ UNCHANGED <<quotas, rollovers>>

\* LEAVE_QUEUE_SCRIPT; a call is in the queue once.
Without(q, c) ==
  IF c \in Range(q)
    THEN LET n == CHOOSE n \in DOMAIN q : q[n] = c
         IN SubSeq(q, 1, n - 1) \o SubSeq(q, n + 1, Len(q))
    ELSE q

\* The caller leaves after the time-out or an abort.
Leave(c) ==
  /\ call[c].pc = "waiting"
  /\ \/ /\ queue' = Without(queue, c)
        /\ stale' = stale \ {c}
        /\ UNCHANGED faults
     \/ Fault /\ UNCHANGED <<queue, stale>>
  /\ Goto(c, "ended")
  /\ UNCHANGED <<rpm, tpm, recent, quotas, rollovers>>

\* Nobody polls for c, or its process is held up for that long.
GoStale(c) ==
  /\ c \in Range(queue) \ stale
  /\ IF call[c].pc = "waiting" THEN Fault ELSE UNCHANGED faults
  /\ stale' = stale \cup {c}
  /\ UNCHANGED <<queue, rpm, tpm, recent, quotas, call, rollovers>>

\* The oldest admission leaves the sliding window.
Expire ==
  /\ recent # <<>>
  /\ recent' = Tail(recent)
  /\ rpm' = rpm \ {Head(recent)}
  /\ tpm' = [tpm EXCEPT ![Head(recent)] = 0]
  /\ UNCHANGED <<queue, stale, quotas, call, rollovers, faults>>

\* RELEASE_SCRIPT and the slot's SETTLE_SCRIPT
GiveBack(c) ==
  /\ rpm' = rpm \ {c} /\ tpm' = [tpm EXCEPT ![c] = 0]

SettleSlot(c, tokens) ==
  /\ tpm' = [tpm EXCEPT ![c] = IF c \in rpm THEN tokens ELSE @]
  /\ UNCHANGED rpm

-----------------------------------------------------------------------------
(* The quotas *)

Increment(k, c) == IF k \in PerCall THEN 1 ELSE Estimate(c)

\* Mutant: the call itself is not counted.
AffordableSoFar(k, c) == Limit[k] = -1 \/ (Limit[k] # 0 /\ meter[k] <= Limit[k])
Affordable(k, c) == Limit[k] = -1 \/ (Limit[k] # 0 /\ meter[k] + Increment(k, c) <= Limit[k])

\* LIMIT_SCRIPT: all counters, or none.
Book(c) ==
  /\ \A k \in Charged[c] : Affordable(k, c)
  /\ meter' = [k \in Meter |-> meter[k] + IF k \in Charged[c] THEN Increment(k, c) ELSE 0]
  /\ booked' = [k \in Meter |-> IF k \in Charged[c] THEN booked[k] \cup {c} ELSE booked[k]]
  /\ UNCHANGED late

Reserve(c) ==
  /\ call[c].pc = "admitted"
  /\ Book(c)
  /\ call' = [call EXCEPT ![c].pc = "sent", ![c].sent = TRUE]
  /\ UNCHANGED <<slots, rollovers, faults>>

\* A quota is exhausted, the rate of the user or of the address is exceeded, or
\* the quotas cannot be read.
Refuse(c) ==
  /\ call[c].pc = "admitted"
  /\ Goto(c, "refused")
  /\ UNCHANGED <<slots, quotas, rollovers, faults>>

\* The reply is lost: the call is refused, and counted.
ReserveUnheard(c) ==
  /\ call[c].pc = "admitted" /\ Fault
  /\ Book(c)
  /\ Goto(c, "refused")
  /\ UNCHANGED <<slots, rollovers>>

\* What is not sent gives its slot back.
Release(c) ==
  /\ call[c].pc = "refused"
  /\ \/ /\ IF call[c].slot THEN GiveBack(c) ELSE UNCHANGED <<rpm, tpm>>
        /\ UNCHANGED faults
     \/ Fault /\ UNCHANGED <<rpm, tpm>>
  /\ Goto(c, "ended")
  /\ UNCHANGED <<queue, stale, recent, quotas, rollovers>>

\* Mutant: the counter is not kept from going negative.
SettledUnclamped(k, delta) == meter[k] + delta
Settled(k, delta) == IF meter[k] + delta < 0 THEN 0 ELSE meter[k] + delta

TokenMeters(c) == Charged[c] \ PerCall

\* settleUsage; the day may have changed since the reservation.
SettleQuota(c) ==
  LET delta == call[c].outcome.billed - Estimate(c) IN
  /\ call[c].pc = "settling"
  /\ \/ /\ meter' = [k \in Meter |-> IF k \in TokenMeters(c) THEN Settled(k, delta) ELSE meter[k]]
        /\ late' = [k \in Meter |-> IF k \in TokenMeters(c) /\ c \notin booked[k]
                                    THEN late[k] \cup {c} ELSE late[k]]
        /\ UNCHANGED faults
     \/ Fault /\ UNCHANGED <<meter, late>>
  /\ Goto(c, "ended")
  /\ UNCHANGED <<slots, booked, rollovers>>

\* Midnight: new keys.
Rollover ==
  /\ rollovers < MaxRollovers /\ rollovers' = rollovers + 1
  /\ meter' = [k \in Meter |-> IF k \in Daily THEN 0 ELSE meter[k]]
  /\ booked' = [k \in Meter |-> IF k \in Daily THEN {} ELSE booked[k]]
  /\ late' = [k \in Meter |-> IF k \in Daily THEN {} ELSE late[k]]
  /\ UNCHANGED <<slots, call, faults>>

-----------------------------------------------------------------------------
(* The provider's answer *)

\* calcBilledUsage: without usage the prompt is billed and the slot keeps its
\* estimate; a failure takes nothing.
Outcomes(c) ==
  {[heard |-> TRUE, total |-> u.total, billed |-> u.billed] : u \in Usage}
    \cup {[heard |-> FALSE, total |-> Estimate(c), billed |-> Prompt[c]], Unused}

\* Mutant: a failed call gives its slot back, as if it had not been sent.
ForgetFailed(c, outcome) ==
  IF outcome = Unused THEN GiveBack(c) ELSE SettleSlot(c, outcome.total)

Account(c, outcome) == SettleSlot(c, outcome.total)

Answer(c) ==
  /\ call[c].pc = "sent"
  /\ \E outcome \in Outcomes(c) :
       /\ call' = [call EXCEPT ![c].pc = "settling", ![c].outcome = outcome]
       /\ \/ /\ IF call[c].slot /\ outcome.heard THEN Account(c, outcome)
                                                 ELSE UNCHANGED <<rpm, tpm>>
             /\ UNCHANGED faults
          \/ call[c].slot /\ outcome.heard /\ Fault /\ UNCHANGED <<rpm, tpm>>
  /\ UNCHANGED <<queue, stale, recent, quotas, rollovers>>

\* A replica dies with its requests.
Crash(r) ==
  LET lost == {c \in Call : ServedBy[c] = r /\ call[c].pc \notin {"new", "ended", "dead"}} IN
  /\ lost # {} /\ Fault
  /\ call' = [c \in Call |-> IF c \in lost THEN [call[c] EXCEPT !.pc = "dead"] ELSE call[c]]
  /\ UNCHANGED <<slots, quotas, rollovers>>

-----------------------------------------------------------------------------
Step(c) ==
  \/ Poll(c) \/ Reserve(c) \/ Release(c) \/ Answer(c) \/ SettleQuota(c)

Next ==
  \/ \E c \in Call : \/ Step(c) \/ PollUnheard(c) \/ Leave(c) \/ GoStale(c)
                     \/ Refuse(c) \/ ReserveUnheard(c)
  \/ Expire \/ Rollover
  \/ \E r \in Replica : Crash(r)

Spec == Init /\ [][Next]_vars

\* Requests that are served go on, time passes.
Fairness ==
  /\ \A c \in Call : /\ WF_vars(Step(c) \/ Refuse(c))
                     /\ WF_vars(call[c].pc # "waiting" /\ GoStale(c))
  /\ WF_vars(Expire)

FairSpec == Spec /\ Fairness

-----------------------------------------------------------------------------
(* Properties *)

Least(m, n) == IF m <= n THEN m ELSE n
Excess(m, n) == IF m > n THEN m - n ELSE 0

\* Calls sent to the provider whose admission lies in the last window, those
\* sent without a slot apart.
Upstream == {c \in Range(recent) : call[c].sent /\ call[c].slot}
Took(c) == Least(Estimate(c), call[c].outcome.total)

\* In no window does the provider get more than rpm_limit of these calls, nor
\* calls of more than tpm_limit tokens, what they took beyond their estimates
\* apart, but for a single call above the limit
\* (llm-call-capability.md:90-97).
RatesKept ==
  /\ Rpm > 0 => Cardinality(Upstream) <= Rpm
  /\ Tpm > 0 => \/ SumFunctionOnSet([c \in Call |-> Took(c)], Upstream) <= Tpm
                \/ Cardinality({c \in Upstream : Took(c) > 0}) <= 1

Cost(k, c) == IF k \in PerCall THEN 1 ELSE call[c].outcome.billed
Overrun(k, c) == Excess(Cost(k, c), Increment(k, c))
Credit(k, c) == Excess(Increment(k, c), Cost(k, c))

\* What the calls booked on a meter cost stays within its limit, whatever is
\* lost or repeated, but for answers longer than estimated and, on a daily
\* meter, what calls of the day before give back to it.
QuotaKept ==
  \A k \in Meter : Limit[k] >= 0 =>
    SumFunctionOnSet([c \in Call |-> Cost(k, c)], booked[k])
      <= Limit[k] + SumFunctionOnSet([c \in Call |-> Overrun(k, c)], booked[k])
                  + SumFunctionOnSet([c \in Call |-> Credit(k, c)], late[k])

\* No call waits for ever, whoever dies in the queue and however large it is,
\* without a time-out having to end the wait.
EveryCallEnds == \A c \in Call : <>(call[c].pc \in {"ended", "dead"})
=============================================================================
