--------------------------- MODULE LlmCallsProofs ---------------------------
(* Theorems of LlmCalls: the types of its state, the rate that a provider sees
   in any window, and the quotas that calls are charged to.                    *)
EXTENDS LlmCalls, SumFacts

LEMMA CallFacts ==
  /\ IsFiniteSet(Call)
  /\ \A c \in Call : Prompt[c] \in Nat /\ Completion[c] \in Nat /\ Estimate(c) \in Nat
  /\ \A u \in Usage : u.total \in Nat /\ u.billed \in Nat
  /\ Rpm \in Nat /\ Tpm \in Nat
  /\ \A c \in Call : Charged[c] \subseteq Meter
  /\ \A k \in Meter : Limit[k] \in Int
BY CallsAssumption DEF Estimate

-----------------------------------------------------------------------------
(* The queue *)

LEMMA LengthOfBoth ==
  ASSUME NEW T, NEW p \in Seq(T), NEW q \in Seq(T)
  PROVE  /\ p \o q \in Seq(T) /\ DOMAIN (p \o q) = 1..(Len(p) + Len(q))
         /\ \A i \in 1..Len(p) : (p \o q)[i] = p[i]
         /\ \A i \in 1..Len(q) : (p \o q)[Len(p) + i] = q[i]
OBVIOUS

\* The queue without c holds everybody else.
LEMMA WithoutFacts ==
  ASSUME NEW T, NEW q \in Seq(T), NEW c
  PROVE  /\ Without(q, c) \in Seq(T)
         /\ Range(q) \ {c} \subseteq Range(Without(q, c))
<1>1. CASE c \notin Range(q)
  BY <1>1 DEF Without
<1>2. CASE c \in Range(q)
  <2> DEFINE n == CHOOSE n \in DOMAIN q : q[n] = c
             left == SubSeq(q, 1, n - 1)
             right == SubSeq(q, n + 1, Len(q))
  <2>1. n \in 1..Len(q) /\ q[n] = c
    BY <1>2 DEF Range
  <2>2. Without(q, c) = left \o right
    BY <1>2 DEF Without
  <2> HIDE DEF n
  <2>3. /\ left \in Seq(T) /\ Len(left) = n - 1
        /\ \A i \in 1..(n - 1) : left[i] = q[i]
    BY <2>1
  <2>4. /\ right \in Seq(T) /\ Len(right) = Len(q) - n
        /\ \A i \in 1..(Len(q) - n) : right[i] = q[n + i]
    BY <2>1
  <2> HIDE DEF left, right
  <2>5. left \o right \in Seq(T)
    BY <2>3, <2>4
  <2>6. ASSUME NEW d \in Range(q) \ {c}
        PROVE  d \in Range(left \o right)
    <3>1. PICK i \in 1..Len(q) : q[i] = d
      BY DEF Range
    <3>2. i # n
      BY <2>1, <2>6, <3>1
    <3>3. DOMAIN (left \o right) = 1..(Len(q) - 1)
      <4>1. DOMAIN (left \o right) = 1..(Len(left) + Len(right))
        BY <2>3, <2>4, LengthOfBoth
      <4>2. Len(left) + Len(right) = Len(q) - 1
        BY <2>1, <2>3, <2>4
      <4> QED
        BY <4>1, <4>2
    <3>4. CASE i < n
      <4>1. (left \o right)[i] = d
        BY <2>1, <2>3, <2>4, <3>1, <3>4
      <4>2. i \in 1..(Len(q) - 1)
        BY <2>1, <3>1, <3>4
      <4> QED
        BY <3>3, <4>1, <4>2, Zenon DEF Range
    <3>5. CASE i > n
      <4>1. (left \o right)[i - 1] = right[i - n]
        BY <2>1, <2>3, <2>4, <3>1, <3>5
      <4>2. right[i - n] = d
        BY <2>1, <2>4, <3>1, <3>5
      <4>3. i - 1 \in 1..(Len(q) - 1)
        BY <2>1, <3>1, <3>5
      <4> QED
        BY <3>3, <4>1, <4>2, <4>3, Zenon DEF Range
    <3> QED
      BY <2>1, <3>1, <3>2, <3>4, <3>5
  <2> QED
    BY <2>2, <2>5, <2>6
<1> QED
  BY <1>1, <1>2

\* The end of a sequence holds everything but the head.
LEMMA TailFacts ==
  ASSUME NEW T, NEW q \in Seq(T), q # <<>>
  PROVE  /\ Head(q) \in T /\ Tail(q) \in Seq(T)
         /\ Range(Tail(q)) \subseteq Range(q)
         /\ Range(q) \ {Head(q)} \subseteq Range(Tail(q))
<1>1. /\ Len(q) \in Nat /\ Len(q) > 0 /\ DOMAIN q = 1..Len(q)
      /\ Head(q) = q[1] /\ Head(q) \in T
  OBVIOUS
<1>2. /\ Tail(q) \in Seq(T) /\ DOMAIN Tail(q) = 1..(Len(q) - 1)
      /\ \A i \in 1..(Len(q) - 1) : Tail(q)[i] = q[i + 1]
  OBVIOUS
<1>3. ASSUME NEW x \in Range(Tail(q))
      PROVE  x \in Range(q)
  BY <1>1, <1>2 DEF Range
<1>4. ASSUME NEW x \in Range(q), x # Head(q)
      PROVE  x \in Range(Tail(q))
  <2>1. PICK i \in 1..Len(q) : q[i] = x
    BY <1>1 DEF Range
  <2>2. i - 1 \in 1..(Len(q) - 1) /\ Tail(q)[i - 1] = q[(i - 1) + 1]
    BY <1>1, <1>2, <1>4, <2>1
  <2>3. (i - 1) + 1 = i
    BY <2>1
  <2> QED
    BY <1>2, <2>1, <2>2, <2>3 DEF Range
<1> QED
  BY <1>1, <1>2, <1>3, <1>4

LEMMA AppendFacts ==
  ASSUME NEW T, NEW q \in Seq(T), NEW x \in T
  PROVE  /\ Append(q, x) \in Seq(T)
         /\ Range(Append(q, x)) = Range(q) \cup {x}
<1>1. /\ Append(q, x) \in Seq(T) /\ DOMAIN Append(q, x) = 1..(Len(q) + 1)
      /\ Len(q) \in Nat /\ DOMAIN q = 1..Len(q)
      /\ \A i \in 1..Len(q) : Append(q, x)[i] = q[i]
      /\ Append(q, x)[Len(q) + 1] = x
  OBVIOUS
<1>2. \A i \in 1..(Len(q) + 1) : i \in 1..Len(q) \/ i = Len(q) + 1
  BY <1>1
<1>3. ASSUME NEW y \in Range(Append(q, x))
      PROVE  y \in Range(q) \cup {x}
  BY <1>1, <1>2 DEF Range
<1>4. ASSUME NEW y \in Range(q)
      PROVE  y \in Range(Append(q, x))
  <2>1. PICK i \in 1..Len(q) : q[i] = y
    BY <1>1 DEF Range
  <2>2. i \in 1..(Len(q) + 1)
    BY <1>1, <2>1
  <2> QED
    BY <1>1, <2>1, <2>2 DEF Range
<1>5. x \in Range(Append(q, x))
  <2>1. Len(q) + 1 \in 1..(Len(q) + 1)
    BY <1>1
  <2> QED
    BY <1>1, <2>1 DEF Range
<1> QED
  BY <1>1, <1>3, <1>4, <1>5

\* A call that polls is in the queue, and nobody else has joined it.
LEMMA DropStaleHeadsFacts ==
  ASSUME NEW c \in Call, queue \in Seq(Call)
  PROVE  /\ DropStaleHeads(c) \in Seq(Call) /\ DropStaleHeads(c) # <<>>
         /\ Range(DropStaleHeads(c)) \subseteq Range(queue) \cup {c}
<1> DEFINE q == Registered(c)
           Stops(n) == q[n] = c \/ q[n] \notin stale
           Stopping == {n \in 1..Len(q) : Stops(n)}
           First(n) == Stops(n) /\ \A m \in 1..(n - 1) : q[m] # c /\ q[m] \in stale
           first == CHOOSE n \in 1..Len(q) : First(n)
<1>1. q \in Seq(Call) /\ Range(q) = Range(queue) \cup {c}
  <2>1. Append(queue, c) \in Seq(Call) /\ Range(Append(queue, c)) = Range(queue) \cup {c}
    BY AppendFacts
  <2> QED
    BY <2>1 DEF Registered
<1>2. PICK i \in 1..Len(q) : q[i] = c
  BY <1>1 DEF Range
<1>3. DropStaleHeads(c) = SubSeq(q, first, Len(q))
  BY DEF DropStaleHeads
<1> HIDE DEF q
<1>4. Len(q) \in Nat
  BY <1>1
<1>5. first \in 1..Len(q)
  <2>1. Stopping \subseteq Nat /\ i \in Stopping
    BY <1>2
  <2>2. PICK n \in Stopping : \A m \in Stopping : n <= m
    <3> HIDE DEF Stopping
    <3> QED
      BY <2>1, LeastNumber
  <2>3. First(n)
    <3>1. ASSUME NEW m \in 1..(n - 1)
          PROVE  q[m] # c /\ q[m] \in stale
      <4>1. m \in 1..Len(q) /\ ~(n <= m)
        BY <1>4, <2>2
      <4> QED
        BY <2>2, <4>1
    <3> QED
      BY <2>2, <3>1
  <2>4. \E m \in 1..Len(q) : First(m)
    BY <2>2, <2>3
  <2> HIDE DEF First
  <2> QED
    BY <2>4
<1> HIDE DEF first
<1> DEFINE s == SubSeq(q, first, Len(q))
<1>6. /\ s \in Seq(Call) /\ Len(s) = Len(q) - first + 1 /\ DOMAIN s = 1..Len(s)
      /\ \A m \in 1..Len(s) : s[m] = q[first + m - 1]
  BY <1>1, <1>4, <1>5
<1>7. s # <<>>
  BY <1>4, <1>5, <1>6
<1>8. Range(s) \subseteq Range(q)
  <2> SUFFICES ASSUME NEW x \in Range(s)
               PROVE  x \in Range(q)
    OBVIOUS
  <2> HIDE DEF s
  <2>1. PICK m \in 1..Len(s) : s[m] = x
    BY <1>6 DEF Range
  <2>2. first + m - 1 \in 1..Len(q) /\ q[first + m - 1] = x
    BY <1>4, <1>5, <1>6, <2>1
  <2> QED
    BY <1>1, <2>2 DEF Range
<1> QED
  BY <1>1, <1>3, <1>6, <1>7, <1>8
-----------------------------------------------------------------------------
(* Types *)

LEMMA OutcomeTypes ==
  ASSUME NEW c \in Call
  PROVE  Unanswered(c) \in Outcome /\ Unused \in Outcome /\ Outcomes(c) \subseteq Outcome
<1>1. Estimate(c) \in Nat /\ Prompt[c] \in Nat
  BY CallFacts
<1>2. Unanswered(c) \in Outcome /\ Unused \in Outcome
        /\ [heard |-> FALSE, total |-> Estimate(c), billed |-> Prompt[c]] \in Outcome
  BY <1>1 DEF Unanswered, Unused, Outcome
<1>3. ASSUME NEW u \in Usage
      PROVE  [heard |-> TRUE, total |-> u.total, billed |-> u.billed] \in Outcome
  BY CallFacts DEF Outcome
<1> QED
  BY <1>2, <1>3 DEF Outcomes

\* What every step but a crash does to the requests.
LEMMA GotoType ==
  ASSUME NEW c \in Call, call \in [Call -> CallState], NEW pc \in CallPc, Goto(c, pc)
  PROVE  call' \in [Call -> CallState]
BY DEF Goto, CallState

LEMMA AcquireType ==
  ASSUME TypeOK, NEW c \in Call, Acquire(c)
  PROVE  /\ queue' \in Seq(Call) /\ stale' \subseteq Range(queue')
         /\ rpm' \subseteq Range(recent') /\ tpm' \in [Call -> Nat] /\ recent' \in Seq(Call)
<1> DEFINE q == DropStaleHeads(c)
<1>1. q \in Seq(Call) /\ q # <<>>
  BY DropStaleHeadsFacts DEF TypeOK
<1>2. CASE Admits(c)
  <2>1. /\ queue' = Tail(q) /\ stale' = (stale \ {c}) \cap Range(q)
        /\ rpm' = rpm \cup {c} /\ tpm' = [tpm EXCEPT ![c] = Estimate(c)]
        /\ recent' = Append(recent, c) /\ Head(q) = c
    BY <1>2 DEF Acquire, Admits
  <2> HIDE DEF q
  <2>2. Tail(q) \in Seq(Call) /\ Range(q) \ {Head(q)} \subseteq Range(Tail(q))
    BY <1>1, TailFacts
  <2>3. stale' \subseteq Range(queue')
    BY <2>1, <2>2
  <2>4. Append(recent, c) \in Seq(Call) /\ Range(Append(recent, c)) = Range(recent) \cup {c}
    BY AppendFacts DEF TypeOK
  <2>5. tpm' \in [Call -> Nat]
    BY <2>1, CallFacts DEF TypeOK
  <2>6. rpm' \subseteq Range(recent')
    BY <2>1, <2>4 DEF TypeOK
  <2> QED
    BY <2>1, <2>2, <2>3, <2>4, <2>5, <2>6
<1>3. CASE ~Admits(c)
  BY <1>1, <1>3 DEF Acquire, TypeOK
<1> QED
  BY <1>2, <1>3

LEMMA BookType ==
  ASSUME TypeOK, NEW c \in Call, Book(c)
  PROVE  /\ meter' \in [Meter -> Nat] /\ booked' \in [Meter -> SUBSET Call]
         /\ late' = late
<1>1. \A k \in Meter : Increment(k, c) \in Nat
  BY CallFacts DEF Increment
<1> QED
  BY <1>1 DEF Book, TypeOK

LEMMA FaultType ==
  ASSUME TypeOK, faults' = faults \/ Fault
  PROVE  faults' \in 0..MaxFaults
BY CallsAssumption DEF TypeOK, Fault

LEMMA TypePoll ==
  ASSUME TypeOK, NEW c \in Call, Poll(c) \/ PollUnheard(c)
  PROVE  TypeOK'
<1>1. /\ queue' \in Seq(Call) /\ stale' \subseteq Range(queue')
      /\ rpm' \subseteq Range(recent') /\ tpm' \in [Call -> Nat] /\ recent' \in Seq(Call)
  <2>1. Acquire(c) \/ UNCHANGED slots
    BY DEF Poll, PollUnheard
  <2>2. CASE UNCHANGED slots
    BY <2>2 DEF slots, TypeOK
  <2> QED
    BY <2>1, <2>2, AcquireType
<1>2. call' \in [Call -> CallState]
  <2>1. CASE Poll(c)
    <3>1. Admits(c) \in BOOLEAN
      BY DEF Admits
    <3> DEFINE pc == IF Admits(c) THEN "admitted" ELSE "waiting"
               s == Admits(c)
    <3>2. pc \in CallPc /\ s \in BOOLEAN
      BY <3>1 DEF CallPc
    <3>3. call' = [call EXCEPT ![c].pc = pc, ![c].slot = s]
      BY <2>1 DEF Poll
    <3> HIDE DEF pc, s
    <3> QED
      BY <3>2, <3>3 DEF TypeOK, CallState
  <2>2. CASE PollUnheard(c)
    BY <2>2, GotoType DEF PollUnheard, TypeOK, CallPc
  <2> QED
    BY <2>1, <2>2
<1>3. faults' \in 0..MaxFaults /\ UNCHANGED <<quotas, rollovers>>
  BY FaultType DEF Poll, PollUnheard
<1> QED
  BY <1>1, <1>2, <1>3 DEF TypeOK, quotas

LEMMA TypeLeave ==
  ASSUME TypeOK, NEW c \in Call, Leave(c)
  PROVE  TypeOK'
<1>1. queue' \in Seq(Call) /\ stale' \subseteq Range(queue')
  <2>1. Without(queue, c) \in Seq(Call) /\ Range(queue) \ {c} \subseteq Range(Without(queue, c))
    BY WithoutFacts DEF TypeOK
  <2> QED
    BY <2>1 DEF Leave, TypeOK
<1>2. call' \in [Call -> CallState]
  BY GotoType DEF Leave, TypeOK, CallPc
<1>3. faults' \in 0..MaxFaults /\ UNCHANGED <<rpm, tpm, recent, quotas, rollovers>>
  BY FaultType DEF Leave
<1> QED
  BY <1>1, <1>2, <1>3 DEF TypeOK, quotas

LEMMA TypeGoStale ==
  ASSUME TypeOK, NEW c \in Call, GoStale(c)
  PROVE  TypeOK'
<1>1. /\ stale' \subseteq Range(queue) /\ faults' \in 0..MaxFaults
      /\ UNCHANGED <<queue, rpm, tpm, recent, quotas, call, rollovers>>
  BY FaultType DEF GoStale, TypeOK
<1> QED
  BY <1>1 DEF TypeOK, quotas

LEMMA TypeExpire ==
  ASSUME TypeOK, Expire
  PROVE  TypeOK'
<1>1. /\ Tail(recent) \in Seq(Call)
      /\ Range(recent) \ {Head(recent)} \subseteq Range(Tail(recent))
  BY TailFacts DEF TypeOK, Expire
<1>2. rpm' \subseteq Range(recent')
  BY <1>1 DEF Expire, TypeOK
<1>3. tpm' \in [Call -> Nat]
  BY DEF Expire, TypeOK
<1>4. recent' = Tail(recent) /\ UNCHANGED <<queue, stale, quotas, call, rollovers, faults>>
  BY DEF Expire
<1> QED
  BY <1>1, <1>2, <1>3, <1>4 DEF TypeOK, quotas

LEMMA TypeReserve ==
  ASSUME TypeOK, NEW c \in Call, Reserve(c) \/ ReserveUnheard(c) \/ Refuse(c)
  PROVE  TypeOK'
<1>1. call' \in [Call -> CallState]
  <2>1. CASE Reserve(c)
    BY <2>1 DEF Reserve, TypeOK, CallState, CallPc
  <2>2. CASE ReserveUnheard(c) \/ Refuse(c)
    BY <2>2, GotoType DEF ReserveUnheard, Refuse, TypeOK, CallPc
  <2> QED
    BY <2>1, <2>2
<1>2. meter' \in [Meter -> Nat] /\ booked' \in [Meter -> SUBSET Call] /\ late' = late
  <2>1. Book(c) \/ UNCHANGED quotas
    BY DEF Reserve, ReserveUnheard, Refuse
  <2>2. CASE UNCHANGED quotas
    BY <2>2 DEF quotas, TypeOK
  <2> QED
    BY <2>1, <2>2, BookType
<1>3. faults' \in 0..MaxFaults /\ UNCHANGED <<slots, rollovers>>
  BY FaultType DEF Reserve, ReserveUnheard, Refuse
<1> QED
  BY <1>1, <1>2, <1>3 DEF TypeOK, slots

LEMMA TypeRelease ==
  ASSUME TypeOK, NEW c \in Call, Release(c)
  PROVE  TypeOK'
<1>1. call' \in [Call -> CallState]
  BY GotoType DEF Release, TypeOK, CallPc
<1>2. rpm' \subseteq rpm /\ tpm' \in [Call -> Nat]
  BY DEF Release, GiveBack, TypeOK
<1>3. faults' \in 0..MaxFaults /\ UNCHANGED <<queue, stale, recent, quotas, rollovers>>
  BY FaultType DEF Release
<1> QED
  BY <1>1, <1>2, <1>3 DEF TypeOK, quotas

LEMMA TypeAnswer ==
  ASSUME TypeOK, NEW c \in Call, Answer(c)
  PROVE  TypeOK'
<1>1. PICK outcome \in Outcomes(c) :
        /\ call' = [call EXCEPT ![c].pc = "settling", ![c].outcome = outcome]
        /\ Account(c, outcome) \/ UNCHANGED <<rpm, tpm>>
        /\ faults' = faults \/ Fault
  BY DEF Answer
<1>2. outcome \in Outcome
  BY OutcomeTypes
<1>3. call' \in [Call -> CallState]
  BY <1>1, <1>2 DEF TypeOK, CallState, CallPc
<1>4. rpm' = rpm /\ tpm' \in [Call -> Nat]
  BY <1>1, <1>2 DEF Account, SettleSlot, TypeOK, Outcome
<1>5. faults' \in 0..MaxFaults /\ UNCHANGED <<queue, stale, recent, quotas, rollovers>>
  BY <1>1, FaultType DEF Answer
<1> QED
  BY <1>3, <1>4, <1>5 DEF TypeOK, quotas

LEMMA TypeSettleQuota ==
  ASSUME TypeOK, NEW c \in Call, SettleQuota(c)
  PROVE  TypeOK'
<1> DEFINE delta == call[c].outcome.billed - Estimate(c)
<1>1. delta \in Int
  BY CallFacts DEF TypeOK, CallState, Outcome
<1>2. call' \in [Call -> CallState]
  BY GotoType DEF SettleQuota, TypeOK, CallPc
<1>3. \/ /\ meter' = [k \in Meter |-> IF k \in TokenMeters(c) THEN Settled(k, delta) ELSE meter[k]]
         /\ late' = [k \in Meter |-> IF k \in TokenMeters(c) /\ c \notin booked[k]
                                     THEN late[k] \cup {c} ELSE late[k]]
      \/ UNCHANGED <<meter, late>>
  BY DEF SettleQuota
<1> HIDE DEF delta
<1>4. \A k \in Meter : meter[k] \in Nat
  BY DEF TypeOK
<1>5. \A k \in Meter : Settled(k, delta) \in Nat
  BY <1>1, <1>4 DEF Settled
<1>6. meter' \in [Meter -> Nat]
  BY <1>3, <1>5 DEF TypeOK
<1>7. late' \in [Meter -> SUBSET Call]
  BY <1>3 DEF TypeOK
<1>8. faults' \in 0..MaxFaults /\ UNCHANGED <<slots, booked, rollovers>>
  BY FaultType DEF SettleQuota
<1> QED
  BY <1>2, <1>6, <1>7, <1>8 DEF TypeOK, slots

LEMMA TypeRollover ==
  ASSUME TypeOK, Rollover
  PROVE  TypeOK'
<1>1. meter' \in [Meter -> Nat]
  BY DEF Rollover, TypeOK
<1>2. booked' \in [Meter -> SUBSET Call] /\ late' \in [Meter -> SUBSET Call]
  BY DEF Rollover, TypeOK
<1>3. rollovers' \in 0..MaxRollovers
  BY CallsAssumption DEF Rollover, TypeOK
<1>4. UNCHANGED <<slots, call, faults>>
  BY DEF Rollover
<1> QED
  BY <1>1, <1>2, <1>3, <1>4 DEF TypeOK, slots

LEMMA TypeCrash ==
  ASSUME TypeOK, NEW r \in Replica, Crash(r)
  PROVE  TypeOK'
<1>1. call' \in [Call -> CallState]
  <2>1. \A c \in Call : [call[c] EXCEPT !.pc = "dead"] \in CallState
    BY DEF TypeOK, CallState, CallPc
  <2> QED
    BY <2>1 DEF Crash, TypeOK
<1>2. faults' \in 0..MaxFaults /\ UNCHANGED <<slots, quotas, rollovers>>
  BY FaultType DEF Crash
<1> QED
  BY <1>1, <1>2 DEF TypeOK, slots, quotas

LEMMA TypeInit == Init => TypeOK
<1> SUFFICES ASSUME Init
             PROVE  TypeOK
  OBVIOUS
<1>1. Range(<<>>) = {}
  BY DEF Range
<1>2. call \in [Call -> CallState]
  BY OutcomeTypes DEF Init, CallState, CallPc
<1> QED
  BY <1>1, <1>2, CallsAssumption DEF Init, TypeOK

LEMMA TypeNext == TypeOK /\ [Next]_vars => TypeOK'
<1> SUFFICES ASSUME TypeOK, [Next]_vars
             PROVE  TypeOK'
  OBVIOUS
<1>1. CASE UNCHANGED vars
  BY <1>1 DEF vars, TypeOK
<1>2. CASE Next
  BY <1>2, TypePoll, TypeLeave, TypeGoStale, TypeExpire, TypeReserve, TypeRelease,
     TypeAnswer, TypeSettleQuota, TypeRollover, TypeCrash DEF Next, Step
<1> QED
  BY <1>1, <1>2

\* The queue, the window, the meters and the requests have their types: a meter
\* does not go below zero, and only calls of the queue have an old heartbeat.
THEOREM LlmTypeCorrect == Spec => []TypeOK
BY TypeInit, TypeNext, PTL DEF Spec
-----------------------------------------------------------------------------
(* The requests and the window *)

\* Until a call is sent, nobody answers it.
Unsent == {"new", "waiting", "admitted", "refused"}

CallsOK ==
  \A c \in Call :
    /\ call[c].pc \in Unsent => ~ call[c].sent
    /\ call[c].pc = "sent" => call[c].sent
    /\ call[c].pc \in Unsent \cup {"sent"} => call[c].outcome = Unanswered(c)

\* What was sent with a slot keeps it, with the estimate or with what it took,
\* until its admission leaves the window.
Held(c) == c \in rpm /\ tpm[c] \in {Estimate(c), call[c].outcome.total}

WindowOK ==
  /\ IsInjective(recent)
  /\ \A c \in Call : Polling(c) => c \notin Range(recent)
  /\ \A c \in Call :
       /\ call[c].slot /\ c \in Range(recent)
       /\ call[c].pc = "admitted" \/ call[c].sent
       => Held(c)

\* What the slots of the window stand for, without what a call took beyond its
\* estimate, is within the limits.
Weight(c) == Least(tpm[c], Estimate(c))
Weights == [c \in Call |-> Weight(c)]

RateOK ==
  /\ Rpm > 0 => Cardinality(rpm) <= Rpm
  /\ Tpm > 0 => \/ SumFunctionOnSet(Weights, rpm) <= Tpm
                \/ \A c, d \in rpm : Weight(c) > 0 /\ Weight(d) > 0 => c = d

-----------------------------------------------------------------------------
(* The quotas *)

\* What c may come to cost on a meter: the estimate until it is settled.
Contribution(k, c) ==
  IF call[c].pc \in {"ended", "dead"} THEN Least(Increment(k, c), Cost(k, c)) ELSE Increment(k, c)
Bounded(k, c) == Least(Increment(k, c), Cost(k, c))

Contributions(k) == [c \in Call |-> Contribution(k, c)]
Boundeds(k) == [c \in Call |-> Bounded(k, c)]
Credits(k) == [c \in Call |-> Credit(k, c)]

\* A call is booked once, and settled once.
BookedOK ==
  \A c \in Call, k \in Meter :
    /\ c \in booked[k] => k \in Charged[c]
    /\ c \in booked[k] => call[c].pc \notin {"new", "waiting", "admitted"}
    /\ c \in late[k] => call[c].pc = "ended"

MetersOK ==
  \A k \in Meter :
    /\ SumFunctionOnSet(Contributions(k), booked[k])
         <= meter[k] + SumFunctionOnSet(Credits(k), late[k])
    /\ Limit[k] >= 0 =>
         SumFunctionOnSet(Boundeds(k), booked[k])
           <= Limit[k] + SumFunctionOnSet(Credits(k), late[k])

LlmInv == TypeOK /\ CallsOK /\ WindowOK /\ RateOK /\ BookedOK /\ MetersOK
-----------------------------------------------------------------------------
(* The requests *)

\* Only the request itself moves, and only its place.
Moves(c, pc) ==
  \A d \in Call : /\ d # c => call'[d] = call[d]
                  /\ d = c => /\ call'[d].pc = pc /\ call'[d].slot = call[d].slot
                              /\ call'[d].sent = call[d].sent
                              /\ call'[d].outcome = call[d].outcome

LEMMA GotoMoves ==
  ASSUME TypeOK, NEW c \in Call, NEW pc, Goto(c, pc)
  PROVE  Moves(c, pc)
BY DEF Goto, Moves, TypeOK, CallState

LEMMA PollMoves ==
  ASSUME TypeOK, NEW c \in Call, Poll(c)
  PROVE  /\ \A d \in Call : d # c => call'[d] = call[d]
         /\ call'[c].pc \in {"admitted", "waiting"}
         /\ call'[c].pc = "admitted" <=> Admits(c)
         /\ call'[c].sent = call[c].sent /\ call'[c].outcome = call[c].outcome
<1> DEFINE pc == IF Admits(c) THEN "admitted" ELSE "waiting"
           s == Admits(c)
<1>1. call' = [call EXCEPT ![c].pc = pc, ![c].slot = s]
  BY DEF Poll
<1>2. pc \in {"admitted", "waiting"} /\ (pc = "admitted" <=> Admits(c))
  OBVIOUS
<1> HIDE DEF pc, s
<1> QED
  BY <1>1, <1>2 DEF TypeOK, CallState

LEMMA ReserveMoves ==
  ASSUME TypeOK, NEW c \in Call, Reserve(c)
  PROVE  /\ \A d \in Call : d # c => call'[d] = call[d]
         /\ call'[c].pc = "sent" /\ call'[c].sent
         /\ call'[c].slot = call[c].slot /\ call'[c].outcome = call[c].outcome
BY DEF Reserve, TypeOK, CallState

LEMMA AnswerMoves ==
  ASSUME TypeOK, NEW c \in Call, NEW outcome,
         call' = [call EXCEPT ![c].pc = "settling", ![c].outcome = outcome]
  PROVE  /\ \A d \in Call : d # c => call'[d] = call[d]
         /\ call'[c].pc = "settling" /\ call'[c].outcome = outcome
         /\ call'[c].slot = call[c].slot /\ call'[c].sent = call[c].sent
BY DEF TypeOK, CallState

LEMMA CrashMoves ==
  ASSUME TypeOK, NEW r \in Replica, Crash(r), NEW d \in Call
  PROVE  \/ call'[d] = call[d]
         \/ /\ call'[d].pc = "dead" /\ call'[d].slot = call[d].slot
            /\ call'[d].sent = call[d].sent /\ call'[d].outcome = call[d].outcome
            /\ call[d].pc \notin {"new", "ended", "dead"}
<1> DEFINE lost == {c \in Call : ServedBy[c] = r /\ call[c].pc \notin {"new", "ended", "dead"}}
<1>1. call'[d] = IF d \in lost THEN [call[d] EXCEPT !.pc = "dead"] ELSE call[d]
  BY DEF Crash
<1>2. call[d] \in CallState
  BY DEF TypeOK
<1> QED
  BY <1>1, <1>2 DEF CallState

LEMMA CallsMove ==
  ASSUME CallsOK, NEW c \in Call, NEW pc, Moves(c, pc),
         pc \in Unsent \cup {"sent"} => call[c].pc \in Unsent \cup {"sent"},
         pc \in Unsent => call[c].pc \in Unsent,
         pc = "sent" => call[c].sent
  PROVE  CallsOK'
<1>1. ASSUME NEW d \in Call
      PROVE  /\ call'[d].pc \in Unsent => ~ call'[d].sent
             /\ call'[d].pc = "sent" => call'[d].sent
             /\ call'[d].pc \in Unsent \cup {"sent"} => call'[d].outcome = Unanswered(d)
  <2>1. CASE d = c
    BY <2>1 DEF Moves, CallsOK
  <2>2. CASE d # c
    BY <2>2 DEF Moves, CallsOK
  <2> QED
    BY <2>1, <2>2
<1> QED
  BY <1>1 DEF CallsOK

LEMMA CallsNext == TypeOK /\ CallsOK /\ [Next]_vars => CallsOK'
<1> SUFFICES ASSUME TypeOK, CallsOK, [Next]_vars
             PROVE  CallsOK'
  OBVIOUS
<1>1. CASE UNCHANGED call
  BY <1>1 DEF CallsOK
<1>2. ASSUME NEW c \in Call, Poll(c)
      PROVE  CallsOK'
  BY <1>2, PollMoves DEF CallsOK, Poll, Polling, Unsent
<1>3. ASSUME NEW c \in Call, PollUnheard(c) \/ ReserveUnheard(c) \/ Refuse(c)
      PROVE  CallsOK'
  <2>1. PICK pc \in Unsent : Goto(c, pc)
    BY <1>3 DEF PollUnheard, ReserveUnheard, Refuse, Unsent
  <2>2. call[c].pc \in Unsent
    BY <1>3 DEF PollUnheard, ReserveUnheard, Refuse, Unsent, Polling
  <2> QED
    BY <2>1, <2>2, GotoMoves, CallsMove DEF Unsent
<1>4. ASSUME NEW c \in Call, Leave(c) \/ Release(c) \/ SettleQuota(c)
      PROVE  CallsOK'
  <2>1. Goto(c, "ended")
    BY <1>4 DEF Leave, Release, SettleQuota
  <2> QED
    BY <2>1, GotoMoves, CallsMove DEF Unsent
<1>5. ASSUME NEW c \in Call, Reserve(c)
      PROVE  CallsOK'
  BY <1>5, ReserveMoves DEF CallsOK, Reserve, Unsent
<1>6. ASSUME NEW c \in Call, Answer(c)
      PROVE  CallsOK'
  <2>1. PICK outcome :
          call' = [call EXCEPT ![c].pc = "settling", ![c].outcome = outcome]
    BY <1>6 DEF Answer
  <2>2. /\ \A d \in Call : d # c => call'[d] = call[d]
        /\ call'[c].pc = "settling"
    BY <2>1, AnswerMoves
  <2> QED
    BY <2>2 DEF CallsOK, Unsent
<1>7. ASSUME NEW r \in Replica, Crash(r)
      PROVE  CallsOK'
  <2>1. ASSUME NEW d \in Call
        PROVE  /\ call'[d].pc \in Unsent => ~ call'[d].sent
               /\ call'[d].pc = "sent" => call'[d].sent
               /\ call'[d].pc \in Unsent \cup {"sent"} => call'[d].outcome = Unanswered(d)
    <3>1. CASE call'[d] = call[d]
      BY <3>1 DEF CallsOK
    <3>2. CASE call'[d].pc = "dead"
      BY <3>2 DEF Unsent
    <3> QED
      BY <1>7, <3>1, <3>2, CrashMoves
  <2> QED
    BY <2>1 DEF CallsOK
<1> QED
  BY <1>1, <1>2, <1>3, <1>4, <1>5, <1>6, <1>7
  DEF Next, Step, vars, GoStale, Expire, Rollover

-----------------------------------------------------------------------------
(* The window *)

\* A call that polls is admitted by Redis, or nothing happens to the window.
LEMMA AcquireWindow ==
  ASSUME TypeOK, WindowOK, NEW c \in Call, Polling(c), Acquire(c)
  PROVE  \/ /\ Admits(c) /\ c \notin Range(recent) /\ c \notin rpm
            /\ rpm' = rpm \cup {c} /\ tpm' = [tpm EXCEPT ![c] = Estimate(c)]
            /\ recent' = Append(recent, c) /\ Range(recent') = Range(recent) \cup {c}
            /\ IsInjective(recent')
         \/ ~Admits(c) /\ UNCHANGED <<rpm, tpm, recent>>
<1>1. c \notin Range(recent) /\ c \notin rpm
  BY DEF WindowOK, TypeOK
<1>2. CASE Admits(c)
  <2>1. /\ rpm' = rpm \cup {c} /\ tpm' = [tpm EXCEPT ![c] = Estimate(c)]
        /\ recent' = Append(recent, c)
    BY <1>2 DEF Acquire
  <2>2. Range(recent') = Range(recent) \cup {c}
    BY <2>1, AppendFacts DEF TypeOK
  <2>3. /\ DOMAIN recent' = 1..(Len(recent) + 1) /\ DOMAIN recent = 1..Len(recent)
        /\ \A i \in 1..Len(recent) : recent'[i] = recent[i]
        /\ recent'[Len(recent) + 1] = c /\ Len(recent) \in Nat
    BY <2>1 DEF TypeOK
  <2>4. \A i \in 1..Len(recent) : recent[i] # c
    BY <1>1, <2>3 DEF Range
  <2>5. \A i, j \in 1..Len(recent) : recent[i] = recent[j] => i = j
    BY <2>3 DEF WindowOK, IsInjective
  <2>6. ASSUME NEW i \in 1..(Len(recent) + 1), NEW j \in 1..(Len(recent) + 1),
               recent'[i] = recent'[j]
        PROVE  i = j
    <3>1. \A n \in 1..(Len(recent) + 1) : n \in 1..Len(recent) \/ n = Len(recent) + 1
      BY <2>3
    <3> QED
      BY <2>3, <2>4, <2>5, <2>6, <3>1
  <2>7. IsInjective(recent')
    BY <2>3, <2>6 DEF IsInjective
  <2> QED
    BY <1>1, <1>2, <2>1, <2>2, <2>7
<1>3. CASE ~Admits(c)
  BY <1>3 DEF Acquire
<1> QED
  BY <1>2, <1>3

LEMMA InjectiveTail ==
  ASSUME TypeOK, IsInjective(recent), recent # <<>>
  PROVE  /\ IsInjective(Tail(recent))
         /\ Head(recent) \notin Range(Tail(recent))
<1>1. /\ Len(recent) \in Nat /\ Len(recent) > 0 /\ DOMAIN recent = 1..Len(recent)
      /\ Head(recent) = recent[1] /\ DOMAIN Tail(recent) = 1..(Len(recent) - 1)
      /\ \A i \in 1..(Len(recent) - 1) : Tail(recent)[i] = recent[i + 1]
  BY DEF TypeOK
<1>2. \A i, j \in 1..Len(recent) : recent[i] = recent[j] => i = j
  BY <1>1 DEF IsInjective
<1>3. ASSUME NEW i \in 1..(Len(recent) - 1), NEW j \in 1..(Len(recent) - 1),
             Tail(recent)[i] = Tail(recent)[j]
      PROVE  i = j
  <2>1. i + 1 \in 1..Len(recent) /\ j + 1 \in 1..Len(recent) /\ recent[i + 1] = recent[j + 1]
    BY <1>1, <1>3
  <2>2. i + 1 = j + 1
    BY <1>2, <2>1
  <2> QED
    BY <1>1, <2>2
<1>4. ASSUME NEW i \in 1..(Len(recent) - 1)
      PROVE  Tail(recent)[i] # Head(recent)
  <2>1. i + 1 \in 1..Len(recent) /\ 1 \in 1..Len(recent) /\ i + 1 # 1
    BY <1>1
  <2> QED
    BY <1>1, <1>2, <2>1
<1>5. Head(recent) \notin Range(Tail(recent))
  BY <1>1, <1>4 DEF Range
<1> QED
  BY <1>1, <1>3, <1>5 DEF IsInjective

Placed(c) ==
  /\ Polling(c) => c \notin Range(recent)
  /\ /\ call[c].slot /\ c \in Range(recent)
     /\ call[c].pc = "admitted" \/ call[c].sent
     => Held(c)

LEMMA WindowIsPlaced ==
  WindowOK <=> IsInjective(recent) /\ \A c \in Call : Placed(c)
BY DEF WindowOK, Placed

\* Another call's step.
LEMMA StillPlaced ==
  ASSUME WindowOK, NEW d \in Call, call'[d] = call[d],
         d \in Range(recent') => d \in Range(recent),
         d \in Range(recent') /\ d \in rpm => d \in rpm' /\ tpm'[d] = tpm[d]
  PROVE  Placed(d)'
<1>1. Placed(d)
  BY WindowIsPlaced
<1>2. call'[d].pc = call[d].pc /\ call'[d].slot = call[d].slot
        /\ call'[d].sent = call[d].sent /\ call'[d].outcome = call[d].outcome
  OBVIOUS
<1>3. Polling(d)' = Polling(d)
  BY <1>2 DEF Polling
<1> QED
  BY <1>1, <1>2, <1>3 DEF Placed, Held

LEMMA WindowNext == TypeOK /\ CallsOK /\ WindowOK /\ [Next]_vars => WindowOK'
<1> SUFFICES ASSUME TypeOK, CallsOK, WindowOK, [Next]_vars
             PROVE  WindowOK'
  OBVIOUS
<1> DEFINE Goal == WindowOK'
<1>0. Goal <=> IsInjective(recent') /\ \A c \in Call : Placed(c)'
  BY DEF WindowOK, Placed
<1>i. IsInjective(recent)
  BY WindowIsPlaced
<1>s. ASSUME UNCHANGED <<recent, rpm, tpm>>, NEW c \in Call, Placed(c)',
             \A d \in Call : d # c => call'[d] = call[d]
      PROVE  Goal
  <2>1. ASSUME NEW d \in Call
        PROVE  Placed(d)'
    BY <1>s, <2>1, StillPlaced
  <2>2. IsInjective(recent')
    BY <1>i, <1>s
  <2> HIDE DEF Goal
  <2> QED
    BY <1>0, <2>1, <2>2
<1>1. ASSUME UNCHANGED <<recent, rpm, tpm, call>>
      PROVE  Goal
  BY <1>1 DEF WindowOK, Held, Polling
<1>2. ASSUME NEW c \in Call, Poll(c) \/ PollUnheard(c)
      PROVE  Goal
  <2>1. \A d \in Call : d # c => call'[d] = call[d]
    BY <1>2, PollMoves, GotoMoves DEF PollUnheard, Moves
  <2>2. ~ call'[c].sent
    <3>1. call'[c].sent = call[c].sent
      BY <1>2, PollMoves, GotoMoves DEF PollUnheard, Moves
    <3> QED
      BY <1>2, <3>1 DEF CallsOK, Poll, PollUnheard, Polling, Unsent
  <2>3. c \notin Range(recent)
    BY <1>2 DEF WindowOK, Poll, PollUnheard
  <2>4. \/ /\ Admits(c) /\ c \notin Range(recent) /\ c \notin rpm
           /\ rpm' = rpm \cup {c} /\ tpm' = [tpm EXCEPT ![c] = Estimate(c)]
           /\ recent' = Append(recent, c) /\ Range(recent') = Range(recent) \cup {c}
           /\ IsInjective(recent')
        \/ UNCHANGED <<rpm, tpm, recent>>
    BY <1>2, AcquireWindow DEF Poll, PollUnheard, slots
  <2>5. \A d \in Call : d # c => Placed(d)'
    <3> SUFFICES ASSUME NEW d \in Call, d # c
                 PROVE  Placed(d)'
      OBVIOUS
    <3>1. (d \in Range(recent') => d \in Range(recent)) /\ (d \in rpm => d \in rpm')
            /\ tpm'[d] = tpm[d]
      BY <2>4 DEF TypeOK
    <3> QED
      BY <2>1, <3>1, StillPlaced
  <2>6. Placed(c)'
    <3>2. CASE UNCHANGED <<rpm, tpm, recent>>
      BY <2>3, <3>2 DEF Placed
    <3>3. CASE c \in rpm' /\ tpm'[c] = Estimate(c) /\ Admits(c)
      <4>1. ~ Polling(c)'
        BY <1>2, <3>3, PollMoves, GotoMoves DEF PollUnheard, Moves, Polling
      <4> QED
        BY <3>3, <4>1 DEF Placed, Held
    <3>4. tpm \in [Call -> Nat]
      BY DEF TypeOK
    <3> QED
      BY <2>4, <3>2, <3>3, <3>4
  <2>7. IsInjective(recent')
    BY <1>i, <2>4
  <2> HIDE DEF Goal
  <2> QED
    BY <1>0, <2>5, <2>6, <2>7
<1>3. ASSUME NEW c \in Call, ReserveUnheard(c) \/ Refuse(c) \/ Leave(c)
      PROVE  Goal
  <2>1. PICK pc \in {"refused", "ended"} : Goto(c, pc)
    BY <1>3 DEF ReserveUnheard, Refuse, Leave
  <2>2. ~ call[c].sent /\ UNCHANGED <<recent, rpm, tpm>>
    BY <1>3 DEF ReserveUnheard, Refuse, Leave, CallsOK, Unsent, slots
  <2>3. Moves(c, pc)
    BY <2>1, GotoMoves
  <2>4. Placed(c)'
    BY <2>1, <2>2, <2>3 DEF Moves, Placed, Polling
  <2> HIDE DEF Goal
  <2> QED
    BY <1>s, <2>2, <2>3, <2>4 DEF Moves
<1>4. ASSUME NEW c \in Call, SettleQuota(c)
      PROVE  Goal
  <2>1. Moves(c, "ended") /\ UNCHANGED <<recent, rpm, tpm>>
    BY <1>4, GotoMoves DEF SettleQuota, slots
  <2>2. Placed(c)'
    BY <2>1, WindowIsPlaced DEF Moves, Placed, Polling, Held
  <2> HIDE DEF Goal
  <2> QED
    BY <1>s, <2>1, <2>2 DEF Moves
<1>5. ASSUME NEW c \in Call, Reserve(c)
      PROVE  Goal
  <2>1. UNCHANGED <<recent, rpm, tpm>> /\ call[c].pc = "admitted"
    BY <1>5 DEF Reserve, slots
  <2>2. Placed(c)'
    BY <1>5, <2>1, ReserveMoves, WindowIsPlaced DEF Placed, Polling, Held
  <2> HIDE DEF Goal
  <2> QED
    BY <1>5, <1>s, <2>1, <2>2, ReserveMoves
<1>6. ASSUME NEW c \in Call, Release(c)
      PROVE  Goal
  <2>1. Moves(c, "ended") /\ ~ call[c].sent /\ recent' = recent
    BY <1>6, GotoMoves DEF Release, CallsOK, Unsent
  <2>2. \A d \in Call : d # c => (d \in rpm => d \in rpm') /\ tpm'[d] = tpm[d]
    BY <1>6 DEF Release, GiveBack, TypeOK
  <2>3. Placed(c)'
    BY <2>1 DEF Moves, Placed, Polling
  <2>4. ASSUME NEW d \in Call, d # c
        PROVE  Placed(d)'
    BY <2>1, <2>2, <2>4, StillPlaced DEF Moves
  <2>5. IsInjective(recent')
    BY <1>i, <2>1
  <2> HIDE DEF Goal
  <2> QED
    BY <1>0, <2>3, <2>4, <2>5
<1>7. ASSUME NEW c \in Call, Answer(c)
      PROVE  Goal
  <2>1. PICK outcome \in Outcomes(c) :
          /\ call' = [call EXCEPT ![c].pc = "settling", ![c].outcome = outcome]
          /\ \/ call[c].slot /\ outcome.heard /\ Account(c, outcome)
             \/ ~(call[c].slot /\ outcome.heard) /\ UNCHANGED <<rpm, tpm>>
             \/ UNCHANGED <<rpm, tpm>>
    BY <1>7 DEF Answer
  <2>2. /\ \A d \in Call : d # c => call'[d] = call[d]
        /\ call'[c].pc = "settling" /\ call'[c].outcome = outcome
        /\ call'[c].slot = call[c].slot /\ call'[c].sent = call[c].sent
    BY <2>1, AnswerMoves
  <2>3. recent' = recent /\ rpm' = rpm /\ \A d \in Call : d # c => tpm'[d] = tpm[d]
    BY <1>7, <2>1 DEF Answer, Account, SettleSlot, TypeOK
  <2>4. ASSUME NEW d \in Call, d # c
        PROVE  Placed(d)'
    BY <2>2, <2>3, <2>4, StillPlaced
  <2>5. Placed(c)'
    <3> SUFFICES ASSUME call[c].slot, c \in Range(recent)
                 PROVE  Held(c)'
      BY <2>2, <2>3 DEF Placed, Polling
    <3>1. call[c].sent /\ call[c].outcome = Unanswered(c)
      BY <1>7 DEF Answer, CallsOK
    <3>2. c \in rpm /\ tpm[c] = Estimate(c)
      BY <3>1 DEF WindowOK, Held, Unanswered
    <3>3. tpm'[c] \in {Estimate(c), outcome.total}
      BY <2>1, <3>2 DEF Account, SettleSlot, TypeOK
    <3> QED
      BY <2>2, <2>3, <3>2, <3>3 DEF Held
  <2>6. IsInjective(recent')
    BY <1>i, <2>3
  <2> HIDE DEF Goal
  <2> QED
    BY <1>0, <2>4, <2>5, <2>6
<1>8. ASSUME Expire
      PROVE  Goal
  <2>1. /\ recent # <<>> /\ recent' = Tail(recent) /\ rpm' = rpm \ {Head(recent)}
        /\ tpm' = [tpm EXCEPT ![Head(recent)] = 0] /\ call' = call
    BY <1>8 DEF Expire
  <2>2. IsInjective(recent') /\ Head(recent) \notin Range(recent')
    BY <1>i, <2>1, InjectiveTail
  <2>3. Range(recent') \subseteq Range(recent)
    BY <2>1, TailFacts DEF TypeOK
  <2>4. ASSUME NEW d \in Call
        PROVE  Placed(d)'
    <3>1. d \in Range(recent') => d # Head(recent)
      BY <2>2
    <3>2. d \in Range(recent') /\ d \in rpm => d \in rpm' /\ tpm'[d] = tpm[d]
      BY <2>1, <3>1 DEF TypeOK
    <3>3. call'[d] = call[d] /\ (d \in Range(recent') => d \in Range(recent))
      BY <2>1, <2>3
    <3> QED
      BY <3>2, <3>3, StillPlaced
  <2> HIDE DEF Goal
  <2> QED
    BY <1>0, <2>2, <2>4
<1>9. ASSUME NEW r \in Replica, Crash(r)
      PROVE  Goal
  <2>1. UNCHANGED <<recent, rpm, tpm>>
    BY <1>9 DEF Crash, slots
  <2>2. ASSUME NEW d \in Call
        PROVE  Placed(d)'
    <3>1. CASE call'[d] = call[d]
      BY <2>1, <3>1, StillPlaced
    <3>2. CASE /\ call'[d].pc = "dead" /\ call'[d].slot = call[d].slot
               /\ call'[d].sent = call[d].sent /\ call'[d].outcome = call[d].outcome
      BY <2>1, <3>2, WindowIsPlaced DEF Placed, Polling, Held
    <3> QED
      BY <1>9, <3>1, <3>2, CrashMoves
  <2>3. IsInjective(recent')
    BY <1>i, <2>1
  <2> HIDE DEF Goal
  <2> QED
    BY <1>0, <2>2, <2>3
<1> HIDE DEF Goal
<1>10. Goal
  <2>2. CASE UNCHANGED vars
    BY <1>1, <2>2 DEF vars
  <2>3. CASE Rollover \/ \E c \in Call : GoStale(c)
    <3>1. UNCHANGED <<recent, rpm, tpm, call>>
      BY <2>3 DEF Rollover, GoStale, slots
    <3> QED
      BY <1>1, <3>1
  <2> QED
    BY <1>2, <1>3, <1>4, <1>5, <1>6, <1>7, <1>8, <1>9, <2>2, <2>3 DEF Next, Step
<1> QED
  BY <1>10 DEF Goal
-----------------------------------------------------------------------------
(* The rate *)

WeightsOK ==
  /\ \A c \in Call : /\ Weight(c) \in Nat /\ Weights[c] = Weight(c)
                     /\ Weight(c) <= Estimate(c) /\ Weight(c) <= tpm[c]
  /\ \A S \in SUBSET Call : NatValued(Weights, S)
  /\ IsFiniteSet(rpm) /\ rpm \in SUBSET Call

LEMMA WeightNat == TypeOK => WeightsOK
<1> SUFFICES ASSUME TypeOK
             PROVE  WeightsOK
  OBVIOUS
<1>1. \A c \in Call : tpm[c] \in Nat /\ Estimate(c) \in Nat
  BY CallFacts DEF TypeOK
<1>2. \A c \in Call : Weight(c) \in Nat /\ Weight(c) <= Estimate(c) /\ Weight(c) <= tpm[c]
  BY <1>1 DEF Weight, Least
<1>3. \A c \in Call : Weights[c] = Weight(c)
  BY DEF Weights
<1>4. Range(recent) \subseteq Call
  BY DEF Range, TypeOK
<1>5. IsFiniteSet(rpm) /\ rpm \in SUBSET Call
  BY <1>4, CallFacts, FS_Subset DEF TypeOK
<1> QED
  BY <1>2, <1>3, <1>5 DEF NatValued, WeightsOK

\* Fewer calls that stand for less.
LEMMA RateLess ==
  ASSUME TypeOK, TypeOK', RateOK, rpm' \subseteq rpm,
         \A d \in rpm' : Weight(d)' <= Weight(d)
  PROVE  RateOK'
<1>1. WeightsOK
  BY WeightNat
<1>2. WeightsOK'
  <2>1. (TypeOK => WeightsOK)'
    BY WeightNat, PTL
  <2> QED
    BY <2>1
<1> DEFINE old == Weights
           new == Weights'
           kept == rpm'
<1>3. /\ IsFiniteSet(rpm) /\ kept \in SUBSET rpm /\ IsFiniteSet(kept)
      /\ NatValued(old, rpm) /\ NatValued(old, kept) /\ NatValued(new, kept)
      /\ \A d \in kept : new[d] <= old[d]
  BY <1>1, <1>2 DEF WeightsOK
<1>4. Cardinality(kept) <= Cardinality(rpm) /\ Cardinality(kept) \in Nat
        /\ Cardinality(rpm) \in Nat
  BY <1>3, FS_Subset, FS_CardinalityType
<1>5. /\ SumFunctionOnSet(new, kept) <= SumFunctionOnSet(old, kept)
      /\ SumFunctionOnSet(old, kept) <= SumFunctionOnSet(old, rpm)
      /\ SumFunctionOnSet(new, kept) \in Nat /\ SumFunctionOnSet(old, kept) \in Nat
      /\ SumFunctionOnSet(old, rpm) \in Nat
  <2> HIDE DEF old, new, kept
  <2> QED
    BY <1>3, SumLeq, SumSubset, SumNat
<1>6. Rpm > 0 => Cardinality(kept) <= Rpm
  BY <1>4, CallFacts DEF RateOK
<1>7. \/ SumFunctionOnSet(old, rpm) <= Tpm
      \/ ~(Tpm > 0)
      \/ \A c, d \in rpm : Weight(c) > 0 /\ Weight(d) > 0 => c = d
  BY DEF RateOK
<1>8. ASSUME SumFunctionOnSet(old, rpm) <= Tpm
      PROVE  SumFunctionOnSet(new, kept) <= Tpm
  <2> HIDE DEF old, new, kept
  <2> QED
    BY <1>5, <1>8, CallFacts
<1>9. ASSUME \A c, d \in rpm : Weight(c) > 0 /\ Weight(d) > 0 => c = d
      PROVE  \A c, d \in kept : Weight(c)' > 0 /\ Weight(d)' > 0 => c = d
  <2>1. \A c \in kept : /\ c \in rpm /\ Weight(c) \in Nat /\ Weight(c)' \in Nat
                        /\ Weight(c)' <= Weight(c)
    BY <1>1, <1>2 DEF WeightsOK
  <2> QED
    BY <1>9, <2>1
<1> QED
  BY <1>6, <1>7, <1>8, <1>9 DEF RateOK

\* An admission.
LEMMA RateMore ==
  ASSUME TypeOK, TypeOK', RateOK, NEW c \in Call, Admits(c), c \notin rpm,
         rpm' = rpm \cup {c}, tpm' = [tpm EXCEPT ![c] = Estimate(c)]
  PROVE  RateOK'
<1>1. WeightsOK
  BY WeightNat
<1>2. WeightsOK'
  <2>1. (TypeOK => WeightsOK)'
    BY WeightNat, PTL
  <2> QED
    BY <2>1
<1> DEFINE old == Weights
           new == Weights'
<1>3. /\ \A d \in rpm : Weight(d)' = Weight(d)
      /\ Weight(c)' = Estimate(c) /\ Estimate(c) \in Nat
  <2>1. \A d \in rpm : tpm'[d] = tpm[d]
    BY <1>1 DEF TypeOK, WeightsOK
  <2>2. tpm'[c] = Estimate(c) /\ Estimate(c) \in Nat
    BY CallFacts DEF TypeOK
  <2> QED
    BY <2>1, <2>2 DEF Weight, Least
<1>4. /\ IsFiniteSet(rpm) /\ NatValued(old, rpm) /\ NatValued(new, rpm \cup {c})
      /\ NatValued(new, rpm) /\ new[c] = Estimate(c)
      /\ \A d \in rpm : old[d] = new[d] /\ old[d] <= tpm[d]
      /\ NatValued(tpm, rpm)
  BY <1>1, <1>2, <1>3 DEF WeightsOK, NatValued, TypeOK
<1>5. Rpm > 0 => Cardinality(rpm') <= Rpm
  <2>1. Cardinality(rpm') = Cardinality(rpm) + 1 /\ Cardinality(rpm) \in Nat
    BY <1>4, FS_AddElement, FS_CardinalityType
  <2>2. Rpm > 0 => Cardinality(rpm) < Rpm
    BY DEF Admits, Fits
  <2> QED
    BY <2>1, <2>2, CallFacts
<1>6. ASSUME Tpm > 0, SumFunctionOnSet(tpm, rpm) = 0
      PROVE  \A d, e \in rpm' : Weight(d)' > 0 /\ Weight(e)' > 0 => d = e
  <2>1. ASSUME NEW d \in rpm
        PROVE  Weight(d)' = 0
    <3>1. SumFunctionOnSet(tpm, rpm) = tpm[d] + SumFunctionOnSet(tpm, rpm \ {d})
      BY <1>4, SumTake
    <3>2. tpm[d] \in Nat /\ SumFunctionOnSet(tpm, rpm \ {d}) \in Nat
      <4>1. IsFiniteSet(rpm \ {d}) /\ NatValued(tpm, rpm \ {d})
        BY <1>4, FS_Subset DEF NatValued
      <4> QED
        BY <1>4, <4>1, SumNat DEF NatValued
    <3>3. tpm[d] = 0
      BY <1>6, <3>1, <3>2
    <3> QED
      BY <1>1, <1>3, <3>3 DEF WeightsOK
  <2> QED
    BY <2>1
<1>7. ASSUME Tpm > 0, SumFunctionOnSet(tpm, rpm) + Estimate(c) <= Tpm
      PROVE  SumFunctionOnSet(new, rpm') <= Tpm
  <2>1. SumFunctionOnSet(new, rpm \cup {c}) = SumFunctionOnSet(new, rpm) + new[c]
    <3> HIDE DEF new
    <3> QED
      BY <1>4, SumAdd
  <2>2. SumFunctionOnSet(new, rpm) <= SumFunctionOnSet(tpm, rpm)
    <3> HIDE DEF new, old
    <3>1. \A d \in rpm : new[d] <= tpm[d]
      BY <1>4
    <3>2. IsFiniteSet(rpm) /\ NatValued(new, rpm) /\ NatValued(tpm, rpm)
      BY <1>4
    <3> QED
      BY <3>1, <3>2, SumLeq, Zenon
  <2>3. SumFunctionOnSet(new, rpm) \in Nat /\ SumFunctionOnSet(tpm, rpm) \in Nat
    <3> HIDE DEF new, old
    <3>1. IsFiniteSet(rpm) /\ NatValued(new, rpm) /\ NatValued(tpm, rpm)
      BY <1>4
    <3> QED
      BY <3>1, SumNat, Zenon
  <2> HIDE DEF new, old
  <2> QED
    BY <1>3, <1>4, <1>7, <2>1, <2>2, <2>3, CallFacts
<1>8. Tpm > 0 => \/ SumFunctionOnSet(tpm, rpm) = 0
                 \/ SumFunctionOnSet(tpm, rpm) + Estimate(c) <= Tpm
  BY DEF Admits, Fits
<1> QED
  BY <1>5, <1>6, <1>7, <1>8 DEF RateOK

LEMMA RateNext ==
  TypeOK /\ TypeOK' /\ CallsOK /\ WindowOK /\ RateOK /\ [Next]_vars => RateOK'
<1> SUFFICES ASSUME TypeOK, TypeOK', CallsOK, WindowOK, RateOK, [Next]_vars
             PROVE  RateOK'
  OBVIOUS
<1>1. ASSUME UNCHANGED <<rpm, tpm>>
      PROVE  RateOK'
  BY <1>1 DEF RateOK, Weights, Weight
<1>2. ASSUME NEW c \in Call, Poll(c) \/ PollUnheard(c)
      PROVE  RateOK'
  <2>1. (Polling(c) /\ Acquire(c)) \/ UNCHANGED <<rpm, tpm>>
    BY <1>2 DEF Poll, PollUnheard, slots
  <2> QED
    BY <1>1, <2>1, AcquireWindow, RateMore
<1>w. \A d \in Call : Weight(d) \in Nat
  BY WeightNat DEF WeightsOK
<1>r. rpm \subseteq Call
  BY WeightNat DEF WeightsOK
<1>3. ASSUME NEW c \in Call, Release(c)
      PROVE  RateOK'
  <2>1. rpm' \subseteq rpm /\ \A d \in rpm' : tpm'[d] = tpm[d]
    BY <1>3, <1>r DEF Release, GiveBack, TypeOK
  <2>2. \A d \in rpm' : Weight(d)' <= Weight(d)
    BY <1>w, <1>r, <2>1 DEF Weight
  <2> QED
    BY <2>1, <2>2, RateLess
<1>4. ASSUME Expire
      PROVE  RateOK'
  <2>1. rpm' \subseteq rpm /\ \A d \in rpm' : tpm'[d] = tpm[d]
    BY <1>4, <1>r DEF Expire, TypeOK
  <2>2. \A d \in rpm' : Weight(d)' <= Weight(d)
    BY <1>w, <1>r, <2>1 DEF Weight
  <2> QED
    BY <2>1, <2>2, RateLess
<1>5. ASSUME NEW c \in Call, Answer(c)
      PROVE  RateOK'
  <2>1. PICK outcome \in Outcomes(c) :
          (call[c].slot /\ Account(c, outcome)) \/ UNCHANGED <<rpm, tpm>>
    BY <1>5 DEF Answer
  <2>2. ASSUME call[c].slot, Account(c, outcome)
        PROVE  RateOK'
    <3>1. rpm' = rpm /\ \A d \in rpm : d # c => tpm'[d] = tpm[d]
      BY <2>2, <1>r DEF Account, SettleSlot, TypeOK
    <3>2. c \in rpm => tpm[c] = Estimate(c)
      <4>1. call[c].sent /\ call[c].outcome = Unanswered(c)
        BY <1>5 DEF Answer, CallsOK
      <4>2. c \in rpm => c \in Range(recent)
        BY DEF TypeOK
      <4> QED
        BY <2>2, <4>1, <4>2 DEF WindowOK, Held, Unanswered
    <3>3. Estimate(c) \in Nat /\ tpm'[c] \in Nat
      BY CallFacts DEF TypeOK
    <3>4. \A d \in rpm' : Weight(d)' <= Weight(d)
      <4>1. c \in rpm => Weight(c)' <= Weight(c)
        BY <3>2, <3>3 DEF Weight, Least
      <4>2. \A d \in rpm : d # c => Weight(d)' <= Weight(d)
        BY <1>w, <1>r, <3>1 DEF Weight
      <4> QED
        BY <3>1, <4>1, <4>2
    <3> QED
      BY <3>1, <3>4, RateLess
  <2> QED
    BY <1>1, <2>1, <2>2
<1>6. ASSUME UNCHANGED slots
      PROVE  RateOK'
  BY <1>1, <1>6 DEF slots
<1>7. ASSUME NEW c \in Call, Leave(c) \/ GoStale(c)
      PROVE  RateOK'
  BY <1>1, <1>7 DEF Leave, GoStale
<1>8. ASSUME NEW c \in Call, Reserve(c) \/ ReserveUnheard(c) \/ Refuse(c) \/ SettleQuota(c)
      PROVE  RateOK'
  BY <1>6, <1>8 DEF Reserve, ReserveUnheard, Refuse, SettleQuota
<1>9. ASSUME UNCHANGED vars \/ Rollover \/ \E r \in Replica : Crash(r)
      PROVE  RateOK'
  BY <1>6, <1>9 DEF vars, slots, Rollover, Crash
<1> QED
  BY <1>2, <1>3, <1>4, <1>5, <1>7, <1>8, <1>9 DEF Next, Step
\* What was sent in the window is in it, and stands for what it took.
LEMMA UpstreamHeld ==
  ASSUME TypeOK, WindowOK
  PROVE  /\ Upstream \subseteq rpm
         /\ \A c \in Upstream : Took(c) \in Nat /\ Took(c) <= Weight(c)
<1>1. Range(recent) \subseteq Call
  BY DEF Range, TypeOK
<1>2. ASSUME NEW c \in Upstream
      PROVE  c \in rpm /\ Took(c) \in Nat /\ Took(c) <= Weight(c)
  <2>1. c \in Call /\ Held(c)
    BY <1>1, <1>2 DEF Upstream, WindowOK
  <2>2. Estimate(c) \in Nat /\ call[c].outcome.total \in Nat
    BY <2>1, CallFacts DEF TypeOK, CallState, Outcome
  <2> QED
    BY <2>1, <2>2 DEF Held, Took, Weight, Least
<1> QED
  BY <1>2

LEMMA RatesFollow == TypeOK /\ WindowOK /\ RateOK => RatesKept
<1> SUFFICES ASSUME TypeOK, WindowOK, RateOK
             PROVE  RatesKept
  OBVIOUS
<1> DEFINE took == [c \in Call |-> Took(c)]
           heavy == {c \in Upstream : Took(c) > 0}
<1>1. WeightsOK
  BY WeightNat
<1>2. /\ IsFiniteSet(rpm) /\ Upstream \in SUBSET rpm /\ IsFiniteSet(Upstream)
      /\ NatValued(Weights, rpm) /\ NatValued(Weights, Upstream) /\ NatValued(took, Upstream)
      /\ \A c \in Upstream : took[c] <= Weights[c]
  <2>1. Upstream \in SUBSET rpm /\ Upstream \subseteq Call
    BY <1>1, UpstreamHeld DEF WeightsOK
  <2>2. \A c \in Upstream : took[c] \in Nat /\ took[c] <= Weights[c]
    BY <1>1, <2>1, UpstreamHeld DEF WeightsOK
  <2> HIDE DEF took
  <2> QED
    BY <1>1, <2>1, <2>2, FS_Subset DEF WeightsOK, NatValued
<1>3. Cardinality(Upstream) <= Cardinality(rpm)
        /\ Cardinality(Upstream) \in Nat /\ Cardinality(rpm) \in Nat
  BY <1>2, FS_Subset, FS_CardinalityType
<1>4. Rpm > 0 => Cardinality(Upstream) <= Rpm
  BY <1>3, CallFacts DEF RateOK
<1>5. ASSUME SumFunctionOnSet(Weights, rpm) <= Tpm
      PROVE  SumFunctionOnSet(took, Upstream) <= Tpm
  <2> HIDE DEF took
  <2>1. /\ SumFunctionOnSet(took, Upstream) <= SumFunctionOnSet(Weights, Upstream)
        /\ SumFunctionOnSet(Weights, Upstream) <= SumFunctionOnSet(Weights, rpm)
        /\ SumFunctionOnSet(took, Upstream) \in Nat
        /\ SumFunctionOnSet(Weights, Upstream) \in Nat
        /\ SumFunctionOnSet(Weights, rpm) \in Nat
    BY <1>2, SumLeq, SumSubset, SumNat
  <2> QED
    BY <1>5, <2>1, CallFacts
<1>6. ASSUME \A c, d \in rpm : Weight(c) > 0 /\ Weight(d) > 0 => c = d
      PROVE  Cardinality(heavy) <= 1
  <2>1. \A c \in heavy : c \in rpm /\ Weight(c) > 0
    <3> SUFFICES ASSUME NEW c \in heavy
                 PROVE  c \in rpm /\ Weight(c) > 0
      OBVIOUS
    <3>1. c \in rpm /\ Took(c) \in Nat /\ Took(c) <= Weight(c) /\ Took(c) > 0
      BY UpstreamHeld
    <3>2. Weight(c) \in Nat
      BY <1>1, <3>1 DEF WeightsOK
    <3> QED
      BY <3>1, <3>2
  <2>2. \A c, d \in heavy : c = d
    BY <1>6, <2>1
  <2> HIDE DEF heavy
  <2>3. CASE heavy = {}
    BY <2>3, FS_EmptySet
  <2>4. CASE heavy # {}
    <3>1. PICK c : c \in heavy
      BY <2>4
    <3>2. heavy = {c}
      BY <2>2, <3>1
    <3>3. Cardinality(heavy) = 1
      BY <3>2, FS_Singleton, Zenon
    <3> QED
      BY <3>3
  <2> QED
    BY <2>3, <2>4
<1> QED
  BY <1>4, <1>5, <1>6 DEF RateOK, RatesKept

-----------------------------------------------------------------------------
(* Bookings *)

BookedAs(c) ==
  \A k \in Meter :
    /\ c \in booked[k] => k \in Charged[c]
    /\ c \in booked[k] => call[c].pc \notin {"new", "waiting", "admitted"}
    /\ c \in late[k] => call[c].pc = "ended"

LEMMA BookedNext == TypeOK /\ BookedOK /\ [Next]_vars => BookedOK'
<1> SUFFICES ASSUME TypeOK, BookedOK, [Next]_vars
             PROVE  BookedOK'
  OBVIOUS
<1> DEFINE Goal == BookedOK'
<1>0. /\ \A c \in Call : BookedAs(c)
      /\ (\A c \in Call : BookedAs(c)') => Goal
  BY DEF BookedOK, BookedAs
<1> HIDE DEF Goal
<1>1. ASSUME UNCHANGED quotas, NEW c \in Call, BookedAs(c)',
             \A d \in Call : d # c => call'[d] = call[d]
      PROVE  Goal
  <2>1. ASSUME NEW d \in Call, d # c
        PROVE  BookedAs(d)'
    <3>1. booked' = booked /\ late' = late /\ call'[d] = call[d]
      BY <1>1, <2>1 DEF quotas
    <3> QED
      BY <1>0, <3>1 DEF BookedAs
  <2> QED
    BY <1>0, <1>1, <2>1
<1>2. ASSUME UNCHANGED <<quotas, call>>
      PROVE  Goal
  <2>1. ASSUME NEW d \in Call
        PROVE  BookedAs(d)'
    BY <1>0, <1>2 DEF BookedAs, quotas
  <2> QED
    BY <1>0, <2>1
<1>3. ASSUME NEW c \in Call, Poll(c) \/ PollUnheard(c)
      PROVE  Goal
  <2>1. \A d \in Call : d # c => call'[d] = call[d]
    BY <1>3, PollMoves, GotoMoves DEF PollUnheard, Moves
  <2>2. UNCHANGED quotas /\ Polling(c)
    BY <1>3 DEF Poll, PollUnheard
  <2>3. BookedAs(c)'
    BY <1>0, <2>2 DEF BookedAs, quotas, Polling
  <2> QED
    BY <1>1, <2>1, <2>2, <2>3
<1>4. ASSUME NEW c \in Call, Leave(c) \/ Release(c) \/ Refuse(c)
      PROVE  Goal
  <2>1. PICK pc \in {"refused", "ended"} : Goto(c, pc)
    BY <1>4 DEF Refuse, Release, Leave
  <2>2. Moves(c, pc)
    BY <2>1, GotoMoves
  <2>3. UNCHANGED quotas /\ call[c].pc # "ended"
    BY <1>4 DEF Leave, Release, Refuse
  <2>4. BookedAs(c)'
    BY <1>0, <2>1, <2>2, <2>3 DEF BookedAs, quotas, Moves
  <2> QED
    BY <1>1, <2>2, <2>3, <2>4 DEF Moves
<1>5. ASSUME NEW c \in Call, Reserve(c) \/ ReserveUnheard(c)
      PROVE  Goal
  <2>1. /\ \A d \in Call : d # c => call'[d] = call[d]
        /\ call'[c].pc \in {"sent", "refused"} /\ call[c].pc = "admitted"
    BY <1>5, ReserveMoves, GotoMoves DEF ReserveUnheard, Reserve, Moves
  <2>2. Book(c)
    BY <1>5 DEF Reserve, ReserveUnheard
  <2>3. ASSUME NEW k \in Meter
        PROVE  /\ booked'[k] = IF k \in Charged[c] THEN booked[k] \cup {c} ELSE booked[k]
               /\ late'[k] = late[k]
    BY <2>2 DEF Book
  <2>4. ASSUME NEW d \in Call
        PROVE  BookedAs(d)'
    <3>1. CASE d = c
      <4>1. \A k \in Meter : d \notin booked[k] /\ d \notin late[k]
        BY <1>0, <2>1, <3>1 DEF BookedAs
      <4>2. \A k \in Meter : (d \in booked'[k] => k \in Charged[d]) /\ d \notin late'[k]
        BY <2>3, <3>1, <4>1
      <4> QED
        BY <2>1, <3>1, <4>2 DEF BookedAs
    <3>2. CASE d # c
      <4>1. \A k \in Meter : (d \in booked'[k] <=> d \in booked[k]) /\ late'[k] = late[k]
        BY <2>3, <3>2
      <4>2. call'[d] = call[d]
        BY <2>1, <3>2
      <4> QED
        BY <1>0, <4>1, <4>2 DEF BookedAs
    <3> QED
      BY <3>1, <3>2
  <2> QED
    BY <1>0, <2>4
<1>6. ASSUME NEW c \in Call, SettleQuota(c)
      PROVE  Goal
  <2>1. Moves(c, "ended") /\ call[c].pc = "settling" /\ booked' = booked
    BY <1>6, GotoMoves DEF SettleQuota
  <2>2. ASSUME NEW k \in Meter
        PROVE  late'[k] \subseteq late[k] \cup {c}
    BY <1>6 DEF SettleQuota
  <2>3. ASSUME NEW d \in Call
        PROVE  BookedAs(d)'
    <3>1. CASE d = c
      BY <1>0, <2>1, <3>1 DEF BookedAs, Moves
    <3>2. CASE d # c
      <4>1. \A k \in Meter : d \in late'[k] => d \in late[k]
        BY <2>2, <3>2
      <4> QED
        BY <1>0, <2>1, <3>2, <4>1 DEF BookedAs, Moves
    <3> QED
      BY <3>1, <3>2
  <2> QED
    BY <1>0, <2>3
<1>7. ASSUME NEW c \in Call, Answer(c)
      PROVE  Goal
  <2>1. /\ \A d \in Call : d # c => call'[d] = call[d]
        /\ call'[c].pc = "settling" /\ call[c].pc = "sent" /\ UNCHANGED quotas
    BY <1>7, AnswerMoves DEF Answer
  <2>2. BookedAs(c)'
    BY <1>0, <2>1 DEF BookedAs, quotas
  <2> QED
    BY <1>1, <2>1, <2>2
<1>8. ASSUME Rollover
      PROVE  Goal
  <2>1. ASSUME NEW k \in Meter
        PROVE  booked'[k] \subseteq booked[k] /\ late'[k] \subseteq late[k] /\ call' = call
    BY <1>8 DEF Rollover
  <2>2. ASSUME NEW d \in Call
        PROVE  BookedAs(d)'
    BY <1>0, <2>1 DEF BookedAs
  <2> QED
    BY <1>0, <2>2
<1>9. ASSUME NEW r \in Replica, Crash(r)
      PROVE  Goal
  <2>1. UNCHANGED quotas
    BY <1>9 DEF Crash
  <2>2. ASSUME NEW d \in Call
        PROVE  BookedAs(d)'
    <3>0. booked' = booked /\ late' = late
      BY <2>1 DEF quotas
    <3>1. CASE call'[d] = call[d]
      BY <1>0, <3>0, <3>1 DEF BookedAs
    <3>2. CASE call'[d].pc = "dead" /\ call[d].pc # "ended"
      BY <1>0, <3>0, <3>2 DEF BookedAs
    <3> QED
      BY <1>9, <3>1, <3>2, CrashMoves
  <2> QED
    BY <1>0, <2>2
<1>10. ASSUME UNCHANGED vars \/ Expire \/ \E c \in Call : GoStale(c)
       PROVE  Goal
  <2>1. UNCHANGED <<quotas, call>>
    BY <1>10 DEF vars, quotas, Expire, GoStale
  <2> QED
    BY <1>2, <2>1
<1>11. Goal
  BY <1>3, <1>4, <1>5, <1>6, <1>7, <1>8, <1>9, <1>10 DEF Next, Step
<1> QED
  BY <1>11 DEF Goal
-----------------------------------------------------------------------------
(* The meters *)

MeterOK(k) ==
  /\ SumFunctionOnSet(Contributions(k), booked[k])
       <= meter[k] + SumFunctionOnSet(Credits(k), late[k])
  /\ Limit[k] >= 0 =>
       SumFunctionOnSet(Boundeds(k), booked[k])
         <= Limit[k] + SumFunctionOnSet(Credits(k), late[k])

\* What the sums are made of.
PartsOK ==
  /\ \A k \in Meter, c \in Call :
       /\ Increment(k, c) \in Nat /\ Cost(k, c) \in Nat
       /\ Bounded(k, c) \in Nat /\ Credit(k, c) \in Nat /\ Overrun(k, c) \in Nat
       /\ Contribution(k, c) \in Nat /\ Bounded(k, c) <= Contribution(k, c)
       /\ Contribution(k, c) <= Increment(k, c)
       /\ Cost(k, c) = Bounded(k, c) + Overrun(k, c)
       /\ Contributions(k)[c] = Contribution(k, c) /\ Boundeds(k)[c] = Bounded(k, c)
       /\ Credits(k)[c] = Credit(k, c)
  /\ \A k \in Meter, S \in SUBSET Call :
       /\ IsFiniteSet(S) /\ NatValued(Contributions(k), S)
       /\ NatValued(Boundeds(k), S) /\ NatValued(Credits(k), S)
  /\ \A k \in Meter : meter[k] \in Nat /\ booked[k] \in SUBSET Call /\ late[k] \in SUBSET Call

LEMMA PartsNat == TypeOK => PartsOK
<1> SUFFICES ASSUME TypeOK
             PROVE  PartsOK
  OBVIOUS
<1>1. ASSUME NEW k \in Meter, NEW c \in Call
      PROVE  Increment(k, c) \in Nat /\ Cost(k, c) \in Nat
  BY CallFacts DEF Increment, Cost, TypeOK, CallState, Outcome
<1>2. ASSUME NEW k \in Meter, NEW c \in Call
      PROVE  /\ Bounded(k, c) \in Nat /\ Credit(k, c) \in Nat /\ Overrun(k, c) \in Nat
             /\ Contribution(k, c) \in Nat /\ Bounded(k, c) <= Contribution(k, c)
             /\ Contribution(k, c) <= Increment(k, c)
             /\ Cost(k, c) = Bounded(k, c) + Overrun(k, c)
  BY <1>1 DEF Bounded, Credit, Overrun, Contribution, Least, Excess
<1>3. ASSUME NEW k \in Meter, NEW c \in Call
      PROVE  /\ Contributions(k)[c] = Contribution(k, c) /\ Boundeds(k)[c] = Bounded(k, c)
             /\ Credits(k)[c] = Credit(k, c)
  BY DEF Contributions, Boundeds, Credits
<1>4. ASSUME NEW k \in Meter, NEW S \in SUBSET Call
      PROVE  /\ IsFiniteSet(S) /\ NatValued(Contributions(k), S)
             /\ NatValued(Boundeds(k), S) /\ NatValued(Credits(k), S)
  BY <1>2, <1>3, CallFacts, FS_Subset DEF NatValued
<1>5. \A k \in Meter : meter[k] \in Nat /\ booked[k] \in SUBSET Call /\ late[k] \in SUBSET Call
  BY DEF TypeOK
<1> QED
  BY <1>1, <1>2, <1>3, <1>4, <1>5 DEF PartsOK

LEMMA PartsNatNext == TypeOK' => PartsOK'
<1>1. (TypeOK => PartsOK)'
  BY PartsNat, PTL
<1> QED
  BY <1>1

\* The sums of a meter are natural numbers.
LEMMA MeterNumbers ==
  ASSUME PartsOK, NEW k \in Meter
  PROVE  /\ SumFunctionOnSet(Contributions(k), booked[k]) \in Nat
         /\ SumFunctionOnSet(Boundeds(k), booked[k]) \in Nat
         /\ SumFunctionOnSet(Credits(k), late[k]) \in Nat
         /\ meter[k] \in Nat /\ Limit[k] \in Int
BY SumNat, CallFacts DEF PartsOK

\* Nothing is booked or settled on k, and what a call may cost does not grow.
LEMMA MeterLess ==
  ASSUME PartsOK, PartsOK', NEW k \in Meter, MeterOK(k),
         booked'[k] = booked[k], meter'[k] = meter[k], late'[k] = late[k],
         \A c \in booked[k] : /\ Contribution(k, c)' <= Contribution(k, c)
                              /\ Bounded(k, c)' <= Bounded(k, c),
         \A c \in late[k] : Credit(k, c)' = Credit(k, c)
  PROVE  MeterOK(k)'
<1> DEFINE B == booked[k]
           L == late[k]
           con == Contributions(k)
           con2 == Contributions(k)'
           bou == Boundeds(k)
           bou2 == Boundeds(k)'
           cre == Credits(k)
           cre2 == Credits(k)'
<1>1. /\ IsFiniteSet(B) /\ NatValued(con, B) /\ NatValued(con2, B)
      /\ NatValued(bou, B) /\ NatValued(bou2, B)
      /\ IsFiniteSet(L) /\ NatValued(cre, L) /\ NatValued(cre2, L)
  BY DEF PartsOK
<1>2. /\ \A c \in B : con2[c] <= con[c] /\ bou2[c] <= bou[c]
      /\ \A c \in L : cre[c] = cre2[c]
  BY DEF PartsOK
<1>3. /\ meter[k] \in Nat /\ Limit[k] \in Int
      /\ SumFunctionOnSet(con, B) <= meter[k] + SumFunctionOnSet(cre, L)
      /\ Limit[k] >= 0 => SumFunctionOnSet(bou, B) <= Limit[k] + SumFunctionOnSet(cre, L)
  BY MeterNumbers DEF MeterOK
<1>4. /\ MeterOK(k)' <=>
           /\ SumFunctionOnSet(con2, B) <= meter[k] + SumFunctionOnSet(cre2, L)
           /\ Limit[k] >= 0 => SumFunctionOnSet(bou2, B) <= Limit[k] + SumFunctionOnSet(cre2, L)
  BY DEF MeterOK
<1> HIDE DEF B, L, con, con2, bou, bou2, cre, cre2
<1>5. /\ SumFunctionOnSet(con2, B) <= SumFunctionOnSet(con, B)
      /\ SumFunctionOnSet(bou2, B) <= SumFunctionOnSet(bou, B)
      /\ SumFunctionOnSet(cre, L) = SumFunctionOnSet(cre2, L)
  <2>1. SumFunctionOnSet(con2, B) <= SumFunctionOnSet(con, B)
    BY <1>1, <1>2, SumLeq
  <2>2. SumFunctionOnSet(bou2, B) <= SumFunctionOnSet(bou, B)
    BY <1>1, <1>2, SumLeq
  <2>3. SumFunctionOnSet(cre, L) = SumFunctionOnSet(cre2, L)
    BY <1>1, <1>2, SumSame
  <2> QED
    BY <2>1, <2>2, <2>3
<1>6. /\ SumFunctionOnSet(con2, B) \in Nat /\ SumFunctionOnSet(con, B) \in Nat
      /\ SumFunctionOnSet(bou2, B) \in Nat /\ SumFunctionOnSet(bou, B) \in Nat
      /\ SumFunctionOnSet(cre, L) \in Nat
  BY <1>1, SumNat
<1>7. /\ SumFunctionOnSet(con2, B) <= meter[k] + SumFunctionOnSet(cre2, L)
      /\ Limit[k] >= 0 => SumFunctionOnSet(bou2, B) <= Limit[k] + SumFunctionOnSet(cre2, L)
  BY <1>3, <1>5, <1>6
<1> QED
  BY <1>4, <1>7

\* A reservation: the meter and what is booked on it grow by the same.
Books(k, c) ==
  /\ Affordable(k, c) /\ c \notin booked[k]
  /\ booked'[k] = booked[k] \cup {c} /\ meter'[k] = meter[k] + Increment(k, c)
  /\ late'[k] = late[k]
  /\ \A d \in booked[k] : /\ Contribution(k, d)' = Contribution(k, d)
                          /\ Bounded(k, d)' = Bounded(k, d)
  /\ \A d \in late[k] : Credit(k, d)' = Credit(k, d)

LEMMA MeterBook ==
  ASSUME PartsOK, PartsOK', NEW k \in Meter, MeterOK(k), NEW c \in Call, Books(k, c)
  PROVE  MeterOK(k)'
<1> DEFINE B == booked[k]
           B2 == booked[k] \cup {c}
           L == late[k]
           con == Contributions(k)
           con2 == Contributions(k)'
           bou == Boundeds(k)
           bou2 == Boundeds(k)'
           cre == Credits(k)
           cre2 == Credits(k)'
           inc == Increment(k, c)
<1>1. /\ IsFiniteSet(B) /\ NatValued(con, B) /\ NatValued(con2, B) /\ NatValued(con2, B2)
      /\ NatValued(bou, B) /\ NatValued(bou2, B) /\ NatValued(bou2, B2)
      /\ IsFiniteSet(L) /\ NatValued(cre, L) /\ NatValued(cre2, L)
  <2>1. B2 \in SUBSET Call
    BY DEF PartsOK
  <2> HIDE DEF B2
  <2> QED
    BY <2>1 DEF PartsOK
<1>2. /\ \A d \in B : con[d] = con2[d] /\ bou[d] = bou2[d]
      /\ \A d \in L : cre[d] = cre2[d]
      /\ con2[c] \in Nat /\ bou2[c] \in Nat /\ inc \in Nat
      /\ con2[c] <= inc /\ bou2[c] <= con2[c]
      /\ \A d \in B : bou[d] <= con[d]
  <2>1. Increment(k, c)' = inc
    BY DEF Increment, Estimate
  <2> QED
    BY <2>1 DEF PartsOK, Books
<1>3. /\ meter[k] \in Nat /\ Limit[k] \in Int
      /\ SumFunctionOnSet(con, B) <= meter[k] + SumFunctionOnSet(cre, L)
      /\ Limit[k] >= 0 => meter[k] + inc <= Limit[k]
  <2>1. Limit[k] \in Int /\ meter[k] \in Nat
    BY MeterNumbers
  <2>2. Limit[k] >= 0 => meter[k] + inc <= Limit[k]
    BY <2>1 DEF Affordable, Books
  <2> QED
    BY <2>1, <2>2 DEF MeterOK
<1>4. /\ MeterOK(k)' <=>
           /\ SumFunctionOnSet(con2, B2) <= (meter[k] + inc) + SumFunctionOnSet(cre2, L)
           /\ Limit[k] >= 0 => SumFunctionOnSet(bou2, B2) <= Limit[k] + SumFunctionOnSet(cre2, L)
  BY DEF MeterOK, Books
<1>5. c \notin B /\ B2 = B \cup {c}
  BY DEF Books
<1> HIDE DEF B, B2, L, con, con2, bou, bou2, cre, cre2, inc
<1>6. /\ SumFunctionOnSet(con2, B2) = SumFunctionOnSet(con2, B) + con2[c]
      /\ SumFunctionOnSet(bou2, B2) = SumFunctionOnSet(bou2, B) + bou2[c]
  <2>1. IsFiniteSet(B) /\ NatValued(con2, B2) /\ NatValued(bou2, B2) /\ c \notin B
    BY <1>1, <1>5
  <2>2. B2 = B \cup {c}
    BY <1>5
  <2>3. SumFunctionOnSet(con2, B \cup {c}) = SumFunctionOnSet(con2, B) + con2[c]
    <3>1. NatValued(con2, B \cup {c})
      BY <2>1, <2>2, Zenon
    <3>2. IsFiniteSet(B) /\ c \notin B
      BY <2>1
    <3> QED
      BY <3>1, <3>2, SumAdd
  <2>4. SumFunctionOnSet(bou2, B \cup {c}) = SumFunctionOnSet(bou2, B) + bou2[c]
    <3>1. NatValued(bou2, B \cup {c})
      BY <2>1, <2>2, Zenon
    <3>2. IsFiniteSet(B) /\ c \notin B
      BY <2>1
    <3> QED
      BY <3>1, <3>2, SumAdd
  <2> QED
    BY <2>2, <2>3, <2>4, Zenon
<1>7. /\ SumFunctionOnSet(con, B) = SumFunctionOnSet(con2, B)
      /\ SumFunctionOnSet(bou, B) = SumFunctionOnSet(bou2, B)
      /\ SumFunctionOnSet(cre, L) = SumFunctionOnSet(cre2, L)
  <2>1. SumFunctionOnSet(con, B) = SumFunctionOnSet(con2, B)
    BY <1>1, <1>2, SumSame
  <2>2. SumFunctionOnSet(bou, B) = SumFunctionOnSet(bou2, B)
    BY <1>1, <1>2, SumSame
  <2>3. SumFunctionOnSet(cre, L) = SumFunctionOnSet(cre2, L)
    BY <1>1, <1>2, SumSame
  <2> QED
    BY <2>1, <2>2, <2>3
<1>8. SumFunctionOnSet(bou, B) <= SumFunctionOnSet(con, B)
  BY <1>1, <1>2, SumLeq
<1>9. /\ SumFunctionOnSet(con, B) \in Nat /\ SumFunctionOnSet(bou, B) \in Nat
      /\ SumFunctionOnSet(cre, L) \in Nat
  BY <1>1, SumNat
<1>10. /\ SumFunctionOnSet(con2, B2) <= (meter[k] + inc) + SumFunctionOnSet(cre2, L)
       /\ Limit[k] >= 0 => SumFunctionOnSet(bou2, B2) <= Limit[k] + SumFunctionOnSet(cre2, L)
  BY <1>2, <1>3, <1>6, <1>7, <1>8, <1>9
<1> QED
  BY <1>4, <1>10

\* A settlement: the meter goes down by what the call has not taken, and it is
\* either booked on the meter, or among those that give back to it.
LEMMA MeterSettle ==
  ASSUME PartsOK, PartsOK', NEW k \in Meter, MeterOK(k), NEW c \in Call,
         k \notin PerCall, booked'[k] = booked[k], c \notin late[k],
         meter'[k] = Settled(k, call[c].outcome.billed - Estimate(c)),
         late'[k] = IF c \notin booked[k] THEN late[k] \cup {c} ELSE late[k],
         \A d \in Call : /\ d # c => Contribution(k, d)' = Contribution(k, d)
                         /\ Bounded(k, d)' = Bounded(k, d) /\ Credit(k, d)' = Credit(k, d),
         Contribution(k, c) = Increment(k, c), Contribution(k, c)' = Bounded(k, c)
  PROVE  MeterOK(k)'
<1> DEFINE B == booked[k]
           L == late[k]
           L2 == late'[k]
           con == Contributions(k)
           con2 == Contributions(k)'
           bou == Boundeds(k)
           bou2 == Boundeds(k)'
           cre == Credits(k)
           cre2 == Credits(k)'
           inc == Increment(k, c)
           cost == Cost(k, c)
           m == meter[k]
           m2 == meter'[k]
           limit == Limit[k]
           rest == B \ {c}
<1>1. /\ IsFiniteSet(B) /\ NatValued(con, B) /\ NatValued(con2, B)
      /\ IsFiniteSet(rest) /\ NatValued(con, rest) /\ NatValued(con2, rest)
      /\ NatValued(bou, B) /\ NatValued(bou2, B)
      /\ IsFiniteSet(L) /\ NatValued(cre, L) /\ NatValued(cre2, L) /\ NatValued(cre2, L2)
  <2>1. /\ B \in SUBSET Call /\ rest \in SUBSET Call
        /\ L \in SUBSET Call /\ L2 \in SUBSET Call
    BY DEF PartsOK
  <2> HIDE DEF B, rest, L, L2
  <2> QED
    BY <2>1 DEF PartsOK
<1>2. /\ \A d \in rest : con[d] = con2[d]
      /\ \A d \in B : bou[d] = bou2[d]
      /\ \A d \in L : cre[d] = cre2[d]
      /\ con[c] = inc /\ con2[c] = Least(inc, cost) /\ cre2[c] = Excess(inc, cost)
  BY DEF PartsOK, Bounded, Credit
<1>3. /\ m \in Nat /\ m2 \in Nat /\ limit \in Int
      /\ SumFunctionOnSet(con, B) <= m + SumFunctionOnSet(cre, L)
      /\ limit >= 0 => SumFunctionOnSet(bou, B) <= limit + SumFunctionOnSet(cre, L)
  BY MeterNumbers DEF MeterOK, PartsOK
<1>4. inc \in Nat /\ cost \in Nat /\ m2 >= m + cost - inc
  <2>1. inc = Estimate(c) /\ cost = call[c].outcome.billed
    BY DEF Increment, Cost
  <2>2. inc \in Nat /\ cost \in Nat /\ m \in Nat
    BY DEF PartsOK
  <2>3. m2 = IF m + (cost - inc) < 0 THEN 0 ELSE m + (cost - inc)
    BY <2>1 DEF Settled
  <2> HIDE DEF inc, cost, m, m2
  <2> QED
    BY <2>2, <2>3
<1>5. /\ MeterOK(k)' <=>
           /\ SumFunctionOnSet(con2, B) <= m2 + SumFunctionOnSet(cre2, L2)
           /\ limit >= 0 => SumFunctionOnSet(bou2, B) <= limit + SumFunctionOnSet(cre2, L2)
  BY DEF MeterOK
<1>6. /\ rest = B \ {c}
      /\ c \in B => L2 = L
      /\ c \notin B => L2 = L \cup {c} /\ rest = B
      /\ c \notin L
  OBVIOUS
<1> HIDE DEF B, L, L2, con, con2, bou, bou2, cre, cre2, inc, cost, m, m2, limit, rest
<1>7. /\ SumFunctionOnSet(con, rest) = SumFunctionOnSet(con2, rest)
      /\ SumFunctionOnSet(bou, B) = SumFunctionOnSet(bou2, B)
      /\ SumFunctionOnSet(cre, L) = SumFunctionOnSet(cre2, L)
  <2>1. SumFunctionOnSet(con, rest) = SumFunctionOnSet(con2, rest)
    BY <1>1, <1>2, SumSame
  <2>2. SumFunctionOnSet(bou, B) = SumFunctionOnSet(bou2, B)
    BY <1>1, <1>2, SumSame
  <2>3. SumFunctionOnSet(cre, L) = SumFunctionOnSet(cre2, L)
    BY <1>1, <1>2, SumSame
  <2> QED
    BY <2>1, <2>2, <2>3
<1>8. /\ SumFunctionOnSet(con, rest) \in Nat /\ SumFunctionOnSet(bou, B) \in Nat
      /\ SumFunctionOnSet(cre, L) \in Nat
  BY <1>1, SumNat
<1>9. ASSUME c \in B
      PROVE  /\ SumFunctionOnSet(con2, B) <= m2 + SumFunctionOnSet(cre2, L2)
             /\ limit >= 0 => SumFunctionOnSet(bou2, B) <= limit + SumFunctionOnSet(cre2, L2)
  <2>1. /\ SumFunctionOnSet(con, B) = con[c] + SumFunctionOnSet(con, rest)
        /\ SumFunctionOnSet(con2, B) = con2[c] + SumFunctionOnSet(con2, rest)
    BY <1>1, <1>6, <1>9, SumTake
  <2>2. L2 = L
    BY <1>6, <1>9
  <2>3. SumFunctionOnSet(con2, B) <= SumFunctionOnSet(con, B) - inc + cost
    BY <1>2, <1>4, <1>7, <1>8, <2>1 DEF Least
  <2>4. SumFunctionOnSet(con, B) \in Nat /\ SumFunctionOnSet(con2, B) \in Nat
    BY <1>1, SumNat
  <2> QED
    BY <1>3, <1>4, <1>7, <1>8, <2>2, <2>3, <2>4
<1>10. ASSUME c \notin B
       PROVE  /\ SumFunctionOnSet(con2, B) <= m2 + SumFunctionOnSet(cre2, L2)
              /\ limit >= 0 => SumFunctionOnSet(bou2, B) <= limit + SumFunctionOnSet(cre2, L2)
  <2>1. L2 = L \cup {c} /\ rest = B
    BY <1>6, <1>10
  <2>2. SumFunctionOnSet(cre2, L2) = SumFunctionOnSet(cre2, L) + cre2[c]
    <3>1. IsFiniteSet(L) /\ NatValued(cre2, L2) /\ c \notin L
      BY <1>1, <1>6
    <3>2. NatValued(cre2, L \cup {c})
      BY <2>1, <3>1, Zenon
    <3>3. SumFunctionOnSet(cre2, L \cup {c}) = SumFunctionOnSet(cre2, L) + cre2[c]
      BY <3>1, <3>2, SumAdd
    <3> QED
      BY <2>1, <3>3, Zenon
  <2>3. cre2[c] \in Nat /\ cre2[c] >= inc - cost
    BY <1>2, <1>4 DEF Excess
  <2> QED
    BY <1>3, <1>4, <1>7, <1>8, <2>1, <2>2, <2>3
<1> QED
  BY <1>5, <1>9, <1>10
\* Every step but an answer leaves a call's costs, and no call that is over goes
\* on.
Over == {"ended", "dead"}
Steady(d) ==
  /\ call'[d].outcome = call[d].outcome
  /\ call[d].pc \in Over => call'[d].pc \in Over

LEMMA SteadyParts ==
  ASSUME PartsOK, NEW k \in Meter, NEW d \in Call, Steady(d)
  PROVE  /\ Contribution(k, d)' <= Contribution(k, d)
         /\ Bounded(k, d)' = Bounded(k, d) /\ Credit(k, d)' = Credit(k, d)
         /\ Contribution(k, d)' \in {Contribution(k, d), Bounded(k, d)}
<1>1. Increment(k, d)' = Increment(k, d) /\ Cost(k, d)' = Cost(k, d)
  BY DEF Increment, Cost, Estimate, Steady
<1>2. Bounded(k, d)' = Bounded(k, d) /\ Credit(k, d)' = Credit(k, d)
  BY <1>1 DEF Bounded, Credit
<1>3. Contribution(k, d) = IF call[d].pc \in Over THEN Bounded(k, d) ELSE Increment(k, d)
  BY DEF Contribution, Bounded, Over
<1>4. Contribution(k, d)' = IF call'[d].pc \in Over THEN Bounded(k, d) ELSE Increment(k, d)
  BY <1>1 DEF Contribution, Bounded, Over
<1>5. /\ Bounded(k, d) \in Nat /\ Increment(k, d) \in Nat
      /\ Bounded(k, d) <= Contribution(k, d)
  BY DEF PartsOK
<1> QED
  BY <1>2, <1>3, <1>4, <1>5 DEF Steady

LEMMA GotoSteady ==
  ASSUME TypeOK, NEW c \in Call, NEW pc, Goto(c, pc), call[c].pc \in Over => pc \in Over
  PROVE  \A d \in Call : Steady(d)
BY GotoMoves DEF Moves, Steady

LEMMA MeterSteady ==
  ASSUME PartsOK, PartsOK', NEW k \in Meter, MeterOK(k), \A d \in Call : Steady(d),
         booked'[k] = booked[k], meter'[k] = meter[k], late'[k] = late[k]
  PROVE  MeterOK(k)'
<1>1. booked[k] \subseteq Call /\ late[k] \subseteq Call
  BY DEF PartsOK
<1>2. \A c \in booked[k] : /\ Contribution(k, c)' <= Contribution(k, c)
                           /\ Bounded(k, c)' = Bounded(k, c) /\ Bounded(k, c) \in Nat
  BY <1>1, SteadyParts DEF PartsOK
<1>3. \A c \in late[k] : Credit(k, c)' = Credit(k, c)
  BY <1>1, SteadyParts
<1>4. \A c \in booked[k] : Bounded(k, c)' <= Bounded(k, c)
  BY <1>2
<1> QED
  BY <1>2, <1>3, <1>4, MeterLess

LEMMA MetersNext ==
  TypeOK /\ TypeOK' /\ CallsOK /\ BookedOK /\ MetersOK /\ [Next]_vars => MetersOK'
<1> SUFFICES ASSUME TypeOK, TypeOK', CallsOK, BookedOK, MetersOK, [Next]_vars,
                    NEW k \in Meter
             PROVE  MeterOK(k)'
  BY DEF MetersOK, MeterOK
<1>p. PartsOK /\ PartsOK'
  BY PartsNat, PartsNatNext
<1>m. MeterOK(k)
  BY DEF MetersOK, MeterOK
<1>1. ASSUME UNCHANGED quotas, \A d \in Call : Steady(d)
      PROVE  MeterOK(k)'
  <2>1. booked' = booked /\ meter' = meter /\ late' = late
    BY <1>1 DEF quotas
  <2> QED
    BY <1>1, <1>p, <1>m, <2>1, MeterSteady
<1>2. ASSUME UNCHANGED <<quotas, call>>
      PROVE  MeterOK(k)'
  BY <1>1, <1>2 DEF Steady
<1>3. ASSUME NEW c \in Call, Poll(c)
      PROVE  MeterOK(k)'
  <2>1. \A d \in Call : Steady(d)
    BY <1>3, PollMoves DEF Steady, Poll, Polling, Over
  <2> QED
    BY <1>1, <1>3, <2>1 DEF Poll
<1>4. ASSUME NEW c \in Call, PollUnheard(c) \/ Leave(c) \/ Refuse(c) \/ Release(c)
      PROVE  MeterOK(k)'
  <2>1. \E pc : Goto(c, pc)
    BY <1>4 DEF PollUnheard, Leave, Refuse, Release
  <2>2. call[c].pc \notin Over /\ UNCHANGED quotas
    BY <1>4 DEF PollUnheard, Leave, Refuse, Release, Polling, Over
  <2> QED
    BY <1>1, <2>1, <2>2, GotoSteady
<1>5. ASSUME NEW c \in Call, Reserve(c) \/ ReserveUnheard(c)
      PROVE  MeterOK(k)'
  <2>1. Book(c) /\ call[c].pc = "admitted"
    BY <1>5 DEF Reserve, ReserveUnheard
  <2>2. \A d \in Call : Steady(d)
    <3>1. CASE Reserve(c)
      BY <3>1, <2>1, ReserveMoves DEF Steady, Over
    <3>2. CASE ReserveUnheard(c)
      BY <3>2, <2>1, GotoSteady DEF ReserveUnheard, Over
    <3> QED
      BY <1>5, <3>1, <3>2
  <2>3. CASE k \notin Charged[c]
    <3>1. booked'[k] = booked[k] /\ meter'[k] = meter[k] /\ late'[k] = late[k]
      BY <2>1, <2>3, <1>p DEF Book, PartsOK
    <3> QED
      BY <1>p, <1>m, <2>2, <3>1, MeterSteady
  <2>4. CASE k \in Charged[c]
    <3>1. /\ Affordable(k, c) /\ booked'[k] = booked[k] \cup {c}
          /\ meter'[k] = meter[k] + Increment(k, c) /\ late'[k] = late[k]
      BY <2>1, <2>4 DEF Book
    <3>2. c \notin booked[k] /\ booked[k] \subseteq Call /\ late[k] \subseteq Call
      BY <1>p, <2>1 DEF BookedOK, PartsOK
    <3>3. ASSUME NEW d \in Call, d # c
          PROVE  /\ Contribution(k, d)' = Contribution(k, d)
                 /\ Bounded(k, d)' = Bounded(k, d)
      <4>1. call'[d] = call[d]
        BY <1>5, <3>3, ReserveMoves, GotoMoves DEF ReserveUnheard, Moves
      <4> QED
        BY <4>1 DEF Contribution, Bounded, Cost, Increment, Estimate
    <3>4. \A d \in late[k] : Credit(k, d)' = Credit(k, d)
      BY <1>p, <2>2, <3>2, SteadyParts
    <3>5. Books(k, c)
      BY <3>1, <3>2, <3>3, <3>4 DEF Books
    <3> QED
      BY <1>p, <1>m, <3>5, MeterBook
  <2> QED
    BY <2>3, <2>4
<1>6. ASSUME NEW c \in Call, SettleQuota(c)
      PROVE  MeterOK(k)'
  <2>1. call[c].pc = "settling" /\ Moves(c, "ended") /\ booked' = booked
    BY <1>6, GotoMoves DEF SettleQuota
  <2>2. \A d \in Call : Steady(d)
    BY <2>1 DEF Moves, Steady, Over
  <2>3. \/ /\ k \in TokenMeters(c)
           /\ meter'[k] = Settled(k, call[c].outcome.billed - Estimate(c))
           /\ late'[k] = IF c \notin booked[k] THEN late[k] \cup {c} ELSE late[k]
        \/ meter'[k] = meter[k] /\ late'[k] = late[k]
    BY <1>6 DEF SettleQuota
  <2>4. CASE meter'[k] = meter[k] /\ late'[k] = late[k]
    BY <1>p, <1>m, <2>1, <2>2, <2>4, MeterSteady
  <2>5. CASE /\ k \in TokenMeters(c)
             /\ meter'[k] = Settled(k, call[c].outcome.billed - Estimate(c))
             /\ late'[k] = IF c \notin booked[k] THEN late[k] \cup {c} ELSE late[k]
    <3>1. k \notin PerCall /\ c \notin late[k]
      BY <2>1, <2>5 DEF TokenMeters, BookedOK
    <3>2. ASSUME NEW d \in Call, d # c
          PROVE  Contribution(k, d)' = Contribution(k, d)
      <4>1. call'[d] = call[d]
        BY <2>1, <3>2 DEF Moves
      <4> QED
        BY <4>1 DEF Contribution, Cost, Increment, Estimate
    <3>3. ASSUME NEW d \in Call
          PROVE  Bounded(k, d)' = Bounded(k, d) /\ Credit(k, d)' = Credit(k, d)
      BY <1>p, <2>2, SteadyParts
    <3>4. Contribution(k, c) = Increment(k, c) /\ Contribution(k, c)' = Bounded(k, c)
      <4>1. call'[c].pc = "ended"
        BY <2>1 DEF Moves
      <4>2. Contribution(k, c)' = Bounded(k, c)'
        BY <4>1 DEF Contribution, Bounded
      <4> QED
        BY <2>1, <3>3, <4>2 DEF Contribution
    <3> QED
      BY <1>p, <1>m, <2>1, <2>5, <3>1, <3>2, <3>3, <3>4, MeterSettle
  <2> QED
    BY <2>3, <2>4, <2>5
<1>7. ASSUME NEW c \in Call, Answer(c)
      PROVE  MeterOK(k)'
  <2>1. /\ \A d \in Call : d # c => call'[d] = call[d]
        /\ call'[c].pc = "settling" /\ call[c].pc = "sent" /\ UNCHANGED quotas
    BY <1>7, AnswerMoves DEF Answer
  <2>2. booked'[k] = booked[k] /\ meter'[k] = meter[k] /\ late'[k] = late[k]
    BY <2>1 DEF quotas
  <2>3. c \notin late[k] /\ booked[k] \subseteq Call /\ late[k] \subseteq Call
    BY <1>p, <2>1 DEF BookedOK, PartsOK
  <2>4. ASSUME NEW d \in Call, d # c
        PROVE  /\ Contribution(k, d)' <= Contribution(k, d)
               /\ Bounded(k, d)' <= Bounded(k, d)
               /\ Credit(k, d)' = Credit(k, d)
    <3>1. Steady(d)
      BY <2>1, <2>4 DEF Steady
    <3>2. Bounded(k, d) \in Nat
      BY <1>p DEF PartsOK
    <3> QED
      BY <1>p, <3>1, <3>2, SteadyParts
  <2>5. /\ Contribution(k, c)' <= Contribution(k, c)
        /\ Bounded(k, c)' <= Bounded(k, c)
    <3>1. /\ Contribution(k, c) = Increment(k, c)
          /\ Contribution(k, c)' = Increment(k, c)'
          /\ Increment(k, c)' = Increment(k, c) /\ Increment(k, c) \in Nat
      BY <1>p, <2>1 DEF Contribution, Increment, Estimate, PartsOK
    <3>2. call[c].outcome = Unanswered(c)
      BY <2>1 DEF CallsOK
    <3>3. Cost(k, c) = Increment(k, c)
      BY <3>2 DEF Cost, Increment, Unanswered
    <3>4. Bounded(k, c) = Increment(k, c)
      BY <3>1, <3>3 DEF Bounded, Least
    <3>5. Bounded(k, c)' <= Contribution(k, c)'
      BY <1>p DEF PartsOK
    <3> QED
      BY <3>1, <3>4, <3>5
  <2>6. \A d \in booked[k] : /\ Contribution(k, d)' <= Contribution(k, d)
                             /\ Bounded(k, d)' <= Bounded(k, d)
    BY <2>3, <2>4, <2>5
  <2>7. \A d \in late[k] : Credit(k, d)' = Credit(k, d)
    BY <2>3, <2>4
  <2> QED
    BY <1>p, <1>m, <2>2, <2>6, <2>7, MeterLess
<1>8. ASSUME Rollover
      PROVE  MeterOK(k)'
  <2>1. \A d \in Call : Steady(d)
    BY <1>8 DEF Rollover, Steady
  <2>2. CASE k \notin Daily
    <3>1. booked'[k] = booked[k] /\ meter'[k] = meter[k] /\ late'[k] = late[k]
      BY <1>8, <2>2 DEF Rollover
    <3> QED
      BY <1>p, <1>m, <2>1, <3>1, MeterSteady
  <2>3. CASE k \in Daily
    <3>1. booked'[k] = {} /\ meter'[k] = 0 /\ late'[k] = {}
      BY <1>8, <2>3 DEF Rollover
    <3>2. /\ SumFunctionOnSet(Contributions(k)', {}) = 0
          /\ SumFunctionOnSet(Boundeds(k)', {}) = 0
          /\ SumFunctionOnSet(Credits(k)', {}) = 0
      BY FS_EmptySet, SumUnfolds
    <3>3. Limit[k] \in Int
      BY CallFacts
    <3> QED
      BY <3>1, <3>2, <3>3 DEF MeterOK
  <2> QED
    BY <2>2, <2>3
<1>9. ASSUME NEW r \in Replica, Crash(r)
      PROVE  MeterOK(k)'
  <2>1. \A d \in Call : Steady(d)
    BY <1>9, CrashMoves DEF Steady, Over
  <2> QED
    BY <1>1, <1>9, <2>1 DEF Crash
<1>10. ASSUME UNCHANGED vars \/ Expire \/ \E c \in Call : GoStale(c)
       PROVE  MeterOK(k)'
  <2>1. UNCHANGED <<quotas, call>>
    BY <1>10 DEF vars, quotas, Expire, GoStale
  <2> QED
    BY <1>2, <2>1
<1> QED
  BY <1>3, <1>4, <1>5, <1>6, <1>7, <1>8, <1>9, <1>10 DEF Next, Step

LEMMA QuotaFollows == TypeOK /\ MetersOK => QuotaKept
<1> SUFFICES ASSUME TypeOK, MetersOK, NEW k \in Meter, Limit[k] >= 0
             PROVE  SumFunctionOnSet([c \in Call |-> Cost(k, c)], booked[k])
                      <= Limit[k] + SumFunctionOnSet([c \in Call |-> Overrun(k, c)], booked[k])
                                  + SumFunctionOnSet([c \in Call |-> Credit(k, c)], late[k])
  BY DEF QuotaKept
<1> DEFINE B == booked[k]
           cost == [c \in Call |-> Cost(k, c)]
           over == [c \in Call |-> Overrun(k, c)]
           bou == Boundeds(k)
           credit == SumFunctionOnSet(Credits(k), late[k])
<1>1. PartsOK
  BY PartsNat
<1>2. /\ IsFiniteSet(B) /\ NatValued(bou, B) /\ NatValued(over, B)
      /\ \A c \in B : cost[c] = bou[c] + over[c]
  BY <1>1 DEF PartsOK, NatValued
<1>3. /\ SumFunctionOnSet(bou, B) <= Limit[k] + credit
      /\ Limit[k] \in Int /\ credit \in Nat
  BY <1>1, MeterNumbers DEF MetersOK
<1>4. credit = SumFunctionOnSet([c \in Call |-> Credit(k, c)], late[k])
  BY DEF Credits
<1>5. SumFunctionOnSet(cost, B) <= Limit[k] + SumFunctionOnSet(over, B) + credit
  <2> HIDE DEF B, cost, over, bou, credit
  <2>1. SumFunctionOnSet(cost, B) = SumFunctionOnSet(bou, B) + SumFunctionOnSet(over, B)
    BY <1>2, SumBoth
  <2>2. SumFunctionOnSet(bou, B) \in Nat /\ SumFunctionOnSet(over, B) \in Nat
    BY <1>2, SumNat
  <2> QED
    BY <1>3, <2>1, <2>2
<1> QED
  BY <1>4, <1>5

-----------------------------------------------------------------------------
(* The theorems *)

LEMMA LlmInit == Init => LlmInv
<1> SUFFICES ASSUME Init
             PROVE  LlmInv
  OBVIOUS
<1>1. TypeOK
  BY TypeInit
<1>2. Range(<<>>) = {} /\ IsInjective(<<>>)
  BY DEF Range, IsInjective
<1>3. CallsOK
  BY DEF Init, CallsOK
<1>4. WindowOK
  BY <1>2 DEF Init, WindowOK
<1>5. SumFunctionOnSet(Weights, {}) = 0 /\ Cardinality({}) = 0
  BY FS_EmptySet, SumUnfolds
<1>6. RateOK
  BY <1>5, CallFacts DEF Init, RateOK
<1>7. BookedOK
  BY DEF Init, BookedOK
<1>8. MetersOK
  <2> SUFFICES ASSUME NEW k \in Meter
               PROVE  MeterOK(k)
    BY DEF MetersOK, MeterOK
  <2>1. booked[k] = {} /\ meter[k] = 0 /\ late[k] = {}
    BY DEF Init
  <2>2. /\ SumFunctionOnSet(Contributions(k), {}) = 0
        /\ SumFunctionOnSet(Boundeds(k), {}) = 0
        /\ SumFunctionOnSet(Credits(k), {}) = 0
    BY FS_EmptySet, SumUnfolds
  <2>3. Limit[k] \in Int
    BY CallFacts
  <2> QED
    BY <2>1, <2>2, <2>3 DEF MeterOK
<1> QED
  BY <1>1, <1>3, <1>4, <1>6, <1>7, <1>8 DEF LlmInv

LEMMA LlmNext == LlmInv /\ [Next]_vars => LlmInv'
BY TypeNext, CallsNext, WindowNext, RateNext, BookedNext, MetersNext DEF LlmInv

\* The window stands for what is in it, and the meters for what was booked: the
\* inductive invariant behind the two promises of the gateway.
THEOREM LlmInvariant == Spec => []LlmInv
BY LlmInit, LlmNext, PTL DEF Spec

\* No window sees more than rpm_limit calls, nor more than tpm_limit tokens but
\* for a single larger call, whoever dies and whatever command is lost.
THEOREM ProviderRatesKept == Spec => []RatesKept
<1>1. LlmInv => RatesKept
  BY RatesFollow DEF LlmInv
<1> QED
  BY <1>1, LlmInvariant, PTL

\* What the calls booked on a meter cost stays within its limit, but for
\* answers longer than estimated and what calls of the day before give back.
THEOREM QuotasKept == Spec => []QuotaKept
<1>1. LlmInv => QuotaKept
  BY QuotaFollows DEF LlmInv
<1> QED
  BY <1>1, LlmInvariant, PTL
=============================================================================
