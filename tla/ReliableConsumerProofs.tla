----------------------- MODULE ReliableConsumerProofs -----------------------
(* What holds of a reliable queue for any number of replicas, consumers,
   messages, faults and clock settings, and what only holds while one consumer
   reads the queue: then an LREM can only remove that consumer's own copy.    *)
EXTENDS ReliableConsumer, SequenceTheorems, TLAPS

-----------------------------------------------------------------------------
(* Lists: what LPUSH, RPUSH and a pop leave in a queue *)

LEMMA Prepend ==
  ASSUME NEW S, NEW s \in Seq(S), NEW m \in S
  PROVE  /\ <<m>> \o s \in Seq(S)
         /\ \A n : (\E i \in 1..Len(<<m>> \o s) : (<<m>> \o s)[i] = n)
                     <=> n = m \/ \E i \in 1..Len(s) : s[i] = n
<1> DEFINE t == <<m>> \o s
<1>1. <<m>> \in Seq(S) /\ Len(<<m>>) = 1 /\ <<m>>[1] = m /\ Len(s) \in Nat
  OBVIOUS
<1>2. t \in Seq(S) /\ Len(t) = Len(s) + 1
  BY <1>1
<1>3. t[1] = m
  BY <1>1
<1>4. \A i \in 1..Len(s) : t[i + 1] = s[i]
  BY <1>1
<1>5. \A i \in 1..Len(t) : i = 1 \/ (i - 1 \in 1..Len(s) /\ t[i] = s[i - 1])
  BY <1>1, <1>2, <1>4
<1> HIDE DEF t
<1>6. \A n : (\E i \in 1..Len(t) : t[i] = n) <=> n = m \/ \E i \in 1..Len(s) : s[i] = n
  <2>1. ASSUME NEW n, NEW i \in 1..Len(t), t[i] = n
        PROVE  n = m \/ \E j \in 1..Len(s) : s[j] = n
    BY <2>1, <1>3, <1>5
  <2>2. 1 \in 1..Len(t)
    BY <1>1, <1>2
  <2>3. ASSUME NEW n, NEW j \in 1..Len(s), s[j] = n
        PROVE  \E i \in 1..Len(t) : t[i] = n
    <3>1. j + 1 \in 1..Len(t)
      BY <1>1, <1>2
    <3> QED
      BY <3>1, <2>3, <1>4
  <2> QED
    BY <2>1, <2>2, <2>3, <1>3
<1> QED
  BY <1>2, <1>6 DEF t

LEMMA AppendOne ==
  ASSUME NEW S, NEW s \in Seq(S), NEW m \in S
  PROVE  /\ Append(s, m) \in Seq(S)
         /\ \A n : (\E i \in 1..Len(Append(s, m)) : Append(s, m)[i] = n)
                     <=> n = m \/ \E i \in 1..Len(s) : s[i] = n
<1> DEFINE t == Append(s, m)
<1>1. t \in Seq(S) /\ Len(t) = Len(s) + 1 /\ Len(s) \in Nat
  OBVIOUS
<1>2. t[Len(s) + 1] = m /\ \A i \in 1..Len(s) : t[i] = s[i]
  OBVIOUS
<1>3. \A i \in 1..Len(t) : i = Len(s) + 1 \/ i \in 1..Len(s)
  BY <1>1
<1>4. 1..Len(s) \subseteq 1..Len(t) /\ Len(s) + 1 \in 1..Len(t)
  BY <1>1
<1> HIDE DEF t
<1>5. \A n : (\E i \in 1..Len(t) : t[i] = n) <=> n = m \/ \E i \in 1..Len(s) : s[i] = n
  BY <1>2, <1>3, <1>4
<1> QED
  BY <1>1, <1>5 DEF t

LEMMA Prefix ==
  ASSUME NEW S, NEW s \in Seq(S), NEW k \in Nat, k <= Len(s)
  PROVE  /\ SubSeq(s, 1, k) \in Seq(S) /\ Len(SubSeq(s, 1, k)) = k
         /\ \A i \in 1..k : SubSeq(s, 1, k)[i] = s[i]
<1>1. Len(SubSeq(s, 1, k)) = k
  OBVIOUS
<1>2. \A i \in 1..k : SubSeq(s, 1, k)[i] = s[i] /\ s[i] \in S
  OBVIOUS
<1>3. SubSeq(s, 1, k) \in Seq(S)
  BY <1>2, SubSeqProperties, SMT
<1> QED
  BY <1>1, <1>2, <1>3

LEMMA DropLast ==
  ASSUME NEW S, NEW s \in Seq(S), s # <<>>
  PROVE  /\ s[Len(s)] \in S
         /\ SubSeq(s, 1, Len(s) - 1) \in Seq(S)
         /\ \A n : n # s[Len(s)] =>
              ((\E i \in 1..Len(SubSeq(s, 1, Len(s) - 1)) : SubSeq(s, 1, Len(s) - 1)[i] = n)
                 <=> \E i \in 1..Len(s) : s[i] = n)
         /\ \A n : (\E i \in 1..Len(SubSeq(s, 1, Len(s) - 1)) : SubSeq(s, 1, Len(s) - 1)[i] = n)
                     => \E i \in 1..Len(s) : s[i] = n
         /\ \E i \in 1..Len(s) : s[i] = s[Len(s)]
<1> DEFINE t == SubSeq(s, 1, Len(s) - 1)
<1>1. Len(s) \in Nat \ {0}
  OBVIOUS
<1>2. t \in Seq(S) /\ Len(t) = Len(s) - 1 /\ \A i \in 1..(Len(s) - 1) : t[i] = s[i]
  <2>1. Len(s) - 1 \in Nat /\ Len(s) - 1 <= Len(s)
    BY <1>1
  <2> QED
    BY <2>1, Prefix, Zenon
<1>3. \A i \in 1..Len(t) : t[i] = s[i]
  BY <1>2
<1>4. /\ Len(s) \in 1..Len(s) /\ 1..Len(t) \subseteq 1..Len(s)
      /\ \A i \in 1..Len(s) : i = Len(s) \/ i \in 1..Len(t)
  BY <1>1, <1>2
<1>5. s[Len(s)] \in S
  BY <1>1
<1> HIDE DEF t
<1>6. /\ \A n : n # s[Len(s)] => ((\E i \in 1..Len(t) : t[i] = n) <=> \E i \in 1..Len(s) : s[i] = n)
      /\ \A n : (\E i \in 1..Len(t) : t[i] = n) => \E i \in 1..Len(s) : s[i] = n
  BY <1>3, <1>4
<1> QED
  BY <1>2, <1>4, <1>5, <1>6 DEF t

-----------------------------------------------------------------------------
(* What each command does to the two lists *)

ListsOK == main \in Seq(Message) /\ processing \in [Message -> Nat]

\* Commands that keep every message where some list has it.
LEMMA KeepsQueued ==
  ASSUME ListsOK, NEW m \in Message, MoveBack(m) \/ Script(m) \/ Move(m)
  PROVE  /\ ListsOK'
         /\ \A n \in Message : Queued(n)' <=> Queued(n)
         /\ \A n \in Message : InMain(n) /\ ~InMain(n)' => Move(m) /\ n = m
<1>1. CASE MoveBack(m)
  <2>1. processing' = [processing EXCEPT ![m] = IF processing[m] > 0 THEN processing[m] - 1 ELSE 0]
    BY <1>1 DEF MoveBack, RemoveOne
  <2>2. processing' \in [Message -> Nat] /\ \A n \in Message : n # m => processing'[n] = processing[n]
    BY <2>1 DEF ListsOK
  <2>3. main' = <<m>> \o main /\ processing[m] > 0
    BY <1>1 DEF MoveBack
  <2>4. main' \in Seq(Message) /\ \A n : InMain(n)' <=> n = m \/ InMain(n)
    BY <2>3, Prepend DEF ListsOK, InMain
  <2> QED
    BY <2>2, <2>3, <2>4 DEF ListsOK, Queued
<1>2. CASE Script(m)
  <2>1. processing' = [processing EXCEPT ![m] = 0]
    BY <1>2 DEF Script
  <2>2. processing' \in [Message -> Nat] /\ \A n \in Message : n # m => processing'[n] = processing[n]
    BY <2>1 DEF ListsOK
  <2>3. CASE processing[m] > 0
    <3>1. main' = <<m>> \o main
      BY <1>2, <2>3 DEF Script
    <3>2. main' \in Seq(Message) /\ \A n : InMain(n)' <=> n = m \/ InMain(n)
      BY <3>1, Prepend DEF ListsOK, InMain
    <3> QED
      BY <2>2, <2>3, <3>2 DEF ListsOK, Queued
  <2>4. CASE ~(processing[m] > 0)
    <3>1. main' = main
      BY <1>2, <2>4 DEF Script
    <3>2. processing'[m] = 0
      BY <2>1 DEF ListsOK
    <3> QED
      BY <2>2, <2>4, <3>1, <3>2 DEF ListsOK, Queued, InMain
  <2> QED
    BY <2>3, <2>4
<1>3. CASE Move(m)
  <2>1. processing' = [processing EXCEPT ![m] = processing[m] + 1]
    BY <1>3 DEF Move, AddOne
  <2>2. /\ processing' \in [Message -> Nat] /\ processing'[m] > 0
        /\ \A n \in Message : n # m => processing'[n] = processing[n]
    BY <2>1 DEF ListsOK
  <2>3. main # <<>> /\ m = main[Len(main)] /\ main' = SubSeq(main, 1, Len(main) - 1)
    BY <1>3 DEF Move
  <2>4. /\ main' \in Seq(Message) /\ InMain(m)
        /\ \A n : n # m => (InMain(n)' <=> InMain(n))
    BY <2>3, DropLast DEF ListsOK, InMain
  <2> QED
    BY <1>3, <2>2, <2>4 DEF ListsOK, Queued
<1> QED
  BY <1>1, <1>2, <1>3

\* LREM of one copy.
LEMMA RemovesOne ==
  ASSUME ListsOK, NEW m \in Message, RemoveOne(m), UNCHANGED main
  PROVE  /\ ListsOK'
         /\ \A n \in Message : Queued(n)' => Queued(n)
         /\ \A n \in Message : n # m => (Queued(n)' <=> Queued(n))
         /\ \A n \in Message : InMain(n)' <=> InMain(n)
<1>1. processing' = [processing EXCEPT ![m] = IF processing[m] > 0 THEN processing[m] - 1 ELSE 0]
  BY DEF RemoveOne
<1>2. /\ processing' \in [Message -> Nat]
      /\ \A n \in Message : n # m => processing'[n] = processing[n]
      /\ processing'[m] > 0 => processing[m] > 0
  BY <1>1 DEF ListsOK
<1> QED
  BY <1>2 DEF ListsOK, Queued, InMain

\* RPUSH of a failed message.
LEMMA PushesBack ==
  ASSUME ListsOK, NEW c, consumer[c].msg \in Message, PushBack(c)
  PROVE  /\ ListsOK'
         /\ \A n : n = consumer[c].msg /\ RequeueOnError => InMain(n)'
         /\ \A n \in Message : InMain(n) => InMain(n)'
         /\ \A n \in Message : Queued(n) => Queued(n)'
         /\ \A n \in Message : n # consumer[c].msg => (Queued(n)' <=> Queued(n))
<1> DEFINE m == consumer[c].msg
<1>0. m \in Message
  OBVIOUS
<1>1. /\ UNCHANGED processing
      /\ \/ main' = Append(main, m) /\ RequeueOnError
         \/ main' = main /\ ~RequeueOnError
  BY DEF PushBack
<1> HIDE DEF m
<1>2. CASE main' = Append(main, m) /\ RequeueOnError
  <2>1. main' \in Seq(Message) /\ \A n : InMain(n)' <=> n = m \/ InMain(n)
    BY <1>0, <1>2, AppendOne DEF ListsOK, InMain
  <2> QED
    BY <1>1, <2>1 DEF ListsOK, Queued, m
<1>3. CASE main' = main /\ ~RequeueOnError
  BY <1>1, <1>3 DEF ListsOK, Queued, InMain
<1> QED
  BY <1>1, <1>2, <1>3

\* LPUSH of a new message.
LEMMA Sends ==
  ASSUME ListsOK, NEW m \in Message, Send(m)
  PROVE  /\ ListsOK'
         /\ \A n \in Message : InMain(n)' <=> n = m \/ InMain(n)
         /\ \A n \in Message : Queued(n)' <=> n = m \/ Queued(n)
<1>1. main' = <<m>> \o main /\ processing' = processing
  BY DEF Send
<1>2. main' \in Seq(Message) /\ \A n : InMain(n)' <=> n = m \/ InMain(n)
  BY <1>1, Prepend DEF ListsOK, InMain
<1> QED
  BY <1>1, <1>2 DEF ListsOK, Queued

-----------------------------------------------------------------------------
(* Type correctness *)

ConsumersOK == consumer \in [Consumer -> ConsumerState]
SweeperOK ==
  /\ firstSeen \in [Process -> [Message -> {Unseen} \cup 0..(ForgetAfter + 1)]]
  /\ sweep \in [Process -> SUBSET Message]
RestOK == /\ stopping \subseteq Consumer /\ requeued \subseteq Process
          /\ sent \subseteq Message /\ handled \subseteq Message
          /\ faults \in 0..MaxFaults

LEMMA TypeParts == TypeOK <=> ListsOK /\ ConsumersOK /\ SweeperOK /\ RestOK
  BY DEF TypeOK, ListsOK, ConsumersOK, SweeperOK, RestOK

\* The states a consumer can be put into.
LEMMA RestingState ==
  ASSUME NEW pc \in {"down", "stopped", "requeueing", "idle"}
  PROVE  Resting(pc) \in ConsumerState
  BY ConsumerAssumption DEF Resting, ConsumerState, ConsumerPc, AtWorkPc

LEMMA WorkingState ==
  ASSUME NEW m \in Message, NEW pc,
         pc = IF m \in Malformed THEN "burying" ELSE "handling"
  PROVE  Working(pc, m) \in ConsumerState
  BY ConsumerAssumption DEF Working, ConsumerState, ConsumerPc, AtWorkPc

LEMMA Becomes ==
  ASSUME ConsumersOK, NEW c \in Consumer, NEW r \in ConsumerState, Become(c, r)
  PROVE  ConsumersOK'
  BY DEF ConsumersOK, Become

LEMMA Reaches ==
  ASSUME ConsumersOK, NEW c \in Consumer, NEW pc \in ConsumerPc, Reach(c, pc),
         \/ consumer[c].pc = "burying" /\ pc = "buried"
         \/ consumer[c].pc \in {"handling", "done", "failed"} /\ pc \in {"done", "failed", "givenBack"}
  PROVE  /\ ConsumersOK'
         /\ consumer'[c].pc = pc /\ consumer'[c].msg = consumer[c].msg
         /\ \A d \in Consumer : d # c => consumer'[d] = consumer[d]
<1> DEFINE r == [consumer[c] EXCEPT !.pc = pc]
<1>1. consumer[c] \in ConsumerState
  BY DEF ConsumersOK
<1>2. r \in ConsumerState /\ r.pc = pc /\ r.msg = consumer[c].msg
  BY <1>1 DEF ConsumerState, ConsumerPc, AtWorkPc
<1>3. consumer' = [consumer EXCEPT ![c] = r]
  BY DEF Reach
<1> HIDE DEF r
<1> QED
  BY <1>2, <1>3 DEF ConsumersOK

\* The message of a consumer at work.
LEMMA AtWorkHasMessage ==
  ASSUME ConsumersOK, NEW c \in Consumer
  PROVE  /\ consumer[c].pc \in AtWorkPc => consumer[c].msg \in Message
         /\ consumer[c].pc \in {"burying", "buried"} => consumer[c].msg \in Malformed
         /\ consumer[c].pc \in AtWorkPc \ {"burying", "buried"} => consumer[c].msg \notin Malformed
<1>1. consumer[c] \in ConsumerState
  BY DEF ConsumersOK
<1> QED
  BY <1>1, ConsumerAssumption DEF ConsumerState, AtWorkPc, ConsumerPc

LEMMA Faults == ASSUME faults \in 0..MaxFaults, Fault PROVE faults' \in 0..MaxFaults
  BY ConsumerAssumption DEF Fault

LEMMA FreshTypes ==
  ASSUME TypeOK, NEW p \in Process, Fresh(p)
  PROVE  ListsOK' /\ ConsumersOK' /\ SweeperOK' /\ stopping' \subseteq Consumer
         /\ requeued' \subseteq Process /\ UNCHANGED <<queueVars, history>>
<1>1. Resting("down") \in ConsumerState
  BY RestingState
<1>2. Unseen \in {Unseen} \cup 0..(ForgetAfter + 1)
  OBVIOUS
<1>3. ConsumersOK'
  BY <1>1 DEF Fresh, TypeOK, ConsumersOK
<1>4. SweeperOK'
  BY <1>2 DEF Fresh, TypeOK, SweeperOK
<1> QED
  BY <1>3, <1>4 DEF Fresh, TypeOK, ListsOK, queueVars, history

LEMMA ConsumerTypes ==
  ASSUME TypeOK, NEW c \in Consumer, ConsumerStep(c) \/ ConsumerFault(c)
  PROVE  TypeOK'
<1>0. ListsOK /\ ConsumersOK /\ SweeperOK /\ RestOK
  BY TypeParts
<1>1. c[1] \in Process
  BY DEF Consumer
<1>2. Resting("idle") \in ConsumerState /\ Resting("requeueing") \in ConsumerState
      /\ Resting("stopped") \in ConsumerState
  BY RestingState
<1>3. faults' \in 0..MaxFaults /\ UNCHANGED sent /\ stopping' = stopping
  <2>1. UNCHANGED faults \/ Fault
    BY DEF ConsumerStep, ConsumerFault, Connect, RequeueDone, Bury, HandlerReturns, Acknowledge,
       GiveBack, Exit, RequeueStale, Take, RequeueFails, HandlerThrows, AcknowledgeFails,
       GiveBackFails, TakeUnheard
  <2>2. UNCHANGED sent /\ stopping' = stopping
    BY DEF ConsumerStep, ConsumerFault, Connect, RequeueDone, Bury, HandlerReturns, Acknowledge,
       GiveBack, Exit, RequeueStale, Take, RequeueFails, HandlerThrows, AcknowledgeFails,
       GiveBackFails, TakeUnheard, history
  <2> QED
    BY <1>0, <2>1, <2>2, Faults DEF RestOK
<1>4. UNCHANGED sweeperVars
  BY DEF ConsumerStep, ConsumerFault, Connect, RequeueDone, Bury, HandlerReturns, Acknowledge,
     GiveBack, Exit, RequeueStale, Take, RequeueFails, HandlerThrows, AcknowledgeFails,
     GiveBackFails, TakeUnheard
<1>5. handled' \subseteq Message /\ requeued' \subseteq Process
  <2>1. handled' = handled \/ (consumer[c].pc = "handling" /\ handled' = handled \cup {consumer[c].msg})
    BY DEF ConsumerStep, ConsumerFault, Connect, RequeueDone, Bury, HandlerReturns, Acknowledge,
       GiveBack, Exit, RequeueStale, Take, RequeueFails, HandlerThrows, AcknowledgeFails,
       GiveBackFails, TakeUnheard, history
  <2>2. requeued' = requeued \/ requeued' = requeued \cup {c[1]}
    BY DEF ConsumerStep, ConsumerFault, Connect, RequeueDone, Bury, HandlerReturns, Acknowledge,
       GiveBack, Exit, RequeueStale, Take, RequeueFails, HandlerThrows, AcknowledgeFails,
       GiveBackFails, TakeUnheard
  <2>3. consumer[c].pc = "handling" => consumer[c].msg \in Message
    BY <1>0, AtWorkHasMessage DEF AtWorkPc, ConsumerPc
  <2> QED
    BY <1>0, <1>1, <2>1, <2>2, <2>3 DEF RestOK
<1>6. ListsOK' /\ ConsumersOK'
  <2>1. CASE Connect(c)
    BY <1>0, <1>2, <2>1, Becomes DEF Connect, ListsOK, queueVars
  <2>2. CASE RequeueDone(c)
    BY <1>0, <1>2, <2>2, Becomes DEF RequeueDone, ListsOK, queueVars
  <2>3. CASE Bury(c)
    <3>1. consumer[c].pc = "burying" /\ "buried" \in ConsumerPc
      BY <2>3 DEF Bury, ConsumerPc
    <3> QED
      BY <1>0, <2>3, <3>1, Reaches DEF Bury, ListsOK, queueVars
  <2>4. CASE HandlerReturns(c)
    <3>1. consumer[c].pc = "handling" /\ "done" \in ConsumerPc
      BY <2>4 DEF HandlerReturns, ConsumerPc
    <3> QED
      BY <1>0, <2>4, <3>1, Reaches DEF HandlerReturns, ListsOK, queueVars
  <2>5. CASE Acknowledge(c)
    <3>1. consumer[c].msg \in Message
      BY <1>0, <2>5, AtWorkHasMessage DEF Acknowledge, AtWorkPc, ConsumerPc
    <3> QED
      BY <1>0, <1>2, <2>5, <3>1, Becomes, RemovesOne DEF Acknowledge
  <2>6. CASE GiveBack(c)
    <3>1. consumer[c].pc = "failed" /\ "givenBack" \in ConsumerPc
      BY <2>6 DEF GiveBack, ConsumerPc
    <3>2. consumer[c].msg \in Message
      BY <1>0, <3>1, AtWorkHasMessage DEF AtWorkPc, ConsumerPc
    <3> QED
      BY <1>0, <2>6, <3>1, <3>2, Reaches, PushesBack DEF GiveBack
  <2>7. CASE Exit(c)
    BY <1>0, <1>2, <2>7, Becomes DEF Exit, ListsOK, queueVars
  <2>8. ASSUME NEW m \in Message, RequeueStale(c, m)
        PROVE  ListsOK' /\ ConsumersOK'
    <3>1. ListsOK'
      BY <1>0, <2>8, KeepsQueued DEF RequeueStale
    <3>2. ConsumersOK'
      <4>1. consumer[c] \in ConsumerState /\ consumer[c].pc = "requeueing"
        BY <1>0, <2>8 DEF ConsumersOK, RequeueStale
      <4> DEFINE r == [consumer[c] EXCEPT !.moved = consumer[c].moved + 1]
      <4>2. CASE consumer[c].moved = MaxStale
        BY <1>0, <1>2, <2>8, <4>2, Becomes DEF RequeueStale
      <4>3. CASE consumer[c].moved # MaxStale
        <5>1. r \in ConsumerState
          BY <4>1, <4>3, ConsumerAssumption DEF ConsumerState
        <5>2. consumer' = [consumer EXCEPT ![c] = r]
          BY <2>8, <4>3 DEF RequeueStale
        <5> HIDE DEF r
        <5> QED
          BY <1>0, <5>1, <5>2 DEF ConsumersOK
      <4> QED
        BY <4>2, <4>3
    <3> QED
      BY <3>1, <3>2
  <2>9. ASSUME NEW m \in Message, Take(c, m)
        PROVE  ListsOK' /\ ConsumersOK'
    <3>1. Working(IF m \in Malformed THEN "burying" ELSE "handling", m) \in ConsumerState
      BY WorkingState
    <3> QED
      BY <1>0, <2>9, <3>1, KeepsQueued, Becomes DEF Take
  <2>10. CASE RequeueFails(c)
    <3>1. UNCHANGED queueVars \/ \E m \in Message : MoveBack(m)
      BY <2>10 DEF RequeueFails
    <3>2. ListsOK'
      BY <1>0, <3>1, KeepsQueued DEF ListsOK, queueVars
    <3> QED
      BY <1>0, <1>2, <2>10, <3>2, Becomes DEF RequeueFails
  <2>11. CASE HandlerThrows(c)
    <3>1. consumer[c].pc = "handling" /\ "failed" \in ConsumerPc
      BY <2>11 DEF HandlerThrows, ConsumerPc
    <3> QED
      BY <1>0, <2>11, <3>1, Reaches DEF HandlerThrows, ListsOK, queueVars
  <2>12. CASE AcknowledgeFails(c)
    <3>1. consumer[c].msg \in Message
      BY <1>0, <2>12, AtWorkHasMessage DEF AcknowledgeFails, AtWorkPc, ConsumerPc
    <3>2. ListsOK'
      <4>1. UNCHANGED main /\ (UNCHANGED processing \/ RemoveOne(consumer[c].msg))
        BY <2>12 DEF AcknowledgeFails
      <4> QED
        BY <1>0, <3>1, <4>1, RemovesOne DEF ListsOK
    <3>3. ConsumersOK'
      <4>1. CASE consumer[c].pc = "done"
        <5>1. Reach(c, "failed") /\ "failed" \in ConsumerPc
          BY <2>12, <4>1 DEF AcknowledgeFails, ConsumerPc
        <5> QED
          BY <1>0, <4>1, <5>1, Reaches
      <4>2. CASE consumer[c].pc # "done"
        BY <1>0, <1>2, <2>12, <4>2, Becomes DEF AcknowledgeFails
      <4> QED
        BY <4>1, <4>2
    <3> QED
      BY <3>2, <3>3
  <2>13. CASE GiveBackFails(c)
    <3>1. consumer[c].msg \in Message
      BY <1>0, <2>13, AtWorkHasMessage DEF GiveBackFails, AtWorkPc, ConsumerPc
    <3>2. UNCHANGED queueVars \/ PushBack(c)
      BY <2>13 DEF GiveBackFails
    <3>3. ListsOK'
      BY <1>0, <3>1, <3>2, PushesBack DEF ListsOK, queueVars
    <3> QED
      BY <1>0, <1>2, <2>13, <3>3, Becomes DEF GiveBackFails
  <2>14. ASSUME NEW m \in Message, TakeUnheard(c, m)
         PROVE  ListsOK' /\ ConsumersOK'
    BY <1>0, <2>14, KeepsQueued DEF TakeUnheard, ConsumersOK
  <2> QED
    BY <2>1, <2>2, <2>3, <2>4, <2>5, <2>6, <2>7, <2>8, <2>9, <2>10, <2>11, <2>12, <2>13, <2>14
       DEF ConsumerStep, ConsumerFault
<1>7. SweeperOK'
  BY <1>0, <1>4 DEF SweeperOK, sweeperVars
<1>8. RestOK'
  BY <1>0, <1>3, <1>5 DEF RestOK
<1>9. (TypeOK)' <=> (ListsOK /\ ConsumersOK /\ SweeperOK /\ RestOK)'
  BY DEF TypeOK, ListsOK, ConsumersOK, SweeperOK, RestOK
<1> QED
  BY <1>6, <1>7, <1>8, <1>9

LEMMA SweeperTypes ==
  ASSUME TypeOK, NEW p \in Process,
         StartSweep(p) \/ \E m \in Message : SweepOne(p, m) \/ SweepFails(p, m)
  PROVE  TypeOK'
<1>0. ListsOK /\ ConsumersOK /\ SweeperOK /\ RestOK
  BY TypeParts
<1>1. ConsumersOK' /\ RestOK'
  <2>1. UNCHANGED <<consumer, stopping, requeued, sent, handled>>
    BY DEF StartSweep, SweepOne, SweepFails, history
  <2>2. UNCHANGED faults \/ Fault
    BY DEF StartSweep, SweepOne, SweepFails
  <2> QED
    BY <1>0, <2>1, <2>2, Faults DEF ConsumersOK, RestOK
<1>2. ListsOK'
  <2>1. UNCHANGED queueVars \/ \E m \in Message : Script(m)
    BY DEF StartSweep, SweepOne, SweepFails
  <2> QED
    BY <1>0, <2>1, KeepsQueued DEF ListsOK, queueVars
<1>3. SweeperOK'
  <2>0. 0 \in 0..(ForgetAfter + 1)
    BY ConsumerAssumption
  <2>1. CASE StartSweep(p)
    BY <1>0, <2>0, <2>1 DEF StartSweep, SweeperOK
  <2>2. ASSUME NEW m \in Message, SweepOne(p, m)
        PROVE  SweeperOK'
    <3>1. sweep' \in [Process -> SUBSET Message]
      BY <1>0, <2>2 DEF SweepOne, SweeperOK
    <3>2. firstSeen' \in [Process -> [Message -> {Unseen} \cup 0..(ForgetAfter + 1)]]
      <4>1. CASE UNCHANGED firstSeen
        BY <1>0, <4>1 DEF SweeperOK
      <4>2. CASE MarkRequeued(p, m)
        <5> DEFINE table == [firstSeen[p] EXCEPT ![m] = 0]
                   large == Cardinality({n \in Message : table[n] # Unseen}) > TableLimit
        <5>1. table \in [Message -> {Unseen} \cup 0..(ForgetAfter + 1)]
          BY <1>0, <2>0 DEF SweeperOK
        <5>2. firstSeen' = [firstSeen EXCEPT ![p] =
                [n \in Message |-> IF large /\ table[n] > ForgetAfter THEN Unseen ELSE table[n]]]
          BY <4>2 DEF MarkRequeued
        <5> HIDE DEF table, large
        <5> QED
          BY <1>0, <5>1, <5>2 DEF SweeperOK
      <4> QED
        BY <2>2, <4>1, <4>2 DEF SweepOne
    <3> QED
      BY <3>1, <3>2 DEF SweeperOK
  <2>3. ASSUME NEW m \in Message, SweepFails(p, m)
        PROVE  SweeperOK'
    BY <1>0, <2>3 DEF SweepFails, SweeperOK
  <2> QED
    BY <2>1, <2>2, <2>3
<1>4. (TypeOK)' <=> (ListsOK /\ ConsumersOK /\ SweeperOK /\ RestOK)'
  BY DEF TypeOK, ListsOK, ConsumersOK, SweeperOK, RestOK
<1> QED
  BY <1>1, <1>2, <1>3, <1>4

LEMMA TickTypes ==
  ASSUME TypeOK, Tick
  PROVE  TypeOK'
<1>0. ListsOK /\ ConsumersOK /\ SweeperOK /\ RestOK
  BY TypeParts
<1>1. ConsumersOK'
  BY <1>0 DEF Tick, ConsumersOK
<1>2. SweeperOK'
  <2> DEFINE age(p, m) == IF firstSeen[p][m] \in 0..ForgetAfter THEN firstSeen[p][m] + 1 ELSE firstSeen[p][m]
  <2>1. ASSUME NEW p \in Process, NEW m \in Message
        PROVE  age(p, m) \in {Unseen} \cup 0..(ForgetAfter + 1)
    <3>1. firstSeen[p][m] \in {Unseen} \cup 0..(ForgetAfter + 1)
      BY <1>0 DEF SweeperOK
    <3> QED
      BY <3>1, ConsumerAssumption DEF Unseen
  <2>2. firstSeen' = [p \in Process |-> [m \in Message |-> age(p, m)]] /\ sweep' = sweep
    BY DEF Tick
  <2> HIDE DEF age
  <2> QED
    BY <1>0, <2>1, <2>2 DEF SweeperOK
<1>3. ListsOK' /\ RestOK'
  BY <1>0 DEF Tick, ListsOK, RestOK, queueVars, history
<1>4. (TypeOK)' <=> (ListsOK /\ ConsumersOK /\ SweeperOK /\ RestOK)'
  BY DEF TypeOK, ListsOK, ConsumersOK, SweeperOK, RestOK
<1> QED
  BY <1>1, <1>2, <1>3, <1>4

LEMMA TypeStep ==
  ASSUME TypeOK, [Next]_vars
  PROVE  TypeOK'
<1>0. ListsOK /\ ConsumersOK /\ SweeperOK /\ RestOK
  BY TypeParts
<1>1. ASSUME NEW m \in Message, Send(m)
      PROVE  TypeOK'
  <2>1. ListsOK'
    BY <1>0, <1>1, Sends
  <2> QED
    BY <1>0, <1>1, <2>1 DEF Send, TypeOK, ListsOK, sweeperVars
<1>2. ASSUME NEW p \in Process, Restart(p) \/ Crash(p)
      PROVE  TypeOK'
  <2>1. Fresh(p) /\ (UNCHANGED faults \/ Fault)
    BY <1>2 DEF Restart, Crash
  <2>2. faults' \in 0..MaxFaults
    BY <1>0, <2>1, Faults DEF RestOK
  <2> QED
    BY <1>0, <2>1, <2>2, FreshTypes DEF TypeOK, ListsOK, ConsumersOK, SweeperOK, RestOK, history
<1>3. ASSUME NEW p \in Process, NEW cs \in SUBSET Consumer, Shutdown(p, cs)
      PROVE  TypeOK'
  BY <1>0, <1>3, Faults DEF Shutdown, TypeOK, RestOK, queueVars, sweeperVars, history
<1>4. CASE UNCHANGED vars
  BY <1>4 DEF vars, TypeOK, queueVars, sweeperVars, history
<1> QED
  BY <1>1, <1>2, <1>3, <1>4, ConsumerTypes, SweeperTypes, TickTypes DEF Next, SweeperStep

\* Every variable of a reliable queue keeps its type under all steps and faults.
THEOREM ConsumerTypeCorrect == Spec => []TypeOK
<1>1. Init => TypeOK
  <2>1. Resting("down") \in ConsumerState
    BY RestingState
  <2> QED
    BY <2>1, ConsumerAssumption DEF Init, TypeOK
<1>2. TypeOK /\ [Next]_vars => TypeOK'
  BY TypeStep
<1> QED
  BY <1>1, <1>2, PTL DEF Spec

-----------------------------------------------------------------------------
(* One consumer: at-least-once delivery *)

OnlyConsumer == \A c, d \in Consumer : c = d

\* What a message's place says about its history, and that a message pushed back
\* and not yet cleaned up is in the queue.
Places ==
  /\ \A m \in Message : Queued(m) => m \in sent
  /\ handled \subseteq sent
  /\ \A c \in Consumer :
       /\ consumer[c].pc \in AtWorkPc => consumer[c].msg \in sent
       /\ consumer[c].pc = "done" => consumer[c].msg \in handled
       /\ consumer[c].pc = "givenBack" => consumer[c].msg \in handled \/ InMain(consumer[c].msg)

SafeQueue == TypeOK /\ NoMessageLost /\ Places

\* Steps that leave every message where it can be found.
Quiet == /\ \A m \in Message : Queued(m)' <=> Queued(m)
         /\ UNCHANGED history

LEMMA QuietLists == ASSUME UNCHANGED queueVars
                    PROVE  \A m \in Message : (Queued(m)' <=> Queued(m)) /\ (InMain(m)' <=> InMain(m))
  BY DEF queueVars, Queued, InMain

\* The steps of a consumer that is not at work on a message.
LEMMA IdleSteps ==
  ASSUME SafeQueue, OnlyConsumer, NEW c \in Consumer,
         \/ Connect(c) \/ RequeueDone(c) \/ Exit(c) \/ RequeueFails(c)
         \/ \E m \in Message : RequeueStale(c, m) \/ Take(c, m) \/ TakeUnheard(c, m)
  PROVE  Quiet /\ Places'
<1>0. ListsOK /\ ConsumersOK
  BY TypeParts DEF SafeQueue
<1>1. UNCHANGED history
  BY DEF Connect, RequeueDone, Exit, RequeueFails, RequeueStale, Take, TakeUnheard
<1>2. \A m \in Message : Queued(m)' <=> Queued(m)
  <2>1. UNCHANGED queueVars \/ \E m \in Message : MoveBack(m) \/ Move(m)
    BY DEF Connect, RequeueDone, Exit, RequeueFails, RequeueStale, Take, TakeUnheard
  <2> QED
    BY <1>0, <2>1, KeepsQueued, QuietLists
<1>3. \A d \in Consumer : d = c
  BY DEF OnlyConsumer
<1>4. consumer'[c].pc \notin AtWorkPc
      \/ \E m \in Message : /\ consumer'[c].pc \in {"handling", "burying"} /\ consumer'[c].msg = m
                             /\ InMain(m)
  <2>1. CASE Connect(c) \/ RequeueDone(c) \/ Exit(c) \/ RequeueFails(c)
    <3>1. \E pc \in {"idle", "requeueing", "stopped"} : consumer' = [consumer EXCEPT ![c] = Resting(pc)]
      BY <2>1 DEF Connect, RequeueDone, Exit, RequeueFails, Become
    <3> QED
      BY <1>0, <3>1 DEF ConsumersOK, Resting, AtWorkPc
  <2>2. ASSUME NEW m \in Message, RequeueStale(c, m)
        PROVE  consumer'[c].pc \notin AtWorkPc
    <3>1. consumer[c] \in ConsumerState /\ consumer[c].pc = "requeueing"
      BY <1>0, <2>2 DEF ConsumersOK, RequeueStale
    <3>2. \/ consumer' = [consumer EXCEPT ![c] = Resting("idle")]
          \/ consumer' = [consumer EXCEPT ![c].moved = @ + 1]
      BY <2>2 DEF RequeueStale, Become
    <3> QED
      BY <1>0, <3>1, <3>2 DEF ConsumersOK, Resting, AtWorkPc, ConsumerState
  <2>3. ASSUME NEW m \in Message, Take(c, m)
        PROVE  /\ consumer'[c].pc \in {"handling", "burying"} /\ consumer'[c].msg = m
               /\ InMain(m)
    <3>1. InMain(m)
      <4>1. main # <<>> /\ m = main[Len(main)]
        BY <2>3 DEF Take, Move
      <4> QED
        BY <1>0, <4>1, DropLast DEF ListsOK, InMain
    <3> QED
      BY <1>0, <2>3, <3>1 DEF Take, Become, Working, ConsumersOK
  <2>4. ASSUME NEW m \in Message, TakeUnheard(c, m)
        PROVE  consumer'[c].pc \notin AtWorkPc
    BY <2>4 DEF TakeUnheard, AtWorkPc
  <2> QED
    BY <2>1, <2>2, <2>3, <2>4
<1>5. Places'
  <2>1. \A m \in Message : InMain(m) => m \in sent
    BY DEF SafeQueue, Places, Queued
  <2>2. consumer'[c].pc \in AtWorkPc => /\ consumer'[c].pc \in {"handling", "burying"}
                                       /\ consumer'[c].msg \in sent
    BY <1>4, <2>1
  <2>3. consumer'[c].pc # "done" /\ consumer'[c].pc # "givenBack"
    BY <2>2 DEF AtWorkPc, ConsumerPc
  <2>4. sent' = sent /\ handled' = handled
    BY <1>1 DEF history
  <2>5. (\A n \in Message : Queued(n) => n \in sent)' /\ handled' \subseteq sent'
    BY <1>2, <2>4 DEF SafeQueue, Places
  <2> QED
    BY <1>3, <2>2, <2>3, <2>4, <2>5 DEF Places
<1> QED
  BY <1>1, <1>2, <1>5 DEF Quiet

\* The steps on a message in hand: a message that is no longer found has been
\* handled or is malformed.
LEMMA WorkSteps ==
  ASSUME SafeQueue, OnlyConsumer, RequeueOnError, NEW c \in Consumer,
         \/ Bury(c) \/ HandlerReturns(c) \/ HandlerThrows(c) \/ Acknowledge(c)
         \/ AcknowledgeFails(c) \/ GiveBack(c) \/ GiveBackFails(c)
  PROVE  /\ Places' /\ UNCHANGED sent /\ handled \subseteq handled'
         /\ \A n \in Message : Queued(n) /\ ~Queued(n)' => n \in handled \cup Malformed
<1> DEFINE m == consumer[c].msg
<1>0. ListsOK /\ ConsumersOK
  BY TypeParts DEF SafeQueue
<1>1. consumer[c].pc \in AtWorkPc
  BY DEF Bury, HandlerReturns, HandlerThrows, Acknowledge, AcknowledgeFails, GiveBack,
     GiveBackFails, AtWorkPc, ConsumerPc
<1>2. m \in Message /\ m \in sent
  BY <1>0, <1>1, AtWorkHasMessage DEF SafeQueue, Places
<1>3. \A d \in Consumer : d = c
  BY DEF OnlyConsumer
<1>4. UNCHANGED sent
  BY DEF Bury, HandlerReturns, HandlerThrows, Acknowledge, AcknowledgeFails, GiveBack,
     GiveBackFails, history
<1>5. CASE Bury(c) \/ HandlerReturns(c) \/ HandlerThrows(c)
  <2>1. \A n \in Message : (Queued(n)' <=> Queued(n)) /\ (InMain(n)' <=> InMain(n))
    BY <1>5, QuietLists DEF Bury, HandlerReturns, HandlerThrows
  <2>2. /\ Bury(c) => consumer'[c].pc = "buried" /\ consumer'[c].msg = m
        /\ HandlerReturns(c) => consumer'[c].pc = "done" /\ consumer'[c].msg = m
        /\ HandlerThrows(c) => consumer'[c].pc = "failed" /\ consumer'[c].msg = m
    <3>1. "buried" \in ConsumerPc /\ "done" \in ConsumerPc /\ "failed" \in ConsumerPc
      BY DEF ConsumerPc
    <3> QED
      BY <1>0, <3>1, Reaches DEF Bury, HandlerReturns, HandlerThrows
  <2>3. \/ UNCHANGED handled
        \/ HandlerReturns(c) /\ handled' = handled \cup {m} /\ m \notin Malformed
    <3>1. HandlerReturns(c) => m \notin Malformed
      BY <1>0, AtWorkHasMessage DEF HandlerReturns, AtWorkPc, ConsumerPc
    <3> QED
      BY <1>5, <3>1 DEF Bury, HandlerReturns, HandlerThrows, history
  <2>4. HandlerReturns(c) => m \in handled'
    BY DEF HandlerReturns
  <2>5. Places'
    <3>1. /\ \A n \in Message : Queued(n)' => n \in sent'
          /\ handled' \subseteq sent'
      BY <1>2, <1>4, <2>1, <2>3 DEF SafeQueue, Places
    <3>2. consumer'[c].msg = m /\ consumer'[c].pc # "givenBack"
          /\ (consumer'[c].pc = "done" => m \in handled')
      BY <1>5, <2>2, <2>4
    <3> QED
      BY <1>2, <1>3, <1>4, <3>1, <3>2 DEF Places
  <2> QED
    BY <1>2, <1>4, <2>1, <2>3, <2>5
<1>6. CASE Acknowledge(c) \/ AcknowledgeFails(c)
  <2>1. UNCHANGED main /\ (UNCHANGED processing \/ RemoveOne(m)) /\ UNCHANGED handled
    BY <1>6 DEF Acknowledge, AcknowledgeFails, history
  <2>2. /\ \A n \in Message : n # m => (Queued(n)' <=> Queued(n))
        /\ \A n \in Message : InMain(n)' <=> InMain(n)
        /\ \A n \in Message : Queued(n)' => Queued(n)
    <3>1. CASE UNCHANGED processing
      BY <2>1, <3>1, QuietLists DEF queueVars
    <3>2. CASE RemoveOne(m)
      BY <1>0, <1>2, <2>1, <3>2, RemovesOne
    <3> QED
      BY <2>1, <3>1, <3>2
  <2>3. m \in handled \cup Malformed \/ InMain(m)
    <3>1. consumer[c].pc \in {"done", "buried", "givenBack"}
      BY <1>6 DEF Acknowledge, AcknowledgeFails
    <3> QED
      BY <1>0, <3>1, AtWorkHasMessage DEF SafeQueue, Places
  <2>4. \A n \in Message : Queued(n) /\ ~Queued(n)' => n \in handled \cup Malformed
    BY <1>2, <2>2, <2>3 DEF Queued
  <2>5. Places'
    <3>1. \/ consumer'[c].pc \notin AtWorkPc
          \/ consumer'[c].pc = "failed" /\ consumer'[c].msg = m
      <4>1. CASE Become(c, Resting("idle"))
        BY <1>0, <4>1 DEF Become, Resting, ConsumersOK, AtWorkPc
      <4>2. CASE consumer[c].pc = "done" /\ Reach(c, "failed")
        <5>1. "failed" \in ConsumerPc
          BY DEF ConsumerPc
        <5> QED
          BY <1>0, <4>2, <5>1, Reaches
      <4> QED
        BY <1>6, <4>1, <4>2 DEF Acknowledge, AcknowledgeFails
    <3>2. consumer'[c].pc \in AtWorkPc => consumer'[c].pc = "failed" /\ consumer'[c].msg \in sent'
      BY <1>2, <1>4, <3>1
    <3>3. "done" \in AtWorkPc /\ "givenBack" \in AtWorkPc
      BY DEF AtWorkPc, ConsumerPc
    <3> QED
      BY <1>3, <1>4, <2>1, <2>2, <3>2, <3>3 DEF SafeQueue, Places
  <2> QED
    BY <1>2, <1>4, <2>1, <2>2, <2>4, <2>5
<1>7. CASE GiveBack(c) \/ GiveBackFails(c)
  <2>1. UNCHANGED queueVars \/ PushBack(c)
    BY <1>7 DEF GiveBack, GiveBackFails
  <2>2. /\ \A n \in Message : n # m => (Queued(n)' <=> Queued(n))
        /\ \A n \in Message : Queued(n) => Queued(n)'
    BY <1>0, <1>2, <2>1, PushesBack, QuietLists
  <2>3. UNCHANGED handled
    BY <1>7 DEF GiveBack, GiveBackFails, history
  <2>4. Places'
    <3>1. \/ consumer'[c].pc \notin AtWorkPc
          \/ consumer'[c].pc = "givenBack" /\ consumer'[c].msg = m /\ InMain(m)'
      <4>1. CASE GiveBack(c)
        <5>1. "givenBack" \in ConsumerPc
          BY DEF ConsumerPc
        <5>2. consumer'[c].pc = "givenBack" /\ consumer'[c].msg = m
          BY <1>0, <4>1, <5>1, Reaches DEF GiveBack
        <5>3. \A n : n = m => InMain(n)'
          BY <1>0, <1>2, <4>1, PushesBack DEF GiveBack
        <5>4. InMain(consumer[c].msg)'
          BY <5>2, <5>3
        <5> QED
          BY <5>2, <5>4
      <4>2. CASE GiveBackFails(c)
        BY <1>0, <4>2 DEF GiveBackFails, Become, Resting, ConsumersOK, AtWorkPc
      <4> QED
        BY <1>7, <4>1, <4>2
    <3>2. \A n \in Message : Queued(n)' => n \in sent'
      BY <1>2, <1>4, <2>2 DEF SafeQueue, Places
    <3>3. "done" \in AtWorkPc /\ "givenBack" \in AtWorkPc
      BY DEF AtWorkPc, ConsumerPc
    <3>4. handled' \subseteq sent'
      BY <1>4, <2>3 DEF SafeQueue, Places
    <3>5. /\ consumer'[c].pc \in AtWorkPc => consumer'[c].msg \in sent'
          /\ consumer'[c].pc # "done"
          /\ consumer'[c].pc = "givenBack" => InMain(consumer[c].msg)'
      BY <1>2, <1>4, <3>1, <3>3
    <3> QED
      BY <1>3, <3>2, <3>4, <3>5 DEF Places
  <2> QED
    BY <1>2, <1>4, <2>2, <2>3, <2>4
<1> QED
  BY <1>5, <1>6, <1>7

\* Steps of the sweeper, of time and of a whole process.
LEMMA OtherSteps ==
  ASSUME SafeQueue,
         \/ Tick
         \/ \E p \in Process : \/ SweeperStep(p) \/ Restart(p) \/ Crash(p)
                               \/ \E m \in Message : SweepFails(p, m)
                               \/ \E cs \in SUBSET Consumer : Shutdown(p, cs)
  PROVE  Quiet /\ Places'
<1>0. ListsOK /\ ConsumersOK
  BY TypeParts DEF SafeQueue
<1>1. UNCHANGED history
  BY DEF Tick, SweeperStep, StartSweep, SweepOne, SweepFails, Restart, Crash, Fresh, Shutdown
<1>2. \A m \in Message : (Queued(m)' <=> Queued(m)) /\ (InMain(m) => InMain(m)')
  <2>1. UNCHANGED queueVars \/ \E m \in Message : Script(m)
    BY DEF Tick, SweeperStep, StartSweep, SweepOne, SweepFails, Restart, Crash, Fresh, Shutdown
  <2>2. ASSUME NEW m \in Message, Script(m), UNCHANGED consumer
        PROVE  \A n \in Message : (Queued(n)' <=> Queued(n)) /\ (InMain(n) => InMain(n)')
    <3>1. \A n : InMain(n) => InMain(n)'
      <4>1. main' = main \/ main' = <<m>> \o main
        BY <2>2 DEF Script
      <4>2. CASE main' = main
        BY <4>2 DEF InMain
      <4>3. CASE main' = <<m>> \o main
        <5>1. main' \in Seq(Message) /\ \A n : InMain(n)' <=> n = m \/ InMain(n)
          BY <1>0, <4>3, Prepend DEF ListsOK, InMain
        <5> QED
          BY <5>1
      <4> QED
        BY <4>1, <4>2, <4>3
    <3> QED
      BY <1>0, <2>2, <3>1, KeepsQueued
  <2>3. UNCHANGED queueVars \/ ((\E m \in Message : Script(m)) /\ UNCHANGED consumer)
    BY DEF Tick, SweeperStep, StartSweep, SweepOne, SweepFails, Restart, Crash, Fresh, Shutdown
  <2> QED
    BY <2>2, <2>3, QuietLists
<1>3. \A c \in Consumer : \/ consumer'[c].pc \notin AtWorkPc
                          \/ consumer'[c].pc = consumer[c].pc /\ consumer'[c].msg = consumer[c].msg
  <2>1. CASE Tick
    BY <2>1 DEF Tick
  <2>2. ASSUME NEW p \in Process, Fresh(p)
        PROVE  \A c \in Consumer : consumer'[c].pc \notin AtWorkPc \/ consumer'[c] = consumer[c]
    BY <2>2 DEF Fresh, Resting, AtWorkPc
  <2>3. Tick \/ (\E p \in Process : Fresh(p)) \/ UNCHANGED consumer
    BY DEF SweeperStep, StartSweep, SweepOne, SweepFails, Restart, Crash, Shutdown
  <2> QED
    BY <2>1, <2>2, <2>3
<1>4. "done" \in AtWorkPc /\ "givenBack" \in AtWorkPc
  BY DEF AtWorkPc, ConsumerPc
<1>5. sent' = sent /\ handled' = handled
  BY <1>1 DEF history
<1>6. ASSUME NEW c \in Consumer
      PROVE  /\ consumer'[c].pc \in AtWorkPc => consumer'[c].msg \in sent
             /\ consumer'[c].pc = "done" => consumer'[c].msg \in handled
             /\ consumer'[c].pc = "givenBack" =>
                  consumer'[c].msg \in handled \/ InMain(consumer[c].msg)' 
  <2>1. consumer[c].pc \in AtWorkPc => consumer[c].msg \in Message
    BY <1>0, AtWorkHasMessage
  <2>2. consumer'[c].pc \in AtWorkPc => /\ consumer'[c].pc = consumer[c].pc
                                       /\ consumer'[c].msg = consumer[c].msg
    BY <1>3
  <2>3. consumer[c].pc = "givenBack" =>
          consumer[c].msg \in handled \/ \A n \in Message : n = consumer[c].msg => InMain(n)'
    BY <1>2 DEF SafeQueue, Places
  <2>4. consumer'[c].pc = "givenBack" /\ consumer[c].msg \notin handled => InMain(consumer[c].msg)'
    BY <1>4, <2>1, <2>2, <2>3
  <2> QED
    BY <1>4, <2>2, <2>4 DEF SafeQueue, Places
<1>7. Places'
  <2>1. (\A n \in Message : Queued(n) => n \in sent)' /\ handled' \subseteq sent'
    BY <1>2, <1>5 DEF SafeQueue, Places
  <2> QED
    BY <1>5, <1>6, <2>1 DEF Places
<1> QED
  BY <1>1, <1>2, <1>7 DEF Quiet

LEMMA SendStep ==
  ASSUME SafeQueue, NEW m \in Message, Send(m)
  PROVE  Places' /\ NoMessageLost'
<1>0. ListsOK /\ ConsumersOK
  BY TypeParts DEF SafeQueue
<1>1. /\ \A n \in Message : InMain(n)' <=> n = m \/ InMain(n)
      /\ \A n \in Message : Queued(n)' <=> n = m \/ Queued(n)
  BY <1>0, Sends
<1>2. sent' = sent \cup {m} /\ handled' = handled /\ consumer' = consumer
  BY DEF Send
<1>3. \A c \in Consumer : consumer[c].pc = "givenBack" => consumer[c].msg \in Message
  BY <1>0, AtWorkHasMessage DEF AtWorkPc, ConsumerPc
<1>4. sent \subseteq Message
  BY DEF SafeQueue, TypeOK
<1>5. Places'
  <2>1. \A c \in Consumer : consumer[c].pc = "givenBack" =>
          consumer[c].msg \in handled \/ InMain(consumer[c].msg)'
    <3>1. ASSUME NEW c \in Consumer, consumer[c].pc = "givenBack", consumer[c].msg \notin handled
          PROVE  InMain(consumer[c].msg)'
      <4>1. \A n \in Message : n = consumer[c].msg => InMain(n)'
        BY <1>1, <3>1 DEF SafeQueue, Places
      <4> QED
        BY <1>2, <1>3, <3>1, <4>1
    <3> QED
      BY <3>1
  <2> QED
    BY <1>1, <1>2, <2>1 DEF SafeQueue, Places
<1>6. NoMessageLost'
  BY <1>1, <1>2, <1>4 DEF SafeQueue, NoMessageLost
<1> QED
  BY <1>5, <1>6

\* The inductive step.
LEMMA SafeStep ==
  ASSUME SafeQueue, OnlyConsumer, RequeueOnError, [Next]_vars
  PROVE  SafeQueue'
<1>1. TypeOK'
  BY TypeStep DEF SafeQueue
<1>2. ASSUME Places', NoMessageLost'
      PROVE  SafeQueue'
  BY <1>1, <1>2 DEF SafeQueue
<1>3. ASSUME Quiet, Places'
      PROVE  SafeQueue'
  <2>1. NoMessageLost'
    BY <1>3 DEF SafeQueue, NoMessageLost, Quiet, history, TypeOK
  <2> QED
    BY <1>2, <1>3, <2>1 DEF Quiet, history
<1>4. ASSUME NEW m \in Message, Send(m)
      PROVE  SafeQueue'
  <2>1. Places' /\ NoMessageLost'
    BY <1>4, SendStep
  <2> QED
    BY <1>2, <1>4, <2>1 DEF Send
<1>5. ASSUME NEW c \in Consumer,
             \/ Bury(c) \/ HandlerReturns(c) \/ HandlerThrows(c) \/ Acknowledge(c)
             \/ AcknowledgeFails(c) \/ GiveBack(c) \/ GiveBackFails(c)
      PROVE  SafeQueue'
  <2>1. /\ Places' /\ UNCHANGED sent /\ handled \subseteq handled'
        /\ \A n \in Message : Queued(n) /\ ~Queued(n)' => n \in handled \cup Malformed
    BY <1>5, WorkSteps
  <2>2. sent \subseteq Message
    BY DEF SafeQueue, TypeOK
  <2>3. NoMessageLost'
    BY <2>1, <2>2 DEF SafeQueue, NoMessageLost
  <2> QED
    BY <1>2, <2>1, <2>3
<1>6. CASE UNCHANGED vars
  <2>1. Quiet
    BY <1>6, QuietLists DEF vars, Quiet
  <2>2. Places'
    BY <1>6 DEF SafeQueue, Places, vars, queueVars, history, Queued, InMain
  <2> QED
    BY <1>3, <2>1, <2>2
<1>7. ASSUME NEW c \in Consumer, ConsumerStep(c) \/ ConsumerFault(c)
      PROVE  SafeQueue'
  BY <1>3, <1>5, <1>7, IdleSteps DEF ConsumerStep, ConsumerFault
<1>8. ASSUME \/ Tick
             \/ \E p \in Process : \/ SweeperStep(p) \/ Restart(p) \/ Crash(p)
                                   \/ \E m \in Message : SweepFails(p, m)
                                   \/ \E cs \in SUBSET Consumer : Shutdown(p, cs)
      PROVE  SafeQueue'
  BY <1>3, <1>8, OtherSteps
<1> QED
  BY <1>4, <1>6, <1>7, <1>8 DEF Next

LEMMA SafeInit ==
  ASSUME Init
  PROVE  SafeQueue
<1>1. TypeOK
  <2>1. Resting("down") \in ConsumerState
    BY RestingState
  <2> QED
    BY <2>1, ConsumerAssumption DEF Init, TypeOK
<1>2. \A m \in Message : ~Queued(m)
  BY DEF Init, Queued, InMain
<1>3. \A c \in Consumer : consumer[c].pc = "down"
  BY DEF Init, Resting
<1>4. NoMessageLost /\ Places
  BY <1>2, <1>3 DEF Init, NoMessageLost, Places, AtWorkPc
<1> QED
  BY <1>1, <1>4 DEF SafeQueue

\* A queue with one consumer that gives failures back loses no message, however
\* often it crashes, is swept early or loses a reply (base-consumer.ts:236-299).
THEOREM OneConsumerLosesNothing ==
  ASSUME OnlyConsumer, RequeueOnError
  PROVE  Spec => [](NoMessageLost /\ NoMessageAbandoned)
<1>1. SafeQueue /\ [Next]_vars => SafeQueue'
  BY SafeStep
<1>2. SafeQueue => NoMessageLost /\ NoMessageAbandoned
  BY DEF SafeQueue, NoMessageLost, NoMessageAbandoned
<1> QED
  BY <1>1, <1>2, SafeInit, PTL DEF Spec
=============================================================================
