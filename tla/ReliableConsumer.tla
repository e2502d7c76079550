-------------------------- MODULE ReliableConsumer --------------------------
(* The consumers of one noj-core queue (results, search index, review of
   private messages) and the sweeper behind them, in every replica that reads
   that queue.  A message moves atomically from the queue to `:processing`, is
   handled, then removed; whatever a crash, a failed handler or a lost reply
   leaves in `:processing` comes back through the startup requeue or the sweep.

   A step is one Redis command or the code between two awaits.  `:processing`
   counts the copies of a message: its order only decides which stale message
   comes back first.  A message is its bytes, and every producer puts a
   timestamp or a fresh id into them, so no message is sent twice.  Time is
   counted in ticks; ages saturate, so it has no bound.  A sweep (milliseconds)
   sees one time, as its code does.                                          *)
EXTENDS Integers, Sequences, FiniteSets

CONSTANTS Process,         \* noj-core replicas
          Slot,            \* consumers of this queue in one replica
          Message,         \* bound: messages ever sent
          Malformed,       \* those JSON.parse rejects
          RequeueOnError,  \* the consumer's requeueOnError
          MaxStale,        \* MAX_STALE_REQUEUE_PER_START
          Timeout,         \* processingTimeoutMs, in ticks
          ForgetAfter,     \* TASK_PROCESSING_TIMEOUT_MS * 4, in ticks
          TableLimit,      \* entries of _firstSeen before old ones are dropped
          Slow,            \* whether time may pass while a message is at work
          NoMessage,
          MaxFaults        \* bound: faults and shutdowns in one behaviour

Consumer == Process \X Slot
Unseen == -1

ASSUME ConsumerAssumption ==
  /\ MaxStale \in Nat /\ Timeout \in Nat \ {0} /\ ForgetAfter \in Nat /\ TableLimit \in Nat
  /\ Timeout <= ForgetAfter
  /\ MaxFaults \in Nat
  /\ RequeueOnError \in BOOLEAN /\ Slow \in BOOLEAN
  /\ Malformed \subseteq Message /\ NoMessage \notin Message

VARIABLES main,        \* the queue; LPUSH at its front, taken from its end
          processing,  \* `:processing`, copies per message
          consumer,    \* local state of the consumers
          stopping,    \* consumers whose shutdown was requested
          requeued,    \* replicas that did their startup requeue
          firstSeen,   \* _firstSeen of a replica: age of each message
          sweep,       \* timed-out messages a sweep has yet to move
          sent, handled, \* history: messages sent, and handled at least once
          faults       \* faults spent

queueVars == <<main, processing>>
sweeperVars == <<firstSeen, sweep>>
history == <<sent, handled>>
vars == <<queueVars, consumer, stopping, requeued, sweeperVars, history, faults>>

\* `down` reconnects, `requeueing` empties `:processing`, `idle` waits for a
\* message, `burying` and `buried` put a malformed one away, `done` has to
\* acknowledge, `failed` to give back, `givenBack` to remove its copy.
ConsumerPc == {"down", "stopped", "requeueing", "idle", "handling", "done", "failed",
               "givenBack", "burying", "buried"}
AtWorkPc == ConsumerPc \ {"down", "stopped", "requeueing", "idle"}
ConsumerState ==
  {r \in [pc : ConsumerPc, msg : Message \cup {NoMessage}, moved : 0..MaxStale] :
     /\ r.pc \in AtWorkPc <=> r.msg # NoMessage
     /\ r.pc \in {"burying", "buried"} => r.msg \in Malformed
     /\ r.pc \in AtWorkPc \ {"burying", "buried"} => r.msg \notin Malformed}

Resting(pc) == [pc |-> pc, msg |-> NoMessage, moved |-> 0]
Working(pc, m) == [pc |-> pc, msg |-> m, moved |-> 0]

TypeOK ==
  /\ main \in Seq(Message)
  /\ processing \in [Message -> Nat]
  /\ consumer \in [Consumer -> ConsumerState]
  /\ stopping \subseteq Consumer
  /\ requeued \subseteq Process
  /\ firstSeen \in [Process -> [Message -> {Unseen} \cup 0..(ForgetAfter + 1)]]
  /\ sweep \in [Process -> SUBSET Message]
  /\ sent \subseteq Message /\ handled \subseteq Message
  /\ faults \in 0..MaxFaults

Init ==
  /\ main = <<>> /\ processing = [m \in Message |-> 0]
  /\ consumer = [c \in Consumer |-> Resting("down")]
  /\ stopping = {} /\ requeued = {}
  /\ firstSeen = [p \in Process |-> [m \in Message |-> Unseen]]
  /\ sweep = [p \in Process |-> {}]
  /\ sent = {} /\ handled = {} /\ faults = 0

-----------------------------------------------------------------------------
(* Helpers *)

Fault == faults < MaxFaults /\ faults' = faults + 1

\* Mutant: a count that does not stop at no copy.
RemoveAny(m) == processing' = [processing EXCEPT ![m] = @ - 1]

\* LREM key 1 value: one copy, if there is one.
RemoveOne(m) == processing' = [processing EXCEPT ![m] = IF @ > 0 THEN @ - 1 ELSE 0]

\* One copy more or less as a message moves between the lists.
AddOne(m) == processing' = [processing EXCEPT ![m] = @ + 1]

Become(c, state) == consumer' = [consumer EXCEPT ![c] = state]
Reach(c, pc) == consumer' = [consumer EXCEPT ![c].pc = pc]

InMain(m) == \E i \in 1..Len(main) : main[i] = m
Queued(m) == InMain(m) \/ processing[m] > 0
AtWork(c) == consumer[c].pc \in AtWorkPc

-----------------------------------------------------------------------------
(* The producers: LPUSH of an event *)

Send(m) ==
  /\ m \notin sent
  /\ main' = <<m>> \o main /\ sent' = sent \cup {m}
  /\ UNCHANGED <<processing, consumer, stopping, requeued, sweeperVars, handled, faults>>

-----------------------------------------------------------------------------
(* runConsumer: connect and requeueStaleProcessing *)

\* RPOPLPUSH from `:processing` to the front of the queue.
MoveBack(m) == /\ processing[m] > 0
               /\ RemoveOne(m)
               /\ main' = <<m>> \o main

\* The connection is up; processingRequeuedQueues is looked at here, and only
\* filled when the loop has ended.
Connect(c) ==
  /\ consumer[c].pc = "down" /\ c \notin stopping
  /\ Become(c, Resting(IF c[1] \in requeued THEN "idle" ELSE "requeueing"))
  /\ UNCHANGED <<queueVars, stopping, requeued, sweeperVars, history, faults>>

\* One more message moved; the loop breaks behind the limit.
RequeueStale(c, m) ==
  /\ consumer[c].pc = "requeueing"
  /\ MoveBack(m)
  /\ IF consumer[c].moved = MaxStale
       THEN Become(c, Resting("idle")) /\ requeued' = requeued \cup {c[1]}
       ELSE /\ consumer' = [consumer EXCEPT ![c].moved = @ + 1]
            /\ UNCHANGED requeued
  /\ UNCHANGED <<stopping, sweeperVars, history, faults>>

\* `:processing` is empty.
RequeueDone(c) ==
  /\ consumer[c].pc = "requeueing" /\ \A m \in Message : processing[m] = 0
  /\ Become(c, Resting("idle"))
  /\ requeued' = requeued \cup {c[1]}
  /\ UNCHANGED <<queueVars, stopping, sweeperVars, history, faults>>

\* The command fails, executed or not; the flag stays unset.
RequeueFails(c) ==
  /\ consumer[c].pc = "requeueing" /\ Fault
  /\ Become(c, Resting("idle"))
  /\ UNCHANGED queueVars \/ \E m \in Message : MoveBack(m)
  /\ UNCHANGED <<stopping, requeued, sweeperVars, history>>

-----------------------------------------------------------------------------
(* runConsumer: the loop *)

\* BRPOPLPUSH.
Move(m) == /\ main # <<>> /\ m = main[Len(main)]
           /\ main' = SubSeq(main, 1, Len(main) - 1)
           /\ AddOne(m)

Take(c, m) ==
  /\ consumer[c].pc = "idle"
  /\ Move(m)
  /\ Become(c, Working(IF m \in Malformed THEN "burying" ELSE "handling", m))
  /\ UNCHANGED <<stopping, requeued, sweeperVars, history, faults>>

\* The message has moved but the reply is lost.
TakeUnheard(c, m) ==
  /\ consumer[c].pc = "idle" /\ Fault
  /\ Move(m)
  /\ UNCHANGED <<consumer, stopping, requeued, sweeperVars, history>>

\* RPUSH to the dead-letter queue; a failure is only logged.
Bury(c) ==
  /\ consumer[c].pc = "burying"
  /\ Reach(c, "buried")
  /\ UNCHANGED <<queueVars, stopping, requeued, sweeperVars, history, faults>>

\* handleMessage returns.
HandlerReturns(c) ==
  /\ consumer[c].pc = "handling"
  /\ Reach(c, "done")
  /\ handled' = handled \cup {consumer[c].msg}
  /\ UNCHANGED <<queueVars, stopping, requeued, sweeperVars, sent, faults>>

\* handleMessage throws.
HandlerThrows(c) ==
  /\ consumer[c].pc = "handling" /\ Fault
  /\ Reach(c, "failed")
  /\ UNCHANGED <<queueVars, stopping, requeued, sweeperVars, history>>

\* LREM: the last step of a message, however it went.
Acknowledge(c) ==
  /\ consumer[c].pc \in {"done", "buried", "givenBack"}
  /\ RemoveOne(consumer[c].msg)
  /\ Become(c, Resting("idle"))
  /\ UNCHANGED <<main, stopping, requeued, sweeperVars, history, faults>>

\* That LREM fails, executed or not.  After the handler returned it counts as a
\* failure of the handler, else the message is left to the sweeper.
AcknowledgeFails(c) ==
  /\ consumer[c].pc \in {"done", "buried", "givenBack"} /\ Fault
  /\ IF consumer[c].pc = "done" THEN Reach(c, "failed") ELSE Become(c, Resting("idle"))
  /\ UNCHANGED processing \/ RemoveOne(consumer[c].msg)
  /\ UNCHANGED <<main, stopping, requeued, sweeperVars, history>>

\* Mutant: a failed message is only removed.
PushNothing(c) == UNCHANGED queueVars

\* RPUSH: the message is the next one taken.
PushBack(c) == /\ main' = IF RequeueOnError THEN Append(main, consumer[c].msg) ELSE main
               /\ UNCHANGED processing

\* The handler failed: give the message back, or just remove it.
GiveBack(c) ==
  /\ consumer[c].pc = "failed"
  /\ Reach(c, "givenBack")
  /\ PushBack(c)
  /\ UNCHANGED <<stopping, requeued, sweeperVars, history, faults>>

\* The RPUSH fails, executed or not: left to the sweeper.
GiveBackFails(c) ==
  /\ consumer[c].pc = "failed" /\ RequeueOnError /\ Fault
  /\ Become(c, Resting("idle"))
  /\ UNCHANGED queueVars \/ PushBack(c)
  /\ UNCHANGED <<stopping, requeued, sweeperVars, history>>

-----------------------------------------------------------------------------
(* Shutdown, crash and restart *)

\* requestShutdown of one consumer, or requestConsumerShutdown for all of p.
Shutdown(p, cs) ==
  /\ cs \subseteq {c \in Consumer : c[1] = p} /\ cs # {} /\ Fault
  /\ cs \cap stopping = {}
  /\ stopping' = stopping \cup cs
  /\ UNCHANGED <<queueVars, consumer, requeued, sweeperVars, history>>

\* The loop condition sees the request between two messages.
Exit(c) ==
  /\ c \in stopping /\ consumer[c].pc \in {"idle", "down"}
  /\ Become(c, Resting("stopped"))
  /\ UNCHANGED <<queueVars, stopping, requeued, sweeperVars, history, faults>>

\* A new process in the place of p: its memory is gone, Redis is not.
Fresh(p) ==
  /\ consumer' = [c \in Consumer |-> IF c[1] = p THEN Resting("down") ELSE consumer[c]]
  /\ stopping' = {c \in stopping : c[1] # p}
  /\ requeued' = requeued \ {p}
  /\ firstSeen' = [firstSeen EXCEPT ![p] = [m \in Message |-> Unseen]]
  /\ sweep' = [sweep EXCEPT ![p] = {}]
  /\ UNCHANGED <<queueVars, history>>

Restart(p) ==
  /\ \A c \in Consumer : c[1] = p => consumer[c].pc = "stopped"
  /\ Fresh(p) /\ UNCHANGED faults

Crash(p) == Fresh(p) /\ Fault

-----------------------------------------------------------------------------
(* The sweeper: sweepProcessingQueue and its first-seen table *)

\* One sweep reads `:processing`: new messages start their clock, those whose
\* clock has run out are to be moved.
StartSweep(p) ==
  /\ sweep[p] = {}
  /\ sweep' = [sweep EXCEPT ![p] = {m \in Message : /\ processing[m] > 0
                                                    /\ firstSeen[p][m] >= Timeout}]
  /\ firstSeen' = [firstSeen EXCEPT ![p] =
       [m \in Message |-> IF processing[m] > 0 /\ firstSeen[p][m] = Unseen
                          THEN 0 ELSE firstSeen[p][m]]]
  /\ UNCHANGED <<queueVars, consumer, stopping, requeued, history, faults>>

\* Mutant: the script removes every copy without pushing the message.
ScriptRemoving(m) == /\ processing' = [processing EXCEPT ![m] = 0]
                     /\ UNCHANGED main

\* REQUEUE_SCRIPT: all copies out of `:processing`, one to the front.
Script(m) == /\ processing' = [processing EXCEPT ![m] = 0]
             /\ main' = IF processing[m] > 0 THEN <<m>> \o main ELSE main

\* markRequeued: the clock starts again, and a large table drops old entries.
MarkRequeued(p, m) ==
  LET table == [firstSeen[p] EXCEPT ![m] = 0]
      large == Cardinality({n \in Message : table[n] # Unseen}) > TableLimit
  IN  firstSeen' = [firstSeen EXCEPT ![p] =
        [n \in Message |-> IF large /\ table[n] > ForgetAfter THEN Unseen ELSE table[n]]]

SweepOne(p, m) ==
  /\ m \in sweep[p]
  /\ Script(m)
  /\ IF processing[m] > 0 THEN MarkRequeued(p, m) ELSE UNCHANGED firstSeen
  /\ sweep' = [sweep EXCEPT ![p] = @ \ {m}]
  /\ UNCHANGED <<consumer, stopping, requeued, history, faults>>

\* The script's reply is lost: nothing is noted.
SweepFails(p, m) ==
  /\ m \in sweep[p] /\ Fault
  /\ UNCHANGED queueVars \/ Script(m)
  /\ sweep' = [sweep EXCEPT ![p] = @ \ {m}]
  /\ UNCHANGED <<firstSeen, consumer, stopping, requeued, history>>

\* Time passes, between two sweeps.  Unless Slow, consumers are prompt: none is
\* at work, and none waits while a message is there.
Tick ==
  /\ \A p \in Process : sweep[p] = {}
  /\ Slow \/ \A c \in Consumer : ~AtWork(c) /\ (consumer[c].pc = "idle" => main = <<>>)
  /\ firstSeen' = [p \in Process |-> [m \in Message |->
       IF firstSeen[p][m] \in 0..ForgetAfter THEN firstSeen[p][m] + 1 ELSE firstSeen[p][m]]]
  /\ UNCHANGED <<queueVars, consumer, stopping, requeued, sweep, history, faults>>

-----------------------------------------------------------------------------
ConsumerStep(c) ==
  \/ Connect(c) \/ RequeueDone(c) \/ Bury(c) \/ HandlerReturns(c) \/ Acknowledge(c)
  \/ GiveBack(c) \/ Exit(c)
  \/ \E m \in Message : RequeueStale(c, m) \/ Take(c, m)

ConsumerFault(c) ==
  \/ RequeueFails(c) \/ HandlerThrows(c) \/ AcknowledgeFails(c) \/ GiveBackFails(c)
  \/ \E m \in Message : TakeUnheard(c, m)

SweeperStep(p) == StartSweep(p) \/ \E m \in Message : SweepOne(p, m)

Next ==
  \/ \E m \in Message : Send(m)
  \/ \E c \in Consumer : ConsumerStep(c) \/ ConsumerFault(c)
  \/ \E p \in Process : \/ SweeperStep(p) \/ Restart(p) \/ Crash(p)
                        \/ \E m \in Message : SweepFails(p, m)
                        \/ \E cs \in SUBSET Consumer : Shutdown(p, cs)
  \/ Tick

Spec == Init /\ [][Next]_vars

\* Consumers and sweepers are loops of a running process, a stopped process is
\* started again, handlers return and time passes.
Fairness == /\ \A c \in Consumer : WF_vars(ConsumerStep(c))
            /\ \A p \in Process : WF_vars(SweeperStep(p)) /\ WF_vars(Restart(p))
            /\ WF_vars(Tick)

FairSpec == Spec /\ Fairness

-----------------------------------------------------------------------------
(* Properties *)

InHand(m) == \E c \in Consumer : consumer[c].pc \in {"handling", "failed"} /\ consumer[c].msg = m

\* At-least-once (base-consumer.ts:281-282), as long as one consumer reads the
\* queue: whatever crashes, is swept early or pushed back, a message that was sent
\* and has not been handled is still in the queue or in `:processing`.
NoMessageLost == \A m \in sent \ (handled \cup Malformed) : Queued(m)

\* With several consumers a copy may be removed by a sibling that still cleans up
\* after its own failure; then at least the consumer that holds it is alive.
NoMessageAbandoned == \A m \in sent \ (handled \cup Malformed) : Queued(m) \/ InHand(m)

\* Whatever happens a bounded number of times, a well-formed message that was
\* sent is handled eventually: nothing stays in `:processing` for ever.
EveryMessageHandled ==
  \A m \in Message \ Malformed : m \in sent ~> m \in handled
=============================================================================
