SPECIFICATION FairSpec
CONSTANTS
  NoAttempt = NoAttempt
  Submission = {s1}
  Version = {v1}
  MaxAttempt = 3
  MaxRetries = 1
  Api = {api1}
  Sweeper = {sw1}
  Consumer = {c1}
  Worker = {w1}
  Bytes = {b1}
  Capacity = 1
  JudgeRetries = 1
  Outcome = {"graded", "transient"}
  Oversized = {}
  MaxFaults = 0
INVARIANTS
  TypeOK
  SequencesOrdered
  RetryChain
PROPERTIES
  EveryOneSettles
  LedgerSpec
