SPECIFICATION FairSpec
CONSTANTS
  NoAttempt = NoAttempt
  Submission = {s1}
  Version = {v1}
  MaxAttempt = 1
  MaxRetries = 0
  Api = {api1}
  Sweeper = {sw1}
  Consumer = {c1}
  Worker = {w1}
  Bytes = {b1}
  Capacity = 1
  JudgeRetries = 1
  Outcome = {"graded", "invalid", "transient"}
  Oversized = {s1}
  MaxFaults = 1
INVARIANTS
  ActiveConsistent
  MarkerHonest
  VerdictsWereReported
PROPERTIES
  EveryOneSettles
  TokensRevoked
  EvaluationSpec
