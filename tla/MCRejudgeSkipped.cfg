SPECIFICATION Spec
CONSTANTS
  NoAttempt = NoAttempt
  NoWorker = NoWorker
  NoItem = NoItem
  Submission = {s1, c1}
  Original = {s1}
  Version = {1}
  MaxAttempt = 3
  MaxRetries = 0
  Job = {j1, j2}
  Upgrade = {j2}
  Worker = {w1, w2}
  MaxTries = 1
  MaxFaults = 1
INVARIANTS
  OwnAttemptNotSkipped
SYMMETRY Interchangeable
CHECK_DEADLOCK FALSE
