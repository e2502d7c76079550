SPECIFICATION FairSpec
CONSTANTS
  NoAttempt = NoAttempt
  NoWorker = NoWorker
  NoItem = NoItem
  Submission = {s1, c1}
  Original = {s1}
  Version = {1}
  MaxAttempt = 4
  MaxRetries = 1
  Job = {j1}
  Upgrade = {j1}
  Worker = {w1, w2}
  MaxTries = 1
  MaxFaults = 1
PROPERTIES
  EveryItemEnds
  EveryAttemptEnds
CHECK_DEADLOCK FALSE
