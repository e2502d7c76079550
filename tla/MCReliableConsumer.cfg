SPECIFICATION FairSpec
CONSTANTS
  NoMessage = NoMessage
  Process = {p1}
  Slot = {c1, c2}
  Message = {m1, bad}
  Malformed = {bad}
  RequeueOnError = TRUE
  MaxStale = 1
  Timeout = 1
  ForgetAfter = 2
  TableLimit = 1
  Slow = TRUE
  MaxFaults = 2
INVARIANTS
  TypeOK
  NoMessageAbandoned
PROPERTIES
  EveryMessageHandled
