SPECIFICATION Spec
CONSTANTS
  NoMessage = NoMessage
  Process = {p1}
  Slot = {c1, c2, c3}
  Message = {m1}
  Malformed = {}
  RequeueOnError = TRUE
  MaxStale = 1
  Timeout = 1
  ForgetAfter = 2
  TableLimit = 1
  Slow = TRUE
  MaxFaults = 2
INVARIANTS
  NoMessageAbandoned
