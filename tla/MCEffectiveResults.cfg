SPECIFICATION Spec
CHECK_DEADLOCK FALSE
CONSTANTS
  s1 = s1
  s2 = s2
  s3 = s3
  v1 = v1
  v2 = v2
  Problem <- Problems
  Contest <- Contests
  Submission = {s1, s2, s3}
  Version = {v1, v2}
  Transaction = {t1, t2}
  ProblemOf <- MCProblemOf
  InitialRows <- MCInitialRows
  InitialBindings <- MCInitialBindings
  Latest <- MCLatest
  Request <- MCRequest
  AnyVersion = AnyVersion
  None = None
  MaxRequests = 3
  MaxTime = 1
INVARIANTS
  TypeOK
  GlobalProjectionCurrent
  ContestProjectionCurrent
  ViewHonest
  LockOrder
PROPERTIES
  CreatedOnPinned
  NoLostPolicyChange
SYMMETRY Symmetry
