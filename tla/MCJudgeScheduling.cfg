SPECIFICATION FairSpec
CONSTANTS
  NoJudge = NoJudge
  NoTask = NoTask
  a = a
  b = b
  Judge = {j1}
  Task = {a, b}
  Pools <- WasmPool
  PoolOf <- PoolOfTask
  KeyOf <- KeyOfTask
  Cases <- CasesOfTask
  Sequential = {a}
  Base <- BaseOfTask
  Headroom <- OneMb
  Data <- DataOfTask
  CompileMemory = 1
  CaseMemory <- OneMb
  Slots <- TwoRunSlots
  Budget = 5
  Permit = {1, 2}
  JudgeRetries = 1
  MaxCases = 2
  MaxFaults = 1
PROPERTIES
  EveryTaskEnds
INVARIANTS
  TypeOK
  LeasesWithinCapacity
  RunsWithinCapacity
  OneEvaluationPerUser
