SPECIFICATION TurnsSpec
CONSTANTS
  NoJudge = NoJudge
  NoTask = NoTask
  a = a
  b = b
  Judge = {j1}
  Task = {a, b}
  Pools <- WasmPool
  PoolOf <- PoolOfTask
  KeyOf <- KeyOfTask
  Cases <- CasesOfTask
  Sequential = {}
  Base <- BaseOfTask
  Headroom <- OneMb
  Data <- DataOfTask
  CompileMemory = 1
  CaseMemory <- OneMb
  Slots <- TwoRunSlots
  Budget = 12
  Permit = {1, 2}
  JudgeRetries = 0
  MaxCases = 4
  MaxFaults = 0
PROPERTIES
  RunSlotsRotate
