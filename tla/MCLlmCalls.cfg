SPECIFICATION FairSpec
CONSTANTS
  a = a
  b = b
  big = big
  Call = {a, b, big}
  Replica = {"r1", "r2"}
  ServedBy <- Replicas
  Prompt <- OneToken
  Completion <- LongBig
  Usage <- Long
  Rpm = 2
  Tpm = 4
  Meter = {"attempt", "calls", "day"}
  Charged <- ChargedTo
  PerCall = {"calls"}
  Daily = {"calls", "day"}
  Limit <- Limits
  MaxRollovers = 1
  MaxFaults = 1
INVARIANTS
  TypeOK
  RatesKept
  QuotaKept
PROPERTIES
  EveryCallEnds
CHECK_DEADLOCK FALSE
