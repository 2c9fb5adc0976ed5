SPECIFICATION Spec
CONSTANTS
  Callers = {c1, c2}
  Jobs = {j1, j2}
  None = None
  Quota = 1
  AgentQuota = 2
  Environments = {"calm", "crashes"}
SYMMETRY Symmetric
INVARIANTS
  TripStopsTraffic
  TripsOutliveCrashes
  QuotaIsHardUnderLock
  NoRepeatedApply
  RowsMatchNaukri
