SPECIFICATION Spec
CONSTANTS
  Callers = {c1, c2}
  Jobs = {j1, j2}
  None = None
  Quota = 1
  AgentQuota = 2
  Environments = {"calm"}
SYMMETRY Symmetric
PROPERTIES EveryBlockTrips
