SPECIFICATION SuspendLiveSpec
CONSTANTS
  Clients = {w1, w2, m1}
  Monitors = {m1}
  Pages = {p1, p2}
  MaxPages = 1
  MinPages = 1
  FailureThreshold = 1
  NoPage = NoPage
  NoOne = NoOne
  Reaper = Reaper
INVARIANTS
  LeasesAreCounted
  NeverWaitsOnQueue
  
PROPERTIES
  ResumeDecides
  CheckoutEnds
