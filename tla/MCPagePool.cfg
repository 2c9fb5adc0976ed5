SPECIFICATION Spec
CONSTANTS
  Clients = {c1, c2, c3}
  Pages = {p1, p2, p3, p4}
  MaxPages = 2
  MinPages = 1
  FailureThreshold = 2
  NoPage = NoPage
SYMMETRY Symmetry
INVARIANTS
  PoolAccountsForTabs
  DoomedTabsAreUnreachable
PROPERTIES
  ImplementsTabLeases
