SPECIFICATION LiveSpec
CONSTANTS
  Loop = loop
  Probes = {probe}
  MaxRestarts = 2
  Stretch = 2
INVARIANTS
  BudgetRespected
PROPERTY
  GivesUpLoudly
