SPECIFICATION LiveSpec
CONSTANTS
  search = search
  taxonomy = taxonomy
  None = None
  Endpoints = {search, taxonomy}
  T2 = {search}
  MaxFixes = 3
  MaxFaults = 3
  MaxChanges = 3
INVARIANTS
  EveryFixIsWatched
PROPERTIES
  NoFixOnceDisabled
  GoodFixSurvives
  PendingIsDecided
