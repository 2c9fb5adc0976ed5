SPECIFICATION LiveSpec
CONSTANTS
  Workers = {w1, w2}
  Loop = loop
  Triggers = {probe}
  Reauthers = {ra}
  MaxTabs = 2
  MaxLaunches = 5
  RoughLaunches = 3
  RoughWorkers = {w1}
  MayWedge = TRUE
  MayCancel = TRUE
  NoOne = NoOne
  Reaper = Reaper
INVARIANTS
  OneChrome
  ChromeUnderProfileLock
PROPERTIES
  Recovers
  LockIsReturned
