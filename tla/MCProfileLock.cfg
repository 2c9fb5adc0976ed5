SPECIFICATION LockLiveSpec
CONSTANTS
  Processes = {a, b, c}
  Absent = Absent
  Garbage = Garbage
INVARIANTS
  OneUser
  LockNamesItsUser
PROPERTY
  NeverDeadlocksOnCorpse
