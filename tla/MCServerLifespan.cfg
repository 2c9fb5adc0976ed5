SPECIFICATION LiveSpec
CONSTANTS
  Sessions = {s1, s2, s3}
  Nobody = Nobody
  MaxLoops = 2
INVARIANTS
  NothingOutlivesSessions
  NoStopDuringLaunch
  SessionsFindAServer
PROPERTY
  WaitersAreReleased
