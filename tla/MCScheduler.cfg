SPECIFICATION SchedulerSpec
CONSTANTS
  brief = brief
  weekly = weekly
  sync = sync
  Tasks = {brief, weekly, sync}
  Interval <- MCInterval
  Fixed = {brief}
  CatchUp = {sync}
  Opening = 1
  Window = 2
  Day = 4
  Horizon = 8
  Budget = 3
INVARIANTS
  OncePerWindow
  CatchesUp
PROPERTIES
  WindowIsTaken
