CONSTANTS
  None = None
  Sleepers = {sleeper}
  Ways = {"time"}
  Idlers = {idler}
  Threads = {th1, th2}
  Quitters = {th2}
  CallLaterTask = CallLaterTask
  MaxOps = 1
SPECIFICATION FairSpec
INVARIANTS OnePlace Exclusive
PROPERTIES EverybodyRuns QuitStops
CHECK_DEADLOCK FALSE
