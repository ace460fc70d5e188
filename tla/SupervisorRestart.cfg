CONSTANTS
  Ids = {a, b}
  Num = 2
  RestartMax = 2
  BaseDelay = 100
  MaxDelay = 300
  MissedTicks = 1
  Running = Running
SPECIFICATION FairSpec
PROPERTY EveryCrashIsRestarted
CHECK_DEADLOCK FALSE
