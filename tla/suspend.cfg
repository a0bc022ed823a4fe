SPECIFICATION FairSpec
CONSTANTS
  m1 = m1
  m2 = m2
  t1 = t1
  t2 = t2
  Scanners = {m1, m2}
  Others = {t1, t2}
  Commands <- SomeCommands
  UserSignals = {"STOP", "CONT", "KILL"}
  MaxSignals = 2
  MaxCommands = 3
  None = None
INVARIANTS
  NoneLeftStopped
  StoppedWhileWorking
  FoundStoppedKept
  NobodyRunsWhileWorking
PROPERTIES
  CommandsEnd
CHECK_DEADLOCK FALSE
