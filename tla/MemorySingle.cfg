SPECIFICATION FairSpec
CONSTANTS
  Process = {p1}
  t1 = t1
  t2 = t2
  c1 = c1
  c2 = c2
  Thread = {t1, t2}
  Project = {c1, c2}
  Home <- MCHome
  Place <- MCPlace
  MaxPerStartup = 1
  Batch = 1
  MaxVersion = 2
  MaxChanges = 3
  MaxJobs = 3
  MaxResets = 1
  MaxCrashes = 1
  SideBySide = FALSE
CHECK_DEADLOCK FALSE
INVARIANTS PendingHasJob
PROPERTIES KeepsPromise SessionsExtracted
