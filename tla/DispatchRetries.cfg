SPECIFICATION FairSpec
CONSTANTS
  NumMilestones = 1
  NumSlices <- OneSlice
  NumTasks <- OneTask
  SliceDeps <- NoSliceDeps1
  MilestoneDeps <- NoMilestoneDeps1
  Context <- AllContext1
  UatDispatch = FALSE
  InitialDisks <- NewOrOverridden
  SkipTypes = {}
  UatHuman = FALSE
  UserMay = {"start"}
  Flaky = {"plan-slice", "execute-task", "complete-milestone"}
  Surprises = {}
  Silent = {"execute-task", "complete-slice"}
  Long = {"execute-task"}
  DoctorMayFail = FALSE
CHECK_DEADLOCK FALSE
INVARIANTS TypeOK SlicesClosedByUnit
PROPERTIES RunsEnd
