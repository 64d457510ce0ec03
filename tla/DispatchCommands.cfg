SPECIFICATION Spec
CONSTANTS
  NumMilestones = 2
  NumSlices <- OneThenNone
  NumTasks <- OneTask
  SliceDeps <- NoSliceDeps1
  MilestoneDeps <- NoMilestoneDeps2
  Context <- FullThenDraft
  UatDispatch = FALSE
  InitialDisks <- Planned
  SkipTypes = {}
  UatHuman = FALSE
  UserMay = {"start", "resume", "abort", "steer"}
  Flaky = {"complete-milestone"}
  Surprises = {}
  Silent = {"rewrite-docs"}
  Long = {}
  DoctorMayFail = TRUE
CHECK_DEADLOCK FALSE
INVARIANTS RetriesBounded KeysBacked NeverStalled
