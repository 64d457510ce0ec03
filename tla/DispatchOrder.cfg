SPECIFICATION Spec
CONSTANTS
  NumMilestones = 2
  NumSlices <- ThreeSlices
  NumTasks <- ThreeSlicesTasks
  SliceDeps <- InOrderDeps
  MilestoneDeps <- SecondNeedsFirst
  Context <- AllContext2
  UatDispatch = TRUE
  InitialDisks <- FirstOrEachPlanned
  SkipTypes = {"plan-milestone"}
  UatHuman = TRUE
  UserMay = {"start", "restart", "stop", "resume", "pause", "crash", "cancel"}
  Flaky = {}
  Surprises = {}
  Silent = {}
  Long = {}
  DoctorMayFail = FALSE
CHECK_DEADLOCK FALSE
INVARIANTS WorkInOrder BetweenSlicesWorked GuardAgrees
