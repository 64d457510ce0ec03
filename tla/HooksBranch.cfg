SPECIFICATION Spec
CONSTANTS
  NumHooks = 2
  NumUnits = 2
  Triggers <- MCTriggers
  MaxCycles <- MCMaxCycles
  HasArtifact <- MCHasArtifact
  HasRetry <- MCHasRetry
  Isolation = "branch"
  InterruptPoints = {"core", "hook"}
  MaxCrashes = 1
CHECK_DEADLOCK FALSE
INVARIANTS HookRunsBounded
