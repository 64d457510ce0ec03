SPECIFICATION Spec
CONSTANTS
  NumHooks = 2
  NumUnits = 2
  Triggers <- MCTriggers
  MaxCycles <- MCMaxCycles
  HasArtifact <- MCHasArtifact
  HasRetry <- MCHasRetry
  Isolation = "worktree"
  InterruptPoints = {"core"}
  MaxCrashes = 1
CHECK_DEADLOCK FALSE
INVARIANTS TypeOK CompletionAttributed
PROPERTIES HooksRanBeforeAdvance
