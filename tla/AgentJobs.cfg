SPECIFICATION FairSpec
CONSTANTS
  MaxLoops = 2
  MaxCallTurns = 1
  MaxToolCalls = 2
  OneAtATime = TRUE
  MaxUserSends = 1
  MaxReactions = 1
  MaxAborts = 1
  MaxFaults = 1
  MaxJobs = 2
  MaxRunning = 1
  MaxTotal = 1
  Outsiders = {1, 2}
CHECK_DEADLOCK FALSE
INVARIANTS AnsweredInTurn OneLoop NothingStranded NothingLost JobsInSight
PROPERTIES AbortsReturn
