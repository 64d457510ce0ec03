SPECIFICATION Spec
CONSTANTS
  KeepRecent = 1
  NumFiles = 2
  MaxEntries = 7
  MaxIncidents = 2
CHECK_DEADLOCK FALSE
INVARIANTS FileIsSession NothingForgotten AgentInStep AtHome ResultsFollowCalls
