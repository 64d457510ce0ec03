SPECIFICATION Spec
CONSTANTS
  KeepRecent = 3
  NumFiles = 2
  MaxEntries = 8
  MaxIncidents = 2
CHECK_DEADLOCK FALSE
INVARIANT ForkKeepsHistory
