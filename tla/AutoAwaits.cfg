SPECIFICATION FairSpec
CONSTANTS
  NumUnits = 2
  MAX_UNIT_DISPATCHES = 1
  MaxCalls = 2
  MaxCommands = 2
  MaxTroubles = 2
INVARIANTS
  TypeOK
  OneDispatcher
  Supervised
  LockMeansCrash
PROPERTIES Proceeds
CHECK_DEADLOCK FALSE
