SPECIFICATION FairSpec
CONSTANTS
  NumPrompts = 2
  NumProviders = 2
  NumCredentials = 1
  Sticky = 1
  Responses <- AnyResponse
  MaxRetries = 2
  MaxCalls = 1
  MaxAborts = 1
  MaxExpiries = 1
CHECK_DEADLOCK FALSE
INVARIANTS TypeOK WaitsEnd AnswersKept ReturnedMeansOver
PROPERTIES RetriesEnd
