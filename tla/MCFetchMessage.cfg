SPECIFICATION FetchSpec
CONSTANTS
  MaxMessages = 2
  Words <- SomeWords
  Requests <- SomeRequests
INVARIANTS
  ParsedAsSent
  AnswersAreOwn
PROPERTIES
  ShownIsStored
CHECK_DEADLOCK FALSE
