SPECIFICATION MCSpec
CONSTANTS
  Lines <- SomeLines
  MaxLines = 2
  BufferLength = 24
  Cleared = 4
  constCommandBufferLength = 9
  constMaxTokenLength = 3
  MinNumber <- Lowest
  MaxNumber = 4
  MaxTokens = 2
  MaxMessages = 3
  MaxUid = 3
  MaxResults = 3
  Criteria <- SomeCriteria
  Kinds = {"select", "update", "myisam", "procedure"}
  MaxCalls = 3
  Nodes = {n1, n2, n3}
  Data = {1, 2}
  MaxKept = 4
  nullptr = nullptr
  Services = {s1, s2}
  Limits = {0, 1, 2}
  Garbage <- SomeGarbage
  MAX_TIMEOUTS = 3
  MaxInits = 3
  MaxCount = 4
INVARIANTS
  PerformedAsSent
  TextsAreOwn
  RequestIsResolved
  ExpansionIsBounded
  SearchIsIntersection
  StoredIsAcknowledged
  ListHolds
  LimitIsMet
CHECK_DEADLOCK FALSE
