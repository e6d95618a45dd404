SPECIFICATION DbSpec
CONSTANTS
  Kinds = {"select", "update", "myisam", "procedure"}
  MaxCalls = 3
INVARIANT FailureIsUndone
CHECK_DEADLOCK FALSE
