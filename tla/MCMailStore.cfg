CONSTANTS
  s1 = s1
  s2 = s2
  Sessions <- OneSession
  MaxIdx = 2
SPECIFICATION StoreFairSpec
INVARIANTS
  QueriesAgree
  InfoCoversList
  NumbersKept
PROPERTIES
  FilesOfFlagged
  PollingFindsIt
CHECK_DEADLOCK FALSE
