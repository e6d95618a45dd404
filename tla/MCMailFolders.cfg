CONSTANTS
  s1 = s1
  s2 = s2
  Sessions <- TwoSessions
  Components <- Words
  User = "user"
  Empty = ""
  Inbox = "inbox"
  Defaults <- NewUser
  Paths <- SomePaths
  NewNames <- SomeNames
  MaxIdx = 4
SYMMETRY Symmetry
SPECIFICATION FoldersSpec
INVARIANTS
  InboxStays
  OnlyRenameHides
PROPERTIES
  GhostsAreOrphans
  NewFolderUnsubscribed
CHECK_DEADLOCK FALSE
