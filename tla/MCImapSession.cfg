SPECIFICATION SessionSpec
CONSTANTS
  Folders = {inbox, drafts}
  None = none
  AppendSize = 2
INVARIANTS
  SelectionAgreed
  MailboxAgreed
  ReadOnlyUntilRefresh
  NumbersOfMailbox
PROPERTIES
  KeepsProtocol
CHECK_DEADLOCK FALSE
