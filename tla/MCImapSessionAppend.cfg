SPECIFICATION SessionFairSpec
CONSTANTS
  Folders = {inbox, drafts}
  None = none
  AppendSize = 2
PROPERTIES
  AppendCompletes
CHECK_DEADLOCK FALSE
