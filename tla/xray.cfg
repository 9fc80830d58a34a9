CONSTANTS
  ann = ann
  b1 = b1
  b2 = b2
  Emails <- MCEmails
  Kinds = {"reality", "ws"}
  Tags = {"in1", "in2"}
  Browsers <- MCBrowsers
  Initial <- MCInitial
  None = None
  MaxInbounds = 3
  MaxOperations = 3
  MaxSafeRestarts = 1
SPECIFICATION FairSpec
INVARIANTS SystemInboundStays EditsAreLoaded ServesOnlyListed
PROPERTY RequestsAreServed
CHECK_DEADLOCK FALSE
