CONSTANTS
  t1 = t1
  t2 = t2
  ann = ann
  ben = ben
  u1 = u1
  u2 = u2
  u3 = u3
  v1 = v1
  v2 = v2
  Tokens <- MCTokens
  Emails <- MCEmails
  Uuids <- MCUuids
  Profiles = {"standard", "family"}
  WithFirst = {"standard"}
  Visitors <- MCVisitors
  None = None
  Gone = Gone
  MaxOperations = 5
  MaxRestarts = 1
SPECIFICATION FairSpec
INVARIANTS UsedNamesItsRedeemer PageAndSubscriptionAgree
PROPERTIES FirstRedeemerKeeps GoneStaysGone RedeemingEnds
CHECK_DEADLOCK FALSE
