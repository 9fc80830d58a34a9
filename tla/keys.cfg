CONSTANTS
  alice = alice
  bob = bob
  k1 = k1
  k2 = k2
  reality = reality
  trojan = trojan
  run1 = run1
  run2 = run2
  Emails <- TwoEmails
  Unnamed = Unnamed
  Uuids <- TwoUuids
  Inbounds <- TwoInbounds
  Primary = reality
  Passworded = {trojan}
  Bundles <- WithPrimary
  Runs <- TwoRuns
  NoMeta = NoMeta
  Idle = Idle
  MaxOperations = 4
SPECIFICATION FairSpec
INVARIANTS TypeOK OneUuidPerEmail DisabledIsOut KeyInvariant
PROPERTIES RestoredNotBlocked LimitsEnforced
CHECK_DEADLOCK FALSE
