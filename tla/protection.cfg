CONSTANTS
  dash = dash
  ip1 = ip1
  Producers <- OneProducer
  Dashboard = dash
  IPs <- OneIP
  Scopes <- ForGood
  Torn = Torn
  NoPromotion = NoPromotion
  MaxCommands = 1
  MaxCrashes = 0
  MaxPromotions = 2
  Kinds <- BothKinds
  NoPoll = NoPoll
  MaxTime = 1
  MaxLines = 2
  MaxModes = 1
SPECIFICATION FairProtectionSpec
INVARIANT DeviceHoldKeepsRule
PROPERTIES PromotedOnlyInForce BansGetPromoted PageSettles
CHECK_DEADLOCK FALSE
