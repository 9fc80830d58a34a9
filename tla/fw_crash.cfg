CONSTANTS
  dash = dash
  api = api
  ip1 = ip1
  ip2 = ip2
  Producers <- TwoProducers
  Dashboard = dash
  IPs <- OneIP
  Scopes <- TwoScopes
  Torn = Torn
  NoPromotion = NoPromotion
  MaxCommands = 3
  MaxCrashes = 2
  MaxPromotions = 0
SPECIFICATION FairCrashSpec
INVARIANT SettledMeansConsistent
PROPERTY DrainsUnlessWedged
CHECK_DEADLOCK FALSE
