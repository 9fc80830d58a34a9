CONSTANTS
  dash = dash
  api = api
  ip1 = ip1
  ip2 = ip2
  Producers <- TwoProducers
  Dashboard = dash
  IPs <- TwoIPs
  Scopes <- TwoScopes
  Torn = Torn
  NoPromotion = NoPromotion
  MaxCommands = 3
  MaxCrashes = 0
  MaxPromotions = 0
SPECIFICATION Spec
SYMMETRY IPSymmetry
INVARIANTS TypeOK RulesFollowLists
PROPERTY ImplementsRegistry
CHECK_DEADLOCK FALSE
