CONSTANTS
  k1 = k1
  ispA = ispA
  ispB = ispB
  home = home
  away = away
  family = family
  Keys = {k1}
  IPs <- ThreeIPs
  Uses <- UsedBy
  Known <- KnownOf
  Isp <- Providers
  NoIsp = NoIsp
  Country <- Countries
  FarApart <- Far
  Datacenter <- OneProxy
  OverCap <- Nobody
  Limit = 2
  Chosen <- OnlyStrict
  Ungrouped = Ungrouped
  FirstGroup = family
  Groups <- TwoGroups
  Pages = {p1}
  NoClick = NoClick
  MaxConnections = 2
  MaxTurns = 1
SPECIFICATION FairSpec
INVARIANT PresetsAreOrdered
PROPERTIES ReviewSettles
