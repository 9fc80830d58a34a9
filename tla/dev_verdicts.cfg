CONSTANTS
  dash = dash
  api = api
  u1 = u1
  u2 = u2
  ip1 = ip1
  ip2 = ip2
  Users <- TwoUsers
  IPs <- OneIP
  Uses <- SharedAddress
  Isp <- NoNetworks
  NoIsp = NoIsp
  Workers <- BothWorkers
  Dashboard = dash
  DefaultLimit <- LowDefaults
  Limits <- OneLimit
  Operations <- Verdicts
  Idle = Idle
  MaxCalls = 1
SPECIFICATION Spec
SYMMETRY SameUsers
INVARIANTS TypeOK RoutesMatchRejected RejectedIsDenied
