CONSTANTS
  dash = dash
  api = api
  u1 = u1
  u2 = u2
  ip1 = ip1
  ip2 = ip2
  Users <- OneUser
  IPs <- TwoIPs
  Uses <- UsedByOneUser
  Isp <- NoNetworks
  NoIsp = NoIsp
  Workers <- BothWorkers
  Dashboard = dash
  DefaultLimit <- Defaults
  Limits <- NoLimits
  Operations <- Approvals
  Idle = Idle
  MaxCalls = 1
SPECIFICATION Spec
INVARIANT LimitRespected
