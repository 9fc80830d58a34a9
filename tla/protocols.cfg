CONSTANTS
  Networks <- MCNetworks
  Securities <- MCSecurities
  Other = "other"
  None = None
  MaxChanges = 2
SPECIFICATION Spec
INVARIANTS ShownIsServed NodesDialTheirInbound VisitorIsServed
CHECK_DEADLOCK FALSE
