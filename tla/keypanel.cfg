CONSTANTS
  e1 = e1
  e2 = e2
  NoKey = NoKey
  Emails <- TwoKeys
  Listings <- OwnOrBlank
  FirstExpiry <- OneExpires
  FirstCap <- OneShares
  Tiers = {"standard", "compatible"}
  Standard = "standard"
  Caps = {1, 2}
  Days = {1}
  MaxAsks = 1
  MaxTurns = 2
SPECIFICATION FairSpec
INVARIANTS DaysWereEntered LinksFollow PanelKeepsItsKey
PROPERTIES PanelSettles
