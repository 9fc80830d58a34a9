CONSTANTS
  id1 = id1
  id2 = id2
  id3 = id3
  ann = ann
  ben = ben
  b1 = b1
  b2 = b2
  Ids <- MCIds
  Usernames <- MCUsernames
  Roles <- MCRoles
  Browsers <- MCBrowsers
  None = None
  MaxOperations = 6
SPECIFICATION FairSpec
PROPERTIES OwnerLostOnlyByChange RedirectsEnd SignedOutLeaves
CHECK_DEADLOCK FALSE
