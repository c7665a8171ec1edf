SPECIFICATION Spec
CONSTANTS
  root = root
  ann = ann
  b1 = b1
  b2 = b2
  s1 = s1
  s2 = s2
  s3 = s3
  Users <- MCUsers
  Browsers <- MCBrowsers
  Sessions <- MCSessions
  FirstAdmins = {root}
  FirstUser <- MCFirstUser
  FirstSession <- MCFirstSession
  None = None
  MaxActs = 6
INVARIANTS
  AdminRemains
  LogTellsAll
  PushGoesToUser
PROPERTY
  RevokedStaysRevoked
CHECK_DEADLOCK FALSE
