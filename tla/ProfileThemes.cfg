SPECIFICATION ProfileSpec
CONSTANTS
  t1 = t1
  Themes <- MCThemes
  FirstThemes <- MCThemes
  None = None
  MaxActs = 3
  MaxBreaks = 1
INVARIANTS
  ScreenIsUsers
  UserIsServers
  ChoicesStick
CHECK_DEADLOCK FALSE
