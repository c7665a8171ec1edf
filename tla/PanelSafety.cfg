SPECIFICATION Spec
CONSTANTS
  A = A
  B = B
  h1 = h1
  h2 = h2
  Rooms <- MCRooms
  Hooks <- MCHooks
  Home <- MCHome
  Sort <- MCSort
  Unmade <- MCUnmade
  FirstRoles <- MCFirstRoles
  NoRoom = NoRoom
  None = None
  MaxActs = 4
  MaxOthers = 1
  MaxBreaks = 1
CONSTRAINT
  Calm
INVARIANTS
  NamesStayHome
  PanelShowsRoom
PROPERTIES
  DraftSurvivesList
CHECK_DEADLOCK FALSE
