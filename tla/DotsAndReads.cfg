SPECIFICATION DotsSpec
CONSTANTS
  A = A
  B = B
  Rooms <- MCRooms
  NoRoom = NoRoom
  MaxPosts = 2
  MaxActs = 4
  MaxLists = 1
  MaxDrops = 1
SYMMETRY
  Symmetry
CONSTRAINT
  Calm
INVARIANTS
  DotsAgree
  OnScreenIsRead
CHECK_DEADLOCK FALSE
