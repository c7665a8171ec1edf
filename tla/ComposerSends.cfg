SPECIFICATION ComposerSpec
CONSTANTS
  A = A
  B = B
  photo = photo
  doc = doc
  t1 = t1
  Rooms <- MCRooms
  Files <- MCFiles
  Images <- MCImages
  Texts <- MCTexts
  NoRoom = NoRoom
  None = None
  MaxDeaths = 1
  MaxOpens = 3
INVARIANTS
  AttachmentsStayHome
  NothingSentTwice
PROPERTIES
  SpinnerStops
  ImplementsOutbox
CHECK_DEADLOCK FALSE
