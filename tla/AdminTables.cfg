SPECIFICATION AdminSpec
CONSTANTS
  Rooms = {r1, r2}
  Bots = {b1, b2}
  Tokens = {t1, t2}
  None = None
  Typed = {"low", "high"}
  Page = 2
  FirstLog = 3
  MaxActs = 4
  MaxOthers = 1
  MaxBreaks = 1
CONSTRAINT Apart
SYMMETRY Symmetry
INVARIANTS AuditComplete TokenUnderItsBot OwnChangesShown
CHECK_DEADLOCK FALSE
