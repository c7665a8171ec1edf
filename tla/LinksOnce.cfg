SPECIFICATION Spec
CONSTANTS
  e1 = e1
  e2 = e2
  n1 = n1
  n2 = n2
  None = None
  Invites = {i1, i2}
  Invited = {i1}
  Guest = e2
  Resets = {x1}
  Emails = {e1, e2}
  Names = {n1, n2}
  Pages = {p1, p2}
  First <- FirstAccount
  MaxActs = 4
  MaxBreaks = 1
SYMMETRY Symmetry
CONSTRAINT Apart
INVARIANTS InvitesSettle LastLinkOnly PendingListed
CHECK_DEADLOCK FALSE
