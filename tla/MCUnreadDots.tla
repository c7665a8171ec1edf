---------------------------- MODULE MCUnreadDots ----------------------------
EXTENDS UnreadDots, TLC

CONSTANTS A, B

MCRooms == {A, B}
\* Three acts of the user, lists and mishaps in all about two messages, or four
\* about one.
Calm == acts + lists + drops <= IF Cardinality(Total) > 1 THEN 3 ELSE 4
Symmetry == Permutations(MCRooms)
=============================================================================
