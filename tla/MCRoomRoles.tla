---------------------------- MODULE MCRoomRoles ----------------------------
(* An instance of RoomRoles: the creator, an account that is a site admin  *)
(* too, a third one, and two requests at a time.                           *)
EXTENDS RoomRoles, TLC

CONSTANTS ann, bob, cal, r1, r2

UsersThree  == {ann, bob, cal}
AdminBob    == {bob}
RequestsTwo == {r1, r2}
Overlap     == Permutations(RequestsTwo)

\* Once a transfer has begun nothing is claimed of what follows a race, and a
\* private room, which only refuses joins, has no behaviour an open one lacks.
Bounded == transfers = "none" \/ (~raced /\ privacy = "open")
===========================================================================
