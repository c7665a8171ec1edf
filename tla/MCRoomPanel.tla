---------------------------- MODULE MCRoomPanel ----------------------------
EXTENDS RoomPanel, TLC

CONSTANTS A, B, h1, h2

MCRooms == {A, B}
MCHooks == {h1, h2}
MCHome == h1 :> A @@ h2 :> A
MCSort == h1 :> "event" @@ h2 :> "event"
MCUnmade == {h2}
MCFirstRoles == {A :> "admin" @@ B :> "owner", A :> "admin" @@ B :> "unborn"}

\* Four acts of the user, or three of them and one of the others or a break.
Calm == made + others + breaks <= MaxActs
=============================================================================
