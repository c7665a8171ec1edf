---------------------------- MODULE MCRoomFeed ----------------------------
(* An instance of RoomFeed: one message of an author with two connections. *)
EXTENDS RoomFeed

CONSTANTS m1, phone, desktop

MessagesOne == {m1}
WritersTwo  == {phone, desktop}
===========================================================================
