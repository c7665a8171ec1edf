--------------------------- MODULE MCMessageStore ---------------------------
(* An instance of MessageStore: two connections of the author of two      *)
(* messages, one of them with an attachment.                               *)
EXTENDS MessageStore, TLC

CONSTANTS ann, phone, desktop, m1, m2

ConnsTwo    == {phone, desktop}
UserAnn     == [c \in ConnsTwo |-> ann]
MessagesTwo == {m1, m2}
AuthorAnn   == [m \in MessagesTwo |-> ann]
AttachedOne == {m1}
Devices     == Permutations(ConnsTwo)
=============================================================================
