---------------------------- MODULE MCPresence ----------------------------
(* Instances of Presence: two tabs of one user, each on a worker of its    *)
(* own.                                                                    *)
EXTENDS Presence, TLC

CONSTANTS ann, c1, c2, w1, w2

UsersOne   == {ann}
ConnsTwo   == {c1, c2}
WorkersTwo == {w1, w2}
OwnerOne   == (c1 :> ann) @@ (c2 :> ann)
HostTwo    == (c1 :> w1) @@ (c2 :> w2)
===========================================================================
