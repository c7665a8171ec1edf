---------------------------- MODULE MCAccounts ----------------------------
EXTENDS Accounts, TLC

CONSTANTS root, ann, b1, b2, s1, s2, s3

MCUsers == {root, ann}
MCBrowsers == {b1, b2}
MCSessions == {s1, s2, s3}
MCFirstUser == b1 :> root @@ b2 :> ann
MCFirstSession == b1 :> s1 @@ b2 :> s2
=============================================================================
