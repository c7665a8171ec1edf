------------------------- MODULE OneTimeLinksProofs -------------------------
(***************************************************************************)
(* Proofs about the module OneTimeLinks, for any invites, resets, pages    *)
(* and addresses, and any number of clicks, requests and breaks.           *)
(***************************************************************************)
EXTENDS OneTimeLinks, TLAPS

Links == [of : Invites \cup Resets, turn : Nat]

\* A link that was mailed is the link of an invite or a reset.
LEMMA MailedType == TypeOK => Mailed \subseteq Links
<1> SUFFICES ASSUME TypeOK, NEW l \in Mailed PROVE l \in Links
  OBVIOUS
<1>1. CASE \E i \in Invites : l \in {Link(i, n) : n \in 1 .. invite[i].turn}
  <2>1. PICK i \in Invites : l \in {Link(i, n) : n \in 1 .. invite[i].turn} BY <1>1
  <2>2. PICK n \in 1 .. invite[i].turn : l = Link(i, n) BY <2>1
  <2>3. invite[i].turn \in Nat BY DEF TypeOK
  <2>4. n \in Nat BY <2>2, <2>3
  <2> QED BY <2>2, <2>4 DEF Link, Links
<1>2. CASE l \in {Link(r, 1) : r \in {s \in Resets : reset[s].email # None}}
  BY <1>2 DEF Link, Links
<1>3. CASE l \in UNION {{Link(i, n) : n \in 1 .. invite[i].turn} : i \in Invites}
  BY <1>1, <1>3
<1> DEFINE A == UNION {{Link(i, n) : n \in 1 .. invite[i].turn} : i \in Invites}
           B == {Link(r, 1) : r \in {s \in Resets : reset[s].email # None}}
<1>4. Mailed = A \cup B BY DEF Mailed
<1>5. l \in A \/ l \in B
  <2> HIDE DEF A, B
  <2> QED BY <1>4
<1> QED BY <1>2, <1>3, <1>5

\* A request keeps its type from stage to stage, and so does a call.
LEMMA MovedType ==
  ASSUME TypeOK, NEW q \in reqs, NEW s \in {"sent", "loaded", "registered", "ok", "failed"},
         Moved(q, s)
  PROVE reqs' \subseteq Requests
BY DEF TypeOK, Moved, Requests

\* A call that is served or broken keeps its type if its answer is of its kind.
LEMMA ServedType ==
  ASSUME TypeOK, NEW c \in calls, NEW s, NEW got \in SUBSET Invites,
         \/ s \in {"ok", "failed"} /\ (c.kind = "list" \/ got = {})
         \/ s = "loaded" /\ c.kind \in {"revoke", "resend"} /\ got = {},
         Served(c, s, got)
  PROVE calls' \subseteq Calls
<1>1. c \in Calls BY DEF TypeOK
<1> DEFINE d == [c EXCEPT !.stage = s, !.got = got]
<1>2. d \in Calls BY <1>1 DEF Calls
<1>3. calls' \subseteq calls \cup {d} BY DEF Served
<1> HIDE DEF d
<1> QED BY <1>2, <1>3 DEF TypeOK

\* A call that is sent joins calls of their type.
LEMMA SendType ==
  ASSUME TypeOK, NEW c \in Calls, NEW own, Send(c, own)
  PROVE calls' \subseteq Calls /\ tangled' \in BOOLEAN
<1>1. ("list" \in {d.kind : d \in own \cup {c}}) \in BOOLEAN /\ (c.kind # "list") \in BOOLEAN
  OBVIOUS
<1>2. tangled \in BOOLEAN /\ calls \subseteq Calls BY DEF TypeOK
<1>3. tangled' \in BOOLEAN
  <2>1. CASE own = {} BY <1>1, <1>2, <2>1 DEF Send
  <2>2. CASE own # {} BY <1>1, <1>2, <2>2 DEF Send
  <2> QED BY <2>1, <2>2
<1> QED BY <1>2, <1>3 DEF Send

\* A call the page has lost keeps its type.
LEMMA LostType ==
  ASSUME TypeOK, NEW c \in Own,
         \E rest \in {{}, {[c EXCEPT !.mine = FALSE]}} : calls' = (calls \ {c}) \cup rest
  PROVE calls' \subseteq Calls
<1> DEFINE d == [c EXCEPT !.mine = FALSE]
<1>1. c \in Calls /\ calls \subseteq Calls BY DEF TypeOK, Own
<1>2. d \in Calls BY <1>1 DEF Calls
<1>3. calls' \subseteq calls \cup {d} OBVIOUS
<1> HIDE DEF d
<1> QED BY <1>1, <1>2, <1>3

\* An invite keeps its type whatever its status.
LEMMA InviteType ==
  ASSUME TypeOK, NEW i, NEW s \in {"none", "pending", "accepted", "revoked"},
         invite' = [invite EXCEPT ![i].status = s]
  PROVE invite' \in [Invites -> [email : Emails \cup {None}, turn : Nat,
                                status : {"none", "pending", "accepted", "revoked"}]]
<1>1. CASE i \in Invites
  <2>1. [invite[i] EXCEPT !.status = s] \in
          [email : Emails \cup {None}, turn : Nat,
           status : {"none", "pending", "accepted", "revoked"}]
    BY <1>1 DEF TypeOK
  <2> QED BY <1>1, <2>1 DEF TypeOK
<1>2. CASE i \notin Invites
  BY <1>2 DEF TypeOK
<1> QED BY <1>1, <1>2

\* A page with a form keeps its link.
LEMMA PageType ==
  ASSUME TypeOK, NEW p \in Pages, page[p].at \in {"form", "submitting", "in"},
         NEW at \in {"form", "submitting", "in"}, NEW no \in Nat,
         page' = [page EXCEPT ![p].at = at, ![p].no = no]
  PROVE page' \in [Pages -> [at : {"closed", "invalid"}, no : {0}, link : Links \cup {None}]
                            \cup [at : {"form", "submitting", "in"}, no : Nat, link : Links]]
<1> DEFINE form == [page[p] EXCEPT !.at = at, !.no = no]
<1>1. page[p] \in [at : {"form", "submitting", "in"}, no : Nat, link : Links]
  BY DEF TypeOK, Links
<1>2. form \in [at : {"form", "submitting", "in"}, no : Nat, link : Links]
  BY <1>1
<1>3. page' = [page EXCEPT ![p] = form] BY DEF TypeOK
<1> HIDE DEF form
<1> QED BY <1>2, <1>3 DEF TypeOK, Links

\* Every step keeps the types.
LEMMA TypeStep == TypeOK /\ [Next]_vars => TypeOK'
<1> SUFFICES ASSUME TypeOK, [Next]_vars PROVE TypeOK'
  OBVIOUS
<1> USE OneTimeLinksAssumption DEF server, admin, history, Act
<1>1. ASSUME NEW p \in Pages, NEW l \in Mailed, OpenLink(p, l) PROVE TypeOK'
  <2>1. l \in Links BY MailedType
  <2> QED BY <1>1, <2>1 DEF OpenLink, TypeOK, Links
<1>2. ASSUME NEW p \in Pages, NEW n \in Names, Submit(p, n) PROVE TypeOK'
  <2>1. page[p].link \in Links /\ made' \in Nat BY <1>2 DEF Submit, TypeOK, Links
  <2>2. reqs' \subseteq Requests BY <1>2, <2>1 DEF Submit, TypeOK, Requests, Links
  <2>3. page' \in [Pages -> [at : {"closed", "invalid"}, no : {0}, link : Links \cup {None}]
                            \cup [at : {"form", "submitting", "in"}, no : Nat, link : Links]]
    BY <1>2, <2>1, PageType DEF Submit
  <2> QED BY <1>2, <2>1, <2>2, <2>3 DEF Submit, TypeOK, Links
<1>3. ASSUME NEW q \in reqs, Load(q) PROVE TypeOK'
  <2>1. reqs' \subseteq Requests BY <1>3, MovedType DEF Load
  <2>2. crossed' \subseteq Invites \cup Resets
    BY <1>3 DEF Load, Cross, TypeOK, Requests
  <2> QED BY <1>3, <2>1, <2>2 DEF Load, TypeOK
<1>4. ASSUME NEW q \in reqs, Register(q) PROVE TypeOK'
  <2>1. reqs' \subseteq Requests BY <1>4, MovedType DEF Register
  <2>2. q \in Requests /\ q.link.of \in Invites BY <1>4 DEF Register, TypeOK
  <2>3. [name |-> q.name, email |-> invite[q.link.of].email, by |-> q.link.of,
         turn |-> q.link.turn] \in [name : Names, email : Emails \cup {None},
                                    by : Invites \cup {None}, turn : Nat]
    BY <2>2 DEF TypeOK, Requests
  <2> QED BY <1>4, <2>1, <2>3 DEF Register, TypeOK
<1>5. ASSUME NEW q \in reqs, Accept(q) PROVE TypeOK'
  <2>1. reqs' \subseteq Requests BY <1>5, MovedType DEF Accept
  <2>2. invite' \in [Invites -> [email : Emails \cup {None}, turn : Nat,
                                status : {"none", "pending", "accepted", "revoked"}]]
    BY <1>5, InviteType DEF Accept
  <2> QED BY <1>5, <2>1, <2>2 DEF Accept, TypeOK
<1>6. ASSUME NEW q \in reqs, Complete(q) PROVE TypeOK'
  <2>1. reqs' \subseteq Requests BY <1>6, MovedType DEF Complete
  <2>2. reset' \in [Resets -> [email : Emails \cup {None}, used : BOOLEAN]]
    <3>1. q.link.of \in Resets BY <1>6 DEF Complete
    <3>a. reset[q.link.of] \in [email : Emails \cup {None}, used : BOOLEAN]
      BY <3>1 DEF TypeOK
    <3>2. [reset[q.link.of] EXCEPT !.used = TRUE] \in [email : Emails \cup {None}, used : BOOLEAN]
      BY <3>a
    <3>3. reset' = [reset EXCEPT ![q.link.of] = [reset[q.link.of] EXCEPT !.used = TRUE]]
      BY <1>6 DEF Complete
    <3> QED BY <3>1, <3>2, <3>3 DEF TypeOK
  <2>3. uses' \in [Resets -> Nat] BY <1>6 DEF Complete, TypeOK
  <2> QED BY <1>6, <2>1, <2>2, <2>3 DEF Complete, TypeOK
<1>7. ASSUME NEW q \in reqs, Stop(q) PROVE TypeOK'
  <2>1. reqs' \subseteq Requests BY <1>7, MovedType DEF Stop
  <2>2. q.link.of \in Invites \cup Resets BY DEF TypeOK, Requests
  <2> QED BY <1>7, <2>1, <2>2 DEF Stop, TypeOK
<1>8. ASSUME NEW p \in Pages, Lose(p) PROVE TypeOK'
  <2>1. page' \in [Pages -> [at : {"closed", "invalid"}, no : {0}, link : Links \cup {None}]
                            \cup [at : {"form", "submitting", "in"}, no : Nat, link : Links]]
    BY <1>8, PageType DEF Lose
  <2> QED BY <1>8, <2>1 DEF Lose, TypeOK, Links
<1>9. ASSUME NEW q \in reqs, Answer(q) PROVE TypeOK'
  <2>1. CASE page[q.page].no # q.no
    BY <1>9, <2>1 DEF Answer, TypeOK
  <2>2. CASE page[q.page].no = q.no
    <3>1. q.page \in Pages /\ q.no # 0 BY DEF TypeOK, Requests
    <3>2. page[q.page].at \in {"form", "submitting", "in"} BY <2>2, <3>1 DEF TypeOK
    <3>3. page' \in [Pages -> [at : {"closed", "invalid"}, no : {0}, link : Links \cup {None}]
                              \cup [at : {"form", "submitting", "in"}, no : Nat, link : Links]]
      BY <1>9, <2>2, <3>1, <3>2, PageType DEF Answer
    <3> QED BY <1>9, <3>3 DEF Answer, TypeOK, Links
  <2> QED BY <2>1, <2>2
<1>10. ASSUME NEW r \in Resets, NEW e \in Emails, AskReset(r, e) PROVE TypeOK'
  BY <1>10 DEF AskReset, TypeOK
<1>11. ASSUME NEW x \in Invites \cup Resets, Expire(x) PROVE TypeOK'
  BY <1>11 DEF Expire, TypeOK
<1>12. ASSUME NEW e \in Emails, Invite(e) PROVE TypeOK'
  <2>1. Ask("invite", e, made', TRUE) \in Calls BY <1>12 DEF Invite, Ask, Calls, TypeOK
  <2>2. calls' \subseteq Calls /\ tangled' \in BOOLEAN
    BY <1>12, <2>1, SendType DEF Invite
  <2> QED BY <1>12, <2>2 DEF Invite, TypeOK
<1>13. ASSUME NEW i \in Invites, NEW k \in {"revoke", "resend"}, Change(k, i) PROVE TypeOK'
  <2>1. Ask(k, i, made', TRUE) \in Calls BY <1>13 DEF Change, Ask, Calls, TypeOK
  <2>2. calls' \subseteq Calls /\ tangled' \in BOOLEAN
    BY <1>13, <2>1, SendType DEF Change
  <2> QED BY <1>13, <2>2 DEF Change, TypeOK
<1>14. ASSUME NEW c \in calls, ServeInvite(c) PROVE TypeOK'
  <2>1. calls' \subseteq Calls BY <1>14, ServedType DEF ServeInvite
  <2>2. c.on \in Emails \cup {None} BY <1>14 DEF ServeInvite, TypeOK, Calls
  <2>3. PICK i \in Invites :
          /\ invite' = [invite EXCEPT ![i] = [email |-> c.on, status |-> "pending", turn |-> 1]]
          /\ Note(c, i)
    BY <1>14 DEF ServeInvite
  <2>4. foreign' \subseteq Invites BY <2>3 DEF Note, TypeOK
  <2> QED BY <1>14, <2>1, <2>2, <2>3, <2>4 DEF ServeInvite, TypeOK
<1>15. ASSUME NEW c \in calls, ServeList(c) PROVE TypeOK'
  <2>1. Pending \in SUBSET Invites BY DEF Pending
  <2>2. calls' \subseteq Calls BY <1>15, <2>1, ServedType DEF ServeList
  <2> QED BY <1>15, <2>2 DEF ServeList, TypeOK
<1>16. ASSUME NEW c \in calls, LoadInvite(c) PROVE TypeOK'
  <2>1. calls' \subseteq Calls BY <1>16, ServedType DEF LoadInvite
  <2>2. crossed' \subseteq Invites \cup Resets
    BY <1>16 DEF LoadInvite, Cross, TypeOK, Calls
  <2> QED BY <1>16, <2>1, <2>2 DEF LoadInvite, TypeOK
<1>17. ASSUME NEW c \in calls, CommitInvite(c) PROVE TypeOK'
  <2>1. calls' \subseteq Calls BY <1>17, ServedType DEF CommitInvite, TypeOK, Calls
  <2>2. c.on \in Invites BY <1>17 DEF CommitInvite, TypeOK, Calls
  <2>3. foreign' \subseteq Invites /\ expired' \subseteq Invites \cup Resets
    BY <1>17, <2>2 DEF CommitInvite, Note, TypeOK
  <2> QED BY <1>17, <2>1, <2>2, <2>3 DEF CommitInvite, TypeOK
<1>18. ASSUME NEW c \in Own, LoseCall(c) PROVE TypeOK'
  <2>1. calls' \subseteq Calls BY <1>18, LostType DEF LoseCall
  <2>2. busy' \in Invites \cup {None} BY <1>18 DEF LoseCall, Free, TypeOK
  <2> QED BY <1>18, <2>1, <2>2 DEF LoseCall, TypeOK
<1>19. ASSUME NEW c \in Own, Answered(c) PROVE TypeOK'
  <2>1. c \in Calls /\ calls \subseteq Calls BY DEF TypeOK, Own
  <2>2. shown' \subseteq Invites BY <1>19, <2>1 DEF Answered, TypeOK, Calls
  <2>3. Ask("list", None, c.no, TRUE) \in Calls BY <2>1 DEF Ask, Calls
  <2>4. calls' \subseteq Calls /\ tangled' \in BOOLEAN
    <3>1. CASE c.kind = "invite" /\ c.stage = "ok"
      BY <1>19, <2>3, <3>1, SendType DEF Answered
    <3>2. CASE ~(c.kind = "invite" /\ c.stage = "ok")
      BY <1>19, <2>1, <3>2 DEF Answered, TypeOK
    <3> QED BY <3>1, <3>2
  <2>5. busy' \in Invites \cup {None} BY <1>19 DEF Answered, Free, TypeOK
  <2> QED BY <1>19, <2>2, <2>4, <2>5 DEF Answered, TypeOK
<1>20. CASE UNCHANGED vars
  BY <1>20 DEF vars, TypeOK
<1>21. ASSUME OpenUsers PROVE TypeOK'
  <2>1. Ask("list", None, made', TRUE) \in Calls BY <1>21 DEF OpenUsers, Ask, Calls, TypeOK
  <2>2. calls' \subseteq Calls /\ tangled' \in BOOLEAN
    BY <1>21, <2>1, SendType DEF OpenUsers
  <2> QED BY <1>21, <2>2 DEF OpenUsers, TypeOK
<1>22. ASSUME OtherRow PROVE TypeOK'
  BY <1>22 DEF OtherRow, TypeOK
<1>23. ASSUME NEW k, NEW x,
              (k = "invite" /\ x \in Emails) \/ (k \in {"revoke", "resend"} /\ x \in Invites),
              Elsewhere(k, x)
       PROVE TypeOK'
  <2>1. Ask(k, x, made', FALSE) \in Calls BY <1>23 DEF Elsewhere, Ask, Calls, TypeOK
  <2>2. calls' \subseteq Calls BY <1>23, <2>1 DEF Elsewhere, TypeOK
  <2>3. Act /\ UNCHANGED <<server, page, reqs, shown, busy, tangled, foreign, history>>
    BY <1>23 DEF Elsewhere
  <2> QED BY <2>2, <2>3 DEF TypeOK
<1> QED BY <1>1, <1>2, <1>3, <1>4, <1>5, <1>6, <1>7, <1>8, <1>9, <1>10, <1>11, <1>12, <1>13,
           <1>14, <1>15, <1>16, <1>17, <1>18, <1>19, <1>20, <1>21, <1>22, <1>23
        DEF Next, LoseCall, Answered

\* The first state has the types.
LEMMA TypeInit == Init => TypeOK
<1> SUFFICES ASSUME Init PROVE TypeOK
  OBVIOUS
<1> USE OneTimeLinksAssumption
<1>1. invite \in [Invites -> [email : Emails \cup {None}, turn : Nat,
                            status : {"none", "pending", "accepted", "revoked"}]]
  BY DEF Init
<1>2. account \subseteq [name : Names, email : Emails \cup {None}, by : Invites \cup {None},
                        turn : Nat]
  BY DEF Init
<1>3. reset \in [Resets -> [email : Emails \cup {None}, used : BOOLEAN]] BY DEF Init
<1>4. page \in [Pages -> [at : {"closed", "invalid"}, no : {0},
                         link : [of : Invites \cup Resets, turn : Nat] \cup {None}]
                        \cup [at : {"form", "submitting", "in"}, no : Nat,
                              link : [of : Invites \cup Resets, turn : Nat]]]
  BY DEF Init
<1>5. calls \subseteq Calls BY DEF Init, Calls
<1>6. uses \in [Resets -> Nat] BY DEF Init
<1>7. /\ expired \subseteq Invites \cup Resets /\ reqs \subseteq Requests
      /\ shown \cup foreign \subseteq Invites /\ tangled \in BOOLEAN
      /\ busy \in Invites \cup {None}
      /\ crossed \cup cut \subseteq Invites \cup Resets
  BY DEF Init
<1>8. {made, breaks} \subseteq Nat
  <2>1. made = 0 /\ breaks = 0 BY DEF Init
  <2> QED BY <2>1
<1> QED BY <1>1, <1>2, <1>3, <1>4, <1>5, <1>6, <1>7, <1>8 DEF TypeOK

\* Invites, accounts, resets, pages and calls are well typed at all times.
THEOREM LinkTypes == Spec => []TypeOK
BY TypeInit, TypeStep, PTL DEF Spec

(***************************************************************************)
(* Who is changing an invite or a reset                                    *)
(***************************************************************************)

Signing(x) == {q \in reqs : q.link.of = x /\ q.stage \in {"loaded", "registered"}}
Editing(x) == {c \in calls : c.on = x /\ c.stage = "loaded"}
Made(i) == {a \in account : a.by = i}

\* Nothing is changing what is not said to be changing.
LEMMA Unchanging == \A x : ~Changing(x) => Signing(x) = {} /\ Editing(x) = {}
BY DEF Changing, Signing, Editing

\* A request that goes to another stage.
LEMMA SigningStep ==
  ASSUME TypeOK, NEW q \in reqs, NEW s \in {"sent", "loaded", "registered", "ok", "failed"},
         Moved(q, s), NEW x
  PROVE /\ q.link.of # x => Signing(x)' = Signing(x)
        /\ q.link.of = x /\ s \in {"sent", "ok", "failed"} => Signing(x)' = Signing(x) \ {q}
        /\ q.link.of = x /\ s \in {"loaded", "registered"} =>
              Signing(x)' = (Signing(x) \ {q}) \cup {[q EXCEPT !.stage = s]}
<1>1. q \in Requests BY DEF TypeOK
<1>2. [q EXCEPT !.stage = s].link = q.link /\ [q EXCEPT !.stage = s].stage = s
  BY <1>1 DEF Requests
<1>3. reqs' = (reqs \ {q}) \cup {[q EXCEPT !.stage = s]} BY DEF Moved
<1> QED BY <1>2, <1>3 DEF Signing

\* A call that goes to another stage.
LEMMA EditingStep ==
  ASSUME TypeOK, NEW c \in calls, NEW s \in {"loaded", "ok", "failed"},
         NEW got \in SUBSET Invites, Served(c, s, got), NEW x
  PROVE /\ c.on # x \/ (s # "loaded" /\ c.stage # "loaded") => Editing(x)' = Editing(x)
        /\ c.on = x /\ s # "loaded" => Editing(x)' = Editing(x) \ {c}
        /\ c.on = x /\ s = "loaded" =>
              Editing(x)' = (Editing(x) \ {c}) \cup {[c EXCEPT !.stage = s, !.got = got]}
<1>1. c \in Calls BY DEF TypeOK
<1> DEFINE d == [c EXCEPT !.stage = s, !.got = got]
<1>2. d.on = c.on /\ d.stage = s
  BY <1>1 DEF Calls
<1>3. /\ calls' \subseteq (calls \ {c}) \cup {d} /\ calls \ {c} \subseteq calls'
      /\ s = "loaded" => d \in calls'
  BY DEF Served
<1> HIDE DEF d
<1>4. \A e : e \in calls' <=> e \in calls \ {c} \/ (e = d /\ d \in calls') BY <1>3
<1>5. c.on # x \/ (s # "loaded" /\ c.stage # "loaded") => Editing(x)' = Editing(x)
  BY <1>2, <1>4 DEF Editing
<1>6. c.on = x /\ s # "loaded" => Editing(x)' = Editing(x) \ {c}
  BY <1>2, <1>4 DEF Editing
<1>7. c.on = x /\ s = "loaded" => Editing(x)' = (Editing(x) \ {c}) \cup {d}
  BY <1>2, <1>3, <1>4 DEF Editing
<1> QED BY <1>5, <1>6, <1>7 DEF d

(***************************************************************************)
(* Invites                                                                 *)
(***************************************************************************)

\* At most one request is about to change an invite; while a sign-up is, it is
\* pending and has made an account exactly if it has registered one; while a
\* revocation or a resend is, it is pending and has made none.
InviteFor(i) ==
  /\ \A q \in Signing(i) :
       /\ invite[i].status = "pending" /\ q.link.turn = invite[i].turn
       /\ Signing(i) = {q} /\ Editing(i) = {}
       /\ q.stage = "loaded" <=> Made(i) = {}
  /\ \A c \in Editing(i) : invite[i].status = "pending" /\ Editing(i) = {c} /\ Made(i) = {}
  /\ \A a \in Made(i) : a.turn = invite[i].turn
  /\ Signing(i) = {} => (invite[i].status = "accepted" <=> Made(i) # {})

\* A step that touches neither the invite nor what changes it.
LEMMA InviteUntouched ==
  ASSUME NEW i, InviteFor(i), invite'[i] = invite[i],
         Signing(i)' = Signing(i), Editing(i)' = Editing(i), Made(i)' = Made(i)
  PROVE InviteFor(i)'
BY DEF InviteFor

\* Every step keeps that of an invite that is neither crossed nor cut.
LEMMA InviteStep ==
  ASSUME TypeOK, [Next]_vars, NEW i \in Invites, i \notin crossed' \cup cut',
         i \notin crossed \cup cut => InviteFor(i)
  PROVE InviteFor(i)'
<1> USE OneTimeLinksAssumption
<1>0. ASSUME i \notin crossed \cup cut PROVE InviteFor(i)
  BY <1>0
<1>1. ASSUME UNCHANGED <<invite, account, reqs, calls>>, UNCHANGED <<crossed, cut>>
      PROVE InviteFor(i)'
  <2>1. /\ Signing(i)' = Signing(i) /\ Editing(i)' = Editing(i) /\ Made(i)' = Made(i)
        /\ invite'[i] = invite[i]
    BY <1>1 DEF Signing, Editing, Made
  <2> QED BY <1>1, <2>1, InviteUntouched
<1>2. ASSUME NEW p \in Pages, NEW n \in Names, Submit(p, n) PROVE InviteFor(i)'
  <2>1. Signing(i)' = Signing(i) BY <1>2 DEF Submit, Signing
  <2>2. Editing(i)' = Editing(i) /\ Made(i)' = Made(i) /\ invite'[i] = invite[i]
        /\ i \notin crossed \cup cut
    BY <1>2 DEF Submit, server, admin, history, Editing, Made
  <2> QED BY <2>1, <2>2, InviteUntouched
<1>3. ASSUME NEW q \in reqs, Load(q) PROVE InviteFor(i)'
  <2>1. /\ Editing(i)' = Editing(i) /\ Made(i)' = Made(i) /\ invite' = invite
        /\ i \notin crossed \cup cut
    BY <1>3 DEF Load, Cross, server, admin, Editing, Made
  <2>2. CASE q.link.of = i /\ Valid(q.link)
    <3> DEFINE p == [q EXCEPT !.stage = "loaded"]
    <3>1. ~Changing(i) BY <1>3, <2>2 DEF Load, Cross
    <3>2. Signing(i) = {} /\ Editing(i) = {} BY <3>1, Unchanging
    <3>3. Signing(i)' = {p}
      <4>1. Moved(q, "loaded") BY <1>3, <2>2 DEF Load
      <4> QED BY <2>2, <3>2, <4>1, SigningStep
    <3>4. p.stage = "loaded" /\ p.link = q.link BY DEF TypeOK, Requests
    <3>5. invite[i].status = "pending" /\ q.link.turn = invite[i].turn
      BY <2>2 DEF Valid
    <3>6. Made(i) = {} BY <2>1, <3>2, <3>5 DEF InviteFor
    <3> HIDE DEF p
    <3> QED BY <2>1, <3>2, <3>3, <3>4, <3>5, <3>6 DEF InviteFor
  <2>3. CASE q.link.of # i \/ ~Valid(q.link)
    <3>1. Signing(i)' = Signing(i)
      <4>1. CASE Valid(q.link)
        BY <1>3, <2>3, <4>1, SigningStep DEF Load
      <4>2. CASE ~Valid(q.link)
        <5>1. Moved(q, "failed") /\ q \notin Signing(i) BY <1>3, <4>2 DEF Load, Signing
        <5> QED BY <5>1, SigningStep
      <4> QED BY <4>1, <4>2
    <3> QED BY <2>1, <3>1, InviteUntouched
  <2> QED BY <2>2, <2>3
<1>4. ASSUME NEW q \in reqs, Register(q) PROVE InviteFor(i)'
  <2>1. /\ Editing(i)' = Editing(i) /\ invite' = invite /\ i \notin crossed \cup cut
    BY <1>4 DEF Register, admin, history, Editing
  <2>2. PICK e : \/ Moved(q, "failed") /\ UNCHANGED account
                 \/ /\ Moved(q, "registered")
                    /\ account' = account \cup {[name |-> q.name, email |-> e,
                                                 by |-> q.link.of, turn |-> q.link.turn]}
    BY <1>4 DEF Register
  <2>3. CASE q.link.of # i
    <3>1. Signing(i)' = Signing(i) /\ Made(i)' = Made(i)
      BY <2>2, <2>3, SigningStep DEF Made
    <3> QED BY <2>1, <3>1, InviteUntouched
  <2>4. CASE q.link.of = i
    <3>1. q \in Signing(i) /\ q.stage = "loaded" BY <1>4, <2>4 DEF Register, Signing
    <3>2. /\ invite[i].status = "pending" /\ q.link.turn = invite[i].turn
          /\ Signing(i) = {q} /\ Editing(i) = {} /\ Made(i) = {}
      BY <2>1, <3>1 DEF InviteFor
    <3>3. CASE Moved(q, "failed") /\ UNCHANGED account
      <4>1. Signing(i)' = {} /\ Made(i)' = {} BY <2>4, <3>2, <3>3, SigningStep DEF Made
      <4> QED BY <2>1, <3>2, <4>1 DEF InviteFor
    <3>4. CASE /\ Moved(q, "registered")
               /\ account' = account \cup {[name |-> q.name, email |-> e,
                                            by |-> q.link.of, turn |-> q.link.turn]}
      <4> DEFINE p == [q EXCEPT !.stage = "registered"]
                 a == [name |-> q.name, email |-> e, by |-> q.link.of, turn |-> q.link.turn]
      <4>1. Signing(i)' = {p} BY <2>4, <3>2, <3>4, SigningStep
      <4>2. p.stage = "registered" /\ p.link = q.link BY DEF TypeOK, Requests
      <4>3. a.by = i /\ a.turn = q.link.turn BY <2>4
      <4>4. account' = account \cup {a} BY <3>4
      <4> HIDE DEF p, a
      <4>5. Made(i)' = {a} BY <3>2, <4>3, <4>4 DEF Made
      <4> QED BY <2>1, <3>2, <4>1, <4>2, <4>3, <4>5 DEF InviteFor
    <3> QED BY <2>2, <3>3, <3>4
  <2> QED BY <2>3, <2>4
<1>5. ASSUME NEW q \in reqs, Accept(q) PROVE InviteFor(i)'
  <2>1. /\ Editing(i)' = Editing(i) /\ Made(i)' = Made(i) /\ Moved(q, "ok")
        /\ invite' = [invite EXCEPT ![q.link.of].status = "accepted"]
        /\ i \notin crossed \cup cut
    BY <1>5 DEF Accept, admin, history, Editing, Made
  <2>2. CASE q.link.of # i
    <3>1. invite'[i] = invite[i] BY <2>1, <2>2 DEF TypeOK
    <3>2. Signing(i)' = Signing(i) BY <2>1, <2>2, SigningStep
    <3> QED BY <2>1, <3>1, <3>2, InviteUntouched
  <2>3. CASE q.link.of = i
    <3>1. q \in Signing(i) /\ q.stage = "registered" BY <1>5, <2>3 DEF Accept, Signing
    <3>2. Signing(i) = {q} /\ Editing(i) = {} /\ Made(i) # {}
      BY <2>1, <3>1 DEF InviteFor
    <3>3. Signing(i)' = {} BY <2>1, <2>3, <3>2, SigningStep
    <3>4. invite'[i].status = "accepted" /\ invite'[i].turn = invite[i].turn
      BY <2>1, <2>3 DEF TypeOK
    <3> QED BY <2>1, <3>2, <3>3, <3>4 DEF InviteFor
  <2> QED BY <2>2, <2>3
<1>6. ASSUME NEW q \in reqs, Complete(q) PROVE InviteFor(i)'
  <2>1. /\ Editing(i)' = Editing(i) /\ Made(i)' = Made(i) /\ Moved(q, "ok")
        /\ invite' = invite /\ q.link.of # i /\ i \notin crossed \cup cut
    BY <1>6 DEF Complete, admin, Editing, Made
  <2>2. Signing(i)' = Signing(i) BY <2>1, SigningStep
  <2> QED BY <2>1, <2>2, InviteUntouched
<1>7. ASSUME NEW q \in reqs, Stop(q) PROVE InviteFor(i)'
  <2>1. /\ Editing(i)' = Editing(i) /\ Made(i)' = Made(i) /\ Moved(q, "failed")
        /\ invite' = invite /\ i \notin crossed \cup cut
        /\ q.link.of = i => q.stage # "registered"
    BY <1>7 DEF Stop, server, admin, Editing, Made
  <2>2. CASE q \notin Signing(i)
    <3>1. Signing(i)' = Signing(i) BY <2>1, <2>2, SigningStep
    <3> QED BY <2>1, <3>1, InviteUntouched
  <2>3. CASE q \in Signing(i)
    <3>1. q.link.of = i /\ q.stage = "loaded" BY <2>1, <2>3 DEF Signing
    <3>2. /\ Signing(i) = {q} /\ Editing(i) = {} /\ Made(i) = {}
          /\ invite[i].status = "pending"
      BY <2>1, <2>3, <3>1 DEF InviteFor
    <3>3. Signing(i)' = {} BY <2>1, <3>1, <3>2, SigningStep
    <3> QED BY <2>1, <3>2, <3>3 DEF InviteFor
  <2> QED BY <2>2, <2>3
<1>8. ASSUME NEW q \in reqs, Answer(q) PROVE InviteFor(i)'
  <2>1. Signing(i)' = Signing(i) BY <1>8 DEF Answer, Signing
  <2>2. /\ Editing(i)' = Editing(i) /\ Made(i)' = Made(i) /\ invite' = invite
        /\ i \notin crossed \cup cut
    BY <1>8 DEF Answer, server, admin, history, Editing, Made
  <2> QED BY <2>1, <2>2, InviteUntouched
<1>9. ASSUME NEW c, c.stage = "sent", NEW own, Send(c, own),
             \A d \in Own \ own : d.stage # "loaded",
             UNCHANGED <<invite, account, reqs, crossed, cut>>
      PROVE InviteFor(i)'
  <2>1. Editing(i)' = Editing(i) BY <1>9 DEF Send, Editing, Own
  <2>2. /\ Signing(i)' = Signing(i) /\ Made(i)' = Made(i) /\ invite' = invite
        /\ i \notin crossed \cup cut
    BY <1>9 DEF Signing, Made
  <2> QED BY <2>1, <2>2, InviteUntouched
<1>10. ASSUME \/ OpenUsers \/ \E e \in Emails : Invite(e)
              \/ \E j \in Invites, k \in {"revoke", "resend"} : Change(k, j)
       PROVE InviteFor(i)'
  <2>1. \E c : c.stage = "sent" /\ Send(c, Own) BY <1>10 DEF OpenUsers, Invite, Change, Ask
  <2> QED BY <1>9, <1>10, <2>1 DEF OpenUsers, Invite, Change, server, history
<1>16. ASSUME NEW k, NEW x, Elsewhere(k, x) PROVE InviteFor(i)'
  <2>1. calls' = calls \cup {Ask(k, x, made', FALSE)} BY <1>16 DEF Elsewhere
  <2>2. Ask(k, x, made', FALSE).stage # "loaded" BY DEF Ask
  <2>3. Editing(i)' = Editing(i) BY <2>1, <2>2 DEF Editing
  <2>4. /\ Signing(i)' = Signing(i) /\ Made(i)' = Made(i) /\ invite' = invite
        /\ i \notin crossed \cup cut
    BY <1>16 DEF Elsewhere, server, history, Signing, Made
  <2> QED BY <2>3, <2>4, InviteUntouched
<1>11. ASSUME NEW c \in calls, ServeInvite(c) PROVE InviteFor(i)'
  <2>1. PICK j \in Invites :
          /\ invite[j].status = "none"
          /\ invite' = [invite EXCEPT ![j] = [email |-> c.on, status |-> "pending", turn |-> 1]]
    BY <1>11 DEF ServeInvite
  <2>2. /\ Signing(i)' = Signing(i) /\ Made(i)' = Made(i) /\ Editing(i)' = Editing(i)
        /\ i \notin crossed \cup cut
    BY <1>11, EditingStep DEF ServeInvite, history, Signing, Made
  <2>3. CASE j # i
    BY <2>1, <2>2, <2>3, InviteUntouched DEF TypeOK
  <2>4. CASE j = i
    <3>1. Signing(i) = {} /\ Editing(i) = {} /\ Made(i) = {}
      BY <2>1, <2>2, <2>4 DEF InviteFor
    <3>2. invite'[i].status = "pending" BY <2>1, <2>4 DEF TypeOK
    <3> QED BY <2>2, <3>1, <3>2 DEF InviteFor
  <2> QED BY <2>3, <2>4
<1>12. ASSUME NEW c \in calls, ServeList(c) PROVE InviteFor(i)'
  <2>1. /\ Signing(i)' = Signing(i) /\ Made(i)' = Made(i) /\ invite' = invite
        /\ i \notin crossed \cup cut
    BY <1>12 DEF ServeList, server, history, Signing, Made
  <2>2. Pending \in SUBSET Invites BY DEF Pending
  <2>3. Editing(i)' = Editing(i) BY <1>12, <2>2, EditingStep DEF ServeList
  <2> QED BY <2>1, <2>3, InviteUntouched
<1>17. ASSUME NEW c \in Own, LoseCall(c) PROVE InviteFor(i)'
  <2> DEFINE d == [c EXCEPT !.mine = FALSE]
  <2>1. /\ Signing(i)' = Signing(i) /\ Made(i)' = Made(i) /\ invite' = invite
        /\ i \notin crossed \cup cut
    BY <1>17 DEF LoseCall, server, history, Signing, Made
  <2>2. c \in Calls BY DEF TypeOK, Own
  <2>3. d.stage = c.stage /\ d.on = c.on BY <2>2 DEF Calls
  <2>4. calls' = (calls \ {c}) \cup {d} \/ calls' = calls \ {c}
    BY <1>17 DEF LoseCall
  <2> HIDE DEF d
  <2>5. Editing(i)' = Editing(i) \ {c} \/ Editing(i)' = (Editing(i) \ {c}) \cup {d}
        \/ Editing(i)' = Editing(i)
    BY <2>3, <2>4 DEF Editing
  <2>6. Editing(i) = {} => Editing(i)' = {}
    BY <2>3, <2>4 DEF Editing, Own
  <2>7. c \notin Editing(i) => Editing(i)' = Editing(i)
    BY <2>3, <2>4 DEF Editing, Own
  <2>8. InviteFor(i) BY <2>1, <1>0
  <2>9. CASE c \notin Editing(i) BY <2>1, <2>7, <2>8, <2>9, InviteUntouched
  <2>10. CASE c \in Editing(i)
    <3>1. invite[i].status = "pending" /\ Editing(i) = {c} /\ Made(i) = {}
      BY <2>8, <2>10 DEF InviteFor
    <3>2. Signing(i) = {} BY <2>8, <2>10 DEF InviteFor
    <3>3. Editing(i)' \in {{}, {d}, {c}} BY <2>5, <3>1
    <3> QED BY <2>1, <3>1, <3>2, <3>3 DEF InviteFor
  <2> QED BY <2>9, <2>10
<1>13. ASSUME NEW c \in calls, LoadInvite(c) PROVE InviteFor(i)'
  <2>1. /\ Signing(i)' = Signing(i) /\ Made(i)' = Made(i) /\ invite' = invite
        /\ i \notin crossed \cup cut
    BY <1>13 DEF LoadInvite, Cross, server, Signing, Made
  <2>2. CASE c.on = i /\ c.on \in Pending
    <3> DEFINE d == [c EXCEPT !.stage = "loaded", !.got = {}]
    <3>1. ~Changing(i) BY <1>13, <2>2 DEF LoadInvite, Cross
    <3>2. Signing(i) = {} /\ Editing(i) = {} BY <3>1, Unchanging
    <3>3. Editing(i)' = {d}
      <4>1. Served(c, "loaded", {}) BY <1>13, <2>2 DEF LoadInvite
      <4>2. d.stage = "loaded" /\ d.on = i BY <2>2 DEF TypeOK, Calls
      <4>3. calls' = (calls \ {c}) \cup {d} BY <4>1 DEF Served
      <4> HIDE DEF d
      <4> QED BY <3>2, <4>2, <4>3 DEF Editing
    <3>4. invite[i].status = "pending" BY <2>2 DEF Pending
    <3>5. Made(i) = {} BY <2>1, <3>2, <3>4 DEF InviteFor
    <3> HIDE DEF d
    <3> QED BY <2>1, <3>2, <3>3, <3>4, <3>5 DEF InviteFor
  <2>3. CASE c.on # i \/ c.on \notin Pending
    <3>1. Editing(i)' = Editing(i) BY <1>13, <2>3, EditingStep DEF LoadInvite
    <3> QED BY <2>1, <3>1, InviteUntouched
  <2> QED BY <2>2, <2>3
<1>14. ASSUME NEW c \in calls, CommitInvite(c) PROVE InviteFor(i)'
  <2>1. /\ Signing(i)' = Signing(i) /\ Made(i)' = Made(i) /\ Served(c, "ok", {})
        /\ i \notin crossed \cup cut /\ c.stage = "loaded"
        /\ \/ invite' = [invite EXCEPT ![c.on].status = "revoked"]
           \/ invite' = [invite EXCEPT ![c.on].turn = @ + 1]
    BY <1>14 DEF CommitInvite, history, Signing, Made
  <2>2. CASE c.on # i
    <3>1. Editing(i)' = Editing(i) /\ invite'[i] = invite[i]
      BY <2>1, <2>2, EditingStep DEF TypeOK
    <3> QED BY <2>1, <3>1, InviteUntouched
  <2>3. CASE c.on = i
    <3>1. c \in Editing(i) BY <2>1, <2>3 DEF Editing
    <3>2. /\ invite[i].status = "pending" /\ Editing(i) = {c} /\ Made(i) = {}
          /\ Signing(i) = {}
      BY <2>1, <3>1 DEF InviteFor
    <3>3. Editing(i)' = {}
      <4>1. {} \in SUBSET Invites OBVIOUS
      <4>2. Editing(i)' = Editing(i) \ {c} BY <2>1, <2>3, <4>1, EditingStep
      <4> QED BY <3>2, <4>2
    <3>4. invite'[i].status # "accepted" BY <2>1, <2>3, <3>2 DEF TypeOK
    <3> QED BY <2>1, <3>2, <3>3, <3>4 DEF InviteFor
  <2> QED BY <2>2, <2>3
<1>15. ASSUME NEW c \in Own, Answered(c) PROVE InviteFor(i)'
  <2>1. UNCHANGED <<invite, account, reqs, crossed, cut>> /\ c.stage # "loaded"
    BY <1>15 DEF Answered, server, history
  <2>2. CASE Send(Ask("list", None, c.no, TRUE), Own \ {c})
    <3>1. Ask("list", None, c.no, TRUE).stage = "sent" BY DEF Ask
    <3>2. \A d \in Own \ (Own \ {c}) : d.stage # "loaded" BY <2>1
    <3> QED BY <1>9, <2>1, <2>2, <3>1, <3>2
  <2>3. CASE calls' = calls \ {c}
    <3>1. Editing(i)' = Editing(i) BY <2>1, <2>3 DEF Editing
    <3>2. /\ Signing(i)' = Signing(i) /\ Made(i)' = Made(i) /\ invite' = invite
          /\ i \notin crossed \cup cut
      BY <2>1 DEF Signing, Made
    <3> QED BY <3>1, <3>2, InviteUntouched
  <2> QED BY <1>15, <2>2, <2>3 DEF Answered
<1> QED BY <1>1, <1>2, <1>3, <1>4, <1>5, <1>6, <1>7, <1>8, <1>10, <1>11, <1>12, <1>13, <1>14,
           <1>15, <1>16, <1>17
        DEF Next, OpenLink, Lose, AskReset, Expire, OtherRow, LoseCall, Answered, vars, server,
            admin, history

(***************************************************************************)
(* Resets and accounts                                                     *)
(***************************************************************************)

\* At most one request is about to use a reset, and it has not been used then.
ResetFor(r) ==
  /\ uses[r] <= 1 /\ (~reset[r].used => uses[r] = 0)
  /\ \A q \in Signing(r) : q.stage = "loaded" /\ Signing(r) = {q} /\ ~reset[r].used

\* A step that touches neither the reset nor what uses it.
LEMMA ResetUntouched ==
  ASSUME NEW r, ResetFor(r), reset'[r].used = reset[r].used, uses'[r] = uses[r],
         Signing(r)' = Signing(r) \/ Signing(r)' = {}
  PROVE ResetFor(r)'
BY DEF ResetFor

\* Every step keeps that of a reset that is not crossed.
LEMMA ResetStep ==
  ASSUME TypeOK, [Next]_vars, NEW r \in Resets, r \notin crossed',
         r \notin crossed => ResetFor(r)
  PROVE ResetFor(r)'
<1> USE OneTimeLinksAssumption
<1>1. ASSUME UNCHANGED <<reset, reqs, uses, crossed>> PROVE ResetFor(r)'
  BY <1>1, ResetUntouched DEF Signing
<1>2. ASSUME NEW p \in Pages, NEW n \in Names, Submit(p, n) PROVE ResetFor(r)'
  <2>1. Signing(r)' = Signing(r) BY <1>2 DEF Submit, Signing
  <2> QED BY <1>2, <2>1, ResetUntouched DEF Submit, server, history
<1>3. ASSUME NEW q \in reqs, Load(q) PROVE ResetFor(r)'
  <2>1. reset' = reset /\ uses' = uses /\ r \notin crossed
    BY <1>3 DEF Load, Cross, server
  <2>2. CASE q.link.of = r /\ Valid(q.link)
    <3> DEFINE p == [q EXCEPT !.stage = "loaded"]
    <3>1. ~Changing(r) BY <1>3, <2>2 DEF Load, Cross
    <3>2. Signing(r) = {} BY <3>1, Unchanging
    <3>3. Signing(r)' = {p}
      <4>1. Moved(q, "loaded") BY <1>3, <2>2 DEF Load
      <4> QED BY <2>2, <3>2, <4>1, SigningStep
    <3>4. p.stage = "loaded" BY DEF TypeOK, Requests
    <3>5. ~reset[r].used BY <2>2 DEF Valid
    <3> HIDE DEF p
    <3> QED BY <2>1, <3>3, <3>4, <3>5 DEF ResetFor
  <2>3. CASE q.link.of # r \/ ~Valid(q.link)
    <3>1. Signing(r)' = Signing(r)
      <4>1. CASE Valid(q.link)
        BY <1>3, <2>3, <4>1, SigningStep DEF Load
      <4>2. CASE ~Valid(q.link)
        <5>1. Moved(q, "failed") /\ q \notin Signing(r) BY <1>3, <4>2 DEF Load, Signing
        <5> QED BY <5>1, SigningStep
      <4> QED BY <4>1, <4>2
    <3> QED BY <2>1, <3>1, ResetUntouched
  <2> QED BY <2>2, <2>3
<1>4. ASSUME NEW q \in reqs, Register(q) \/ Accept(q) PROVE ResetFor(r)'
  <2>1. reset' = reset /\ uses' = uses /\ r \notin crossed
    BY <1>4 DEF Register, Accept, history
  <2>2. q.link.of # r
    BY <1>4, <2>1 DEF Register, Accept, ResetFor, Signing
  <2>3. PICK s \in {"failed", "registered", "ok"} : Moved(q, s)
    BY <1>4 DEF Register, Accept
  <2>4. Signing(r)' = Signing(r) BY <2>2, <2>3, SigningStep
  <2> QED BY <2>1, <2>4, ResetUntouched
<1>5. ASSUME NEW q \in reqs, Complete(q) PROVE ResetFor(r)'
  <2>1. /\ Moved(q, "ok") /\ r \notin crossed /\ q.link.of \in Resets
        /\ reset' = [reset EXCEPT ![q.link.of].used = TRUE]
        /\ uses' = [uses EXCEPT ![q.link.of] = @ + 1]
    BY <1>5 DEF Complete
  <2>2. CASE q.link.of # r
    <3>1. Signing(r)' = Signing(r) BY <2>1, <2>2, SigningStep
    <3>2. reset'[r] = reset[r] /\ uses'[r] = uses[r] BY <2>1, <2>2 DEF TypeOK
    <3> QED BY <2>1, <3>1, <3>2, ResetUntouched
  <2>3. CASE q.link.of = r
    <3>1. q \in Signing(r) BY <1>5, <2>3 DEF Complete, Signing
    <3>2. Signing(r) = {q} /\ uses[r] = 0 BY <2>1, <3>1 DEF ResetFor
    <3>3. Signing(r)' = {} BY <2>1, <2>3, <3>2, SigningStep
    <3>4. uses'[r] = 1 BY <2>1, <2>3, <3>2 DEF TypeOK
    <3>5. reset'[r].used = TRUE BY <2>1, <2>3 DEF TypeOK
    <3> QED BY <3>3, <3>4, <3>5 DEF ResetFor
  <2> QED BY <2>2, <2>3
<1>6. ASSUME NEW q \in reqs, Stop(q) PROVE ResetFor(r)'
  <2>1. Moved(q, "failed") /\ reset' = reset /\ uses' = uses /\ r \notin crossed
    BY <1>6 DEF Stop, server
  <2>2. Signing(r)' = Signing(r) \/ (q.link.of = r /\ Signing(r)' = Signing(r) \ {q})
    BY <2>1, SigningStep
  <2>3. Signing(r) \ {q} = Signing(r) \/ Signing(r) \ {q} = {}
    BY <2>1 DEF ResetFor
  <2> QED BY <2>1, <2>2, <2>3, ResetUntouched
<1>7. ASSUME NEW q \in reqs, Answer(q) PROVE ResetFor(r)'
  <2>1. Signing(r)' = Signing(r) BY <1>7 DEF Answer, Signing
  <2> QED BY <1>7, <2>1, ResetUntouched DEF Answer, server, history
<1>8. ASSUME NEW s \in Resets, NEW e \in Emails, AskReset(s, e) PROVE ResetFor(r)'
  <2>1. Signing(r)' = Signing(r) /\ uses' = uses /\ r \notin crossed
    BY <1>8 DEF AskReset, Signing, history
  <2>2. reset'[r].used = reset[r].used BY <1>8 DEF AskReset, TypeOK
  <2> QED BY <2>1, <2>2, ResetUntouched
<1>9. ASSUME NEW c \in calls, LoadInvite(c) PROVE ResetFor(r)'
  <2>1. Signing(r)' = Signing(r) /\ reset' = reset /\ uses' = uses /\ r \notin crossed
    BY <1>9 DEF LoadInvite, Cross, Signing, server
  <2> QED BY <2>1, ResetUntouched
<1> QED BY <1>1, <1>2, <1>3, <1>4, <1>5, <1>6, <1>7, <1>8, <1>9
        DEF Next, OpenLink, Lose, Expire, OpenUsers, Invite, Change, OtherRow, Elsewhere,
            ServeInvite, ServeList, CommitInvite, LoseCall, Answered, vars, server, history

\* No two accounts share a name or an address.
Unique == \A a, b \in account : a.email = b.email \/ a.name = b.name => a = b

\* Only a sign-up makes an account, and it looks at the others first.
LEMMA UniqueStep ==
  ASSUME Unique, [Next]_vars
  PROVE Unique'
<1>1. ASSUME NEW q \in reqs, Register(q) PROVE Unique'
  <2> DEFINE e == invite[q.link.of].email
             a == [name |-> q.name, email |-> e, by |-> q.link.of, turn |-> q.link.turn]
  <2>1. CASE UNCHANGED account
    BY <2>1 DEF Unique
  <2>2. CASE account' # account
    <3>1. ~\E b \in account : b.name = q.name \/ b.email = e BY <1>1, <2>2 DEF Register
    <3>2. account' = account \cup {a} BY <1>1, <2>2 DEF Register
    <3>3. a.name = q.name /\ a.email = e OBVIOUS
    <3> HIDE DEF a, e
    <3> QED BY <3>1, <3>2, <3>3 DEF Unique
  <2> QED BY <2>1, <2>2
<1>2. CASE UNCHANGED account
  BY <1>2 DEF Unique
<1> QED BY <1>1, <1>2
        DEF Next, OpenLink, Submit, Lose, Load, Accept, Complete, Stop, Answer, AskReset, Expire,
            OpenUsers, Invite, Change, OtherRow, Elsewhere, ServeInvite, ServeList, LoadInvite,
            CommitInvite, LoseCall, Answered, vars, server

(***************************************************************************)
(* The invariant and what follows from it                                  *)
(***************************************************************************)

LinkInv ==
  /\ TypeOK /\ Unique
  /\ \A i \in Invites : i \notin crossed \cup cut => InviteFor(i)
  /\ \A r \in Resets : r \notin crossed => ResetFor(r)

\* At first the invites are mailed and nobody has used one.
LEMMA LinkInit == Init => LinkInv
<1> SUFFICES ASSUME Init PROVE LinkInv
  OBVIOUS
<1> USE OneTimeLinksAssumption
<1>1. \A x : Signing(x) = {} BY DEF Init, Signing
<1>2. \A x : Editing(x) = {}
  <2>1. \A c \in calls : c.stage = "sent" BY DEF Init
  <2> QED BY <2>1 DEF Editing
<1>3. ASSUME NEW i \in Invites PROVE InviteFor(i)
  <2>1. Made(i) = {} BY DEF Init, Made
  <2>2. invite[i].status # "accepted" BY DEF Init
  <2> QED BY <1>1, <1>2, <2>1, <2>2 DEF InviteFor
<1>4. ASSUME NEW r \in Resets PROVE ResetFor(r)
  <2>1. uses[r] = 0 BY DEF Init
  <2> QED BY <1>1, <2>1 DEF ResetFor
<1>5. Unique BY DEF Init, Unique
<1> QED BY <1>3, <1>4, <1>5, TypeInit DEF LinkInv

\* Every step keeps the invariant.
LEMMA LinkStep == LinkInv /\ [Next]_vars => LinkInv'
<1> SUFFICES ASSUME LinkInv, [Next]_vars PROVE LinkInv'
  OBVIOUS
<1>1. TypeOK' /\ Unique' BY TypeStep, UniqueStep DEF LinkInv
<1>2. ASSUME NEW i \in Invites, i \notin crossed' \cup cut' PROVE InviteFor(i)'
  BY <1>2, InviteStep DEF LinkInv
<1>3. ASSUME NEW r \in Resets, r \notin crossed' PROVE ResetFor(r)'
  BY <1>3, ResetStep DEF LinkInv
<1> QED BY <1>1, <1>2, <1>3 DEF LinkInv

\* An invite makes one account at most and ends accepted exactly if it made
\* one, however many pages and admins hold it.
THEOREM InvitesEnd == Spec => []InvitesSettle
<1>1. LinkInv => InvitesSettle
  <2> SUFFICES ASSUME LinkInv, NEW i \in Invites, i \notin crossed \cup cut, ~Changing(i)
               PROVE invite[i].status = "accepted" <=> \E a \in account : a.by = i
    BY DEF LinkInv, Unique, InvitesSettle
  <2>1. InviteFor(i) /\ Signing(i) = {} BY Unchanging DEF LinkInv
  <2> QED BY <2>1 DEF InviteFor, Made
<1> QED BY <1>1, LinkInit, LinkStep, PTL DEF Spec

\* An account comes by the last link mailed, and a reset is used once.
THEOREM OnlyTheLastLink == Spec => []LastLinkOnly
<1>1. LinkInv => LastLinkOnly
  <2> SUFFICES ASSUME LinkInv PROVE LastLinkOnly
    OBVIOUS
  <2>1. ASSUME NEW a \in account, a.by \notin crossed \cup cut \cup {None}
        PROVE a.turn = invite[a.by].turn
    <3>1. a.by \in Invites BY <2>1 DEF LinkInv, TypeOK
    <3> QED BY <2>1, <3>1 DEF LinkInv, InviteFor, Made
  <2>2. ASSUME NEW r \in Resets, r \notin crossed PROVE uses[r] <= 1
    BY <2>2 DEF LinkInv, ResetFor
  <2> QED BY <2>1, <2>2 DEF LastLinkOnly
<1> QED BY <1>1, LinkInit, LinkStep, PTL DEF Spec

(***************************************************************************)
(* The admin's list                                                        *)
(***************************************************************************)

\* The invites that no other admin made or revoked since the list was read.
Known == Invites \ foreign

\* While the list met no change of the page's own, ... a list is on its way
\* alone, and one that is answered holds the pending invites and none that was
\* revoked;
ListAlone ==
  \A c \in Own : c.kind = "list" =>
    /\ Own = {c} /\ c.stage \in {"sent", "ok"}
    /\ c.stage = "ok" => \A i \in Known : /\ invite[i].status = "pending" => i \in c.got
                                          /\ i \in c.got => invite[i].status # "revoked"
\* a pending invite is shown unless a list is on its way or about to be asked for;
ListComes ==
  \/ \A i \in Known : invite[i].status = "pending" => i \in shown
  \/ \E c \in Own : c.kind = "list" \/ (c.kind = "invite" /\ c.stage = "ok")
\* a revoked one is not shown unless a list, or the answer to the revocation, is
\* on its way;
RevokedLeaves ==
  \A i \in Known : i \in shown /\ invite[i].status = "revoked" =>
    \E c \in Own : c.kind = "list" \/ (c.kind = "revoke" /\ c.on = i /\ c.stage = "ok")
\* and the answer to a revocation is not about a pending one.
RevocationDone ==
  \A c \in Own : c.kind = "revoke" /\ c.stage = "ok" =>
    invite[c.on].status \in {"revoked", "accepted"}
ListParts == ListAlone /\ ListComes /\ RevokedLeaves /\ RevocationDone
ListInv == TypeOK /\ (~tangled => ListParts)

\* A step that leaves the page's calls and its list, and the invites but for
\* those other admins change and those a sign-up makes accepted.
LEMMA Spared ==
  ASSUME TypeOK, ListParts, Own' = Own, shown' = shown, foreign \subseteq foreign',
         \A i \in Invites \ foreign' : invite'[i].status \in {invite[i].status, "accepted"},
         \A i \in Invites : invite[i].status \in {"revoked", "accepted"} =>
                              invite'[i].status \in {"revoked", "accepted"}
  PROVE ListParts'
<1>1. \A i \in Known' : /\ i \in Known
                        /\ invite'[i].status = "pending" => invite[i].status = "pending"
                        /\ invite'[i].status = "revoked" => invite[i].status = "revoked"
  BY DEF Known
<1>2. \A c \in Own : c.kind = "revoke" => c.on \in Invites BY DEF TypeOK, Calls, Own
<1>3. ListAlone' BY <1>1 DEF ListParts, ListAlone
<1>4. ListComes' BY <1>1 DEF ListParts, ListComes
<1>5. RevokedLeaves' BY <1>1 DEF ListParts, RevokedLeaves
<1>6. RevocationDone' BY <1>2 DEF ListParts, RevocationDone
<1> QED BY <1>3, <1>4, <1>5, <1>6 DEF ListParts

\* The page's calls after it has sent one.
LEMMA OwnSent ==
  ASSUME NEW d, d.mine, NEW own \in SUBSET Own, Send(d, own)
  PROVE Own' = own \cup {d}
<1>1. calls' = (calls \ (Own \ own)) \cup {d} BY DEF Send
<1> QED BY <1>1 DEF Own

\* A call that is served goes on with the same request and another stage; the
\* page's own calls do not change if it is another's.
LEMMA OwnServed ==
  ASSUME TypeOK, NEW c \in calls, NEW s, NEW got, Served(c, s, got)
  PROVE /\ ~c.mine => Own' = Own
        /\ c.mine => /\ c \in Own
                     /\ \E d : /\ Own' = (Own \ {c}) \cup {d}
                               /\ d.kind = c.kind /\ d.on = c.on /\ d.stage = s /\ d.got = got
<1> DEFINE d == [c EXCEPT !.stage = s, !.got = got]
<1>1. c \in Calls BY DEF TypeOK
<1>2. d.kind = c.kind /\ d.on = c.on /\ d.stage = s /\ d.got = got /\ d.mine = c.mine
  BY <1>1 DEF Calls
<1>3. /\ calls' \subseteq (calls \ {c}) \cup {d} /\ calls \ {c} \subseteq calls'
      /\ c.mine => d \in calls'
  BY DEF Served
<1> HIDE DEF d
<1> QED BY <1>2, <1>3 DEF Own

\* A list asked for alone will put the page right.
LEMMA ListAsked ==
  ASSUME NEW d, d.kind = "list", d.stage = "sent", Own' = {d} PROVE ListParts'
BY DEF ListParts, ListAlone, ListComes, RevokedLeaves, RevocationDone

\* A call of the page that joins the others without meeting a list.
LEMMA SendLists ==
  ASSUME ~tangled => ListParts, NEW k \in {"invite", "revoke", "resend"}, NEW x, NEW no,
         Send(Ask(k, x, no, TRUE), Own), ~tangled', UNCHANGED <<invite, shown, foreign>>
  PROVE ListParts'
<1> DEFINE d == Ask(k, x, no, TRUE)
<1>1. d.kind = k /\ d.on = x /\ d.stage = "sent" /\ d.mine BY DEF Ask
<1>2. Own' = Own \cup {d} BY <1>1, OwnSent
<1>3. ~tangled /\ \A c \in Own : c.kind # "list"
  <2>1. CASE Own = {} BY <1>1, <2>1 DEF Send
  <2>2. CASE Own # {} BY <2>2 DEF Send
  <2> QED BY <2>1, <2>2
<1>4. Known' = Known BY DEF Known
<1> HIDE DEF d
<1>5. ListAlone' BY <1>1, <1>2, <1>3 DEF ListAlone
<1>6. ListComes' BY <1>2, <1>3, <1>4 DEF ListParts, ListComes
<1>7. RevokedLeaves' BY <1>2, <1>3, <1>4 DEF ListParts, RevokedLeaves
<1>8. RevocationDone' BY <1>1, <1>2, <1>3 DEF ListParts, RevocationDone
<1> QED BY <1>5, <1>6, <1>7, <1>8 DEF ListParts

\* An invite that is made.
LEMMA ServeInviteLists ==
  ASSUME TypeOK, ListParts, NEW c \in calls, ServeInvite(c) PROVE ListParts'
<1>1. PICK i \in Invites :
        /\ invite[i].status = "none"
        /\ invite' = [invite EXCEPT ![i] = [email |-> c.on, status |-> "pending", turn |-> 1]]
        /\ Note(c, i)
  BY DEF ServeInvite
<1>2. c.kind = "invite" /\ c.stage = "sent" /\ shown' = shown BY DEF ServeInvite
<1>3. \A j \in Invites : j # i => invite'[j] = invite[j] BY <1>1 DEF TypeOK
<1>4. CASE ~c.mine
  <2>1. Own' = Own BY <1>4, OwnServed DEF ServeInvite
  <2>2. foreign' = foreign \cup {i} BY <1>1, <1>4 DEF Note
  <2> QED BY <1>1, <1>2, <1>3, <2>1, <2>2, Spared
<1>5. CASE c.mine
  <2>1. PICK d : /\ Own' = (Own \ {c}) \cup {d}
                 /\ d.kind = c.kind /\ d.on = c.on /\ d.stage = "ok" /\ d.got = {}
    BY <1>5, OwnServed DEF ServeInvite
  <2>2. foreign' = foreign /\ c \in Own BY <1>1, <1>5, OwnServed DEF Note, ServeInvite
  <2>3. \A x \in Own : x.kind # "list" BY <1>2, <2>2 DEF ListParts, ListAlone
  <2>4. ListAlone' BY <1>2, <2>1, <2>3 DEF ListAlone
  <2>5. ListComes' BY <1>2, <2>1 DEF ListComes
  <2>6. RevokedLeaves'
    <3> SUFFICES ASSUME NEW j \in Known', j \in shown, invite'[j].status = "revoked"
                 PROVE \E x \in Own' : x.kind = "revoke" /\ x.on = j /\ x.stage = "ok"
      BY <1>2 DEF RevokedLeaves
    <3>1. j \in Known /\ invite[j].status = "revoked" BY <1>1, <1>3, <2>2 DEF Known, TypeOK
    <3>2. PICK x \in Own : x.kind = "revoke" /\ x.on = j /\ x.stage = "ok"
      BY <2>3, <3>1 DEF ListParts, RevokedLeaves
    <3> QED BY <1>2, <2>1, <3>2
  <2>7. RevocationDone'
    <3> SUFFICES ASSUME NEW x \in Own', x.kind = "revoke", x.stage = "ok"
                 PROVE invite'[x.on].status \in {"revoked", "accepted"}
      BY DEF RevocationDone
    <3>1. x \in Own /\ x \in Calls BY <1>2, <2>1 DEF TypeOK, Own
    <3>2. x.on \in Invites /\ invite[x.on].status \in {"revoked", "accepted"}
      BY <3>1 DEF ListParts, RevocationDone, Calls
    <3>3. x.on # i BY <1>1, <3>2
    <3> QED BY <1>3, <3>2, <3>3
  <2> QED BY <2>4, <2>5, <2>6, <2>7 DEF ListParts
<1> QED BY <1>4, <1>5

\* The list is read.
LEMMA ServeListLists ==
  ASSUME TypeOK, ListParts, NEW c \in calls, ServeList(c) PROVE ListParts'
<1>1. c.kind = "list" /\ shown' = shown /\ invite' = invite BY DEF ServeList, server
<1>2. CASE ~c.mine
  <2>1. Own' = Own /\ foreign' = foreign BY <1>2, OwnServed DEF ServeList
  <2> QED BY <1>1, <2>1, Spared
<1>3. CASE c.mine
  <2>1. PICK d : /\ Own' = (Own \ {c}) \cup {d}
                 /\ d.kind = c.kind /\ d.on = c.on /\ d.stage = "ok" /\ d.got = Pending
    BY <1>3, OwnServed DEF ServeList
  <2>2. c \in Own BY <1>3 DEF Own
  <2>3. Own' = {d} BY <1>1, <2>1, <2>2 DEF ListParts, ListAlone
  <2>4. ListAlone' BY <1>1, <2>1, <2>3 DEF ListAlone, Pending, Known
  <2>5. ListComes' BY <1>1, <2>1, <2>3 DEF ListComes
  <2>6. RevokedLeaves' BY <1>1, <2>1, <2>3 DEF RevokedLeaves
  <2>7. RevocationDone' BY <1>1, <2>1, <2>3 DEF RevocationDone
  <2> QED BY <2>4, <2>5, <2>6, <2>7 DEF ListParts
<1> QED BY <1>2, <1>3

\* A revocation or a resend has loaded its invite, or found none.
LEMMA LoadInviteLists ==
  ASSUME TypeOK, ListParts, NEW c \in calls, LoadInvite(c) PROVE ListParts'
<1>1. PICK s \in {"loaded", "failed"} : Served(c, s, {}) BY DEF LoadInvite
<1>2. /\ c.kind \in {"revoke", "resend"} /\ c.stage = "sent"
      /\ shown' = shown /\ invite' = invite /\ foreign' = foreign
  BY DEF LoadInvite, server
<1>3. CASE ~c.mine
  <2>1. Own' = Own BY <1>1, <1>3, OwnServed
  <2> QED BY <1>2, <2>1, Spared
<1>4. CASE c.mine
  <2>1. PICK d : /\ Own' = (Own \ {c}) \cup {d}
                 /\ d.kind = c.kind /\ d.on = c.on /\ d.stage = s /\ d.got = {}
    BY <1>1, <1>4, OwnServed
  <2>2. c \in Own /\ Known' = Known BY <1>2, <1>4 DEF Own, Known
  <2>3. \A x \in Own : x.kind # "list" BY <1>2, <2>2 DEF ListParts, ListAlone
  <2>4. ListAlone' BY <1>2, <2>1, <2>3 DEF ListAlone
  <2>5. ListComes' BY <1>2, <2>1, <2>2, <2>3 DEF ListParts, ListComes
  <2>6. RevokedLeaves' BY <1>2, <2>1, <2>2 DEF ListParts, RevokedLeaves
  <2>7. RevocationDone' BY <1>2, <2>1 DEF ListParts, RevocationDone
  <2> QED BY <2>4, <2>5, <2>6, <2>7 DEF ListParts
<1> QED BY <1>3, <1>4

\* A revocation or a resend is committed.
LEMMA CommitInviteLists ==
  ASSUME TypeOK, ListParts, NEW c \in calls, CommitInvite(c) PROVE ListParts'
<1>1. c.kind \in {"revoke", "resend"} /\ c.on \in Invites /\ c.stage = "loaded"
  BY DEF CommitInvite, TypeOK, Calls
<1>2. shown' = shown BY DEF CommitInvite
<1>3. \A j \in Invites : j # c.on => invite'[j].status = invite[j].status
  BY DEF CommitInvite, TypeOK
<1>4. IF c.kind = "revoke" THEN invite'[c.on].status = "revoked"
      ELSE invite'[c.on].status = invite[c.on].status
  BY <1>1 DEF CommitInvite, TypeOK
<1>5. /\ foreign \subseteq foreign'
      /\ ~c.mine /\ c.kind = "revoke" => c.on \in foreign'
      /\ c.mine => foreign' = foreign
  BY DEF CommitInvite, Note
<1>6. CASE ~c.mine
  <2>1. Own' = Own BY <1>6, OwnServed DEF CommitInvite
  <2>2. \A i \in Invites \ foreign' : invite'[i].status \in {invite[i].status, "accepted"}
    BY <1>3, <1>4, <1>5, <1>6
  <2>3. \A i \in Invites : invite[i].status \in {"revoked", "accepted"} =>
                              invite'[i].status \in {"revoked", "accepted"}
    BY <1>3, <1>4
  <2> QED BY <1>2, <1>5, <2>1, <2>2, <2>3, Spared
<1>7. CASE c.mine
  <2>1. PICK d : /\ Own' = (Own \ {c}) \cup {d}
                 /\ d.kind = c.kind /\ d.on = c.on /\ d.stage = "ok" /\ d.got = {}
    BY <1>7, OwnServed DEF CommitInvite
  <2>2. c \in Own /\ Known' = Known BY <1>5, <1>7 DEF Own, Known
  <2>3. \A x \in Own : x.kind # "list" BY <1>1, <2>2 DEF ListParts, ListAlone
  <2>4. \A j \in Invites : invite'[j].status = "pending" => invite[j].status = "pending"
    BY <1>3, <1>4
  <2>5. ListAlone' BY <1>1, <2>1, <2>3 DEF ListAlone
  <2>6. ListComes'
    <3>1. \A x \in Own : x.kind = "invite" => x \in Own' BY <1>1, <2>1
    <3>2. CASE \A i \in Known : invite[i].status = "pending" => i \in shown
      BY <1>2, <2>2, <2>4, <3>2 DEF ListComes, Known
    <3>3. CASE \E x \in Own : x.kind = "invite" /\ x.stage = "ok"
      BY <3>1, <3>3 DEF ListComes
    <3> QED BY <2>3, <3>2, <3>3 DEF ListParts, ListComes
  <2>7. RevokedLeaves'
    <3> SUFFICES ASSUME NEW j \in Known, j \in shown, invite'[j].status = "revoked"
                 PROVE \E x \in Own' : x.kind = "revoke" /\ x.on = j /\ x.stage = "ok"
      BY <1>2, <2>2 DEF RevokedLeaves
    <3>1. CASE j = c.on /\ c.kind = "revoke" BY <2>1, <3>1
    <3>2. CASE j # c.on \/ c.kind # "revoke"
      <4>1. invite[j].status = "revoked" BY <1>3, <1>4, <3>2 DEF Known
      <4>2. PICK x \in Own : x.kind = "revoke" /\ x.on = j /\ x.stage = "ok"
        BY <2>3, <4>1 DEF ListParts, RevokedLeaves
      <4>3. x \in Own' BY <1>1, <2>1, <4>2
      <4> QED BY <4>2, <4>3
    <3> QED BY <3>1, <3>2
  <2>8. RevocationDone'
    <3> SUFFICES ASSUME NEW x \in Own', x.kind = "revoke", x.stage = "ok"
                 PROVE invite'[x.on].status \in {"revoked", "accepted"}
      BY DEF RevocationDone
    <3>1. CASE x = d BY <1>4, <2>1, <3>1
    <3>2. CASE x \in Own
      <4>1. x.on \in Invites /\ invite[x.on].status \in {"revoked", "accepted"}
        BY <3>2 DEF ListParts, RevocationDone, TypeOK, Calls, Own
      <4> QED BY <1>3, <1>4, <4>1
    <3> QED BY <2>1, <3>1, <3>2
  <2> QED BY <2>5, <2>6, <2>7, <2>8 DEF ListParts
<1> QED BY <1>6, <1>7

\* An answer arrives.
LEMMA AnsweredLists ==
  ASSUME TypeOK, ~tangled => ListParts, NEW c \in Own, Answered(c), ~tangled' PROVE ListParts'
<1>0. /\ c \in Calls /\ invite' = invite /\ foreign' = foreign /\ Known' = Known
      /\ c \in calls /\ c.mine
  BY DEF TypeOK, Answered, server, Own, Known
<1>1. CASE c.kind = "invite" /\ c.stage = "ok"
  <2> DEFINE d == Ask("list", None, c.no, TRUE)
  <2>1. d.kind = "list" /\ d.stage = "sent" /\ d.mine BY DEF Ask
  <2>2. Send(d, Own \ {c}) BY <1>1 DEF Answered
  <2>3. Own' = (Own \ {c}) \cup {d}
    <3>1. Own \ {c} \in SUBSET Own OBVIOUS
    <3> HIDE DEF d
    <3> QED BY <2>1, <2>2, <3>1, OwnSent
  <2> HIDE DEF d
  <2>4. Own \ {c} = {}
    <3>1. "list" \in {e.kind : e \in (Own \ {c}) \cup {d}} BY <2>1
    <3> QED BY <2>2, <3>1 DEF Send
  <2> QED BY <2>1, <2>3, <2>4, ListAsked
<1>2. CASE ~(c.kind = "invite" /\ c.stage = "ok")
  <2>1. calls' = calls \ {c} /\ ~tangled BY <1>2 DEF Answered
  <2>2. Own' = Own \ {c} /\ ListParts BY <2>1 DEF Own
  <2>3. CASE c.kind = "list"
    <3>1. Own = {c} /\ c.stage = "ok" BY <2>2, <2>3 DEF ListParts, ListAlone, Answered
    <3>2. Own' = {} /\ shown' = c.got BY <2>2, <2>3, <3>1 DEF Answered
    <3>3. \A i \in Known : /\ invite[i].status = "pending" => i \in c.got
                           /\ i \in c.got => invite[i].status # "revoked"
      BY <2>2, <2>3, <3>1 DEF ListParts, ListAlone
    <3> QED BY <1>0, <3>2, <3>3
            DEF ListParts, ListAlone, ListComes, RevokedLeaves, RevocationDone
  <2>4. CASE c.kind # "list"
    <3>1. \A x \in Own : x.kind # "list" BY <2>2, <2>4 DEF ListParts, ListAlone
    <3>2. shown' = IF c.kind = "revoke" /\ c.stage = "ok" THEN shown \ {c.on} ELSE shown
      <4>1. CASE c.stage = "failed" BY <4>1 DEF Answered
      <4>2. CASE c.stage = "ok" /\ c.kind = "revoke" BY <4>2 DEF Answered
      <4>3. CASE c.stage = "ok" /\ c.kind = "resend" BY <4>3 DEF Answered
      <4>4. c.kind \in {"invite", "revoke", "resend"} /\ c.stage \in {"ok", "failed"}
        BY <1>0, <2>4 DEF Answered, Calls
      <4> QED BY <1>2, <4>1, <4>2, <4>3, <4>4
    <3>3. c.kind = "revoke" /\ c.stage = "ok" => invite[c.on].status # "pending"
      BY <2>2 DEF ListParts, RevocationDone
    <3>4. ListAlone' BY <2>2, <3>1 DEF ListAlone
    <3>5. ListComes'
      <4>1. CASE \A i \in Known : invite[i].status = "pending" => i \in shown
        BY <1>0, <3>2, <3>3, <4>1 DEF ListComes
      <4>2. CASE \E x \in Own : x.kind = "invite" /\ x.stage = "ok"
        BY <1>2, <2>2, <4>2 DEF ListComes
      <4> QED BY <2>2, <3>1, <4>1, <4>2 DEF ListParts, ListComes
    <3>6. RevokedLeaves'
      <4> SUFFICES ASSUME NEW j \in Known, j \in shown', invite[j].status = "revoked"
                   PROVE \E x \in Own' : x.kind = "revoke" /\ x.on = j /\ x.stage = "ok"
        BY <1>0 DEF RevokedLeaves
      <4>0. j \in shown BY <3>2
      <4>1. PICK x \in Own : x.kind = "revoke" /\ x.on = j /\ x.stage = "ok"
        BY <2>2, <3>1, <4>0 DEF ListParts, RevokedLeaves
      <4>2. x # c BY <3>2, <4>1
      <4> QED BY <2>2, <4>1, <4>2
    <3>7. RevocationDone' BY <1>0, <2>2 DEF ListParts, RevocationDone
    <3> QED BY <3>4, <3>5, <3>6, <3>7 DEF ListParts
  <2> QED BY <2>3, <2>4
<1> QED BY <1>1, <1>2

\* Every step keeps the invariant of the list.
LEMMA ListStep == ListInv /\ [Next]_vars => ListInv'
<1> SUFFICES ASSUME ListInv, [Next]_vars, ~tangled' PROVE ListParts'
  BY TypeStep DEF ListInv
<1> USE DEF server, admin, history, Act
<1>0. TypeOK /\ (~tangled => ListParts) BY DEF ListInv
<1>1. ASSUME UNCHANGED <<calls, shown, invite, tangled, foreign>> PROVE ListParts'
  BY <1>0, <1>1, Spared DEF Own
<1>2. ASSUME NEW q \in reqs, Accept(q) PROVE ListParts'
  <2>1. \A i \in Invites : invite'[i].status \in {invite[i].status, "accepted"}
    BY <1>0, <1>2 DEF Accept, TypeOK
  <2> QED BY <1>0, <1>2, <2>1, Spared DEF Accept, Own
<1>3. ASSUME NEW e \in Emails, Invite(e) PROVE ListParts'
  BY <1>0, <1>3, SendLists DEF Invite
<1>4. ASSUME NEW i \in Invites, NEW k \in {"revoke", "resend"}, Change(k, i) PROVE ListParts'
  BY <1>0, <1>4, SendLists DEF Change
<1>5. ASSUME NEW c \in calls, ServeInvite(c) PROVE ListParts'
  BY <1>0, <1>5, ServeInviteLists DEF ServeInvite
<1>6. ASSUME NEW c \in calls, ServeList(c) PROVE ListParts'
  BY <1>0, <1>6, ServeListLists DEF ServeList
<1>7. ASSUME NEW c \in calls, LoadInvite(c) PROVE ListParts'
  BY <1>0, <1>7, LoadInviteLists DEF LoadInvite
<1>8. ASSUME NEW c \in calls, CommitInvite(c) PROVE ListParts'
  BY <1>0, <1>8, CommitInviteLists DEF CommitInvite
<1>9. ASSUME NEW c \in Own, LoseCall(c) PROVE FALSE
  BY <1>9 DEF LoseCall
<1>10. ASSUME NEW c \in Own, Answered(c) PROVE ListParts'
  BY <1>0, <1>10, AnsweredLists
<1>11. ASSUME NEW q \in reqs,
              Load(q) \/ Register(q) \/ Complete(q) \/ Stop(q) \/ Answer(q)
       PROVE UNCHANGED <<calls, shown, invite, tangled, foreign>>
  BY <1>11 DEF Load, Register, Complete, Stop, Answer
<1>12. ASSUME NEW p \in Pages,
              Lose(p) \/ (\E l \in Mailed : OpenLink(p, l)) \/ (\E n \in Names : Submit(p, n))
       PROVE UNCHANGED <<calls, shown, invite, tangled, foreign>>
  BY <1>12 DEF Lose, OpenLink, Submit
<1>13. ASSUME NEW r \in Resets, NEW e \in Emails, AskReset(r, e)
       PROVE UNCHANGED <<calls, shown, invite, tangled, foreign>>
  BY <1>13 DEF AskReset
<1>14. ASSUME NEW x \in Invites \cup Resets, Expire(x)
       PROVE UNCHANGED <<calls, shown, invite, tangled, foreign>>
  BY <1>14 DEF Expire
<1>15. UNCHANGED vars => UNCHANGED <<calls, shown, invite, tangled, foreign>> BY DEF vars
<1>16. ASSUME OpenUsers PROVE ListParts'
  <2> DEFINE d == Ask("list", None, made', TRUE)
  <2>1. d.kind = "list" /\ d.stage = "sent" /\ d.mine BY DEF Ask
  <2>2. Send(d, Own) BY <1>16 DEF OpenUsers
  <2> HIDE DEF d
  <2>3. Own' = Own \cup {d}
    <3>1. Own \in SUBSET Own OBVIOUS
    <3> QED BY <2>1, <2>2, <3>1, OwnSent
  <2>4. Own = {}
    <3>1. "list" \in {e.kind : e \in Own \cup {d}} BY <2>1
    <3> QED BY <2>2, <3>1 DEF Send
  <2> QED BY <2>1, <2>3, <2>4, ListAsked
<1>17. OtherRow => UNCHANGED <<calls, shown, invite, tangled, foreign>> BY DEF OtherRow
<1>18. ASSUME NEW k, NEW x, Elsewhere(k, x) PROVE ListParts'
  <2>1. calls' = calls \cup {Ask(k, x, made', FALSE)} BY <1>18 DEF Elsewhere
  <2>2. ~Ask(k, x, made', FALSE).mine BY DEF Ask
  <2>3. Own' = Own BY <2>1, <2>2 DEF Own
  <2>4. UNCHANGED <<shown, invite, tangled, foreign>> BY <1>18 DEF Elsewhere
  <2> QED BY <1>0, <2>3, <2>4, Spared
<1> QED BY <1>1, <1>2, <1>3, <1>4, <1>5, <1>6, <1>7, <1>8, <1>9, <1>10, <1>11, <1>12, <1>13,
           <1>14, <1>15, <1>16, <1>17, <1>18 DEF Next, LoseCall, Answered

\* Whatever this admin, others and the invited do, once the calls of the page
\* are answered its list holds every pending invite and none that was revoked,
\* but for invites made or revoked elsewhere since the list was read, and unless
\* a list overlapped another call of the page or a call was lost.
THEOREM ListShowsPending == Spec => []PendingListed
<1>1. Init => ListInv
  <2> SUFFICES ASSUME Init PROVE ListParts
    BY TypeInit DEF ListInv
  <2>1. PICK c : c = [no |-> 0, kind |-> "list", on |-> None, stage |-> "sent", got |-> {},
                      mine |-> TRUE]
    OBVIOUS
  <2>2. calls = {c} /\ c.kind = "list" /\ c.stage = "sent" /\ c.mine BY <2>1 DEF Init
  <2>3. Own = {c} BY <2>2 DEF Own
  <2> QED BY <2>2, <2>3 DEF ListParts, ListAlone, ListComes, RevokedLeaves, RevocationDone
<1>2. ListInv => PendingListed
  BY DEF ListInv, ListParts, ListComes, RevokedLeaves, PendingListed, Known
<1> QED BY <1>1, <1>2, ListStep, PTL DEF Spec
=============================================================================
