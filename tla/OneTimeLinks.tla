---------------------------- MODULE OneTimeLinks ----------------------------
(***************************************************************************)
(* The links that are mailed: invites to the site and password resets      *)
(* (backend services/site_invite_service.py, password_service.py,          *)
(* auth_service.py), the pages they open (frontend pages/SignupPage.tsx,   *)
(* ResetPasswordPage.tsx, ForgotPasswordPage.tsx), and the list of pending *)
(* invites of the admin page (pages/AdminPage.tsx).                        *)
(*                                                                         *)
(* A link is checked when its page opens, and again by the request that    *)
(* uses it, which commits later: a sign-up twice, first the account, then  *)
(* the invite.  The same link can be open in two pages, and an admin can   *)
(* revoke or resend an invite meanwhile, from the page that is modelled or *)
(* from another.                                                           *)
(***************************************************************************)
EXTENDS Naturals, FiniteSets

CONSTANTS
  Invites, Resets, Emails, Names, Pages, None,
  First,      \* the account there is at first
  Invited,    \* the invites mailed at first, ...
  Guest,      \* ... all to this e-mail
  MaxActs,    \* bound on the clicks of all users
  MaxBreaks   \* bound on the requests and answers that are lost

ASSUME OneTimeLinksAssumption ==
  /\ None \notin Invites \cup Resets \cup Emails /\ Invites \cap Resets = {}
  /\ Invited \subseteq Invites /\ Guest \in Emails
  /\ First \in [name : Names, email : Emails, by : {None}, turn : {0}]

VARIABLES
  invite,    \* site_invites: e-mail, status, which link of it was mailed last
  account,   \* users, with the invite and its link they came by
  reset,     \* password_resets: the account's e-mail, used
  expired,   \* invites and resets past their expires_at
  page,      \* the page of a link: what it shows, the request it waits for
  reqs,      \* sign-ups and completions under way
  shown,     \* the admin's siteInvites
  busy,      \* his busyId, as far as it is an invite's
  calls,     \* the calls under way, his page's own and those of other admins
  uses,      \* history: how often a reset set the password
  crossed,   \* history: invites and resets with two changes under way at once
  cut,       \* history: invites whose sign-up ended between its two commits
  tangled,   \* history: the page's last list met a call of its own, or one was lost
  foreign,   \* history: invites made or revoked elsewhere since its list was read
  made, breaks

server == <<invite, account, reset, expired>>
admin == <<shown, busy, calls, tangled, foreign>>
history == <<uses, crossed, cut>>
vars == <<server, page, reqs, admin, history, made, breaks>>

Link(x, n) == [of |-> x, turn |-> n]
\* The links mailed so far: one by each sending of an invite.
Mailed == (UNION {{Link(i, n) : n \in 1 .. invite[i].turn} : i \in Invites})
            \cup {Link(r, 1) : r \in {s \in Resets : reset[s].email # None}}

Init ==
  /\ invite = [i \in Invites |->
                 IF i \in Invited THEN [email |-> Guest, status |-> "pending", turn |-> 1]
                 ELSE [email |-> None, status |-> "none", turn |-> 0]]
  /\ account = {First}
  /\ reset = [r \in Resets |-> [email |-> None, used |-> FALSE]]
  /\ expired = {}
  /\ page = [p \in Pages |-> [at |-> "closed", link |-> None, no |-> 0]]
  /\ reqs = {} /\ shown = {} /\ busy = None
  /\ calls = {[no |-> 0, kind |-> "list", on |-> None, stage |-> "sent", got |-> {},
               mine |-> TRUE]}
  /\ uses = [r \in Resets |-> 0]
  /\ crossed = {} /\ cut = {} /\ tangled = FALSE /\ foreign = {}
  /\ made = 0 /\ breaks = 0

\* Mutant: a link is looked up by its invite.
ValidForItsInvite(l) ==
  /\ l.of \notin expired
  /\ IF l.of \in Invites THEN invite[l.of].status = "pending" ELSE ~reset[l.of].used

\* _get_pending_invite_by_token, _get_valid_reset: a resent invite has
\* another token.
Valid(l) ==
  /\ l.of \notin expired
  /\ IF l.of \in Invites THEN invite[l.of].status = "pending" /\ l.turn = invite[l.of].turn
     ELSE ~reset[l.of].used

Act == made < MaxActs /\ made' = made + 1 /\ UNCHANGED breaks

(***************************************************************************)
(* The pages                                                               *)
(***************************************************************************)

\* A link is opened in a page where nobody is logged in; the answer to its
\* validation says the form or an error.  A page with a form stays at its
\* link: the same link, or another, in another tab is another page.
OpenLink(p, l) ==
  /\ Act
  /\ page[p].at \in {"closed", "invalid"} /\ l \in Mailed
  /\ page' = [page EXCEPT ![p] = [at |-> IF Valid(l) THEN "form" ELSE "invalid",
                                  link |-> l, no |-> 0]]
  /\ UNCHANGED <<server, reqs, admin, history>>

\* handleSubmit, the passwords being the same; the button is disabled then.
Submit(p, n) ==
  /\ Act
  /\ page[p].at = "form"
  /\ page' = [page EXCEPT ![p].at = "submitting", ![p].no = made']
  /\ reqs' = reqs \cup {[no |-> made', page |-> p, link |-> page[p].link, name |-> n,
                         stage |-> "sent"]}
  /\ UNCHANGED <<server, admin, history>>

Moved(q, stage) == reqs' = (reqs \ {q}) \cup {[q EXCEPT !.stage = stage]}

\* What else is about to change an invite or a reset.
Changing(x) == \/ \E q \in reqs : q.link.of = x /\ q.stage \in {"loaded", "registered"}
               \/ \E c \in calls : c.on = x /\ c.stage = "loaded"
Cross(x) == crossed' = IF Changing(x) THEN crossed \cup {x} ELSE crossed

\* complete_signup and complete_password_reset look the link up, ...
Load(q) ==
  /\ q \in reqs /\ q.stage = "sent"
  /\ IF Valid(q.link) THEN Moved(q, "loaded") /\ Cross(q.link.of)
     ELSE Moved(q, "failed") /\ UNCHANGED crossed
  /\ UNCHANGED <<server, page, admin, uses, cut, made, breaks>>

\* Mutant: nothing keeps names and addresses unique.
RegisterAnyway(q) ==
  /\ q \in reqs /\ q.stage = "loaded" /\ q.link.of \in Invites
  /\ account' = account \cup {[name |-> q.name, email |-> invite[q.link.of].email,
                               by |-> q.link.of, turn |-> q.link.turn]}
  /\ Moved(q, "registered")
  /\ UNCHANGED <<invite, reset, expired, page, admin, history, made, breaks>>

\* ... register_user commits the account, whose name and e-mail are unique, ...
Register(q) ==
  /\ q \in reqs /\ q.stage = "loaded" /\ q.link.of \in Invites
  /\ LET e == invite[q.link.of].email
     IN IF \E a \in account : a.name = q.name \/ a.email = e
        THEN Moved(q, "failed") /\ UNCHANGED account
        ELSE /\ account' = account \cup {[name |-> q.name, email |-> e,
                                          by |-> q.link.of, turn |-> q.link.turn]}
             /\ Moved(q, "registered")
  /\ UNCHANGED <<invite, reset, expired, page, admin, history, made, breaks>>

\* ... then the invite, loaded as pending, is set to accepted.
Accept(q) ==
  /\ q \in reqs /\ q.stage = "registered"
  /\ invite' = [invite EXCEPT ![q.link.of].status = "accepted"]
  /\ Moved(q, "ok")
  /\ UNCHANGED <<account, reset, expired, page, admin, history, made, breaks>>

\* complete_password_reset: the password and the mark in one commit.
Complete(q) ==
  /\ q \in reqs /\ q.stage = "loaded" /\ q.link.of \in Resets
  /\ reset' = [reset EXCEPT ![q.link.of].used = TRUE]
  /\ uses' = [uses EXCEPT ![q.link.of] = @ + 1]
  /\ Moved(q, "ok")
  /\ UNCHANGED <<invite, account, expired, page, admin, crossed, cut, made, breaks>>

\* The server stops in the middle of a request, or cannot commit.
Stop(q) ==
  /\ q \in reqs /\ q.stage \in {"sent", "loaded", "registered"} /\ breaks < MaxBreaks
  /\ breaks' = breaks + 1
  /\ Moved(q, "failed")
  /\ cut' = IF q.stage = "registered" THEN cut \cup {q.link.of} ELSE cut
  /\ UNCHANGED <<server, page, admin, uses, crossed, made>>

\* The page gives a request up that the server goes on with.
Lose(p) ==
  /\ page[p].at = "submitting" /\ breaks < MaxBreaks
  /\ breaks' = breaks + 1
  /\ page' = [page EXCEPT ![p].at = "form", ![p].no = 0]
  /\ UNCHANGED <<server, reqs, admin, history, made>>

\* The answer: the page is logged in, or back at its form with an error.
Answer(q) ==
  /\ q \in reqs /\ q.stage \in {"ok", "failed"}
  /\ reqs' = reqs \ {q}
  /\ page' = IF page[q.page].no # q.no THEN page
             ELSE [page EXCEPT ![q.page].at = IF q.stage = "ok" THEN "in" ELSE "form",
                               ![q.page].no = 0]
  /\ UNCHANGED <<server, admin, history, made, breaks>>

\* request_password_reset, which answers the same for an unknown address.
AskReset(r, e) ==
  /\ Act
  /\ reset[r].email = None /\ \E a \in account : a.email = e
  /\ reset' = [reset EXCEPT ![r].email = e]
  /\ UNCHANGED <<invite, account, expired, page, reqs, admin, history>>

\* Seven days, a quarter of an hour.
Expire(x) ==
  /\ x \notin expired
  /\ IF x \in Invites THEN invite[x].status = "pending" ELSE reset[x].email # None
  /\ expired' = expired \cup {x}
  /\ UNCHANGED <<invite, account, reset, page, reqs, admin, history, made, breaks>>

(***************************************************************************)
(* The admin                                                               *)
(***************************************************************************)

Own == {c \in calls : c.mine}
Ask(k, x, no, mine) == [no |-> no, kind |-> k, on |-> x, stage |-> "sent", got |-> {},
                        mine |-> mine]

\* The page sends a call: a list may come back older than a change of its own
\* that is under way, until a list is loaded with nothing else under way.
Send(c, own) ==
  /\ calls' = (calls \ (Own \ own)) \cup {c}
  /\ tangled' = IF own = {} THEN tangled /\ c.kind # "list"
                ELSE tangled \/ "list" \in {d.kind : d \in own \cup {c}}

\* The Users tab is opened again.
OpenUsers ==
  /\ Act
  /\ Send(Ask("list", None, made', TRUE), Own)
  /\ UNCHANGED <<server, page, reqs, shown, busy, foreign, history>>

\* handleInviteUser, whose button waits for the answer.
Invite(e) ==
  /\ Act
  /\ \A c \in Own : c.kind # "invite"
  /\ Send(Ask("invite", e, made', TRUE), Own)
  /\ UNCHANGED <<server, page, reqs, shown, busy, foreign, history>>

\* handleRevokeSiteInvite, handleResendSiteInvite: withBusy keeps one id for all
\* rows of the page, so that a call on one row frees the buttons of another.
Change(k, i) ==
  /\ Act
  /\ i \in shown /\ busy # i
  /\ busy' = i
  /\ Send(Ask(k, i, made', TRUE), Own)
  /\ UNCHANGED <<server, page, reqs, shown, foreign, history>>

\* A user, a room or a bot is acted upon, or that ends.
OtherRow ==
  /\ busy # None /\ busy' = None
  /\ UNCHANGED <<server, page, reqs, shown, calls, tangled, foreign, history, made, breaks>>

\* Another admin invites, or revokes or resends an invite his page has shown.
Elsewhere(k, x) ==
  /\ Act
  /\ k # "invite" => invite[x].status # "none"
  /\ calls' = calls \cup {Ask(k, x, made', FALSE)}
  /\ UNCHANGED <<server, page, reqs, shown, busy, tangled, foreign, history>>

Pending == {i \in Invites : invite[i].status = "pending"}

\* A call goes on; the answer to another admin's goes to another page.
Served(c, stage, got) ==
  calls' = (calls \ {c}) \cup (IF c.mine \/ stage = "loaded"
                               THEN {[c EXCEPT !.stage = stage, !.got = got]} ELSE {})
Note(c, i) == foreign' = IF c.mine THEN foreign ELSE foreign \cup {i}

\* create_site_invite; list_site_invites.
ServeInvite(c) ==
  /\ c \in calls /\ c.kind = "invite" /\ c.stage = "sent"
  /\ \E i \in Invites : /\ invite[i].status = "none"
                        /\ invite' = [invite EXCEPT ![i] = [email |-> c.on, status |-> "pending",
                                                            turn |-> 1]]
                        /\ Note(c, i)
  /\ Served(c, "ok", {})
  /\ UNCHANGED <<account, reset, expired, page, reqs, shown, busy, tangled, history, made, breaks>>
ServeList(c) ==
  /\ c \in calls /\ c.kind = "list" /\ c.stage = "sent"
  /\ Served(c, "ok", Pending)
  /\ foreign' = IF c.mine THEN {} ELSE foreign
  /\ UNCHANGED <<server, page, reqs, shown, busy, tangled, history, made, breaks>>

\* revoke_site_invite, resend_site_invite: the invite is loaded, ...
LoadInvite(c) ==
  /\ c \in calls /\ c.kind \in {"revoke", "resend"} /\ c.stage = "sent"
  /\ IF c.on \in Pending THEN Served(c, "loaded", {}) /\ Cross(c.on)
     ELSE Served(c, "failed", {}) /\ UNCHANGED crossed
  /\ UNCHANGED <<server, page, reqs, shown, busy, tangled, foreign, uses, cut, made, breaks>>

\* ... and its status, or its token and its expiry, committed.
CommitInvite(c) ==
  /\ c \in calls /\ c.stage = "loaded"
  /\ IF c.kind = "revoke"
     THEN /\ invite' = [invite EXCEPT ![c.on].status = "revoked"]
          /\ Note(c, c.on) /\ UNCHANGED expired
     ELSE /\ invite' = [invite EXCEPT ![c.on].turn = @ + 1]
          /\ expired' = expired \ {c.on} /\ UNCHANGED foreign
  /\ Served(c, "ok", {})
  /\ UNCHANGED <<account, reset, page, reqs, shown, busy, tangled, history, made, breaks>>

\* What the end of a call does to busyId.
Free(c) == busy' = IF c.kind \in {"revoke", "resend"} THEN None ELSE busy

\* The page loses a call, which the server may go on with.
LoseCall(c) ==
  /\ c \in Own /\ c.stage # "failed" /\ breaks < MaxBreaks
  /\ breaks' = breaks + 1
  /\ \E rest \in {{}, {[c EXCEPT !.mine = FALSE]}} : calls' = (calls \ {c}) \cup rest
  /\ tangled' = TRUE /\ Free(c)
  /\ UNCHANGED <<server, page, reqs, shown, foreign, history, made>>

\* Mutant: a revoked invite stays in the list.
AnsweredKeeping(c) ==
  /\ c \in Own /\ c.stage \in {"ok", "failed"}
  /\ shown' = IF c.kind = "list" /\ c.stage = "ok" THEN c.got ELSE shown
  /\ Free(c)
  /\ IF c.kind = "invite" /\ c.stage = "ok"
     THEN Send(Ask("list", None, c.no, TRUE), Own \ {c})
     ELSE calls' = calls \ {c} /\ UNCHANGED tangled
  /\ UNCHANGED <<server, page, reqs, foreign, history, made, breaks>>

\* The list is replaced, an invite revoked leaves it, one resent stays; a new
\* one is listed by loading the list again.
Answered(c) ==
  /\ c \in Own /\ c.stage \in {"ok", "failed"}
  /\ shown' = CASE c.stage = "ok" /\ c.kind = "list" -> c.got
                [] c.stage = "ok" /\ c.kind = "revoke" -> shown \ {c.on}
                [] OTHER -> shown
  /\ Free(c)
  /\ IF c.kind = "invite" /\ c.stage = "ok"
     THEN Send(Ask("list", None, c.no, TRUE), Own \ {c})
     ELSE calls' = calls \ {c} /\ UNCHANGED tangled
  /\ UNCHANGED <<server, page, reqs, foreign, history, made, breaks>>

Next ==
  \/ \E p \in Pages :
       \/ \E l \in Mailed : OpenLink(p, l)
       \/ \E n \in Names : Submit(p, n)
       \/ Lose(p)
  \/ \E q \in reqs :
       Load(q) \/ Register(q) \/ Accept(q) \/ Complete(q) \/ Stop(q) \/ Answer(q)
  \/ \E r \in Resets, e \in Emails : AskReset(r, e)
  \/ \E x \in Invites \cup Resets : Expire(x)
  \/ OpenUsers \/ OtherRow
  \/ \E e \in Emails : Invite(e) \/ Elsewhere("invite", e)
  \/ \E i \in Invites, k \in {"revoke", "resend"} : Change(k, i) \/ Elsewhere(k, i)
  \/ \E c \in calls : \/ ServeInvite(c) \/ ServeList(c) \/ LoadInvite(c) \/ CommitInvite(c)
                      \/ LoseCall(c) \/ Answered(c)

Spec == Init /\ [][Next]_vars

(***************************************************************************)
(* Properties                                                              *)
(***************************************************************************)

\* Every variable has its type.
Requests == [no : Nat \ {0}, page : Pages, link : [of : Invites \cup Resets, turn : Nat], name : Names,
             stage : {"sent", "loaded", "registered", "ok", "failed"}]
Calls == [no : Nat, kind : {"list", "invite"}, on : Emails \cup {None},
          stage : {"sent", "ok", "failed"}, got : SUBSET Invites, mine : BOOLEAN]
           \cup [no : Nat, kind : {"revoke", "resend"}, on : Invites,
                 stage : {"sent", "loaded", "ok", "failed"}, got : {{}}, mine : BOOLEAN]
TypeOK ==
  /\ invite \in [Invites -> [email : Emails \cup {None}, turn : Nat,
                            status : {"none", "pending", "accepted", "revoked"}]]
  /\ account \subseteq [name : Names, email : Emails \cup {None}, by : Invites \cup {None},
                        turn : Nat]
  /\ reset \in [Resets -> [email : Emails \cup {None}, used : BOOLEAN]]
  /\ expired \subseteq Invites \cup Resets
  /\ page \in [Pages -> [at : {"closed", "invalid"}, no : {0},
                         link : [of : Invites \cup Resets, turn : Nat] \cup {None}]
                        \cup [at : {"form", "submitting", "in"}, no : Nat,
                              link : [of : Invites \cup Resets, turn : Nat]]]
  /\ reqs \subseteq Requests /\ calls \subseteq Calls
  /\ shown \cup foreign \subseteq Invites /\ tangled \in BOOLEAN
  /\ busy \in Invites \cup {None}
  /\ uses \in [Resets -> Nat]
  /\ crossed \cup cut \subseteq Invites \cup Resets
  /\ {made, breaks} \subseteq Nat

\* However many pages hold the links of an invite, and however often they are
\* sent again after a lost answer, it makes one account at most, no two
\* accounts share an address, and the invite ends accepted exactly if it made
\* one.  Excepted are invites with two changes under way at once, be they
\* sign-ups, revocations or resends, and a sign-up that ended between its two
\* commits.
InvitesSettle ==
  /\ \A a, b \in account : a.email = b.email \/ a.name = b.name => a = b
  /\ \A i \in Invites : i \notin crossed \cup cut =>
       (~Changing(i) => (invite[i].status = "accepted" <=> \E a \in account : a.by = i))

\* "The old link stops working the moment this runs": an account comes by the
\* last link its invite was mailed with, and a reset sets the password once,
\* unless two requests that change the row overlapped, or a sign-up ended
\* between its two commits: its invite can be resent.
LastLinkOnly ==
  /\ \A a \in account :
       a.by \notin crossed \cup cut \cup {None} => a.turn = invite[a.by].turn
  /\ \A r \in Resets : r \in crossed \/ uses[r] <= 1

\* Once the calls of the admin's page are answered, it shows every pending
\* invite and none that was revoked, whatever calls of it overlapped on an
\* invite, and whatever other admins and the invited do; only accepted ones
\* may linger.  Excepted are invites made or revoked elsewhere since the list
\* was read, and a list that overlapped another call of the page, or a lost
\* call, until a list is loaded alone.
PendingListed ==
  (Own = {} /\ ~tangled) =>
    \A i \in Invites \ foreign : /\ invite[i].status = "pending" => i \in shown
                                 /\ i \in shown => invite[i].status # "revoked"
=============================================================================
