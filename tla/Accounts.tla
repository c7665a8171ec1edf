------------------------------ MODULE Accounts ------------------------------
(***************************************************************************)
(* Who is in, and who may act on whom: accounts and their site admins      *)
(* (backend services/admin_service.py, audit.py, dependencies.py), the     *)
(* sessions of their browsers (session_service.py, routers/auth.py), the   *)
(* push subscription a browser holds (push_service.py), and the client     *)
(* that drives them (frontend AuthContext.tsx, lib/push.ts, TopBar.tsx,    *)
(* LoginPage.tsx, the session list of ProfileModal.tsx, the user table of  *)
(* AdminPage.tsx).                                                         *)
(*                                                                         *)
(* A request loads the rows it needs and commits later, what it changed of *)
(* them only; others are served in between.                                *)
(***************************************************************************)
EXTENDS Naturals, FiniteSets, Sequences

CONSTANTS
  Users, Browsers, Sessions,
  FirstAdmins,  \* the site admins at first
  FirstUser,    \* who is logged in to each browser at first
  FirstSession, \* and his session
  None,
  MaxActs       \* bound on what is asked of the server

ASSUME AccountsAssumption ==
  /\ FirstAdmins \subseteq Users /\ FirstAdmins # {}
  /\ FirstUser \in [Browsers -> Users]
  /\ FirstSession \in [Browsers -> Sessions]
  /\ \A b, c \in Browsers : FirstSession[b] = FirstSession[c] => b = c
  /\ None \notin Users \cup Sessions

VARIABLES
  active, admins, \* User.is_active, User.is_site_admin
  owner,          \* the user of a session, None before it is created
  revoked,        \* Session.revoked_at
  endpoint,       \* the user of the push subscription of a browser
  log,            \* the audit log, in the order of the commits (see AdminPage for created_at)
  reqs,           \* admin requests: rows loaded, not committed
  seen,           \* requests that resolved a session, not committed
  cookie,         \* the session a browser's cookie carries
  shown,          \* AuthContext's user
  device,         \* the browser's own push subscription
  leaving,        \* logout() of a browser: "no", "unsubscribe" or "revoke"
  asking,         \* subscribeToPush() of a browser under way
  raced,          \* history: an admin request was committed by none
  overtaken,      \* history: flags that changed under a request
  cut,            \* history: the browsers that lost a user without unsubscribing
  made

rows == <<active, admins, log>>
sessions == <<owner, revoked>>
browsers == <<cookie, shown, device, leaving, asking>>
history == <<raced, overtaken, cut>>
vars == <<rows, sessions, endpoint, reqs, seen, browsers, history, made>>

Flags == {"active", "admin"}
Requests == [by : Users, on : Users, flag : Flags, to : BOOLEAN, had : BOOLEAN]
Has(u, flag) == u \in (IF flag = "active" THEN active ELSE admins)

Init ==
  /\ active = Users /\ admins = FirstAdmins /\ log = <<>>
  /\ owner = [s \in Sessions |-> IF \E b \in Browsers : FirstSession[b] = s
                THEN FirstUser[CHOOSE b \in Browsers : FirstSession[b] = s] ELSE None]
  /\ revoked = {} /\ reqs = {} /\ seen = {}
  /\ endpoint = [b \in Browsers |-> None]
  /\ cookie = FirstSession /\ shown = FirstUser
  /\ device = [b \in Browsers |-> FALSE]
  /\ leaving = [b \in Browsers |-> "no"]
  /\ asking = [b \in Browsers |-> FALSE]
  /\ raced = FALSE /\ overtaken = {} /\ cut = {}
  /\ made = 0

\* resolve_session and get_current_user: the user of a browser's request.
Live(s) == s # None /\ s \notin revoked
Caller(b) == IF Live(cookie[b]) /\ owner[cookie[b]] \in active THEN owner[cookie[b]] ELSE None
IsAdmin(u) == u \in active /\ u \in admins

Act == made < MaxActs /\ made' = made + 1

(***************************************************************************)
(* Site admins                                                             *)
(***************************************************************************)

\* Mutant: an admin may act on himself.
MayActOnAnyone(u, t) == IsAdmin(u)

\* require_site_admin, CannotActOnSelfError; the buttons of the user's own
\* row are disabled too.
MayActOn(u, t) == IsAdmin(u) /\ t # u

\* deactivate, reactivate, promote, demote: up to the rows.
LoadUser(b, t, flag, to) ==
  /\ Act
  /\ Caller(b) # None /\ MayActOn(Caller(b), t)
  /\ reqs' = reqs \cup {[by |-> Caller(b), on |-> t, flag |-> flag, to |-> to,
                         had |-> Has(t, flag)]}
  /\ UNCHANGED <<rows, sessions, endpoint, seen, browsers, history>>

Set(S, u, to) == IF to THEN S \cup {u} ELSE S \ {u}

Entry(r) == [on |-> r.on, flag |-> r.flag, to |-> r.to]

\* Mutant: the entry is only written for a change.
CommitLoggingChanges(r) ==
  /\ r \in reqs /\ reqs' = reqs \ {r}
  /\ active' = IF r.flag = "active" THEN Set(active, r.on, r.to) ELSE active
  /\ admins' = IF r.flag = "admin" THEN Set(admins, r.on, r.to) ELSE admins
  /\ log' = IF r.had # r.to /\ r.to THEN Append(log, Entry(r)) ELSE log
  /\ UNCHANGED <<sessions, endpoint, seen, browsers, history, made>>

\* set_user_active, set_user_site_admin: the column is written if it differs
\* from what was loaded, the entry always, both at once.
CommitUser(r) ==
  /\ r \in reqs /\ reqs' = reqs \ {r}
  /\ active' = IF r.flag = "active" /\ r.had # r.to THEN Set(active, r.on, r.to) ELSE active
  /\ admins' = IF r.flag = "admin" /\ r.had # r.to THEN Set(admins, r.on, r.to) ELSE admins
  /\ log' = Append(log, Entry(r))
  /\ raced' = (raced \/ ~IsAdmin(r.by))
  /\ overtaken' = IF Has(r.on, r.flag) # r.had THEN overtaken \cup {<<r.on, r.flag>>}
                  ELSE overtaken
  /\ UNCHANGED <<sessions, endpoint, seen, browsers, cut, made>>

(***************************************************************************)
(* Sessions                                                                *)
(***************************************************************************)

\* Any request whose session was last seen long ago: the row is read, ...
Resolve(b) ==
  /\ Act
  /\ Live(cookie[b]) /\ cookie[b] \notin seen
  /\ seen' = seen \cup {cookie[b]}
  /\ UNCHANGED <<rows, sessions, endpoint, reqs, browsers, history>>

\* Mutant: ... and written back whole.
TouchWhole(s) ==
  /\ s \in seen /\ seen' = seen \ {s}
  /\ revoked' = revoked \ {s}
  /\ UNCHANGED <<rows, owner, endpoint, reqs, browsers, history, made>>

\* ... and its last_seen_at, which nothing here depends on, written.
Touch(s) ==
  /\ s \in seen /\ seen' = seen \ {s}
  /\ UNCHANGED <<rows, sessions, endpoint, reqs, browsers, history, made>>

\* handleRevokeSession of another of his sessions, revoke_session.
RevokeSession(b, s) ==
  /\ Act
  /\ Caller(b) # None /\ s # cookie[b]
  /\ owner[s] = Caller(b) /\ s \notin revoked
  /\ revoked' = revoked \cup {s}
  /\ UNCHANGED <<rows, owner, endpoint, reqs, seen, browsers, history>>

\* login: the page without a user, an active account, a new session.
Login(b, u) ==
  /\ Act
  /\ shown[b] = None /\ u \in active
  /\ \E s \in Sessions :
       /\ owner[s] = None
       /\ owner' = [owner EXCEPT ![s] = u]
       /\ cookie' = [cookie EXCEPT ![b] = s]
  /\ shown' = [shown EXCEPT ![b] = u]
  /\ UNCHANGED <<rows, revoked, endpoint, reqs, seen, device, leaving, asking, history>>

\* The page is loaded anew: me(), or the user it remembers when the server
\* is out of reach. The page's calls end.
Reload(b) ==
  /\ Act
  /\ leaving[b] = "no"
  /\ \E reached \in BOOLEAN :
       /\ shown' = [shown EXCEPT ![b] = IF reached THEN Caller(b) ELSE @]
       /\ cookie' = [cookie EXCEPT ![b] = IF reached /\ Caller(b) = None THEN None ELSE @]
       /\ cut' = IF reached /\ Caller(b) # shown[b] THEN cut \cup {b} ELSE cut
  /\ asking' = [asking EXCEPT ![b] = FALSE]
  /\ UNCHANGED <<rows, sessions, endpoint, reqs, seen, device, leaving, raced, overtaken>>

(***************************************************************************)
(* Logging out, push subscriptions                                         *)
(***************************************************************************)

\* subscribeToPush: the permission is asked for, the service worker waited
\* for, ...
AskPush(b) ==
  /\ Act
  /\ shown[b] # None /\ ~device[b] /\ ~asking[b]
  /\ asking' = [asking EXCEPT ![b] = TRUE]
  /\ UNCHANGED <<rows, sessions, endpoint, reqs, seen, cookie, shown, device, leaving, history>>

\* ... then the browser subscribes and the server keeps its endpoint for the
\* caller, whose it was before or not.
Subscribe(b) ==
  /\ asking[b]
  /\ asking' = [asking EXCEPT ![b] = FALSE]
  /\ \E granted \in BOOLEAN :
       /\ device' = [device EXCEPT ![b] = @ \/ granted]
       /\ endpoint' = [endpoint EXCEPT ![b] = IF granted /\ Caller(b) # None THEN Caller(b) ELSE @]
  /\ cut' = IF leaving[b] = "no" THEN cut ELSE cut \cup {b}
  /\ UNCHANGED <<rows, sessions, reqs, seen, cookie, shown, leaving, raced, overtaken, made>>

\* handleTogglePush, to off: the row goes if it is the caller's.
TurnPushOff(b) ==
  /\ Act
  /\ shown[b] # None /\ leaving[b] = "no" /\ device[b] /\ Caller(b) # None
  /\ endpoint' = [endpoint EXCEPT ![b] = IF @ = Caller(b) THEN None ELSE @]
  /\ device' = [device EXCEPT ![b] = FALSE]
  /\ UNCHANGED <<rows, sessions, reqs, seen, cookie, shown, leaving, asking, history>>

\* Mutant: the push subscription is forgotten.
LogOutOnly(b) ==
  /\ Act
  /\ shown[b] # None /\ leaving[b] = "no"
  /\ leaving' = [leaving EXCEPT ![b] = "revoke"]
  /\ UNCHANGED <<rows, sessions, endpoint, reqs, seen, cookie, shown, device, asking, history>>

\* logout: first unsubscribeFromPush, if the browser has a subscription.
LogOut(b) ==
  /\ Act
  /\ shown[b] # None /\ leaving[b] = "no"
  /\ leaving' = [leaving EXCEPT ![b] = IF device[b] THEN "unsubscribe" ELSE "revoke"]
  /\ UNCHANGED <<rows, sessions, endpoint, reqs, seen, cookie, shown, device, asking, history>>

\* The server forgets the endpoint of the caller, then the browser its own;
\* a refusal or an error stops neither the logout nor the subscription.
Unsubscribe(b) ==
  /\ leaving[b] = "unsubscribe"
  /\ leaving' = [leaving EXCEPT ![b] = "revoke"]
  /\ IF Caller(b) # None
     THEN /\ endpoint' = [endpoint EXCEPT ![b] = IF @ = Caller(b) THEN None ELSE @]
          /\ device' = [device EXCEPT ![b] = FALSE]
     ELSE UNCHANGED <<endpoint, device>>
  /\ cut' = IF Caller(b) # None THEN cut ELSE cut \cup {b}
  /\ UNCHANGED <<rows, sessions, reqs, seen, cookie, shown, asking, raced, overtaken,
                 made>>
UnsubscribeFails(b) ==
  /\ leaving[b] = "unsubscribe"
  /\ leaving' = [leaving EXCEPT ![b] = "revoke"]
  /\ cut' = cut \cup {b}
  /\ UNCHANGED <<rows, sessions, endpoint, reqs, seen, cookie, shown, device, asking,
                 raced, overtaken, made>>

\* POST /logout revokes the session and clears the cookie, the page its user.
Leave(b) ==
  /\ leaving[b] = "revoke"
  /\ leaving' = [leaving EXCEPT ![b] = "no"]
  /\ revoked' = IF cookie[b] = None THEN revoked ELSE revoked \cup {cookie[b]}
  /\ cookie' = [cookie EXCEPT ![b] = None]
  /\ shown' = [shown EXCEPT ![b] = None]
  /\ UNCHANGED <<rows, owner, endpoint, reqs, seen, device, asking, history, made>>

Next ==
  \/ \E b \in Browsers, t \in Users, f \in Flags, to \in BOOLEAN : LoadUser(b, t, f, to)
  \/ \E r \in reqs : CommitUser(r)
  \/ \E s \in seen : Touch(s)
  \/ \E b \in Browsers :
       \/ Resolve(b) \/ Reload(b) \/ AskPush(b) \/ Subscribe(b) \/ TurnPushOff(b) \/ LogOut(b)
       \/ Unsubscribe(b) \/ UnsubscribeFails(b) \/ Leave(b)
       \/ \E s \in Sessions : RevokeSession(b, s)
       \/ \E u \in Users : Login(b, u)

Spec == Init /\ [][Next]_vars

(***************************************************************************)
(* Properties                                                              *)
(***************************************************************************)

\* Every variable has its type.
TypeOK ==
  /\ active \subseteq Users /\ admins \subseteq Users
  /\ owner \in [Sessions -> Users \cup {None}] /\ revoked \subseteq Sessions
  /\ endpoint \in [Browsers -> Users \cup {None}]
  /\ log \in Seq([on : Users, flag : Flags, to : BOOLEAN])
  /\ reqs \subseteq Requests
  /\ seen \subseteq Sessions
  /\ cookie \in [Browsers -> Sessions \cup {None}]
  /\ shown \in [Browsers -> Users \cup {None}]
  /\ device \in [Browsers -> BOOLEAN] /\ asking \in [Browsers -> BOOLEAN]
  /\ leaving \in [Browsers -> {"no", "unsubscribe", "revoke"}]
  /\ raced \in BOOLEAN /\ overtaken \subseteq Users \X Flags /\ cut \subseteq Browsers

\* The site never runs out of admins who can act, unless an admin lost his
\* rights between the check of a request of his and its commit.
AdminRemains == raced \/ \E u \in Users : IsAdmin(u)

\* The last entry of the audit log about a flag of an account tells the flag,
\* unless it changed between the load and the commit of a request.
LogTellsAll ==
  \A u \in Users, f \in Flags :
    LET about == {i \in 1 .. Len(log) : log[i].on = u /\ log[i].flag = f}
    IN <<u, f>> \in overtaken
       \/ IF about = {} THEN Has(u, f) = (f = "active" \/ u \in FirstAdmins)
          ELSE \E i \in about : (\A j \in about : j <= i) /\ Has(u, f) = log[i].to

\* No request of a session brings it back once it is revoked.
RevokedStaysRevoked == [][revoked \subseteq revoked']_vars

\* The pushes a browser gets are those of the user logged in to it, who left
\* it if nobody is, unless the browser could not unsubscribe: the call failed,
\* the session was no longer good for it, or a subscription was on its way.
PushGoesToUser ==
  \A b \in Browsers : b \in cut \/ endpoint[b] \in {None, shown[b]}
=============================================================================
