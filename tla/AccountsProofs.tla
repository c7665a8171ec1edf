--------------------------- MODULE AccountsProofs ---------------------------
(***************************************************************************)
(* Proofs about the module Accounts, for every set of users, browsers and  *)
(* sessions and any number of requests.                                    *)
(***************************************************************************)
EXTENDS Accounts, TLAPS

\* Appending an entry to the audit log gives an audit log.
LEMMA LogGrows ==
  ASSUME NEW l \in Seq([on : Users, flag : Flags, to : BOOLEAN]), NEW r \in Requests
  PROVE Append(l, Entry(r)) \in Seq([on : Users, flag : Flags, to : BOOLEAN])
BY DEF Requests, Entry

\* The caller of a request is a user.
LEMMA CallerType ==
  ASSUME TypeOK, NEW b \in Browsers
  PROVE Caller(b) \in Users \cup {None}
BY DEF TypeOK, Caller, Live

\* Every step keeps the types.
LEMMA TypeStep == TypeOK /\ [Next]_vars => TypeOK'
<1> SUFFICES ASSUME TypeOK, [Next]_vars PROVE TypeOK'
  OBVIOUS
<1> USE AccountsAssumption
<1>1. ASSUME NEW b \in Browsers, NEW t \in Users, NEW f \in Flags, NEW to \in BOOLEAN,
             LoadUser(b, t, f, to)
      PROVE TypeOK'
  <2>1. Caller(b) \in Users BY <1>1, CallerType DEF LoadUser
  <2>2. Has(t, f) \in BOOLEAN
    <3> DEFINE S == IF f = "active" THEN active ELSE admins
    <3>1. Has(t, f) = (t \in S) BY DEF Has
    <3> HIDE DEF S
    <3>2. (t \in S) \in BOOLEAN OBVIOUS
    <3> QED BY <3>1, <3>2, Zenon
  <2>3. [by |-> Caller(b), on |-> t, flag |-> f, to |-> to, had |-> Has(t, f)] \in Requests
    BY <2>1, <2>2 DEF Requests
  <2> QED BY <1>1, <2>3 DEF LoadUser, TypeOK, rows, sessions, browsers, history
<1>2. ASSUME NEW r \in reqs, CommitUser(r) PROVE TypeOK'
  <2>1. r \in Requests BY DEF TypeOK
  <2>2. /\ r.on \in Users /\ r.flag \in Flags BY <2>1 DEF Requests
  <2>3. active' \subseteq Users /\ admins' \subseteq Users
    BY <1>2, <2>2 DEF CommitUser, Set, TypeOK
  <2>4. log' \in Seq([on : Users, flag : Flags, to : BOOLEAN])
    BY <1>2, <2>1, LogGrows DEF CommitUser, TypeOK
  <2>5. overtaken' \subseteq Users \X Flags BY <1>2, <2>2 DEF CommitUser, TypeOK
  <2>6. raced' \in BOOLEAN BY <1>2 DEF CommitUser, TypeOK
  <2> QED BY <1>2, <2>3, <2>4, <2>5, <2>6 DEF CommitUser, TypeOK, sessions, browsers
<1>3. ASSUME NEW s \in seen, Touch(s) PROVE TypeOK'
  BY <1>3 DEF Touch, TypeOK, rows, sessions, browsers, history
<1>4. ASSUME NEW b \in Browsers, Resolve(b) PROVE TypeOK'
  BY <1>4 DEF Resolve, Live, TypeOK, rows, sessions, browsers, history
<1>5. ASSUME NEW b \in Browsers, Reload(b) PROVE TypeOK'
  BY <1>5, CallerType DEF Reload, TypeOK, rows, sessions
<1>6. ASSUME NEW b \in Browsers, AskPush(b) PROVE TypeOK'
  BY <1>6 DEF AskPush, TypeOK, rows, sessions, history
<1>7. ASSUME NEW b \in Browsers, Subscribe(b) PROVE TypeOK'
  BY <1>7, CallerType DEF Subscribe, TypeOK, rows, sessions
<1>8. ASSUME NEW b \in Browsers, TurnPushOff(b) PROVE TypeOK'
  BY <1>8 DEF TurnPushOff, TypeOK, rows, sessions, history
<1>9. ASSUME NEW b \in Browsers, LogOut(b) PROVE TypeOK'
  BY <1>9 DEF LogOut, TypeOK, rows, sessions, history
<1>10. ASSUME NEW b \in Browsers, Unsubscribe(b) PROVE TypeOK'
  BY <1>10 DEF Unsubscribe, TypeOK, rows, sessions
<1>11. ASSUME NEW b \in Browsers, UnsubscribeFails(b) PROVE TypeOK'
  BY <1>11 DEF UnsubscribeFails, TypeOK, rows, sessions
<1>12. ASSUME NEW b \in Browsers, Leave(b) PROVE TypeOK'
  BY <1>12 DEF Leave, TypeOK, rows, history
<1>14. ASSUME NEW b \in Browsers, NEW s \in Sessions, RevokeSession(b, s) PROVE TypeOK'
  BY <1>14 DEF RevokeSession, TypeOK, rows, browsers, history
<1>15. ASSUME NEW b \in Browsers, NEW u \in Users, Login(b, u) PROVE TypeOK'
  BY <1>15 DEF Login, TypeOK, rows, history
<1>16. CASE UNCHANGED vars
  BY <1>16 DEF TypeOK, vars, rows, sessions, browsers, history
<1> QED BY <1>1, <1>2, <1>3, <1>4, <1>5, <1>6, <1>7, <1>8, <1>9, <1>10, <1>11, <1>12, <1>14,
           <1>15, <1>16 DEF Next

\* The first state has the types.
LEMMA TypeInit == Init => TypeOK
<1> SUFFICES ASSUME Init PROVE TypeOK
  OBVIOUS
<1> USE AccountsAssumption DEF Init
<1>1. owner \in [Sessions -> Users \cup {None}] OBVIOUS
<1>2. log \in Seq([on : Users, flag : Flags, to : BOOLEAN]) OBVIOUS
<1> QED BY <1>1, <1>2 DEF TypeOK

\* The state of accounts, sessions and browsers is well typed at all times.
THEOREM Types == Spec => []TypeOK
BY TypeInit, TypeStep, PTL DEF Spec

(***************************************************************************)
(* Site admins                                                             *)
(***************************************************************************)

\* What keeps an admin: no request is about the one who made it.
OthersOnly == \A r \in reqs : r.on # r.by
AdminInv == TypeOK /\ OthersOnly /\ AdminRemains

\* A commit by an admin who is one still leaves him one.
LEMMA CommitKeepsAdmin ==
  ASSUME AdminInv, NEW r \in reqs, CommitUser(r) PROVE AdminRemains'
<1>1. CASE raced'
  BY <1>1 DEF AdminRemains
<1>2. CASE ~raced'
  <2>1. r \in Requests BY DEF AdminInv, TypeOK
  <2>2. r.by \in Users /\ r.on # r.by BY <2>1 DEF Requests, AdminInv, OthersOnly
  <2>3. IsAdmin(r.by) BY <1>2 DEF CommitUser
  <2>4. r.by \in active' /\ r.by \in admins'
    BY <2>2, <2>3 DEF CommitUser, Set, IsAdmin
  <2> QED BY <2>2, <2>4 DEF AdminRemains, IsAdmin
<1> QED BY <1>1, <1>2

\* Every step keeps the invariant.
LEMMA AdminStep == AdminInv /\ [Next]_vars => AdminInv'
<1> SUFFICES ASSUME AdminInv, [Next]_vars PROVE AdminInv'
  OBVIOUS
<1>1. TypeOK' BY TypeStep DEF AdminInv
<1>2. ASSUME NEW b \in Browsers, NEW t \in Users, NEW f \in Flags, NEW to \in BOOLEAN,
             LoadUser(b, t, f, to)
      PROVE OthersOnly' /\ AdminRemains'
  BY <1>2 DEF LoadUser, MayActOn, AdminInv, OthersOnly, AdminRemains, IsAdmin, rows, history
<1>3. ASSUME NEW r \in reqs, CommitUser(r) PROVE OthersOnly' /\ AdminRemains'
  <2>1. OthersOnly' BY <1>3 DEF CommitUser, AdminInv, OthersOnly
  <2> QED BY <1>3, <2>1, CommitKeepsAdmin
<1>4. CASE UNCHANGED <<active, admins, reqs, raced>>
  BY <1>1, <1>4 DEF AdminInv, OthersOnly, AdminRemains, IsAdmin
<1>5. ASSUME NEW b \in Browsers,
             \/ Resolve(b) \/ Reload(b) \/ AskPush(b) \/ Subscribe(b) \/ TurnPushOff(b) \/ LogOut(b)
             \/ Unsubscribe(b) \/ UnsubscribeFails(b) \/ Leave(b)
             \/ \E s \in Sessions : RevokeSession(b, s)
             \/ \E u \in Users : Login(b, u)
      PROVE UNCHANGED <<active, admins, reqs, raced>>
  BY <1>5 DEF Resolve, Reload, AskPush, Subscribe, TurnPushOff, LogOut, Unsubscribe,
              UnsubscribeFails, Leave, RevokeSession, Login, rows, history
<1>6. ASSUME NEW s \in seen, Touch(s) PROVE UNCHANGED <<active, admins, reqs, raced>>
  BY <1>6 DEF Touch, rows, history
<1>7. UNCHANGED vars => UNCHANGED <<active, admins, reqs, raced>>
  BY DEF vars, rows, history
<1> QED BY <1>1, <1>2, <1>3, <1>4, <1>5, <1>6, <1>7 DEF Next, AdminInv

\* A site with an admin keeps one who can act, whatever its admins do to each
\* other, as long as no request is committed after its author lost his rights.
THEOREM AdminStays == Spec => []AdminRemains
<1>1. Init => AdminInv
  <2> SUFFICES ASSUME Init PROVE OthersOnly /\ AdminRemains
    BY TypeInit DEF AdminInv
  <2> QED BY AccountsAssumption DEF Init, OthersOnly, AdminRemains, IsAdmin
<1>2. AdminInv => AdminRemains BY DEF AdminInv
<1> QED BY <1>1, <1>2, AdminStep, PTL DEF Spec

(***************************************************************************)
(* The audit log                                                           *)
(***************************************************************************)

\* The entries of the audit log about a flag of an account.
About(u, f) == {i \in 1 .. Len(log) : log[i].on = u /\ log[i].flag = f}
\* What the log says of a flag is so.
Tells(u, f) ==
  IF About(u, f) = {} THEN Has(u, f) = (f = "active" \/ u \in FirstAdmins)
  ELSE \E i \in About(u, f) : (\A j \in About(u, f) : j <= i) /\ Has(u, f) = log[i].to
LogInv == TypeOK /\ LogTellsAll

\* The log tells all if it tells of every flag no request was overtaken on.
LEMMA TellsOfEach ==
  LogTellsAll <=> \A u \in Users, f \in Flags : <<u, f>> \in overtaken \/ Tells(u, f)
BY DEF LogTellsAll, Tells, About

\* A commit leaves the flags it is not about, and what the log says of them.
LEMMA CommitSparesOthers ==
  ASSUME TypeOK, NEW r \in reqs, CommitUser(r), NEW u \in Users, NEW f \in Flags,
         r.on # u \/ r.flag # f, Tells(u, f)
  PROVE Tells(u, f)'
<1>1. r \in Requests /\ log' = Append(log, Entry(r)) BY DEF CommitUser, TypeOK
<1>2. log \in Seq([on : Users, flag : Flags, to : BOOLEAN]) BY DEF TypeOK
<1>3. Entry(r).on = r.on /\ Entry(r).flag = r.flag BY DEF Entry
<1>4. Len(log') = Len(log) + 1 /\ log'[Len(log) + 1] = Entry(r) BY <1>1, <1>2
<1>5. \A i \in 1 .. Len(log) : log'[i] = log[i] BY <1>1, <1>2
<1>6. About(u, f)' = About(u, f)
  <2>1. Len(log) \in Nat BY <1>2
  <2> QED BY <2>1, <1>3, <1>4, <1>5 DEF About
<1>7. Has(u, f)' = Has(u, f)
  <2>1. CASE f = "active" /\ r.flag = "active"
    BY <2>1 DEF CommitUser, Has, Set
  <2>2. CASE f = "active" /\ r.flag # "active"
    BY <2>2 DEF CommitUser, Has
  <2>3. CASE f = "admin" /\ r.flag = "admin"
    BY <2>3 DEF CommitUser, Has, Set
  <2>4. CASE f = "admin" /\ r.flag # "admin"
    BY <2>4 DEF CommitUser, Has
  <2> QED BY <2>1, <2>2, <2>3, <2>4 DEF Flags
<1>8. \A i \in About(u, f) : log'[i] = log[i] BY <1>5 DEF About
<1> QED BY <1>6, <1>7, <1>8 DEF Tells

\* A commit whose load was not overtaken leaves its flag as its entry tells.
LEMMA CommitTells ==
  ASSUME TypeOK, NEW r \in reqs, CommitUser(r), Has(r.on, r.flag) = r.had
  PROVE Tells(r.on, r.flag)'
<1> DEFINE n == Len(log) + 1
<1>1. r \in Requests /\ log' = Append(log, Entry(r)) BY DEF CommitUser, TypeOK
<1>2. log \in Seq([on : Users, flag : Flags, to : BOOLEAN]) BY DEF TypeOK
<1>3. Entry(r).on = r.on /\ Entry(r).flag = r.flag /\ Entry(r).to = r.to BY DEF Entry
<1>4. Len(log') = n /\ log'[n] = Entry(r) BY <1>1, <1>2
<1>5. Len(log) \in Nat BY <1>2
<1>6. n \in About(r.on, r.flag)' /\ \A j \in About(r.on, r.flag)' : j <= n
  BY <1>3, <1>4, <1>5 DEF About
<1>7. Has(r.on, r.flag)' = r.to
  <2>1. r.to \in BOOLEAN /\ r.had \in BOOLEAN /\ r.flag \in Flags BY <1>1 DEF Requests
  <2>2. CASE r.flag = "active"
    BY <2>1, <2>2 DEF CommitUser, Has, Set
  <2>3. CASE r.flag = "admin"
    BY <2>1, <2>3 DEF CommitUser, Has, Set
  <2> QED BY <2>1, <2>2, <2>3 DEF Flags
<1> HIDE DEF n
<1> QED BY <1>3, <1>4, <1>6, <1>7 DEF Tells

\* Every step keeps the log telling.
LEMMA LogStep == LogInv /\ [Next]_vars => LogInv'
<1> SUFFICES ASSUME LogInv, [Next]_vars PROVE LogTellsAll'
  BY TypeStep DEF LogInv
<1>1. CASE UNCHANGED <<rows, overtaken>>
  <2>1. active' = active /\ admins' = admins /\ log' = log /\ overtaken' = overtaken
    BY <1>1 DEF rows
  <2>2. \A u, f : About(u, f)' = About(u, f) BY <2>1 DEF About
  <2>3. \A u, f : Tells(u, f)' = Tells(u, f) BY <2>1, <2>2 DEF Tells, Has
  <2>4. \A u \in Users, f \in Flags : <<u, f>> \in overtaken \/ Tells(u, f)
    BY TellsOfEach DEF LogInv
  <2>5. \A u \in Users, f \in Flags : <<u, f>> \in overtaken' \/ Tells(u, f)'
    BY <2>1, <2>3, <2>4, Zenon
  <2> QED BY <2>5 DEF LogTellsAll, Tells, About
<1>2. ASSUME NEW r \in reqs, CommitUser(r) PROVE LogTellsAll'
  <2>1. \A u \in Users, f \in Flags : <<u, f>> \in overtaken \/ Tells(u, f)
    BY TellsOfEach DEF LogInv
  <2>2. overtaken' = IF Has(r.on, r.flag) # r.had THEN overtaken \cup {<<r.on, r.flag>>}
                     ELSE overtaken
    BY <1>2 DEF CommitUser
  <2>3. ASSUME NEW u \in Users, NEW f \in Flags PROVE <<u, f>> \in overtaken' \/ Tells(u, f)'
    <3>1. CASE r.on # u \/ r.flag # f
      <4>1. Tells(u, f) => Tells(u, f)' BY <1>2, <3>1, CommitSparesOthers DEF LogInv
      <4> QED BY <2>1, <2>2, <4>1
    <3>2. CASE r.on = u /\ r.flag = f /\ Has(r.on, r.flag) = r.had
      <4>1. Tells(r.on, r.flag)' BY <1>2, <3>2, CommitTells DEF LogInv
      <4> QED BY <3>2, <4>1
    <3>3. CASE r.on = u /\ r.flag = f /\ Has(r.on, r.flag) # r.had
      BY <2>2, <3>3
    <3> QED BY <3>1, <3>2, <3>3
  <2> QED BY <2>3 DEF LogTellsAll, Tells, About
<1>3. ASSUME NEW b \in Browsers,
             \/ Resolve(b) \/ Reload(b) \/ AskPush(b) \/ Subscribe(b) \/ TurnPushOff(b) \/ LogOut(b)
             \/ Unsubscribe(b) \/ UnsubscribeFails(b) \/ Leave(b)
             \/ \E s \in Sessions : RevokeSession(b, s)
             \/ \E u \in Users : Login(b, u)
             \/ \E t \in Users, f \in Flags, to \in BOOLEAN : LoadUser(b, t, f, to)
      PROVE UNCHANGED <<rows, overtaken>>
  BY <1>3 DEF Resolve, Reload, AskPush, Subscribe, TurnPushOff, LogOut, Unsubscribe,
              UnsubscribeFails, Leave, RevokeSession, Login, LoadUser, history
<1>4. ASSUME NEW s \in seen, Touch(s) PROVE UNCHANGED <<rows, overtaken>>
  BY <1>4 DEF Touch, history
<1>5. UNCHANGED vars => UNCHANGED <<rows, overtaken>>
  BY DEF vars, history
<1> QED BY <1>1, <1>2, <1>3, <1>4, <1>5 DEF Next

\* The audit log can be trusted: its last entry about a flag of an account
\* tells the flag, and one it has no entry about is as it was at first, but
\* for the flags that changed between the load and the commit of a request.
THEOREM LogTells == Spec => []LogTellsAll
<1>1. Init => LogInv
  <2> SUFFICES ASSUME Init PROVE LogTellsAll
    BY TypeInit DEF LogInv
  <2>1. ASSUME NEW u \in Users, NEW f \in Flags PROVE Tells(u, f)
    <3>1. About(u, f) = {} BY DEF Init, About
    <3>2. Has(u, f) = (f = "active" \/ u \in FirstAdmins)
      BY DEF Init, Has
    <3> QED BY <3>1, <3>2 DEF Tells
  <2> QED BY <2>1, TellsOfEach
<1>2. LogInv => LogTellsAll BY DEF LogInv
<1> QED BY <1>1, <1>2, LogStep, PTL DEF Spec

(***************************************************************************)
(* Push subscriptions                                                      *)
(***************************************************************************)

\* The page's user is the one of the cookie's session.
CookieIsShown ==
  \A b \in Browsers : /\ shown[b] = None => cookie[b] = None
                      /\ cookie[b] # None => owner[cookie[b]] = shown[b]
\* A browser without a subscription has no endpoint, nor has one that is past
\* unsubscribing.
DeviceHoldsEndpoint ==
  \A b \in Browsers : b \in cut \/ endpoint[b] = None \/ (device[b] /\ leaving[b] # "revoke")
PushInv == TypeOK /\ CookieIsShown /\ DeviceHoldsEndpoint /\ PushGoesToUser

\* The caller of a request is the page's user.
LEMMA CallerIsShown ==
  ASSUME PushInv, NEW b \in Browsers, Caller(b) # None PROVE Caller(b) = shown[b]
BY DEF PushInv, CookieIsShown, Caller, Live

\* Every step keeps the page and its cookie together.
LEMMA CookieStep == PushInv /\ [Next]_vars => CookieIsShown'
<1> SUFFICES ASSUME PushInv, [Next]_vars PROVE CookieIsShown'
  OBVIOUS
<1> USE AccountsAssumption
<1>1. CASE UNCHANGED <<cookie, owner, shown>>
  BY <1>1 DEF PushInv, CookieIsShown
<1>2. ASSUME NEW b \in Browsers, Reload(b) PROVE CookieIsShown'
  <2>1. owner' = owner BY <1>2 DEF Reload, sessions
  <2>2. ASSUME NEW c \in Browsers, c # b
        PROVE shown'[c] = shown[c] /\ cookie'[c] = cookie[c]
    BY <1>2, <2>2 DEF Reload, PushInv, TypeOK
  <2>3. \/ shown'[b] = shown[b] /\ cookie'[b] = cookie[b]
        \/ Caller(b) = None /\ shown'[b] = None /\ cookie'[b] = None
        \/ Caller(b) # None /\ shown'[b] = Caller(b) /\ cookie'[b] = cookie[b]
    BY <1>2 DEF Reload, PushInv, TypeOK
  <2>4. Caller(b) # None => Caller(b) = shown[b] BY CallerIsShown
  <2> QED BY <2>1, <2>2, <2>3, <2>4 DEF PushInv, CookieIsShown
<1>3. ASSUME NEW b \in Browsers, Leave(b) PROVE CookieIsShown'
  BY <1>3 DEF Leave, PushInv, TypeOK, CookieIsShown
<1>4. ASSUME NEW b \in Browsers, NEW u \in Users, Login(b, u) PROVE CookieIsShown'
  <2>1. PICK s \in Sessions : /\ owner[s] = None
                              /\ owner' = [owner EXCEPT ![s] = u]
                              /\ cookie' = [cookie EXCEPT ![b] = s]
    BY <1>4 DEF Login
  <2>2. shown' = [shown EXCEPT ![b] = u] BY <1>4 DEF Login
  <2>3. ASSUME NEW c \in Browsers, c # b, cookie[c] # None PROVE cookie[c] # s
    BY <2>1, <2>3 DEF PushInv, CookieIsShown
  <2>4. ASSUME NEW c \in Browsers
        PROVE /\ shown'[c] = None => cookie'[c] = None
              /\ cookie'[c] # None => owner'[cookie'[c]] = shown'[c]
    <3>1. CASE c = b BY <2>1, <2>2, <3>1 DEF PushInv, TypeOK
    <3>2. CASE c # b
      <4>1. shown'[c] = shown[c] /\ cookie'[c] = cookie[c]
        BY <2>1, <2>2, <3>2 DEF PushInv, TypeOK
      <4>2. cookie[c] # None => owner'[cookie[c]] = owner[cookie[c]]
        BY <2>1, <2>3, <3>2 DEF PushInv, TypeOK
      <4> QED BY <4>1, <4>2 DEF PushInv, CookieIsShown
    <3> QED BY <3>1, <3>2
  <2> QED BY <2>4 DEF CookieIsShown
<1>5. ASSUME NEW b \in Browsers,
             \/ Resolve(b) \/ AskPush(b) \/ Subscribe(b) \/ TurnPushOff(b) \/ LogOut(b)
             \/ Unsubscribe(b) \/ UnsubscribeFails(b)
             \/ \E s \in Sessions : RevokeSession(b, s)
             \/ \E t \in Users, f \in Flags, to \in BOOLEAN : LoadUser(b, t, f, to)
      PROVE UNCHANGED <<cookie, owner, shown>>
  BY <1>5 DEF Resolve, AskPush, Subscribe, TurnPushOff, LogOut, Unsubscribe, UnsubscribeFails,
              RevokeSession, LoadUser, sessions, browsers
<1>6. ASSUME NEW s \in seen, Touch(s) PROVE UNCHANGED <<cookie, owner, shown>>
  BY <1>6 DEF Touch, sessions, browsers
<1>7. ASSUME NEW r \in reqs, CommitUser(r) PROVE UNCHANGED <<cookie, owner, shown>>
  BY <1>7 DEF CommitUser, sessions, browsers
<1>8. UNCHANGED vars => UNCHANGED <<cookie, owner, shown>>
  BY DEF vars, sessions, browsers
<1> QED BY <1>1, <1>2, <1>3, <1>4, <1>5, <1>6, <1>7, <1>8 DEF Next

\* Every step keeps the endpoints where they belong.
LEMMA EndpointStep == PushInv /\ [Next]_vars => DeviceHoldsEndpoint' /\ PushGoesToUser'
<1> SUFFICES ASSUME PushInv, [Next]_vars PROVE DeviceHoldsEndpoint' /\ PushGoesToUser'
  OBVIOUS
<1> DEFINE held == <<endpoint, device, leaving, shown, cut>>
<1>1. CASE UNCHANGED held
  BY <1>1 DEF PushInv, DeviceHoldsEndpoint, PushGoesToUser
<1>2. ASSUME NEW b \in Browsers, Reload(b) PROVE DeviceHoldsEndpoint' /\ PushGoesToUser'
  BY <1>2 DEF Reload, PushInv, TypeOK, DeviceHoldsEndpoint, PushGoesToUser
<1>3. ASSUME NEW b \in Browsers, Subscribe(b) PROVE DeviceHoldsEndpoint' /\ PushGoesToUser'
  <2>1. Caller(b) # None => Caller(b) = shown[b] BY CallerIsShown
  <2> QED BY <1>3, <2>1 DEF Subscribe, PushInv, TypeOK, DeviceHoldsEndpoint, PushGoesToUser
<1>4. ASSUME NEW b \in Browsers, TurnPushOff(b) PROVE DeviceHoldsEndpoint' /\ PushGoesToUser'
  <2>1. Caller(b) = shown[b] BY <1>4, CallerIsShown DEF TurnPushOff
  <2> QED BY <1>4, <2>1 DEF TurnPushOff, PushInv, TypeOK, DeviceHoldsEndpoint, PushGoesToUser,
                            history
<1>5. ASSUME NEW b \in Browsers, LogOut(b) PROVE DeviceHoldsEndpoint' /\ PushGoesToUser'
  BY <1>5 DEF LogOut, PushInv, TypeOK, DeviceHoldsEndpoint, PushGoesToUser, history
<1>6. ASSUME NEW b \in Browsers, Unsubscribe(b) PROVE DeviceHoldsEndpoint' /\ PushGoesToUser'
  <2>1. Caller(b) # None => Caller(b) = shown[b] BY CallerIsShown
  <2> QED BY <1>6, <2>1 DEF Unsubscribe, PushInv, TypeOK, DeviceHoldsEndpoint, PushGoesToUser
<1>7. ASSUME NEW b \in Browsers, UnsubscribeFails(b) PROVE DeviceHoldsEndpoint' /\ PushGoesToUser'
  BY <1>7 DEF UnsubscribeFails, PushInv, TypeOK, DeviceHoldsEndpoint, PushGoesToUser
<1>8. ASSUME NEW b \in Browsers, Leave(b) PROVE DeviceHoldsEndpoint' /\ PushGoesToUser'
  BY <1>8 DEF Leave, PushInv, TypeOK, DeviceHoldsEndpoint, PushGoesToUser, history
<1>9. ASSUME NEW b \in Browsers, NEW u \in Users, Login(b, u)
      PROVE DeviceHoldsEndpoint' /\ PushGoesToUser'
  BY <1>9 DEF Login, PushInv, TypeOK, DeviceHoldsEndpoint, PushGoesToUser, history
<1>10. ASSUME NEW b \in Browsers,
              \/ Resolve(b) \/ AskPush(b)
              \/ \E s \in Sessions : RevokeSession(b, s)
              \/ \E t \in Users, f \in Flags, to \in BOOLEAN : LoadUser(b, t, f, to)
       PROVE UNCHANGED held
  BY <1>10 DEF Resolve, AskPush, RevokeSession, LoadUser, browsers, history
<1>11. ASSUME NEW s \in seen, Touch(s) PROVE UNCHANGED held
  BY <1>11 DEF Touch, browsers, history
<1>12. ASSUME NEW r \in reqs, CommitUser(r) PROVE UNCHANGED held
  BY <1>12 DEF CommitUser, browsers
<1>13. UNCHANGED vars => UNCHANGED held
  BY DEF vars, browsers, history
<1> HIDE DEF held
<1> QED BY <1>1, <1>2, <1>3, <1>4, <1>5, <1>6, <1>7, <1>8, <1>9, <1>10, <1>11, <1>12, <1>13
        DEF Next

\* However users log in and out of browsers, the pushes of a browser are those
\* of the user logged in to it, but for the browsers that could not unsubscribe.
THEOREM PushStays == Spec => []PushGoesToUser
<1>1. Init => PushInv
  <2> SUFFICES ASSUME Init PROVE CookieIsShown /\ DeviceHoldsEndpoint /\ PushGoesToUser
    BY TypeInit DEF PushInv
  <2>1. CookieIsShown BY AccountsAssumption DEF Init, CookieIsShown
  <2>2. DeviceHoldsEndpoint /\ PushGoesToUser
    BY DEF Init, DeviceHoldsEndpoint, PushGoesToUser
  <2> QED BY <2>1, <2>2
<1>2. PushInv /\ [Next]_vars => PushInv'
  BY TypeStep, CookieStep, EndpointStep DEF PushInv
<1>3. PushInv => PushGoesToUser BY DEF PushInv
<1> QED BY <1>1, <1>2, <1>3, PTL DEF Spec

\* Once revoked a session stays so: no step takes a session out of the revoked.
THEOREM RevokedStays == Spec => RevokedStaysRevoked
<1>1. [Next]_vars => [revoked \subseteq revoked']_vars
  <2> SUFFICES ASSUME Next PROVE revoked \subseteq revoked'
    OBVIOUS
  <2> QED BY DEF Next, LoadUser, CommitUser, Touch, Resolve, Reload, AskPush, Subscribe,
                 TurnPushOff, LogOut, Unsubscribe, UnsubscribeFails, Leave,
                 RevokeSession, Login, sessions
<1> QED BY <1>1, PTL DEF Spec, RevokedStaysRevoked
=============================================================================
