-------------------------- MODULE RoomPanelProofs --------------------------
(***************************************************************************)
(* Theorems of RoomPanel, for any rooms, webhooks and roles and any number *)
(* of calls under way, answered in any order: its types; that a name typed *)
(* or read for one room never becomes another's; that at rest the panel    *)
(* shows its own room as it is; and that no list spoils what is typed.     *)
(***************************************************************************)
EXTENDS RoomPanel, TLAPS

\* A list of rooms in which every name is its room's own.
Listing == {l \in [Rooms -> Records \cup {None}] :
              \A r \in Rooms : l[r] # None => l[r].name.of = r}

\* A call to save carries a name of the room it is for, one that lists the
\* rooms brings each its own; the others ask of a room, with arguments of their
\* kind.
CallOK(c) ==
  /\ c = [id |-> c.id, kind |-> c.kind, room |-> c.room, arg |-> c.arg,
          stage |-> c.stage, got |-> c.got, mine |-> c.mine]
  /\ c.kind = "rooms" => /\ c.arg \in Rooms \cup {None}
                         /\ c.stage = "ok" => c.got \in Listing
  /\ c.kind # "rooms" => c.room \in Rooms
  /\ c.kind = "save" => c.arg \in Names /\ c.arg.of = c.room
  /\ c.kind = "email" => c.arg \in BOOLEAN
  /\ c.kind \in {"hooks", "create"} => c.arg \in Sorts
  /\ c.kind = "hooks" /\ c.stage = "ok" => c.got \subseteq Hooks
  /\ c.kind = "revoke" => c.arg \in Hooks

\* What is typed belongs to the room the panel is open over.
DraftHome == Panel # None => draft \in Names /\ draft.of = at

PanelInv ==
  /\ TypeOK /\ NamesStayHome
  /\ list \in Listing /\ copies \subseteq Listing
  /\ DraftHome
  /\ \A c \in calls : CallOK(c)

\* What the server answers to a list of the rooms.
LEMMA MyListHome == TypeOK /\ NamesStayHome => MyList \in Listing
BY DEF TypeOK, NamesStayHome, MyList, Listing, Records, In

\* A call that was just made.
LEMMA AskOK ==
  ASSUME NEW k, NEW r, NEW x,
         k = "rooms" => x \in Rooms \cup {None},
         k # "rooms" => r \in Rooms,
         k = "save" => x \in Names /\ x.of = r,
         k = "email" => x \in BOOLEAN,
         k \in {"hooks", "create"} => x \in Sorts,
         k = "revoke" => x \in Hooks
  PROVE CallOK(Ask(k, r, x))
<1> DEFINE n == FreeId(k)
<1>1. Ask(k, r, x) = [id |-> n, kind |-> k, room |-> r, arg |-> x,
                      stage |-> "sent", got |-> None, mine |-> TRUE]
  BY DEF Ask
<1> HIDE DEF n
<1> QED BY <1>1 DEF CallOK

\* What an answer changes of a call.
LEMMA StagedIs ==
  ASSUME NEW c, NEW s, NEW g,
         c = [id |-> c.id, kind |-> c.kind, room |-> c.room, arg |-> c.arg,
              stage |-> c.stage, got |-> c.got, mine |-> c.mine]
  PROVE [c EXCEPT !.stage = s, !.got = g]
          = [id |-> c.id, kind |-> c.kind, room |-> c.room, arg |-> c.arg,
             stage |-> s, got |-> g, mine |-> c.mine]
<1> DEFINE d == [c EXCEPT !.stage = s]
           e == [d EXCEPT !.got = g]
<1>1. d = [id |-> c.id, kind |-> c.kind, room |-> c.room, arg |-> c.arg,
           stage |-> s, got |-> c.got, mine |-> c.mine]
  OBVIOUS
<1>2. [c EXCEPT !.stage = s, !.got = g] = e
  OBVIOUS
<1>3. e = [id |-> c.id, kind |-> c.kind, room |-> c.room, arg |-> c.arg,
           stage |-> s, got |-> g, mine |-> c.mine]
  <2> HIDE DEF d
  <2> QED BY <1>1
<1> QED BY <1>2, <1>3

\* A call stays what it is when it is answered or broken.
LEMMA StagedOK ==
  ASSUME NEW c, CallOK(c), NEW s, NEW g,
         c.kind = "rooms" /\ s = "ok" => g \in Listing,
         c.kind = "hooks" /\ s = "ok" => g \subseteq Hooks
  PROVE CallOK([c EXCEPT !.stage = s, !.got = g])
<1> DEFINE d == [c EXCEPT !.stage = s, !.got = g]
<1>1. d = [id |-> c.id, kind |-> c.kind, room |-> c.room, arg |-> c.arg,
           stage |-> s, got |-> g, mine |-> c.mine]
  <2>1. c = [id |-> c.id, kind |-> c.kind, room |-> c.room, arg |-> c.arg,
             stage |-> c.stage, got |-> c.got, mine |-> c.mine]
    BY DEF CallOK
  <2> QED BY <2>1, StagedIs
<1>2. CallOK(d)
  <2> HIDE DEF d
  <2>1. d.kind = c.kind /\ d.room = c.room /\ d.arg = c.arg /\ d.stage = s /\ d.got = g
    BY <1>1
  <2>2. d = [id |-> d.id, kind |-> d.kind, room |-> d.room, arg |-> d.arg,
             stage |-> d.stage, got |-> d.got, mine |-> d.mine]
    BY <1>1
  <2> QED BY <2>1, <2>2 DEF CallOK
<1> QED BY <1>2

\* So does one that falls when the panel closes.
LEMMA DisownedOK ==
  ASSUME NEW c, CallOK(c), NEW m
  PROVE CallOK([c EXCEPT !.mine = m])
<1> DEFINE d == [c EXCEPT !.mine = m]
<1>1. c = [id |-> c.id, kind |-> c.kind, room |-> c.room, arg |-> c.arg,
           stage |-> c.stage, got |-> c.got, mine |-> c.mine]
  BY DEF CallOK
<1>2. d = [id |-> c.id, kind |-> c.kind, room |-> c.room, arg |-> c.arg,
           stage |-> c.stage, got |-> c.got, mine |-> m]
  BY <1>1
<1> HIDE DEF d
<1> QED BY <1>2 DEF CallOK

\* To send adds calls to those that remain.
LEMMA SendOK ==
  ASSUME TypeOK, NEW S, NEW rest, Send(S, rest),
         \A c \in S : CallOK(c), \A c \in rest : CallOK(c)
  PROVE (\A c \in calls' : CallOK(c)) /\ missed' \subseteq Lists
<1>1. calls' = rest \cup S BY DEF Send
<1>2. missed' \subseteq Lists
  <2> DEFINE M == {Fills(c) : c \in {a \in {b \in S : Fills(b) \in Lists} : Unseen(a, rest)}}
  <2>1. M \subseteq Lists OBVIOUS
  <2>2. missed' \subseteq missed \cup M BY DEF Send
  <2> HIDE DEF M
  <2> QED BY <2>1, <2>2 DEF TypeOK
<1> QED BY <1>1, <1>2

\* What the page and the panel keep, apart from the server's rooms.
PageInv ==
  /\ list \in Listing
  /\ at \in Rooms \cup {NoRoom}
  /\ {crew, files} \subseteq Rooms \cup {None}
  /\ {open, toggle, filesOpen, busy} \subseteq BOOLEAN /\ missed \subseteq Lists
  /\ draft \in Names \cup {None} /\ hooks \in [Sorts -> SUBSET Hooks]
  /\ DraftHome
  /\ \A c \in calls : CallOK(c)

\* Whatever the page goes over to, the panel is refilled when its room changes:
\* the draft is the room's own.
LEMMA BecomeOK ==
  ASSUME PanelInv, NEW r \in Rooms \cup {NoRoom}, NEW o \in BOOLEAN, NEW f \in BOOLEAN,
         NEW l \in Listing, NEW S, NEW rest, NEW b \in BOOLEAN,
         \A c \in S : CallOK(c), \A c \in rest : CallOK(c),
         Become(r, o, f, l, S, rest, b)
  PROVE PageInv'
<1> DEFINE now == IF o /\ r # NoRoom THEN l[r] ELSE None
           mine(c) == [c EXCEPT !.mine = @ /\ c.kind \in PageLoads]
           left == IF now = None THEN {mine(c) : c \in rest} ELSE rest
           refill == Refill(r, o, l)
           asked == {Ask("hooks", r, s) : s \in {t \in Sorts : refill /\ Manages(now.role)}}
           filed == {c \in {Ask("files", r, None)} : now # None /\ FilesAsked(r, filesOpen, f)}
           crewed == {c \in {Ask("members", r, None)} : MembersAsked(r)}
<1>1. /\ at' = r /\ open' = o /\ list' = l /\ crew' = crew
      /\ busy' = (b /\ now # None) /\ filesOpen' = (f /\ now # None)
      /\ files' = IF now = None THEN None ELSE files
      /\ hooks' = IF now = None \/ Panel = None \/ ~Manages(now.role)
                  THEN [s \in Sorts |-> {}] ELSE hooks
      /\ Send(S \cup asked \cup filed \cup crewed, left)
  BY DEF Become
<1>2. /\ now = None => draft' = None /\ toggle' = FALSE
      /\ now # None /\ refill => draft' = now.name /\ toggle' = now.email
      /\ now # None /\ ~refill => draft' = draft /\ toggle' = toggle
  BY DEF Become
<1>3. now # None => now \in Records /\ now.name.of = r /\ r \in Rooms
  BY DEF Listing
<1>4. now # None /\ ~refill => Panel # None /\ r = at
  BY DEF Refill
<1>5. now # None => draft' \in Names /\ draft'.of = r /\ toggle' \in BOOLEAN
  <2>1. CASE refill BY <1>2, <1>3, <2>1 DEF Records
  <2>2. CASE ~refill BY <1>2, <1>4, <2>2 DEF PanelInv, DraftHome, TypeOK
  <2> QED BY <2>1, <2>2
<1>6. Panel' = now BY <1>1 DEF Panel
<1>7. \A c \in left : CallOK(c)
  BY DisownedOK
<1>8. \A c \in asked : CallOK(c)
  <2> SUFFICES ASSUME NEW s \in Sorts, refill PROVE CallOK(Ask("hooks", r, s))
    OBVIOUS
  <2>1. now # None BY DEF Refill
  <2> QED BY <1>3, <2>1, AskOK
<1>9. \A c \in filed : CallOK(c)
  BY <1>3, AskOK
<1>10. \A c \in crewed : CallOK(c)
  BY AskOK DEF MembersAsked
<1> HIDE DEF now, left, refill, asked, filed, crewed
<1>11. (\A c \in calls' : CallOK(c)) /\ missed' \subseteq Lists
  <2> DEFINE T == S \cup asked \cup filed \cup crewed
  <2>1. \A c \in T : CallOK(c) BY <1>8, <1>9, <1>10
  <2>2. Send(T, left) BY <1>1
  <2> HIDE DEF T
  <2> QED BY <1>7, <2>1, <2>2, SendOK DEF PanelInv
<1>12. DraftHome' BY <1>1, <1>5, <1>6 DEF DraftHome
<1>13. draft' \in Names \cup {None} /\ toggle' \in BOOLEAN BY <1>2, <1>5
<1>14. hooks' \in [Sorts -> SUBSET Hooks] BY <1>1 DEF PanelInv, TypeOK
<1>15. {crew', files'} \subseteq Rooms \cup {None} BY <1>1 DEF PanelInv, TypeOK
<1>16. {open', toggle', filesOpen', busy'} \subseteq BOOLEAN BY <1>1, <1>13
<1> QED BY <1>1, <1>11, <1>12, <1>13, <1>14, <1>15, <1>16 DEF PageInv

\* The user's acts change what is typed, open or under way; no act is a call for
\* another room than the one on screen.
LEMMA UserStep ==
  ASSUME PanelInv,
         \/ \E r \in Rooms \cup {NoRoom} : GoTo(r)
         \/ TogglePanel \/ ToggleFiles \/ TypeName \/ Save \/ ToggleEmail
         \/ AddMember \/ ManageMember \/ Leave \/ Delete
         \/ \E s \in Sorts : CreateHook(s)
         \/ \E h \in Hooks : Revoke(h)
         \/ \E r \in Rooms : Enter(r)
  PROVE PageInv' /\ UNCHANGED server
<1>0. /\ TypeOK /\ DraftHome /\ list \in Listing /\ \A c \in calls : CallOK(c)
      /\ PageInv
  BY DEF PanelInv, PageInv, TypeOK
<1>000. UNCHANGED server
  BY DEF GoTo, TogglePanel, ToggleFiles, TypeName, Save, ToggleEmail, AddMember, ManageMember,
         Leave, Delete, CreateHook, Revoke, Enter
<1> SUFFICES PageInv'
  BY <1>000
<1>00. Panel # None => at \in Rooms
  BY <1>0 DEF Panel, TypeOK
<1>01. open \in BOOLEAN /\ filesOpen \in BOOLEAN /\ busy \in BOOLEAN
  BY <1>0 DEF TypeOK
<1>1. ASSUME NEW r \in Rooms \cup {NoRoom}, GoTo(r) PROVE PageInv'
  <2>1. Become(r, open, filesOpen, list, {}, calls, busy) BY <1>1 DEF GoTo
  <2> QED BY <1>0, <1>01, <2>1, BecomeOK
<1>2. CASE TogglePanel
  <2> DEFINE o == ~open
  <2>1. Become(at, o, filesOpen, list, {}, calls, busy) BY <1>2 DEF TogglePanel
  <2>2. at \in Rooms \cup {NoRoom} /\ o \in BOOLEAN BY <1>0 DEF TypeOK
  <2> HIDE DEF o
  <2> QED BY <1>0, <1>01, <2>1, <2>2, BecomeOK
<1>3. CASE ToggleFiles
  <2> DEFINE o == ~filesOpen
             none == {}
  <2>1. Become(at, open, o, list, none, calls, busy) BY <1>3 DEF ToggleFiles
  <2>2. at \in Rooms \cup {NoRoom} /\ o \in BOOLEAN BY <1>0 DEF TypeOK
  <2>3. list \in Listing /\ (\A c \in calls : CallOK(c)) BY <1>0
  <2>4. \A c \in none : CallOK(c) OBVIOUS
  <2> HIDE DEF o, none
  <2> QED BY <1>01, <2>1, <2>2, <2>3, <2>4, BecomeOK, Zenon
<1>4. CASE TypeName
  <2>1. draft' \in Names /\ draft'.of = at /\ UNCHANGED <<page, toggle, hooks, section, busy, calls, missed>>
    BY <1>00, <1>4 DEF TypeName, Names
  <2> QED BY <1>0, <2>1 DEF PageInv, DraftHome, Panel, page, section
<1>5. ASSUME NEW a, CallOK(a), Start({a}), UNCHANGED <<page, draft, hooks, section>>,
             toggle' \in BOOLEAN, busy' \in BOOLEAN
      PROVE PageInv'
  <2>1. (\A c \in calls' : CallOK(c)) /\ missed' \subseteq Lists
    BY <1>0, <1>5, SendOK DEF Start
  <2> QED BY <1>0, <1>5, <2>1 DEF PageInv, DraftHome, Panel, page, section
<1>6. CASE Save
  <2>1. CallOK(Ask("save", at, draft)) BY <1>0, <1>00, <1>6, AskOK DEF Save, DraftHome
  <2> QED BY <1>0, <1>5, <1>6, <2>1 DEF Save, panel, TypeOK
<1>7. CASE ToggleEmail
  <2>1. CallOK(Ask("email", at, ~toggle)) BY <1>00, <1>7, AskOK DEF ToggleEmail
  <2> QED BY <1>0, <1>5, <1>7, <2>1 DEF ToggleEmail, TypeOK
<1>8. CASE AddMember
  <2>1. CallOK(Ask("add", at, None)) BY <1>00, <1>8, AskOK DEF AddMember
  <2> QED BY <1>0, <1>5, <1>8, <2>1 DEF AddMember, panel, TypeOK
<1>9. CASE ManageMember
  <2>1. PICK theirs \in In : \E k \in MemberActions(Panel.role, theirs) : Start({Ask(k, at, None)})
    BY <1>9 DEF ManageMember
  <2>2. PICK k \in MemberActions(Panel.role, theirs) : Start({Ask(k, at, None)})
    BY <2>1
  <2>3. k \in {"role", "transfer", "remove"} BY <2>2 DEF MemberActions
  <2>4. CallOK(Ask(k, at, None)) BY <1>00, <1>9, <2>3, AskOK DEF ManageMember
  <2> QED BY <1>0, <1>5, <1>9, <2>2, <2>4 DEF ManageMember, TypeOK
<1>10. CASE Leave
  <2>1. CallOK(Ask("leave", at, None)) BY <1>00, <1>10, AskOK DEF Leave
  <2> QED BY <1>0, <1>5, <1>10, <2>1 DEF Leave, panel, TypeOK
<1>11. CASE Delete
  <2>1. CallOK(Ask("delete", at, None)) BY <1>00, <1>11, AskOK DEF Delete
  <2> QED BY <1>0, <1>5, <1>11, <2>1 DEF Delete, panel, TypeOK
<1>12. ASSUME NEW s \in Sorts, CreateHook(s) PROVE PageInv'
  <2>1. CallOK(Ask("create", at, s)) BY <1>00, <1>12, AskOK DEF CreateHook
  <2> QED BY <1>0, <1>5, <1>12, <2>1 DEF CreateHook, panel, TypeOK
<1>13. ASSUME NEW h \in Hooks, Revoke(h) PROVE PageInv'
  <2>1. CallOK(Ask("revoke", at, h)) BY <1>00, <1>13, AskOK DEF Revoke
  <2> QED BY <1>0, <1>5, <1>13, <2>1 DEF Revoke, panel, TypeOK
<1>14. ASSUME NEW r \in Rooms, Enter(r) PROVE PageInv'
  <2>1. CallOK(Ask("enter", r, None)) BY AskOK
  <2> QED BY <1>0, <1>5, <1>14, <2>1 DEF Enter, panel, TypeOK
<1> QED BY <1>1, <1>2, <1>3, <1>4, <1>6, <1>7, <1>8, <1>9, <1>10, <1>11, <1>12, <1>13, <1>14

\* The server and the other members change a room by what was asked of it.
LEMMA ServerStep ==
  ASSUME PanelInv,
         \/ \E c \in calls : Serve(c) \/ Break(c) \/ Copied(c)
         \/ \E r \in Rooms : Rename(r) \/ SetRole(r) \/ Added(r)
  PROVE PanelInv'
<1>0. /\ TypeOK /\ NamesStayHome /\ DraftHome /\ list \in Listing /\ copies \subseteq Listing
      /\ \A c \in calls : CallOK(c)
  BY DEF PanelInv
<1>01. MyList \in Listing BY <1>0, MyListHome
\* What holds of the page while only the server changes.
<1>02. ASSUME UNCHANGED <<panel, page>>, missed' \subseteq Lists,
              \A c \in calls' : CallOK(c),
              copies' \subseteq Listing, name' \in [Rooms -> Names], NamesStayHome', role' \in [Rooms -> Roles],
              email' \in [Rooms -> BOOLEAN], stand' \in [Hooks -> {"unmade", "live", "revoked"}]
       PROVE PanelInv'
  <2>1. DraftHome' BY <1>0, <1>02 DEF DraftHome, Panel, page, panel
  <2>2. TypeOK' BY <1>0, <1>02 DEF TypeOK, page, panel, section, Listing
  <2> QED BY <1>0, <1>02, <2>1, <2>2 DEF PanelInv, page
<1>1. ASSUME NEW c \in calls, Serve(c) PROVE PanelInv'
  <2> DEFINE s == IF Allowed(c) THEN "ok" ELSE "failed"
             g == IF Allowed(c) THEN Answered(c) ELSE None
             d == [c EXCEPT !.stage = s, !.got = g]
  <2>1. CallOK(c) BY <1>0
  <2>2. c.kind = "rooms" /\ s = "ok" => g \in Listing BY <1>01 DEF Answered
  <2>3. c.kind = "hooks" /\ s = "ok" => g \subseteq Hooks BY DEF Answered, Live
  <2>4. CallOK(d)
    <3> HIDE DEF s, g
    <3> QED BY <2>1, <2>2, <2>3, StagedOK
  <2>5. calls' = (calls \ {c}) \cup {d} BY <1>1 DEF Serve
  <2>6. \A e \in calls' : CallOK(e)
    <3> HIDE DEF d
    <3> QED BY <1>0, <2>4, <2>5
  <2>7. missed' \subseteq Lists BY <1>0, <1>1 DEF Serve, TypeOK
  <2>8. UNCHANGED <<panel, page>> /\ copies' \subseteq Listing BY <1>0, <1>01, <1>1 DEF Serve
  <2>9. CASE ~(Allowed(c) /\ c.kind # "rooms")
    <3>1. UNCHANGED <<name, role, email, stand>> BY <1>1, <2>9 DEF Serve
    <3>2. NamesStayHome' BY <1>0, <3>1 DEF NamesStayHome
    <3> QED BY <1>0, <1>02, <2>6, <2>7, <2>8, <3>1, <3>2 DEF TypeOK
  <2>10. CASE Allowed(c) /\ c.kind # "rooms"
    <3>0. c.room \in Rooms BY <2>1, <2>10 DEF CallOK
    <3>1. /\ role' = [role EXCEPT ![c.room] = RoleAfter(c)]
          /\ name' = IF c.kind = "save" THEN [name EXCEPT ![c.room] = c.arg] ELSE name
          /\ email' = IF c.kind = "email" THEN [email EXCEPT ![c.room] = c.arg] ELSE email
          /\ \/ c.kind = "revoke" /\ stand' = [stand EXCEPT ![c.arg] = "revoked"]
             \/ \E h \in Coming(c) : stand' = [stand EXCEPT ![h] = "live"]
             \/ UNCHANGED stand
      BY <1>1, <2>10 DEF Serve
    <3>2. RoleAfter(c) \in Roles BY <1>0, <3>0 DEF RoleAfter, TypeOK, Roles, In
    <3>3. role' \in [Rooms -> Roles] BY <1>0, <3>1, <3>2 DEF TypeOK
    <3>4. email' \in [Rooms -> BOOLEAN] BY <1>0, <2>1, <3>1 DEF TypeOK, CallOK
    <3>5. name' \in [Rooms -> Names] BY <1>0, <2>1, <3>1 DEF TypeOK, CallOK
    <3>6. NamesStayHome' BY <1>0, <2>1, <3>0, <3>1 DEF TypeOK, CallOK, NamesStayHome
    <3>7. stand' \in [Hooks -> {"unmade", "live", "revoked"}]
      BY <1>0, <3>1 DEF TypeOK
    <3> QED BY <1>02, <2>6, <2>7, <2>8, <3>3, <3>4, <3>5, <3>6, <3>7
  <2> QED BY <2>9, <2>10
<1>2. ASSUME NEW c \in calls, Break(c) PROVE PanelInv'
  <2> DEFINE d == [c EXCEPT !.stage = "failed", !.got = None]
  <2>1. CallOK(d) BY <1>0, StagedOK
  <2>2. calls' = (calls \ {c}) \cup {d} BY <1>2 DEF Break
  <2>3. \A e \in calls' : CallOK(e)
    <3> HIDE DEF d
    <3> QED BY <1>0, <2>1, <2>2
  <2>4. UNCHANGED <<server, panel, page>> /\ missed' \subseteq Lists BY <1>2 DEF Break
  <2>5. NamesStayHome' BY <1>0, <2>4 DEF NamesStayHome, server
  <2> QED BY <1>0, <1>02, <2>3, <2>4, <2>5 DEF TypeOK, server
<1>3. ASSUME NEW r \in Rooms, Rename(r) PROVE PanelInv'
  <2>1. /\ \E n \in Names : n.of = r /\ name' = [name EXCEPT ![r] = n]
        /\ UNCHANGED <<role, email, stand, copies, panel, page, calls, missed>>
    BY <1>3 DEF Rename
  <2>2. name' \in [Rooms -> Names] /\ NamesStayHome' BY <1>0, <2>1 DEF TypeOK, NamesStayHome
  <2> QED BY <1>0, <1>02, <2>1, <2>2 DEF TypeOK
<1>4. ASSUME NEW r \in Rooms, SetRole(r) PROVE PanelInv'
  <2>1. UNCHANGED <<name, email, stand, copies, panel, page, calls, missed>>
    BY <1>4 DEF SetRole
  <2>2. role' \in [Rooms -> Roles] BY <1>0, <1>4 DEF SetRole, TypeOK, Roles, In
  <2>3. NamesStayHome' BY <1>0, <2>1 DEF NamesStayHome
  <2> QED BY <1>0, <1>02, <2>1, <2>2, <2>3 DEF TypeOK
<1>5. ASSUME NEW r \in Rooms, Added(r) PROVE PanelInv'
  <2>1. UNCHANGED <<name, email, stand, copies, panel, page>> BY <1>5 DEF Added
  <2>2. role' \in [Rooms -> Roles] BY <1>0, <1>5 DEF Added, TypeOK, Roles, In
  <2>3. NamesStayHome' BY <1>0, <2>1 DEF NamesStayHome
  <2>4. CallOK(Ask("rooms", NoRoom, None)) BY AskOK
  <2>5. PICK S \in SUBSET {Ask("rooms", NoRoom, None)} : Send(S, calls) BY <1>5 DEF Added
  <2>6. (\A c \in calls' : CallOK(c)) /\ missed' \subseteq Lists
    BY <1>0, <2>4, <2>5, SendOK
  <2> QED BY <1>0, <1>02, <2>1, <2>2, <2>3, <2>6 DEF TypeOK
<1>6. ASSUME NEW c \in calls, Copied(c) PROVE PanelInv'
  <2>1. PICK l \in copies : calls' = (calls \ {c}) \cup {[c EXCEPT !.stage = "ok", !.got = l]}
    BY <1>6 DEF Copied
  <2> DEFINE d == [c EXCEPT !.stage = "ok", !.got = l]
  <2>2. CallOK(d) BY <1>0, <1>6, StagedOK DEF Copied
  <2>3. calls' = (calls \ {c}) \cup {d} BY <2>1
  <2>4. \A e \in calls' : CallOK(e)
    <3> HIDE DEF d
    <3> QED BY <1>0, <2>2, <2>3
  <2>5. UNCHANGED <<server, panel, page>> /\ missed' \subseteq Lists
    BY <1>0, <1>6 DEF Copied, TypeOK, Lists, PageLoads
  <2>6. NamesStayHome' BY <1>0, <2>5 DEF NamesStayHome, server
  <2> QED BY <1>0, <1>02, <2>4, <2>5, <2>6 DEF TypeOK, server
<1> QED BY <1>1, <1>2, <1>3, <1>4, <1>5, <1>6

\* An answer fills what it was asked for: a list of rooms gives each its own
\* name, and no answer writes into the draft but by the refill.
LEMMA AnswerStep ==
  ASSUME PanelInv, NEW c \in calls, Answer(c)
  PROVE PageInv' /\ UNCHANGED server
<1>0. /\ TypeOK /\ DraftHome /\ list \in Listing /\ \A a \in calls : CallOK(a)
      /\ PageInv
  BY DEF PanelInv, PageInv, TypeOK
<1>000. UNCHANGED server
  BY DEF Answer, RoomsListed, MembersListed, HooksListed, FilesListed, Saved, EmailSet,
         HooksChanged, Managed, Gone, Entered
<1> SUFFICES PageInv'
  BY <1>000
<1>01. CallOK(c) /\ \A a \in calls \ {c} : CallOK(a) BY <1>0
<1>02. CallOK(Ask("rooms", NoRoom, None)) BY AskOK
\* An answer that only sends calls on.
<1>03. ASSUME NEW S, \A a \in S : CallOK(a), Send(S, calls \ {c}),
              UNCHANGED <<page, draft, hooks, section>>, toggle' \in BOOLEAN, busy' \in BOOLEAN
       PROVE PageInv'
  <2>1. (\A a \in calls' : CallOK(a)) /\ missed' \subseteq Lists
    BY <1>0, <1>01, <1>03, SendOK
  <2> QED BY <1>0, <1>03, <2>1 DEF PageInv, DraftHome, Panel, page, section
<1>1. CASE RoomsListed(c)
  <2> DEFINE r == IF c.arg # None THEN c.arg ELSE at
             l == IF c.stage = "ok" THEN c.got ELSE list
  <2>1. r \in Rooms \cup {NoRoom} /\ l \in Listing
    BY <1>0, <1>01, <1>1 DEF RoomsListed, Take, CallOK, TypeOK
  <2>2. Become(r, open, filesOpen, l, {}, calls \ {c}, busy) BY <1>1 DEF RoomsListed
  <2>3. open \in BOOLEAN /\ filesOpen \in BOOLEAN /\ busy \in BOOLEAN BY <1>0 DEF TypeOK
  <2> HIDE DEF r, l
  <2> QED BY <1>01, <2>1, <2>2, <2>3, BecomeOK
<1>2. CASE MembersListed(c)
  <2>1. crew' \in Rooms \cup {None} BY <1>01, <1>2 DEF MembersListed, Take, CallOK
  <2>2. calls' = calls \ {c} /\ UNCHANGED <<panel, list, at, open, missed>>
    BY <1>2 DEF MembersListed
  <2> QED BY <1>0, <1>01, <2>1, <2>2 DEF PageInv, DraftHome, Panel, panel, section
<1>3. CASE HooksListed(c)
  <2>1. hooks' \in [Sorts -> SUBSET Hooks]
    BY <1>0, <1>01, <1>3 DEF HooksListed, Take, CallOK, TypeOK
  <2>2. calls' = calls \ {c} /\ UNCHANGED <<page, draft, toggle, section, busy, missed>>
    BY <1>3 DEF HooksListed
  <2> QED BY <1>0, <1>01, <2>1, <2>2 DEF PageInv, DraftHome, Panel, page, section
<1>4. CASE FilesListed(c)
  <2>1. files' \in Rooms \cup {None} BY <1>0, <1>01, <1>4 DEF FilesListed, Take, CallOK, TypeOK
  <2>2. calls' = calls \ {c} /\ UNCHANGED <<page, draft, toggle, hooks, filesOpen, busy, missed>>
    BY <1>4 DEF FilesListed
  <2> QED BY <1>0, <1>01, <2>1, <2>2 DEF PageInv, DraftHome, Panel, page
<1>5. CASE Saved(c)
  <2> DEFINE S == {a \in {Ask("rooms", NoRoom, None)} : c.stage = "ok"}
  <2>1. \A a \in S : CallOK(a) BY <1>02
  <2>2. Send(S, calls \ {c}) /\ UNCHANGED <<page, panel>> BY <1>5 DEF Saved
  <2> HIDE DEF S
  <2> QED BY <1>0, <1>03, <2>1, <2>2 DEF panel, TypeOK
<1>6. CASE EmailSet(c)
  <2> DEFINE S == {a \in {Ask("rooms", NoRoom, None)} : c.stage = "ok"}
  <2>1. \A a \in S : CallOK(a) BY <1>02
  <2>2. Send(S, calls \ {c}) /\ UNCHANGED <<page, draft, hooks, section, busy>> BY <1>6 DEF EmailSet
  <2>3. toggle' \in BOOLEAN BY <1>0, <1>6 DEF EmailSet, TypeOK
  <2> HIDE DEF S
  <2> QED BY <1>0, <1>03, <2>1, <2>2, <2>3 DEF TypeOK
<1>7. CASE HooksChanged(c)
  <2> DEFINE s == IF c.kind = "create" THEN c.arg ELSE Sort[c.arg]
             S == {[a EXCEPT !.mine = c.mine] :
                     a \in {b \in {Ask("hooks", c.room, s)} : c.stage = "ok"}}
  <2>0. c.room \in Rooms /\ s \in Sorts
    BY <1>01, <1>7 DEF HooksChanged, Take, CallOK, Sorts
  <2>1. CallOK(Ask("hooks", c.room, s))
    <3> HIDE DEF s
    <3> QED BY <2>0, AskOK
  <2>2. \A a \in S : CallOK(a)
    <3> HIDE DEF s
    <3> QED BY <2>1, DisownedOK
  <2>3. Send(S, calls \ {c}) /\ UNCHANGED <<page, panel>> BY <1>7 DEF HooksChanged
  <2> HIDE DEF S
  <2> QED BY <1>0, <1>03, <2>2, <2>3 DEF panel, TypeOK
<1>8. CASE Managed(c)
  <2> DEFINE S == {a \in {Ask("members", c.room, None), Ask("rooms", NoRoom, None)} :
                     c.stage = "ok" /\ (a.kind = "rooms" => c.kind = "transfer")}
  <2>0. c.room \in Rooms BY <1>01, <1>8 DEF Managed, Take, CallOK
  <2>1. CallOK(Ask("members", c.room, None)) BY <2>0, AskOK
  <2>2. \A a \in S : CallOK(a) BY <1>02, <2>1
  <2>3. Send(S, calls \ {c}) /\ UNCHANGED <<page, draft, toggle, hooks, section>> BY <1>8 DEF Managed
  <2>4. busy' \in BOOLEAN BY <1>0, <1>8 DEF Managed, TypeOK
  <2> HIDE DEF S
  <2> QED BY <1>0, <1>03, <2>2, <2>3, <2>4 DEF TypeOK
<1>9. CASE Gone(c)
  <2>1. CASE c.stage = "ok"
    <3>1. Become(NoRoom, FALSE, FALSE, list, {Ask("rooms", NoRoom, None)}, calls \ {c}, FALSE)
      BY <1>9, <2>1 DEF Gone
    <3>2. \A a \in {Ask("rooms", NoRoom, None)} : CallOK(a) BY <1>02
    <3>3. \A a \in calls \ {c} : CallOK(a) BY <1>01
    <3>4. NoRoom \in Rooms \cup {NoRoom} /\ FALSE \in BOOLEAN OBVIOUS
    <3>5. list \in Listing BY <1>0
    <3> QED BY <3>1, <3>2, <3>3, <3>4, <3>5, BecomeOK
  <2>2. CASE c.stage # "ok"
    <3>1. calls' = calls \ {c} /\ UNCHANGED <<panel, page, missed>> BY <1>9, <2>2 DEF Gone
    <3> QED BY <1>0, <1>01, <3>1 DEF PageInv, DraftHome, Panel, panel, page, section
  <2> QED BY <2>1, <2>2
<1>10. CASE Entered(c)
  <2> DEFINE S == {a \in {Ask("rooms", NoRoom, c.room)} : c.stage = "ok"}
  <2>1. CallOK(Ask("rooms", NoRoom, c.room))
    BY <1>01, <1>10, AskOK DEF Entered, Take, CallOK
  <2>2. \A a \in S : CallOK(a) BY <2>1
  <2>3. Send(S, calls \ {c}) /\ UNCHANGED <<page, panel>> BY <1>10 DEF Entered
  <2> HIDE DEF S
  <2> QED BY <1>0, <1>03, <2>2, <2>3 DEF panel, TypeOK
<1> QED BY <1>1, <1>2, <1>3, <1>4, <1>5, <1>6, <1>7, <1>8, <1>9, <1>10 DEF Answer

\* Neither does a step of the page, which leaves the server's rooms alone, break
\* what holds of them.
LEMMA PageOnly ==
  ASSUME PanelInv, PageInv', UNCHANGED server
  PROVE PanelInv'
<1>1. NamesStayHome' BY DEF PanelInv, NamesStayHome, server
<1>2. TypeOK' 
  BY DEF PanelInv, PageInv, TypeOK, Listing, server
<1> QED BY <1>1, <1>2 DEF PanelInv, PageInv, server

\* The invariant holds at first.
LEMMA InitPanel == Init => PanelInv
<1> SUFFICES ASSUME Init PROVE PanelInv
  OBVIOUS
<1>1. name \in [Rooms -> Names] /\ NamesStayHome BY DEF Init, Names, NamesStayHome
<1>2. role \in [Rooms -> Roles] BY RoomPanelAssumption DEF Init, Roles, In
<1>3. email \in [Rooms -> BOOLEAN] BY DEF Init
<1>4. MyList \in Listing BY <1>1, <1>2, <1>3 DEF MyList, Listing, Records, NamesStayHome
<1>5. /\ list \in Listing /\ list \in [Rooms -> Records \cup {None}]
      /\ copies \subseteq Listing /\ copies \subseteq [Rooms -> Records \cup {None}]
  BY <1>4 DEF Init, Listing
<1>6. stand \in [Hooks -> {"unmade", "live", "revoked"}] BY DEF Init
<1>7. /\ at = NoRoom /\ open = FALSE /\ crew = None /\ draft = None /\ toggle = FALSE
      /\ busy = FALSE /\ hooks = [s \in Sorts |-> {}] /\ filesOpen = FALSE /\ files = None
      /\ calls = {} /\ missed = {}
  BY DEF Init
<1>8. TypeOK BY <1>1, <1>2, <1>3, <1>5, <1>6, <1>7 DEF TypeOK
<1>9. DraftHome BY <1>7 DEF DraftHome, Panel
<1> QED BY <1>1, <1>5, <1>7, <1>8, <1>9 DEF PanelInv

\* It is kept by every step.
LEMMA StepPanel == PanelInv /\ [Next]_vars => PanelInv'
<1> SUFFICES ASSUME PanelInv, [Next]_vars PROVE PanelInv'
  OBVIOUS
<1>1. CASE UNCHANGED vars
  BY <1>1 DEF vars, server, panel, section, page, PanelInv, TypeOK, NamesStayHome, DraftHome, Panel
<1>2. CASE \/ \E r \in Rooms \cup {NoRoom} : GoTo(r)
           \/ TogglePanel \/ ToggleFiles \/ TypeName \/ Save \/ ToggleEmail
           \/ AddMember \/ ManageMember \/ Leave \/ Delete
           \/ \E s \in Sorts : CreateHook(s)
           \/ \E h \in Hooks : Revoke(h)
           \/ \E r \in Rooms : Enter(r)
  BY <1>2, UserStep, PageOnly
<1>3. CASE \/ \E c \in calls : Serve(c) \/ Break(c) \/ Copied(c)
           \/ \E r \in Rooms : Rename(r) \/ SetRole(r) \/ Added(r)
  BY <1>3, ServerStep
<1>4. CASE \E c \in calls : Answer(c)
  BY <1>4, AnswerStep, PageOnly
<1> QED BY <1>1, <1>2, <1>3, <1>4 DEF Next

\* So it always holds.
LEMMA PanelStays == Spec => []PanelInv
BY InitPanel, StepPanel, PTL DEF Spec

\* Every variable keeps its type, for any rooms, webhooks and roles.
THEOREM PanelTypes == Spec => []TypeOK
BY PanelStays, PTL DEF PanelInv

\* The name typed or read for one room is never saved to, or shown of, another
\* (handleSaveSettings of RoomInfoPanel.tsx, over the effect that refills the
\* panel), however the user moves and the calls are answered.
THEOREM NamesStay == Spec => []NamesStayHome
BY PanelStays, PTL DEF PanelInv

(***************************************************************************)
(* What the panel shows                                                    *)
(***************************************************************************)

\* At most one of them.
Alone(S) == \A c, d \in S : c = d

\* The calls of a kind; the loads of webhooks a mounted panel waits for.
OfKind(k) == {c \in calls : c.kind = k}
Loads(s) == {c \in OfKind("hooks") : c.mine /\ c.arg = s}
FileLoads == {c \in OfKind("files") : c.mine}

\* A call that makes or revokes webhooks of a sort.
Changes(c, s) == \/ c.kind = "create" /\ c.arg = s
                 \/ c.kind = "revoke" /\ Sort[c.arg] = s

\* A load of the page falls with no panel, and what a failed call was to set,
\* for a panel still there or as a choice stored, is missed.
CallFair(c) ==
  /\ c.stage \in {"sent", "ok", "failed"}
  /\ c.kind \in PageLoads => c.mine
  /\ c.stage = "failed" /\ Fills(c) \in Lists /\ (c.mine \/ c.kind = "email")
       => Fills(c) \in missed

\* The members on screen are the room's, or a load of them is under way.
CrewFollows ==
  "members" \notin missed /\ at # NoRoom =>
    /\ \A c \in OfKind("members") : c.room = at
    /\ crew = at \/ OfKind("members") # {}

\* The webhooks on screen are the room's as they are, or the one load under way
\* brings them, or a change of them is about to start one.
HooksFollow ==
  \A s \in Sorts \ missed :
    /\ Alone(Loads(s))
    /\ Panel # None /\ Manages(Panel.role) =>
         /\ \A c \in Loads(s) : c.room = at
         /\ \/ \E c \in Loads(s) : c.stage = "sent" \/ c.got = Live(at, s)
            \/ Loads(s) = {} /\ hooks[s] = Live(at, s)
            \/ \E c \in calls : Changes(c, s) /\ c.stage = "ok" /\ c.room = at

\* The open section lists the room's files, or waits for them.
FilesFollow ==
  filesOpen =>
    /\ Panel # None
    /\ "files" \notin missed => /\ \A c \in FileLoads : c.room = at
                                /\ files = at \/ FileLoads # {}

\* A list of rooms that gives a room this user's e-mail choice as it is.
Fresh(l, r) == l[r] # None => l[r].email = email[r]

\* For every room the page's list has the choice as it is, or the one list under
\* way brings it, or an answer to a choice is about to ask for one.
ListFollows ==
  /\ Alone(OfKind("rooms"))
  /\ \A r \in Rooms :
       \/ \E c \in OfKind("rooms") : c.stage = "sent" \/ Fresh(c.got, r)
       \/ OfKind("rooms") = {} /\ Fresh(list, r)
       \/ \E c \in OfKind("email") : c.stage = "ok" /\ c.room = r

\* A toggle that differs from the list was clicked, and is stored or about to be.
ToggleFollows ==
  /\ Alone(OfKind("email"))
  /\ Panel # None /\ toggle # Panel.email =>
       LET sent == {c \in OfKind("email") : c.stage = "sent" /\ c.room = at}
       IN /\ \A c \in sent : c.arg = toggle
          /\ sent # {} \/ email[at] = toggle

ChoiceFollows ==
  /\ "rooms" \notin missed => ListFollows
  /\ "email" \notin missed => ToggleFollows

ShowInv ==
  /\ PanelInv
  /\ \A c \in calls : CallFair(c)
  /\ CrewFollows /\ HooksFollow /\ FilesFollow /\ ChoiceFollows

\* The sorts of webhooks are no kinds of calls.
LEMMA SortsApart == Sorts \subseteq {"incoming", "event"}
BY RoomPanelAssumption DEF Sorts

\* The fields of a call that was just made.
LEMMA AskIs ==
  ASSUME NEW k, NEW r, NEW x
  PROVE LET a == Ask(k, r, x)
        IN a.kind = k /\ a.room = r /\ a.arg = x /\ a.stage = "sent" /\ a.mine
<1> DEFINE n == FreeId(k)
<1>1. Ask(k, r, x) = [id |-> n, kind |-> k, room |-> r, arg |-> x,
                      stage |-> "sent", got |-> None, mine |-> TRUE]
  BY DEF Ask
<1> HIDE DEF n
<1> QED BY <1>1

\* Of the calls sent, those that are not missed alone set what they set; what
\* was missed and is no longer, one of them sets.
LEMMA SendIs ==
  ASSUME NEW S, NEW rest, Send(S, rest)
  PROVE /\ calls' = rest \cup S
        /\ \A a \in S : Fills(a) \in Lists /\ Fills(a) \notin missed' =>
             /\ a.mine
             /\ a.kind = "rooms" \/ a.room = at'
             /\ \A d \in rest : d.mine \/ d.kind = "email" => Fills(d) # Fills(a)
        /\ \A k \in missed \ missed' : \E a \in S : Fills(a) = k /\ k \in Lists
<1> DEFINE asked == {a \in S : Fills(a) \in Lists}
           unseen == {a \in asked : Unseen(a, rest)}
           seen == {Fills(a) : a \in asked \ unseen}
           M == {Fills(a) : a \in unseen}
<1>1. calls' = rest \cup S /\ missed' = (missed \ seen) \cup M BY DEF Send
<1>2. \A a \in S : Fills(a) \in Lists /\ Fills(a) \notin missed' => ~Unseen(a, rest)
  BY <1>1
<1>3. \A k \in missed \ missed' : \E a \in S : Fills(a) = k /\ k \in Lists
  BY <1>1
<1> HIDE DEF asked, unseen, seen, M
<1> QED BY <1>1, <1>2, <1>3 DEF Unseen

\* A call whose name tells what it sets.
Named(a) == a.kind \notin {"incoming", "event"} /\ (a.kind = "hooks" => a.arg \in Sorts)

\* What is missed no longer was asked for by a call of that name.
LEMMA ClearedIs ==
  ASSUME NEW S, NEW rest, Send(S, rest), \A a \in S : Named(a), NEW k \in missed \ missed'
  PROVE /\ k \in Sorts => \E a \in S : a.kind = "hooks" /\ a.arg = k
        /\ k \notin Sorts => \E a \in S : a.kind = k
<1>1. PICK a \in S : Fills(a) = k BY SendIs
<1> QED BY <1>1, SortsApart DEF Fills, Named

\* What is shown, without the invariant it rests on.
ShowPart ==
  /\ \A c \in calls : CallFair(c)
  /\ CrewFollows /\ HooksFollow /\ FilesFollow /\ ChoiceFollows

\* Calls that were just sent, or stay, are fair.
LEMMA SentFair ==
  ASSUME NEW S, NEW rest, Send(S, rest), \A c \in rest : CallFair(c),
         \A a \in S : a.stage = "sent" /\ (a.kind \in PageLoads => a.mine)
  PROVE \A c \in calls' : CallFair(c)'
<1>1. /\ calls' = rest \cup S
      /\ \A a \in S : Fills(a) \in Lists /\ Fills(a) \notin missed' =>
           \A d \in rest : d.mine \/ d.kind = "email" => Fills(d) # Fills(a)
      /\ \A k \in missed \ missed' : \E a \in S : Fills(a) = k /\ k \in Lists
  BY SendIs
<1>2. \A c \in rest : c.mine \/ c.kind = "email" => Fills(c) \notin missed \ missed'
  BY <1>1
<1> QED BY <1>1, <1>2 DEF CallFair

\* A step that leaves the page, the webhooks and the choices alone.
LEMMA QuietShows ==
  ASSUME ShowInv, UNCHANGED <<page, toggle, hooks, section, email, stand, calls, missed>>
  PROVE ShowPart'
<1>1. Panel' = Panel BY DEF Panel, page
<1>2. \A r, s : Live(r, s)' = Live(r, s) BY DEF Live
<1>3. /\ \A k : OfKind(k)' = OfKind(k)
      /\ \A s : Loads(s)' = Loads(s)
      /\ FileLoads' = FileLoads
  BY DEF OfKind, Loads, FileLoads
<1>4. (\A c \in calls : CallFair(c))' BY DEF ShowInv, CallFair
<1>5. CrewFollows' BY <1>3 DEF ShowInv, CrewFollows, page
<1>6. HooksFollow' BY <1>1, <1>2, <1>3 DEF ShowInv, HooksFollow, page
<1>7. FilesFollow' BY <1>1, <1>3 DEF ShowInv, FilesFollow, page, section
<1>8. ChoiceFollows'
  BY <1>1, <1>3 DEF ShowInv, ChoiceFollows, ListFollows, ToggleFollows, Fresh, page
<1> QED BY <1>4, <1>5, <1>6, <1>7, <1>8 DEF ShowPart

\* The calls a step may send without the page going anywhere, and the answers
\* it may take: none is a load, and who takes the answer to a change asks anew.
Sends(S, gone) ==
  /\ gone \subseteq calls
  /\ Send(S, calls \ gone)
  /\ \A a \in S : a.stage = "sent" /\ (a.kind \in PageLoads => a.mine) /\ Named(a)
  /\ \A a, b \in S : Fills(a) = Fills(b) => a = b
  /\ \A g \in gone : g.stage # "sent" /\ g.kind \notin {"members", "hooks", "files", "rooms"}
  /\ \A g \in gone : \A s \in Sorts :
       Changes(g, s) /\ g.stage = "ok" => \E a \in S : a.kind = "hooks" /\ a.arg = s
  /\ (\E g \in gone : g.kind = "email" /\ g.stage = "ok") => \E a \in S : a.kind = "rooms"

\* The members on screen.
LEMMA SendCrew ==
  ASSUME ShowInv, NEW S, NEW gone, Sends(S, gone), UNCHANGED page
  PROVE CrewFollows'
<1>1. /\ calls' = (calls \ gone) \cup S
      /\ \A a \in S : Fills(a) \in Lists /\ Fills(a) \notin missed' =>
           /\ a.kind = "rooms" \/ a.room = at'
           /\ \A d \in calls \ gone : d.mine \/ d.kind = "email" => Fills(d) # Fills(a)
  BY SendIs DEF Sends
<1> SUFFICES ASSUME "members" \notin missed', at' # NoRoom
             PROVE /\ \A c \in OfKind("members")' : c.room = at'
                   /\ crew' = at' \/ OfKind("members")' # {}
  BY DEF CrewFollows
<1>2. \A a \in S : a.kind = "members" =>
        a.room = at' /\ \A d \in calls \ gone : d.mine => d.kind # "members"
  BY <1>1 DEF Fills, Lists, PageLoads
<1>3. CASE \E a \in S : a.kind = "members"
  <2>1. \A d \in calls \ gone : d.kind # "members"
    BY <1>2, <1>3 DEF ShowInv, CallFair, PageLoads
  <2> QED BY <1>1, <1>2, <1>3, <2>1 DEF OfKind
<1>4. CASE ~\E a \in S : a.kind = "members"
  <2>1. "members" \notin missed BY <1>4, ClearedIs, SortsApart DEF Sends
  <2>2. /\ \A c \in OfKind("members") : c.room = at
        /\ crew = at \/ OfKind("members") # {}
    BY <2>1 DEF ShowInv, CrewFollows, page
  <2>3. OfKind("members")' = OfKind("members") BY <1>1, <1>4 DEF OfKind, Sends
  <2> QED BY <2>2, <2>3 DEF page
<1> QED BY <1>3, <1>4

\* The webhooks on screen.
LEMMA SendHooks ==
  ASSUME ShowInv, NEW S, NEW gone, Sends(S, gone), UNCHANGED <<page, hooks, stand>>
  PROVE HooksFollow'
<1>1. /\ calls' = (calls \ gone) \cup S
      /\ \A a \in S : Fills(a) \in Lists /\ Fills(a) \notin missed' =>
           /\ a.mine
           /\ a.kind = "rooms" \/ a.room = at'
           /\ \A d \in calls \ gone : d.mine \/ d.kind = "email" => Fills(d) # Fills(a)
  BY SendIs DEF Sends
<1>2. Panel' = Panel /\ at' = at BY DEF Panel, page
<1> SUFFICES ASSUME NEW s \in Sorts, s \notin missed'
             PROVE /\ Alone(Loads(s)')
                   /\ Panel # None /\ Manages(Panel.role) =>
                        /\ \A c \in Loads(s)' : c.room = at
                        /\ \/ \E c \in Loads(s)' : c.stage = "sent" \/ c.got = Live(at, s)
                           \/ Loads(s)' = {} /\ hooks[s] = Live(at, s)
                           \/ \E c \in calls' : Changes(c, s) /\ c.stage = "ok" /\ c.room = at
  BY <1>2 DEF HooksFollow, Live, Alone
<1>3. CASE \E a \in S : a.kind = "hooks" /\ a.arg = s
  <2>1. PICK a \in S : a.kind = "hooks" /\ a.arg = s BY <1>3
  <2>2. Fills(a) = s /\ s \in Lists BY <2>1 DEF Fills, Lists
  <2>3. a.mine /\ a.room = at /\ \A d \in calls \ gone : d.mine => Fills(d) # s
    BY <1>1, <1>2, <2>1, <2>2
  <2>4. \A b \in S : b.kind = "hooks" /\ b.arg = s => b = a
    BY <2>1, <2>2 DEF Sends, Fills
  <2>5. Loads(s)' = {a}
    BY <1>1, <2>1, <2>3, <2>4 DEF Loads, OfKind, Fills
  <2>6. a.stage = "sent" BY <2>1 DEF Sends
  <2> QED BY <2>3, <2>5, <2>6 DEF Alone
<1>4. CASE ~\E a \in S : a.kind = "hooks" /\ a.arg = s
  <2>1. s \notin missed BY <1>4, ClearedIs DEF Sends
  <2>2. /\ Alone(Loads(s))
        /\ Panel # None /\ Manages(Panel.role) =>
             /\ \A c \in Loads(s) : c.room = at
             /\ \/ \E c \in Loads(s) : c.stage = "sent" \/ c.got = Live(at, s)
                \/ Loads(s) = {} /\ hooks[s] = Live(at, s)
                \/ \E c \in calls : Changes(c, s) /\ c.stage = "ok" /\ c.room = at
    BY <2>1 DEF ShowInv, HooksFollow
  <2>3. Loads(s)' = Loads(s) BY <1>1, <1>4 DEF Loads, OfKind, Sends
  <2>4. \A c \in calls : Changes(c, s) /\ c.stage = "ok" => c \in calls'
    BY <1>1, <1>4 DEF Sends
  <2> QED BY <2>2, <2>3, <2>4
<1> QED BY <1>3, <1>4

\* The files on screen.
LEMMA SendFiles ==
  ASSUME ShowInv, NEW S, NEW gone, Sends(S, gone), UNCHANGED <<page, section>>
  PROVE FilesFollow'
<1>1. /\ calls' = (calls \ gone) \cup S
      /\ \A a \in S : Fills(a) \in Lists /\ Fills(a) \notin missed' =>
           /\ a.mine
           /\ a.kind = "rooms" \/ a.room = at'
           /\ \A d \in calls \ gone : d.mine \/ d.kind = "email" => Fills(d) # Fills(a)
  BY SendIs DEF Sends
<1>2. Panel' = Panel /\ at' = at BY DEF Panel, page
<1> SUFFICES ASSUME filesOpen, "files" \notin missed'
             PROVE /\ \A c \in FileLoads' : c.room = at
                   /\ files = at \/ FileLoads' # {}
  BY <1>2 DEF ShowInv, FilesFollow, section
<1>3. \A a \in S : a.kind = "files" =>
        a.mine /\ a.room = at /\ \A d \in calls \ gone : d.mine => d.kind # "files"
  BY <1>1, <1>2 DEF Fills, Lists
<1>4. CASE \E a \in S : a.kind = "files"
  BY <1>1, <1>3, <1>4 DEF FileLoads, OfKind
<1>5. CASE ~\E a \in S : a.kind = "files"
  <2>1. "files" \notin missed BY <1>5, ClearedIs, SortsApart DEF Sends
  <2>2. FileLoads' = FileLoads BY <1>1, <1>5 DEF FileLoads, OfKind, Sends
  <2> QED BY <2>1, <2>2 DEF ShowInv, FilesFollow
<1> QED BY <1>4, <1>5

\* The page's list of rooms.
LEMMA SendList ==
  ASSUME ShowInv, NEW S, NEW gone, Sends(S, gone), UNCHANGED <<page, email>>,
         "rooms" \notin missed'
  PROVE ListFollows'
<1>1. /\ calls' = (calls \ gone) \cup S
      /\ \A a \in S : Fills(a) \in Lists /\ Fills(a) \notin missed' =>
           \A d \in calls \ gone : d.mine \/ d.kind = "email" => Fills(d) # Fills(a)
  BY SendIs DEF Sends
<1>2. \A c \in calls : c.kind = "rooms" => c.mine BY DEF ShowInv, CallFair, PageLoads
<1>3. CASE \E a \in S : a.kind = "rooms"
  <2>1. PICK a \in S : a.kind = "rooms" BY <1>3
  <2>2. Fills(a) = "rooms" /\ "rooms" \in Lists BY <2>1 DEF Fills, Lists, PageLoads
  <2>3. \A d \in calls \ gone : d.kind # "rooms" BY <1>1, <1>2, <2>2 DEF Fills
  <2>4. \A b \in S : b.kind = "rooms" => b = a BY <2>1, <2>2 DEF Sends, Fills
  <2>5. OfKind("rooms")' = {a} BY <1>1, <2>1, <2>3, <2>4 DEF OfKind
  <2>6. a.stage = "sent" BY <2>1 DEF Sends
  <2> QED BY <2>5, <2>6 DEF ListFollows, Alone
<1>4. CASE ~\E a \in S : a.kind = "rooms"
  <2>1. "rooms" \notin missed BY <1>4, ClearedIs, SortsApart DEF Sends
  <2>2. ListFollows BY <2>1 DEF ShowInv, ChoiceFollows
  <2>3. OfKind("rooms")' = OfKind("rooms") BY <1>1, <1>4 DEF OfKind, Sends
  <2>4. \A c \in OfKind("email") : c.stage = "ok" => c \in OfKind("email")'
    BY <1>1, <1>4 DEF OfKind, Sends
  <2> QED BY <2>2, <2>3, <2>4 DEF ListFollows, Fresh, page
<1> QED BY <1>3, <1>4

\* The toggle, when the choice is not touched, or clicked.
LEMMA SendToggle ==
  ASSUME ShowInv, NEW S, NEW gone, Sends(S, gone), UNCHANGED <<page, email>>,
         "email" \notin missed',
         \/ toggle' = toggle /\ \A a \in S : a.kind # "email"
         \/ \E a \in S : a.kind = "email" /\ a.room = at /\ a.arg = toggle'
  PROVE ToggleFollows'
<1>1. /\ calls' = (calls \ gone) \cup S
      /\ \A a \in S : Fills(a) \in Lists /\ Fills(a) \notin missed' =>
           \A d \in calls \ gone : d.mine \/ d.kind = "email" => Fills(d) # Fills(a)
  BY SendIs DEF Sends
<1>2. Panel' = Panel /\ at' = at BY DEF Panel, page
<1>3. CASE \E a \in S : a.kind = "email" /\ a.room = at /\ a.arg = toggle'
  <2>1. PICK a \in S : a.kind = "email" /\ a.room = at /\ a.arg = toggle' BY <1>3
  <2>2. Fills(a) = "email" /\ "email" \in Lists BY <2>1 DEF Fills, Lists
  <2>3. \A d \in calls \ gone : d.kind # "email" BY <1>1, <2>2 DEF Fills
  <2>4. \A b \in S : b.kind = "email" => b = a BY <2>1, <2>2 DEF Sends, Fills
  <2>5. OfKind("email")' = {a} BY <1>1, <2>1, <2>3, <2>4 DEF OfKind
  <2>6. a.stage = "sent" BY <2>1 DEF Sends
  <2> QED BY <1>2, <2>1, <2>5, <2>6 DEF ToggleFollows, Alone
<1>4. CASE toggle' = toggle /\ \A a \in S : a.kind # "email"
  <2>1. "email" \notin missed BY <1>4, ClearedIs, SortsApart DEF Sends
  <2>2. ToggleFollows BY <2>1 DEF ShowInv, ChoiceFollows
  <2>3. OfKind("email")' \subseteq OfKind("email") BY <1>1, <1>4 DEF OfKind
  <2>4. \A c \in OfKind("email") : c.stage = "sent" => c \in OfKind("email")'
    BY <1>1 DEF OfKind, Sends
  <2> QED BY <1>2, <1>4, <2>2, <2>3, <2>4 DEF ToggleFollows, Alone
<1> QED BY <1>3, <1>4

\* All of it.
LEMMA SendShows ==
  ASSUME ShowInv, NEW S, NEW gone, Sends(S, gone),
         UNCHANGED <<page, hooks, section, email, stand>>,
         \/ toggle' = toggle /\ \A a \in S : a.kind # "email"
         \/ \E a \in S : a.kind = "email" /\ a.room = at /\ a.arg = toggle'
         \/ "email" \in missed'
  PROVE ShowPart'
<1>1. \A c \in calls' : CallFair(c)' BY SentFair DEF ShowInv, Sends
<1>2. CrewFollows' BY SendCrew
<1>3. HooksFollow' BY SendHooks
<1>4. FilesFollow' BY SendFiles
<1>5. ChoiceFollows' BY SendList, SendToggle DEF ChoiceFollows
<1> QED BY <1>1, <1>2, <1>3, <1>4, <1>5 DEF ShowPart

(***************************************************************************)
(* The page goes over                                                      *)
(***************************************************************************)

\* Closing a panel leaves its calls what they are, but nobody's.
Disown(c) == [c EXCEPT !.mine = @ /\ c.kind \in PageLoads]

\* What of a disowned call is as it was.
LEMMA DisownIs ==
  ASSUME NEW c, CallOK(c)
  PROVE LET d == Disown(c)
        IN /\ d.kind = c.kind /\ d.room = c.room /\ d.arg = c.arg
           /\ d.stage = c.stage /\ d.got = c.got
           /\ d.mine => c.mine /\ c.kind \in PageLoads
           /\ c.mine /\ c.kind \in PageLoads => d.mine
<1> DEFINE m == c.mine /\ c.kind \in PageLoads
           d == [c EXCEPT !.mine = m]
<1>1. c = [id |-> c.id, kind |-> c.kind, room |-> c.room, arg |-> c.arg,
           stage |-> c.stage, got |-> c.got, mine |-> c.mine]
  BY DEF CallOK
<1>2. d = [id |-> c.id, kind |-> c.kind, room |-> c.room, arg |-> c.arg,
           stage |-> c.stage, got |-> c.got, mine |-> m]
  <2> HIDE DEF m
  <2> QED BY <1>1
<1>3. Disown(c) = d BY DEF Disown
<1>4. /\ d.kind = c.kind /\ d.room = c.room /\ d.arg = c.arg
      /\ d.stage = c.stage /\ d.got = c.got /\ d.mine = m
  <2> HIDE DEF m
  <2> QED BY <1>2
<1> HIDE DEF d
<1> QED BY <1>3, <1>4

\* How a list of rooms that the page goes over to, and the calls under way then,
\* stand to the choices on the server.
ListComes(l, rest) ==
  LET loads == {c \in rest : c.kind = "rooms"}
  IN /\ Alone(loads)
     /\ \A r \in Rooms :
          \/ \E c \in loads : c.stage = "sent" \/ Fresh(c.got, r)
          \/ loads = {} /\ Fresh(l, r)
          \/ \E c \in rest : c.kind = "email" /\ c.stage = "ok" /\ c.room = r

\* What Become does, in parts that do not show the calls it makes: those left
\* are as they were or disowned, those it sends are loads, and one is a load of
\* webhooks, files or members exactly when the effect asked for it.
Becomes(r, o, f, l, S, rest, left, sent) ==
  LET now == IF o /\ r # NoRoom THEN l[r] ELSE None
  IN /\ at' = r /\ open' = o /\ list' = l /\ crew' = crew /\ Panel' = now
     /\ filesOpen' = (f /\ now # None)
     /\ now = None => left = {Disown(c) : c \in rest}
     /\ now # None => left = rest /\ files' = files
     /\ now # None /\ Refill(r, o, l) => toggle' = now.email
     /\ now # None /\ ~Refill(r, o, l) =>
          /\ toggle' = toggle /\ Panel # None /\ r = at
          /\ now.email = Panel.email /\ Manages(now.role) = Manages(Panel.role)
          /\ Manages(now.role) => hooks' = hooks
     /\ Send(sent, left)
     /\ \A a \in sent : /\ a.stage = "sent" /\ a.mine /\ Named(a)
                        /\ a.kind \in {"rooms", "hooks", "files", "members"}
     /\ \A a, b \in sent : Fills(a) = Fills(b) => a = b
     /\ \A s \in Sorts : (\E a \in sent : a.kind = "hooks" /\ a.arg = s)
                           <=> (now # None /\ Refill(r, o, l) /\ Manages(now.role))
     /\ (\E a \in sent : a.kind = "files") <=> (now # None /\ FilesAsked(r, filesOpen, f))
     /\ (\E a \in sent : a.kind = "members") <=> MembersAsked(r)
     /\ \A a \in sent : a.kind = "rooms" => a \in S

\* Become is that.
LEMMA BecomeIs ==
  ASSUME PanelInv, NEW r, NEW o, NEW f, NEW l, NEW S, NEW rest, NEW b,
         \/ S = {} \/ S = {Ask("rooms", NoRoom, None)},
         Become(r, o, f, l, S, rest, b)
  PROVE \E left, sent : Becomes(r, o, f, l, S, rest, left, sent)
<1> DEFINE now == IF o /\ r # NoRoom THEN l[r] ELSE None
           refill == Refill(r, o, l)
           left == IF now = None THEN {Disown(c) : c \in rest} ELSE rest
           asked == {Ask("hooks", r, s) : s \in {t \in Sorts : refill /\ Manages(now.role)}}
           filed == {c \in {Ask("files", r, None)} : now # None /\ FilesAsked(r, filesOpen, f)}
           crewed == {c \in {Ask("members", r, None)} : MembersAsked(r)}
           sent == S \cup asked \cup filed \cup crewed
<1>1. /\ at' = r /\ open' = o /\ list' = l /\ crew' = crew
      /\ filesOpen' = (f /\ now # None)
      /\ files' = IF now = None THEN None ELSE files
      /\ hooks' = IF now = None \/ Panel = None \/ ~Manages(now.role)
                  THEN [s \in Sorts |-> {}] ELSE hooks
      /\ Send(sent, left)
  BY DEF Become, Disown
<1>2. /\ now # None /\ refill => toggle' = now.email
      /\ now # None /\ ~refill => toggle' = toggle
  BY DEF Become
<1>3. Panel' = now BY <1>1 DEF Panel
<1>4. now # None /\ ~refill => /\ Panel # None /\ r = at
                               /\ now.email = Panel.email
                               /\ Manages(now.role) = Manages(Panel.role)
  BY DEF Refill, View
<1>5. \A a \in S : a.kind = "rooms" /\ a.stage = "sent" /\ a.mine
  BY AskIs
<1>6. \A a \in asked : /\ a.kind = "hooks" /\ a.stage = "sent" /\ a.mine /\ a.arg \in Sorts
                       /\ refill /\ Manages(now.role) /\ a = Ask("hooks", r, a.arg)
  BY AskIs
<1>7. \A s \in Sorts : refill /\ Manages(now.role) => Ask("hooks", r, s) \in asked
  OBVIOUS
<1>8. \A a \in filed : /\ a = Ask("files", r, None) /\ a.kind = "files" /\ a.stage = "sent" /\ a.mine
                       /\ now # None /\ FilesAsked(r, filesOpen, f)
  BY AskIs
<1>9. now # None /\ FilesAsked(r, filesOpen, f) => Ask("files", r, None) \in filed
  OBVIOUS
<1>10. \A a \in crewed : /\ a = Ask("members", r, None) /\ a.kind = "members" /\ a.stage = "sent"
                         /\ a.mine /\ MembersAsked(r)
  BY AskIs
<1>11. MembersAsked(r) => Ask("members", r, None) \in crewed
  OBVIOUS
<1>12. refill => now # None BY DEF Refill
<1>13. \A a, c \in S : a = c OBVIOUS
<1>14. now = None => left = {Disown(c) : c \in rest} OBVIOUS
<1>15. now # None => left = rest OBVIOUS
<1>16. sent = S \cup asked \cup filed \cup crewed OBVIOUS
<1> HIDE DEF left, asked, filed, crewed, sent
<1>17. \A a, c \in sent : Fills(a) = Fills(c) => a = c
  <2> SUFFICES ASSUME NEW a \in sent, NEW c \in sent, Fills(a) = Fills(c) PROVE a = c
    OBVIOUS
  <2>1. a.kind = "hooks" <=> c.kind = "hooks"
    BY <1>5, <1>6, <1>8, <1>10, <1>16, SortsApart DEF Fills
  <2>2. CASE a.kind = "hooks"
    BY <2>1, <2>2, <1>5, <1>6, <1>8, <1>10, <1>16 DEF Fills
  <2>3. CASE a.kind # "hooks"
    BY <2>1, <2>3, <1>5, <1>6, <1>8, <1>10, <1>13, <1>16 DEF Fills
  <2> QED BY <2>2, <2>3
<1>18. \A s \in Sorts : (\E a \in sent : a.kind = "hooks" /\ a.arg = s)
                          <=> (now # None /\ refill /\ Manages(now.role))
  BY <1>5, <1>6, <1>7, <1>8, <1>10, <1>12, <1>16, AskIs
<1>19. (\E a \in sent : a.kind = "files") <=> (now # None /\ FilesAsked(r, filesOpen, f))
  BY <1>5, <1>6, <1>8, <1>9, <1>10, <1>16, AskIs
<1>20. (\E a \in sent : a.kind = "members") <=> MembersAsked(r)
  BY <1>5, <1>6, <1>8, <1>10, <1>11, <1>16, AskIs
<1>21. \A a \in sent : /\ a.stage = "sent" /\ a.mine /\ Named(a)
                       /\ a.kind \in {"rooms", "hooks", "files", "members"}
                       /\ a.kind = "rooms" => a \in S
  BY <1>5, <1>6, <1>8, <1>10, <1>16 DEF Named
<1>22. Manages(now.role) /\ now # None /\ Panel # None => hooks' = hooks BY <1>1
<1>23. now # None => files' = files BY <1>1
<1>24. Becomes(r, o, f, l, S, rest, left, sent)
  BY <1>1, <1>2, <1>3, <1>4, <1>14, <1>15, <1>17, <1>18, <1>19, <1>20, <1>21, <1>22, <1>23
     DEF Becomes
<1> QED BY <1>24

\* A call before and after the panel over it closes.
Same(c, d) ==
  /\ d.kind = c.kind /\ d.room = c.room /\ d.arg = c.arg /\ d.stage = c.stage /\ d.got = c.got
  /\ c.mine /\ c.kind \in PageLoads => d.mine
  /\ d.mine => c.mine

\* The calls that stay under way when the page goes over: an answered list of
\* rooms, departure or deletion is not among them.
Rest(rest) == rest \subseteq calls /\ \A g \in calls \ rest : g.kind \in {"rooms", "leave", "delete"}

\* The calls left are those there were.
LEMMA LeftIs ==
  ASSUME ShowInv, NEW r, NEW o, NEW f, NEW l, NEW S, NEW rest, NEW left, NEW sent,
         Rest(rest), Becomes(r, o, f, l, S, rest, left, sent)
  PROVE /\ \A d \in left : \E c \in rest : Same(c, d)
        /\ \A c \in rest : \E d \in left : Same(c, d)
        /\ \A k : Alone({c \in rest : c.kind = k}) => Alone({d \in left : d.kind = k})
        /\ Panel' = None => \A d \in left : d.mine => d.kind \in PageLoads
        /\ Panel' # None => left = rest
        /\ \A d \in left : CallFair(d)
<1>1. \A c \in rest : CallOK(c) /\ CallFair(c) BY DEF ShowInv, PanelInv, Rest
<1>2. CASE Panel' = None
  <2>1. left = {Disown(c) : c \in rest} BY <1>2 DEF Becomes
  <2>2. \A c \in rest : /\ Same(c, Disown(c))
                        /\ Disown(c).mine => Disown(c).kind \in PageLoads
    BY <1>1, DisownIs DEF Same
  <2>3. \A d \in left : \E c \in rest : Same(c, d) BY <2>1, <2>2
  <2>4. \A c \in rest : \E d \in left : Same(c, d) BY <2>1, <2>2
  <2>5. \A d \in left : d.mine => d.kind \in PageLoads BY <2>1, <2>2
  <2>6. ASSUME NEW k, Alone({c \in rest : c.kind = k}) PROVE Alone({d \in left : d.kind = k})
    <3> SUFFICES ASSUME NEW d \in left, NEW e \in left, d.kind = k, e.kind = k PROVE d = e
      BY DEF Alone
    <3>1. PICK c \in rest : d = Disown(c) BY <2>1
    <3>2. PICK b \in rest : e = Disown(b) BY <2>1
    <3>3. c.kind = k /\ b.kind = k BY <2>2, <3>1, <3>2 DEF Same
    <3> QED BY <2>6, <3>1, <3>2, <3>3 DEF Alone
  <2>7. \A d \in left : CallFair(d)
    BY <1>1, <2>3 DEF Same, CallFair, Fills
  <2> QED BY <1>2, <2>3, <2>4, <2>5, <2>6, <2>7
<1>3. CASE Panel' # None
  <2>1. left = rest BY <1>3 DEF Becomes
  <2> QED BY <1>1, <1>3, <2>1 DEF Same
<1> QED BY <1>2, <1>3

\* The members: they are asked for exactly when the room changes.
LEMMA BecomeCrew ==
  ASSUME ShowInv, NEW r, NEW o, NEW f, NEW l, NEW S, NEW rest, NEW left, NEW sent,
         Rest(rest), Becomes(r, o, f, l, S, rest, left, sent)
  PROVE CrewFollows'
<1> SUFFICES ASSUME "members" \notin missed', r # NoRoom
             PROVE /\ \A c \in OfKind("members")' : c.room = r
                   /\ crew = r \/ OfKind("members")' # {}
  BY DEF CrewFollows, Becomes
<1>1. /\ calls' = left \cup sent /\ at' = r
      /\ \A a \in sent : Fills(a) \in Lists /\ Fills(a) \notin missed' =>
           /\ a.kind = "rooms" \/ a.room = at'
           /\ \A d \in left : d.mine \/ d.kind = "email" => Fills(d) # Fills(a)
  BY SendIs DEF Becomes
<1>2. \A a \in sent : a.kind = "members" =>
        /\ a.room = r
        /\ \A d \in left : d.mine => d.kind # "members"
  BY <1>1 DEF Fills, Lists, PageLoads
<1>3. CASE r = at
  <2>0. "members" \notin missed
    BY <1>3, ClearedIs, SortsApart DEF Becomes, MembersAsked
  <2>1. /\ \A c \in OfKind("members") : c.room = at
        /\ crew = at \/ OfKind("members") # {}
    BY <1>3, <2>0 DEF ShowInv, CrewFollows
  <2>2. \A d \in left : d.kind = "members" => d.room = r
    BY <1>3, <2>1, LeftIs DEF Same, OfKind, Rest
  <2>3. OfKind("members") # {} => OfKind("members")' # {}
    BY <1>1, LeftIs DEF Same, OfKind, Rest
  <2> QED BY <1>1, <1>2, <1>3, <2>1, <2>2, <2>3 DEF OfKind
<1>4. CASE r # at
  <2>1. PICK a \in sent : a.kind = "members" BY <1>4 DEF Becomes, MembersAsked
  <2>2. \A d \in left : d.kind # "members"
    BY <1>2, <2>1, LeftIs DEF CallFair, PageLoads
  <2> QED BY <1>1, <1>2, <2>1, <2>2 DEF OfKind
<1> QED BY <1>3, <1>4

\* The webhooks: an effect asks for them when the room or the role changes.
LEMMA BecomeHooks ==
  ASSUME ShowInv, NEW r, NEW o, NEW f, NEW l, NEW S, NEW rest, NEW left, NEW sent,
         Rest(rest), Becomes(r, o, f, l, S, rest, left, sent), UNCHANGED stand
  PROVE HooksFollow'
<1>1. /\ calls' = left \cup sent /\ at' = r
      /\ \A a \in sent : Fills(a) \in Lists /\ Fills(a) \notin missed' =>
           /\ a.mine
           /\ a.kind = "rooms" \/ a.room = at'
           /\ \A d \in left : d.mine \/ d.kind = "email" => Fills(d) # Fills(a)
  BY SendIs DEF Becomes
<1>2. \A s : Live(r, s)' = Live(r, s) BY DEF Live
<1> SUFFICES ASSUME NEW s \in Sorts, s \notin missed'
             PROVE /\ Alone(Loads(s)')
                   /\ Panel' # None /\ Manages(Panel'.role) =>
                        /\ \A c \in Loads(s)' : c.room = r
                        /\ \/ \E c \in Loads(s)' : c.stage = "sent" \/ c.got = Live(r, s)
                           \/ Loads(s)' = {} /\ hooks'[s] = Live(r, s)
                           \/ \E c \in calls' : Changes(c, s) /\ c.stage = "ok" /\ c.room = r
  BY <1>1, <1>2 DEF HooksFollow, Alone
<1>3. CASE \E a \in sent : a.kind = "hooks" /\ a.arg = s
  <2>1. PICK a \in sent : a.kind = "hooks" /\ a.arg = s BY <1>3
  <2>2. Fills(a) = s /\ s \in Lists BY <2>1 DEF Fills, Lists
  <2>3. a.mine /\ a.room = r /\ \A d \in left : d.mine => Fills(d) # s
    BY <1>1, <2>1, <2>2
  <2>4. \A b \in sent : b.kind = "hooks" /\ b.arg = s => b = a
    BY <2>1, <2>2 DEF Becomes, Fills
  <2>5. Loads(s)' = {a}
    BY <1>1, <2>1, <2>3, <2>4 DEF Loads, OfKind, Fills
  <2>6. a.stage = "sent" BY <2>1 DEF Becomes
  <2> QED BY <2>3, <2>5, <2>6 DEF Alone
<1>4. CASE ~\E a \in sent : a.kind = "hooks" /\ a.arg = s
  <2>0. s \notin missed BY <1>4, ClearedIs DEF Becomes
  <2>1. CASE Panel' = None
    <3>1. \A d \in left : ~(d.mine /\ d.kind = "hooks")
      BY <2>1, LeftIs DEF PageLoads
    <3>2. Loads(s)' = {} BY <1>1, <1>4, <3>1 DEF Loads, OfKind
    <3> QED BY <2>1, <3>2 DEF Alone
  <2>2. CASE Panel' # None
    <3>1. left = rest BY <2>2, LeftIs
    <3>2. Loads(s)' = Loads(s)
      BY <1>1, <1>4, <3>1 DEF Loads, OfKind, Rest
    <3>3. \A c \in calls : Changes(c, s) => c \in calls'
      BY <1>1, <3>1 DEF Changes, Rest
    <3>4. Alone(Loads(s)') BY <2>0, <3>2 DEF ShowInv, HooksFollow
    <3>5. Manages(Panel'.role) => /\ Panel # None /\ r = at /\ Manages(Panel.role)
                                  /\ hooks' = hooks
      BY <1>4, <2>2 DEF Becomes
    <3> QED BY <2>0, <3>2, <3>3, <3>4, <3>5 DEF ShowInv, HooksFollow
  <2> QED BY <2>1, <2>2
<1> QED BY <1>3, <1>4

\* The files: another effect asks for them when the section is opened or the room
\* changes under it.
LEMMA BecomeFiles ==
  ASSUME ShowInv, NEW r, NEW o, NEW f, NEW l, NEW S, NEW rest, NEW left, NEW sent,
         Rest(rest), Becomes(r, o, f, l, S, rest, left, sent)
  PROVE FilesFollow'
<1> SUFFICES ASSUME filesOpen'
             PROVE /\ Panel' # None
                   /\ "files" \notin missed' => /\ \A c \in FileLoads' : c.room = r
                                                /\ files' = r \/ FileLoads' # {}
  BY DEF FilesFollow, Becomes
<1>1. Panel' # None /\ f BY DEF Becomes
<1>2. left = rest /\ files' = files BY <1>1, LeftIs DEF Becomes
<1>3. /\ calls' = left \cup sent /\ at' = r
      /\ \A a \in sent : Fills(a) \in Lists /\ Fills(a) \notin missed' =>
           /\ a.mine
           /\ a.kind = "rooms" \/ a.room = at'
           /\ \A d \in left : d.mine \/ d.kind = "email" => Fills(d) # Fills(a)
  BY SendIs DEF Becomes
<1> SUFFICES ASSUME "files" \notin missed'
             PROVE /\ \A c \in FileLoads' : c.room = r
                   /\ files' = r \/ FileLoads' # {}
  BY <1>1
<1>4. \A a \in sent : a.kind = "files" =>
        a.mine /\ a.room = r /\ \A d \in left : d.mine => d.kind # "files"
  BY <1>3 DEF Fills, Lists
<1>5. CASE FilesAsked(r, filesOpen, f)
  <2>1. PICK a \in sent : a.kind = "files" BY <1>1, <1>5 DEF Becomes
  <2> QED BY <1>3, <1>4, <2>1 DEF FileLoads, OfKind
<1>6. CASE ~FilesAsked(r, filesOpen, f)
  <2>1. filesOpen /\ r = at BY <1>1, <1>6 DEF FilesAsked
  <2>2. \A a \in sent : a.kind # "files" BY <1>6 DEF Becomes
  <2>3. FileLoads' = FileLoads BY <1>2, <1>3, <2>2 DEF FileLoads, OfKind, Rest
  <2>4. "files" \notin missed BY <2>2, ClearedIs, SortsApart DEF Becomes
  <2> QED BY <1>2, <2>1, <2>3, <2>4 DEF ShowInv, FilesFollow
<1> QED BY <1>5, <1>6

\* The list of rooms.
LEMMA BecomeList ==
  ASSUME ShowInv, NEW r, NEW o, NEW f, NEW l, NEW S, NEW rest, NEW left, NEW sent,
         Rest(rest), Becomes(r, o, f, l, S, rest, left, sent), UNCHANGED email,
         "rooms" \notin missed', "rooms" \notin missed => ListComes(l, rest)
  PROVE ListFollows'
<1>1. /\ calls' = left \cup sent /\ list' = l
      /\ \A a \in sent : Fills(a) \in Lists /\ Fills(a) \notin missed' =>
           \A d \in left : d.mine \/ d.kind = "email" => Fills(d) # Fills(a)
  BY SendIs DEF Becomes
<1>2. CASE \E a \in sent : a.kind = "rooms"
  <2>1. PICK a \in sent : a.kind = "rooms" BY <1>2
  <2>2. Fills(a) = "rooms" /\ "rooms" \in Lists BY <2>1 DEF Fills, Lists, PageLoads
  <2>3. \A d \in left : d.kind # "rooms"
    BY <1>1, <2>2, LeftIs DEF Fills, CallFair, PageLoads
  <2>4. \A b \in sent : b.kind = "rooms" => b = a BY <2>1, <2>2 DEF Becomes, Fills
  <2>5. OfKind("rooms")' = {a} BY <1>1, <2>1, <2>3, <2>4 DEF OfKind
  <2>6. a.stage = "sent" BY <2>1 DEF Becomes
  <2> QED BY <2>5, <2>6 DEF ListFollows, Alone
<1>3. CASE ~\E a \in sent : a.kind = "rooms"
  <2>0. ListComes(l, rest) BY <1>3, ClearedIs, SortsApart DEF Becomes
  <2>1. OfKind("rooms")' = {d \in left : d.kind = "rooms"} BY <1>1, <1>3 DEF OfKind
  <2>2. Alone(OfKind("rooms"))' BY <2>0, <2>1, LeftIs DEF ListComes, Alone
  <2>3. ASSUME NEW q \in Rooms
        PROVE \/ \E c \in OfKind("rooms")' : c.stage = "sent" \/ Fresh(c.got, q)
              \/ OfKind("rooms")' = {} /\ Fresh(l, q)
              \/ \E c \in OfKind("email")' : c.stage = "ok" /\ c.room = q
    <3>1. CASE \E c \in rest : c.kind = "rooms" /\ (c.stage = "sent" \/ Fresh(c.got, q))
      BY <2>1, <3>1, LeftIs DEF Same
    <3>2. CASE {c \in rest : c.kind = "rooms"} = {} /\ Fresh(l, q)
      BY <2>1, <3>2, LeftIs DEF Same
    <3>3. CASE \E c \in rest : c.kind = "email" /\ c.stage = "ok" /\ c.room = q
      BY <1>1, <3>3, LeftIs DEF Same, OfKind
    <3> QED BY <2>0, <3>1, <3>2, <3>3 DEF ListComes
  <2> QED BY <1>1, <2>2, <2>3 DEF ListFollows, Fresh
<1> QED BY <1>2, <1>3

\* The toggle: refilled with the list's choice, unless room and choice stay.
LEMMA BecomeToggle ==
  ASSUME ShowInv, NEW r, NEW o, NEW f, NEW l, NEW S, NEW rest, NEW left, NEW sent,
         Rest(rest), Becomes(r, o, f, l, S, rest, left, sent), UNCHANGED email,
         "email" \notin missed'
  PROVE ToggleFollows'
<1>1. calls' = left \cup sent /\ at' = r
  BY SendIs DEF Becomes
<1>2. \A a \in sent : a.kind # "email" BY DEF Becomes
<1>3. ToggleFollows
  <2>1. "email" \notin missed BY <1>2, ClearedIs, SortsApart DEF Becomes
  <2> QED BY <2>1 DEF ShowInv, ChoiceFollows
<1>4. OfKind("email")' = {d \in left : d.kind = "email"} BY <1>1, <1>2 DEF OfKind
<1>5. {c \in rest : c.kind = "email"} = OfKind("email") BY DEF OfKind, Rest
<1>6. Alone(OfKind("email"))' BY <1>3, <1>4, <1>5, LeftIs DEF ToggleFollows, Alone
<1>7. CASE Panel' # None /\ toggle' # Panel'.email
  <2>1. /\ toggle' = toggle /\ Panel # None /\ r = at /\ Panel'.email = Panel.email
    BY <1>7 DEF Becomes
  <2>2. OfKind("email")' = OfKind("email")
    <3>1. left = rest BY <1>7, LeftIs
    <3> QED BY <1>4, <1>5, <3>1
  <2> QED BY <1>1, <1>3, <1>7, <2>1, <2>2 DEF ToggleFollows
<1> QED BY <1>6, <1>7 DEF ToggleFollows

\* All of it.
LEMMA BecomeShows ==
  ASSUME ShowInv, NEW r, NEW o, NEW f, NEW l, NEW S, NEW rest, NEW b,
         \/ S = {} \/ S = {Ask("rooms", NoRoom, None)},
         Become(r, o, f, l, S, rest, b), Rest(rest), UNCHANGED <<email, stand>>,
         "rooms" \notin missed => ListComes(l, rest)
  PROVE ShowPart'
<1>1. PICK left, sent : Becomes(r, o, f, l, S, rest, left, sent)
  BY BecomeIs DEF ShowInv
<1>2. \A c \in calls' : CallFair(c)'
  <2>1. \A d \in left : CallFair(d) BY <1>1, LeftIs
  <2>2. /\ Send(sent, left)
        /\ \A a \in sent : a.stage = "sent" /\ (a.kind \in PageLoads => a.mine)
    BY <1>1 DEF Becomes
  <2> QED BY <2>1, <2>2, SentFair
<1>3. CrewFollows' BY <1>1, BecomeCrew
<1>4. HooksFollow' BY <1>1, BecomeHooks
<1>5. FilesFollow' BY <1>1, BecomeFiles
<1>6. ChoiceFollows' BY <1>1, BecomeList, BecomeToggle DEF ChoiceFollows
<1> QED BY <1>2, <1>3, <1>4, <1>5, <1>6 DEF ShowPart

(***************************************************************************)
(* The server, and the answers                                             *)
(***************************************************************************)

\* The webhooks of a room once a call is served.
NextLive(r, s) == {h \in Hooks : Home[h] = r /\ Sort[h] = s /\ stand'[h] = "live"}

\* Serving a change of the webhooks of a room alters no others.
LEMMA ServeStand ==
  ASSUME ShowInv, NEW c \in calls, Serve(c), Allowed(c), NEW r, NEW s
  PROVE NextLive(r, s) = Live(r, s) \/ (Changes(c, s) /\ c.room = r)
<1>1. TypeOK /\ CallOK(c) BY DEF ShowInv, PanelInv
<1>2. c.kind \notin {"revoke", "create"} => stand' = stand BY DEF Serve, server
<1>3. CASE c.kind = "revoke"
  <2>1. /\ stand' = [stand EXCEPT ![c.arg] = "revoked"] /\ c.arg \in Hooks
        /\ Home[c.arg] = c.room
    BY <1>1, <1>3 DEF Serve, Allowed, Revocable, CallOK
  <2>2. CASE Home[c.arg] = r /\ Sort[c.arg] = s
    BY <1>3, <2>1, <2>2 DEF Changes
  <2>3. CASE ~(Home[c.arg] = r /\ Sort[c.arg] = s)
    BY <1>1, <2>1, <2>3 DEF Live, NextLive, TypeOK
  <2> QED BY <2>2, <2>3
<1>4. CASE c.kind = "create"
  <2>1. PICK h \in Coming(c) : stand' = [stand EXCEPT ![h] = "live"]
    BY <1>4 DEF Serve
  <2>2. h \in Hooks /\ Home[h] = c.room /\ Sort[h] = c.arg BY <2>1 DEF Coming
  <2>3. CASE Home[h] = r /\ Sort[h] = s
    BY <1>4, <2>2, <2>3 DEF Changes
  <2>4. CASE ~(Home[h] = r /\ Sort[h] = s)
    BY <1>1, <2>1, <2>2, <2>4 DEF Live, NextLive, TypeOK
  <2> QED BY <2>3, <2>4
<1>5. CASE c.kind \notin {"revoke", "create"}
  BY <1>2, <1>5 DEF Live, NextLive
<1> QED BY <1>3, <1>4, <1>5

\* What serving a call does to it, to the choices and to what is missed.
LEMMA ServeIs ==
  ASSUME ShowInv, NEW c \in calls, Serve(c)
  PROVE \E d :
    /\ calls' = (calls \ {c}) \cup {d}
    /\ c.stage = "sent"
    /\ d.kind = c.kind /\ d.room = c.room /\ d.arg = c.arg /\ (d.mine <=> c.mine)
    /\ d.stage = IF Allowed(c) THEN "ok" ELSE "failed"
    /\ Allowed(c) => d.got = Answered(c)
    /\ UNCHANGED <<panel, page>>
    /\ Allowed(c) /\ c.kind = "email" => email' = [email EXCEPT ![c.room] = c.arg]
    /\ ~(Allowed(c) /\ c.kind = "email") => email' = email
    /\ missed \subseteq missed'
    /\ ~Allowed(c) => stand' = stand /\ (Fills(c) \in Lists => Fills(c) \in missed')
<1> DEFINE s == IF Allowed(c) THEN "ok" ELSE "failed"
           g == IF Allowed(c) THEN Answered(c) ELSE None
           d == [c EXCEPT !.stage = s, !.got = g]
<1>1. c = [id |-> c.id, kind |-> c.kind, room |-> c.room, arg |-> c.arg,
           stage |-> c.stage, got |-> c.got, mine |-> c.mine]
  BY DEF ShowInv, PanelInv, CallOK
<1>2. d = [id |-> c.id, kind |-> c.kind, room |-> c.room, arg |-> c.arg,
           stage |-> s, got |-> g, mine |-> c.mine]
  <2> HIDE DEF s, g
  <2> QED BY <1>1, StagedIs
<1>3. /\ calls' = (calls \ {c}) \cup {d} /\ c.stage = "sent" /\ UNCHANGED <<panel, page>>
      /\ missed' = IF Allowed(c) THEN missed ELSE missed \cup ({Fills(c)} \cap Lists)
  BY DEF Serve
<1>4. /\ Allowed(c) /\ c.kind = "email" => email' = [email EXCEPT ![c.room] = c.arg]
      /\ ~(Allowed(c) /\ c.kind = "email") => email' = email
      /\ ~Allowed(c) => stand' = stand
  BY DEF Serve, server
<1>5. s = (IF Allowed(c) THEN "ok" ELSE "failed") /\ (Allowed(c) => g = Answered(c))
  OBVIOUS
<1>6. /\ d.kind = c.kind /\ d.room = c.room /\ d.arg = c.arg /\ d.mine = c.mine
      /\ d.stage = s /\ d.got = g
  <2> HIDE DEF s, g
  <2> QED BY <1>2
<1> HIDE DEF s, g, d
<1>7. /\ missed \subseteq missed'
      /\ ~Allowed(c) /\ Fills(c) \in Lists => Fills(c) \in missed'
  BY <1>3
<1> QED BY <1>3, <1>4, <1>5, <1>6, <1>7

\* A call served, or refused, keeps what is shown.
LEMMA ServeShows ==
  ASSUME ShowInv, NEW c \in calls, Serve(c)
  PROVE ShowPart'
<1>1. PICK d :
    /\ calls' = (calls \ {c}) \cup {d}
    /\ c.stage = "sent"
    /\ d.kind = c.kind /\ d.room = c.room /\ d.arg = c.arg /\ (d.mine <=> c.mine)
    /\ d.stage = IF Allowed(c) THEN "ok" ELSE "failed"
    /\ Allowed(c) => d.got = Answered(c)
    /\ UNCHANGED <<panel, page>>
    /\ Allowed(c) /\ c.kind = "email" => email' = [email EXCEPT ![c.room] = c.arg]
    /\ ~(Allowed(c) /\ c.kind = "email") => email' = email
    /\ missed \subseteq missed'
    /\ ~Allowed(c) => stand' = stand /\ (Fills(c) \in Lists => Fills(c) \in missed')
  BY ServeIs
<1>2. Panel' = Panel /\ at' = at BY <1>1 DEF Panel, page
<1>3. CallFair(c) /\ TypeOK /\ CallOK(c) /\ \A e \in calls : CallOK(e)
  BY DEF ShowInv, PanelInv
<1>4. \A e \in calls' : CallFair(e)'
  <2>1. CallFair(d)' BY <1>1, <1>3 DEF CallFair, Fills
  <2> QED BY <1>1, <2>1 DEF ShowInv, CallFair
<1>5. CrewFollows'
  BY <1>1, <1>2 DEF ShowInv, CrewFollows, OfKind, page
<1>6. FilesFollow'
  BY <1>1, <1>2 DEF ShowInv, FilesFollow, FileLoads, OfKind, panel, section
<1>7. HooksFollow'
  <2> SUFFICES ASSUME NEW s \in Sorts, s \notin missed'
               PROVE /\ Alone(Loads(s)')
                     /\ Panel # None /\ Manages(Panel.role) =>
                          /\ \A e \in Loads(s)' : e.room = at
                          /\ \/ \E e \in Loads(s)' : e.stage = "sent" \/ e.got = NextLive(at, s)
                             \/ Loads(s)' = {} /\ hooks[s] = NextLive(at, s)
                             \/ \E e \in calls' : Changes(e, s) /\ e.stage = "ok" /\ e.room = at
    BY <1>1, <1>2 DEF HooksFollow, Alone, panel, Live, NextLive
  <2>1. /\ Alone(Loads(s))
        /\ Panel # None /\ Manages(Panel.role) =>
             /\ \A e \in Loads(s) : e.room = at
             /\ \/ \E e \in Loads(s) : e.stage = "sent" \/ e.got = Live(at, s)
                \/ Loads(s) = {} /\ hooks[s] = Live(at, s)
                \/ \E e \in calls : Changes(e, s) /\ e.stage = "ok" /\ e.room = at
    BY <1>1 DEF ShowInv, HooksFollow
  <2>2. CASE c \in Loads(s)
    <3>1. Fills(c) = s /\ s \in Lists BY <2>2 DEF Loads, OfKind, Fills, Lists
    <3>2. Allowed(c) BY <1>1, <3>1
    <3>3. Loads(s) = {c} BY <2>1, <2>2 DEF Alone
    <3>4. Loads(s)' = {d} BY <1>1, <2>2, <3>3 DEF Loads, OfKind
    <3>5. ~Changes(c, s) BY <2>2 DEF Loads, OfKind, Changes
    <3>6. NextLive(at, s) = Live(at, s) BY <3>2, <3>5, ServeStand
    <3>7. d.got = Live(c.room, s) BY <1>1, <2>2, <3>2 DEF Answered, Loads, OfKind
    <3> QED BY <1>1, <2>1, <2>2, <3>4, <3>6, <3>7 DEF Alone
  <2>3. CASE c \notin Loads(s)
    <3>1. Loads(s)' = Loads(s) BY <1>1, <2>3 DEF Loads, OfKind
    <3>2. NextLive(at, s) = Live(at, s) \/ (Allowed(c) /\ Changes(c, s) /\ c.room = at)
      <4>1. CASE Allowed(c) BY <4>1, ServeStand
      <4>2. CASE ~Allowed(c) BY <1>1, <4>2 DEF Live, NextLive
      <4> QED BY <4>1, <4>2
    <3>3. Changes(d, s) <=> Changes(c, s) BY <1>1 DEF Changes
    <3>4. \A e \in calls : e.stage = "ok" => e \in calls' BY <1>1
    <3> QED BY <1>1, <2>1, <3>1, <3>2, <3>3, <3>4
  <2> QED BY <2>2, <2>3
<1>8. ChoiceFollows'
  <2>4. \A q \in Rooms : q # c.room \/ c.kind # "email" => email'[q] = email[q]
    BY <1>1, <1>3 DEF TypeOK
  <2>5. ASSUME "rooms" \notin missed' PROVE ListFollows'
    <3>0. ListFollows BY <1>1, <2>5 DEF ShowInv, ChoiceFollows
    <3>1. CASE c.kind = "rooms"
      <4>1. OfKind("rooms") = {c} BY <3>0, <3>1 DEF ListFollows, Alone, OfKind
      <4>2. OfKind("rooms")' = {d} BY <1>1, <3>1, <4>1 DEF OfKind
      <4>3. d.got = MyList /\ email' = email BY <1>1, <3>1 DEF Answered, Allowed
      <4>4. \A q \in Rooms : Fresh(MyList, q)
        BY DEF Fresh, MyList
      <4> QED BY <4>2, <4>3, <4>4 DEF ListFollows, Alone, Fresh
    <3>2. CASE c.kind # "rooms"
      <4>1. OfKind("rooms")' = OfKind("rooms") BY <1>1, <3>2 DEF OfKind
      <4>2. \A e \in OfKind("email") : e.stage = "ok" => e \in OfKind("email")'
        BY <1>1 DEF OfKind
      <4>3. c.kind = "email" /\ Allowed(c) =>
              d \in OfKind("email")' /\ d.stage = "ok" /\ d.room = c.room
        BY <1>1 DEF OfKind
      <4> QED BY <1>1, <2>4, <3>0, <4>1, <4>2, <4>3 DEF ListFollows, Fresh, page
    <3> QED BY <3>1, <3>2
  <2>6. ASSUME "email" \notin missed' PROVE ToggleFollows'
    <3>0. toggle' = toggle /\ ToggleFollows BY <1>1, <2>6 DEF panel, ShowInv, ChoiceFollows
    <3>01. Panel # None => at \in Rooms BY <1>3 DEF Panel, TypeOK
    <3>1. CASE c.kind = "email"
      <4>0. Allowed(c) BY <1>1, <2>6, <3>1 DEF Fills, Lists
      <4>1. OfKind("email") = {c} BY <3>0, <3>1 DEF ToggleFollows, Alone, OfKind
      <4>2. OfKind("email")' = {d} BY <1>1, <3>1, <4>1 DEF OfKind
      <4>3. d.stage # "sent" BY <1>1
      <4>4. CASE c.room = at
        <5>1. Panel # None => email'[at] = c.arg
          BY <1>1, <1>3, <3>01, <3>1, <4>0, <4>4 DEF TypeOK
        <5> QED BY <1>1, <1>2, <3>0, <4>1, <4>2, <4>3, <4>4, <5>1 DEF ToggleFollows, Alone
      <4>5. CASE c.room # at
        <5>1. Panel # None => email'[at] = email[at] BY <2>4, <3>01, <4>5
        <5> QED BY <1>2, <3>0, <4>1, <4>2, <4>3, <4>5, <5>1 DEF ToggleFollows, Alone
      <4> QED BY <4>4, <4>5
    <3>2. CASE c.kind # "email"
      <4>1. OfKind("email")' = OfKind("email") BY <1>1, <3>2 DEF OfKind
      <4>2. email' = email BY <1>1, <3>2
      <4> QED BY <1>2, <3>0, <4>1, <4>2 DEF ToggleFollows
    <3> QED BY <3>1, <3>2
  <2> QED BY <2>5, <2>6 DEF ChoiceFollows
<1> QED BY <1>4, <1>5, <1>6, <1>7, <1>8 DEF ShowPart

\* A call that breaks excepts everything the calls set.
LEMMA BreakShows ==
  ASSUME ShowInv, NEW c \in calls, Break(c)
  PROVE ShowPart'
<1> DEFINE d == [c EXCEPT !.stage = "failed", !.got = None]
<1>1. calls' = (calls \ {c}) \cup {d} /\ missed' = Lists /\ UNCHANGED <<panel, page>>
  BY DEF Break
<1>2. d.kind = c.kind /\ d.mine = c.mine /\ d.stage = "failed" /\ d.arg = c.arg
  <2>1. c = [id |-> c.id, kind |-> c.kind, room |-> c.room, arg |-> c.arg,
             stage |-> c.stage, got |-> c.got, mine |-> c.mine]
    BY DEF ShowInv, PanelInv, CallOK
  <2>2. d = [id |-> c.id, kind |-> c.kind, room |-> c.room, arg |-> c.arg,
             stage |-> "failed", got |-> None, mine |-> c.mine]
    BY <2>1, StagedIs
  <2> HIDE DEF d
  <2> QED BY <2>2
<1>3. \A e \in calls : CallFair(e) BY DEF ShowInv
<1> HIDE DEF d
<1>4. \A e \in calls' : CallFair(e)'
  BY <1>1, <1>2, <1>3 DEF CallFair, Fills
<1>5. CrewFollows' /\ HooksFollow' /\ ChoiceFollows'
  BY <1>1 DEF CrewFollows, HooksFollow, ChoiceFollows, Lists, PageLoads
<1>6. FilesFollow'
  BY <1>1 DEF FilesFollow, ShowInv, Panel, page, panel, section, Lists
<1> QED BY <1>4, <1>5, <1>6 DEF ShowPart

\* A list of rooms answered with an old copy leaves the choices out.
LEMMA CopiedShows ==
  ASSUME ShowInv, NEW c \in calls, Copied(c)
  PROVE ShowPart'
<1>1. PICK l \in copies : calls' = (calls \ {c}) \cup {[c EXCEPT !.stage = "ok", !.got = l]}
  BY DEF Copied
<1> DEFINE d == [c EXCEPT !.stage = "ok", !.got = l]
<1>2. calls' = (calls \ {c}) \cup {d} BY <1>1
<1>3. d.kind = c.kind /\ d.mine = c.mine /\ d.stage = "ok"
  <2>1. c = [id |-> c.id, kind |-> c.kind, room |-> c.room, arg |-> c.arg,
             stage |-> c.stage, got |-> c.got, mine |-> c.mine]
    BY DEF ShowInv, PanelInv, CallOK
  <2>2. d = [id |-> c.id, kind |-> c.kind, room |-> c.room, arg |-> c.arg,
             stage |-> "ok", got |-> l, mine |-> c.mine]
    BY <2>1, StagedIs
  <2> HIDE DEF d
  <2> QED BY <2>2
<1>4. /\ c.kind = "rooms" /\ missed' = missed \cup {"rooms"}
      /\ UNCHANGED <<server, panel, page>>
  BY DEF Copied
<1> HIDE DEF d
<1>5. /\ \A k : k # "rooms" => OfKind(k)' = OfKind(k)
      /\ \A s : Loads(s)' = Loads(s)
      /\ FileLoads' = FileLoads
  BY <1>2, <1>3, <1>4 DEF OfKind, Loads, FileLoads
<1>6. Panel' = Panel BY <1>4 DEF Panel, page
<1>7. \A e \in calls' : CallFair(e)' BY <1>2, <1>3, <1>4 DEF ShowInv, CallFair
<1>8. CrewFollows' BY <1>4, <1>5 DEF ShowInv, CrewFollows, page
<1>9. FilesFollow' BY <1>4, <1>5, <1>6 DEF ShowInv, FilesFollow, page, panel, section
<1>10. HooksFollow'
  <2>1. \A s, e : e \in calls /\ Changes(e, s) => e \in calls'
    BY <1>2, <1>4 DEF Changes
  <2> QED BY <1>4, <1>5, <1>6, <2>1 DEF ShowInv, HooksFollow, Live, page, panel, server
<1>11. ChoiceFollows'
  BY <1>4, <1>5, <1>6 DEF ShowInv, ChoiceFollows, ToggleFollows, page, panel, server
<1> QED BY <1>7, <1>8, <1>9, <1>10, <1>11 DEF ShowPart

\* A load of webhooks answered.
LEMMA HooksListedShows ==
  ASSUME ShowInv, NEW c \in calls, HooksListed(c)
  PROVE ShowPart'
<1>1. /\ c.kind = "hooks" /\ c.stage # "sent" /\ calls' = calls \ {c}
      /\ hooks' = IF c.mine THEN [hooks EXCEPT ![c.arg] = IF c.stage = "ok" THEN c.got ELSE {}]
                  ELSE hooks
      /\ UNCHANGED <<server, page, draft, toggle, section, busy, missed, counts>>
  BY DEF HooksListed, Take
<1>2. Panel' = Panel /\ at' = at BY <1>1 DEF Panel, page
<1>3. \A k : k # "hooks" => OfKind(k)' = OfKind(k) BY <1>1 DEF OfKind
<1>4. (\A e \in calls : CallFair(e))' BY <1>1 DEF ShowInv, CallFair
<1>5. CrewFollows' BY <1>1, <1>3 DEF ShowInv, CrewFollows, page
<1>6. FilesFollow'
  <2>1. FileLoads' = FileLoads BY <1>1 DEF FileLoads, OfKind
  <2> QED BY <1>1, <1>2, <2>1 DEF ShowInv, FilesFollow, section
<1>7. ChoiceFollows'
  BY <1>1, <1>2, <1>3 DEF ShowInv, ChoiceFollows, ListFollows, ToggleFollows, Fresh, page, server
<1>8. HooksFollow'
  <2> SUFFICES ASSUME NEW s \in Sorts, s \notin missed
               PROVE /\ Alone(Loads(s)')
                     /\ Panel # None /\ Manages(Panel.role) =>
                          /\ \A e \in Loads(s)' : e.room = at
                          /\ \/ \E e \in Loads(s)' : e.stage = "sent" \/ e.got = Live(at, s)
                             \/ Loads(s)' = {} /\ hooks'[s] = Live(at, s)
                             \/ \E e \in calls' : Changes(e, s) /\ e.stage = "ok" /\ e.room = at
    BY <1>1, <1>2 DEF HooksFollow, Alone, Live, server
  <2>1. /\ Alone(Loads(s))
        /\ Panel # None /\ Manages(Panel.role) =>
             /\ \A e \in Loads(s) : e.room = at
             /\ \/ \E e \in Loads(s) : e.stage = "sent" \/ e.got = Live(at, s)
                \/ Loads(s) = {} /\ hooks[s] = Live(at, s)
                \/ \E e \in calls : Changes(e, s) /\ e.stage = "ok" /\ e.room = at
    BY DEF ShowInv, HooksFollow
  <2>2. \A e \in calls : Changes(e, s) => e \in calls' BY <1>1 DEF Changes
  <2>3. CASE c \in Loads(s)
    <3>1. Loads(s) = {c} BY <2>1, <2>3 DEF Alone
    <3>2. Loads(s)' = {} BY <1>1, <3>1 DEF Loads, OfKind
    <3>3. c.mine /\ c.arg = s /\ Fills(c) = s /\ s \in Lists
      BY <2>3 DEF Loads, OfKind, Fills, Lists
    <3>4. c.stage = "ok" BY <1>1, <3>3 DEF ShowInv, CallFair
    <3>5. hooks'[s] = c.got BY <1>1, <3>3, <3>4 DEF ShowInv, PanelInv, TypeOK
    <3> QED BY <1>1, <2>1, <2>2, <3>1, <3>2, <3>5 DEF Alone
  <2>4. CASE c \notin Loads(s)
    <3>1. Loads(s)' = Loads(s) BY <1>1, <2>4 DEF Loads, OfKind
    <3>2. hooks'[s] = hooks[s]
      BY <1>1, <2>4 DEF Loads, OfKind, ShowInv, PanelInv, TypeOK
    <3> QED BY <2>1, <2>2, <3>1, <3>2
  <2> QED BY <2>3, <2>4
<1> QED BY <1>4, <1>5, <1>6, <1>7, <1>8 DEF ShowPart

\* A load of members, or of files, answered.
LEMMA ListedShows ==
  ASSUME ShowInv, NEW c \in calls, MembersListed(c) \/ FilesListed(c)
  PROVE ShowPart'
<1>1. /\ c.kind \in {"members", "files"} /\ c.stage # "sent" /\ calls' = calls \ {c}
      /\ c.kind = "members" => crew' = (IF c.stage = "ok" THEN c.room ELSE None) /\ files' = files
      /\ c.kind = "files" => /\ crew' = crew
                             /\ files' = IF c.mine /\ c.stage = "ok" THEN c.room ELSE files
      /\ UNCHANGED <<server, list, at, open, draft, toggle, hooks, filesOpen, busy, missed, counts>>
  BY DEF MembersListed, FilesListed, Take, panel, section, page
<1>2. Panel' = Panel BY <1>1 DEF Panel
<1>3. \A k : k # c.kind => OfKind(k)' = OfKind(k) BY <1>1 DEF OfKind
<1>4. (\A e \in calls : CallFair(e))' BY <1>1 DEF ShowInv, CallFair
<1>5. c.mine => c.stage = "ok" \/ c.kind \in missed
  BY <1>1 DEF ShowInv, CallFair, Fills, Lists, PageLoads
<1>6. CrewFollows'
  <2>1. CASE c.kind = "members"
    <3>1. "members" \notin missed /\ at # NoRoom => c.room = at
      BY <2>1 DEF ShowInv, CrewFollows, OfKind
    <3>2. OfKind("members")' \subseteq OfKind("members") BY <1>1 DEF OfKind
    <3>3. c.mine BY <2>1 DEF ShowInv, CallFair, PageLoads
    <3> QED BY <1>1, <1>5, <2>1, <3>1, <3>2, <3>3 DEF ShowInv, CrewFollows
  <2>2. CASE c.kind # "members"
    BY <1>1, <1>3, <2>2 DEF ShowInv, CrewFollows
  <2> QED BY <2>1, <2>2
<1>7. FilesFollow'
  <2>1. CASE c \in FileLoads
    <3>1. c.kind = "files" /\ c.mine BY <2>1 DEF FileLoads, OfKind
    <3>2. "files" \notin missed => files' = c.room BY <1>1, <1>5, <3>1
    <3>3. FileLoads' \subseteq FileLoads BY <1>1 DEF FileLoads, OfKind
    <3> QED BY <1>1, <1>2, <2>1, <3>2, <3>3 DEF ShowInv, FilesFollow
  <2>2. CASE c \notin FileLoads
    <3>1. FileLoads' = FileLoads BY <1>1, <2>2 DEF FileLoads, OfKind
    <3>2. files' = files BY <1>1, <2>2 DEF FileLoads, OfKind
    <3> QED BY <1>1, <1>2, <3>1, <3>2 DEF ShowInv, FilesFollow
  <2> QED BY <2>1, <2>2
<1>8. HooksFollow'
  <2>1. \A s : Loads(s)' = Loads(s) BY <1>1 DEF Loads, OfKind
  <2>2. \A s, e : e \in calls /\ Changes(e, s) => e \in calls' BY <1>1 DEF Changes
  <2> QED BY <1>1, <1>2, <2>1, <2>2 DEF ShowInv, HooksFollow, Live, server
<1>9. ChoiceFollows'
  <2>1. OfKind("rooms")' = OfKind("rooms") /\ OfKind("email")' = OfKind("email")
    BY <1>1, <1>3
  <2> QED BY <1>1, <1>2, <2>1
       DEF ShowInv, ChoiceFollows, ListFollows, ToggleFollows, Fresh, server
<1> QED BY <1>4, <1>6, <1>7, <1>8, <1>9 DEF ShowPart

\* A list of rooms answered, and the way to a room entered.
LEMMA RoomsListedShows ==
  ASSUME ShowInv, NEW c \in calls, RoomsListed(c)
  PROVE ShowPart'
<1> DEFINE r == IF c.arg # None THEN c.arg ELSE at
           l == IF c.stage = "ok" THEN c.got ELSE list
           rest == calls \ {c}
           none == {}
<1>1. /\ Become(r, open, filesOpen, l, none, rest, busy)
      /\ c.kind = "rooms" /\ c.stage # "sent" /\ UNCHANGED server
  BY DEF RoomsListed, Take
<1>2. Rest(rest) BY <1>1 DEF Rest
<1>3. "rooms" \notin missed => ListComes(l, rest)
  <2> SUFFICES ASSUME "rooms" \notin missed PROVE ListComes(l, rest)
    OBVIOUS
  <2>1. ListFollows BY DEF ShowInv, ChoiceFollows
  <2>2. c.stage = "ok"
    BY <1>1 DEF ShowInv, CallFair, Fills, Lists, PageLoads
  <2>3. OfKind("rooms") = {c} BY <1>1, <2>1 DEF ListFollows, Alone, OfKind
  <2>4. {e \in rest : e.kind = "rooms"} = {} BY <2>3 DEF OfKind
  <2>5. \A q \in Rooms : \/ Fresh(c.got, q)
                         \/ \E e \in rest : e.kind = "email" /\ e.stage = "ok" /\ e.room = q
    BY <1>1, <2>1, <2>3 DEF ListFollows, OfKind
  <2>6. l = c.got BY <2>2
  <2> HIDE DEF l, rest
  <2> QED BY <2>4, <2>5, <2>6 DEF ListComes, Alone
<1>4. none = {} OBVIOUS
<1> HIDE DEF r, l, rest, none
<1> QED BY <1>1, <1>2, <1>3, <1>4, BecomeShows DEF server

\* What a list of rooms stands to while none is answered.
LEMMA ListStays ==
  ASSUME ShowInv, NEW rest, Rest(rest), \A g \in calls \ rest : g.kind # "rooms"
  PROVE "rooms" \notin missed => ListComes(list, rest)
<1> SUFFICES ASSUME "rooms" \notin missed PROVE ListComes(list, rest)
  OBVIOUS
<1>1. ListFollows BY DEF ShowInv, ChoiceFollows
<1>2. {c \in rest : c.kind = "rooms"} = OfKind("rooms") BY DEF OfKind, Rest
<1>3. \A e \in calls : e.kind = "email" => e \in rest BY DEF Rest
<1> QED BY <1>1, <1>2, <1>3 DEF ListComes, ListFollows, OfKind

\* The other answers send calls on, and the page goes back from a room left.
LEMMA AnswerShows ==
  ASSUME ShowInv, NEW c \in calls, Answer(c)
  PROVE ShowPart'
<1>0. CallOK(c) /\ CallFair(c) BY DEF ShowInv, PanelInv
<1>00. LET a == Ask("rooms", NoRoom, None)
       IN a.kind = "rooms" /\ a.stage = "sent" /\ a.mine
  BY AskIs
<1>1. CASE MembersListed(c) \/ FilesListed(c) BY <1>1, ListedShows
<1>2. CASE HooksListed(c) BY <1>2, HooksListedShows
<1>3. CASE RoomsListed(c) BY <1>3, RoomsListedShows
<1>4. CASE Saved(c)
  <2> DEFINE S == {a \in {Ask("rooms", NoRoom, None)} : c.stage = "ok"}
             gone == {c}
  <2>1. /\ Send(S, calls \ gone) /\ UNCHANGED <<server, page, panel>>
        /\ c.kind = "save" /\ c.stage # "sent"
    BY <1>4 DEF Saved, Take
  <2>2. \A a \in S : a.kind = "rooms" /\ a.stage = "sent" /\ a.mine BY <1>00
  <2>3. Sends(S, gone) BY <2>1, <2>2 DEF Sends, Changes, Named
  <2> HIDE DEF S, gone
  <2> QED BY <2>1, <2>2, <2>3, SendShows DEF server, panel
<1>5. CASE EmailSet(c)
  <2> DEFINE S == {a \in {Ask("rooms", NoRoom, None)} : c.stage = "ok"}
             gone == {c}
  <2>1. /\ Send(S, calls \ gone) /\ UNCHANGED <<server, page, draft, hooks, section, busy>>
        /\ c.kind = "email" /\ c.stage # "sent"
        /\ c.stage # "failed" => toggle' = toggle
    BY <1>5 DEF EmailSet, Take
  <2>2. \A a \in S : a.kind = "rooms" /\ a.stage = "sent" /\ a.mine BY <1>00
  <2>3. c.stage = "ok" => \E a \in S : a.kind = "rooms" BY <1>00
  <2>4. Sends(S, gone) BY <2>1, <2>2, <2>3 DEF Sends, Changes, Named
  <2>5. c.stage = "failed" => "email" \in missed'
    <3>1. c.stage = "failed" => "email" \in missed
      BY <1>0, <2>1 DEF CallFair, Fills, Lists
    <3> HIDE DEF S, gone
    <3> QED BY <2>1, <2>2, <3>1, ClearedIs, SortsApart DEF Named
  <2> HIDE DEF S, gone
  <2> QED BY <2>1, <2>2, <2>4, <2>5, SendShows DEF server
<1>6. CASE HooksChanged(c)
  <2> DEFINE s == IF c.kind = "create" THEN c.arg ELSE Sort[c.arg]
             q == Ask("hooks", c.room, s)
             b == [q EXCEPT !.mine = c.mine]
             S == {[a EXCEPT !.mine = c.mine] : a \in {d \in {q} : c.stage = "ok"}}
             gone == {c}
  <2>1. /\ Send(S, calls \ gone) /\ UNCHANGED <<server, page, panel>>
        /\ c.kind \in {"create", "revoke"} /\ c.stage # "sent"
    BY <1>6 DEF HooksChanged, Take
  <2>2. b.kind = "hooks" /\ b.arg = s /\ b.stage = "sent"
    <3> DEFINE n == FreeId("hooks")
    <3>1. q = [id |-> n, kind |-> "hooks", room |-> c.room, arg |-> s,
               stage |-> "sent", got |-> None, mine |-> TRUE]
      BY DEF Ask
    <3> HIDE DEF n, s, q
    <3>2. b = [id |-> n, kind |-> "hooks", room |-> c.room, arg |-> s,
               stage |-> "sent", got |-> None, mine |-> c.mine]
      BY <3>1
    <3> HIDE DEF b
    <3> QED BY <3>2
  <2>3. \A a \in S : a = b /\ c.stage = "ok" OBVIOUS
  <2>4. c.stage = "ok" => b \in S OBVIOUS
  <2>5. \A t \in Sorts : Changes(c, t) => t = s BY <2>1 DEF Changes
  <2>10. s \in Sorts BY <1>0, <2>1 DEF CallOK, Sorts
  <2> HIDE DEF s, q, b, S
  <2>6. \A g \in gone : \A t \in Sorts :
          Changes(g, t) /\ g.stage = "ok" => \E a \in S : a.kind = "hooks" /\ a.arg = t
    BY <2>2, <2>4, <2>5
  <2>7. \A a \in S : a.stage = "sent" /\ a.kind = "hooks" BY <2>2, <2>3
  <2>8. \A a, d \in S : a = d BY <2>3
  <2>9. Sends(S, gone) BY <2>1, <2>2, <2>3, <2>6, <2>7, <2>8, <2>10 DEF Sends, PageLoads, Named
  <2> HIDE DEF gone
  <2> QED BY <2>1, <2>7, <2>9, SendShows DEF server, panel
<1>7. CASE Managed(c)
  <2> DEFINE p == Ask("members", c.room, None)
             q == Ask("rooms", NoRoom, None)
             S == {a \in {p, q} : c.stage = "ok" /\ (a.kind = "rooms" => c.kind = "transfer")}
             gone == {c}
  <2>1. /\ Send(S, calls \ gone) /\ UNCHANGED <<server, page, draft, toggle, hooks, section>>
        /\ c.kind \in {"add", "role", "remove", "transfer"} /\ c.stage # "sent"
    BY <1>7 DEF Managed, Take
  <2>2. p.kind = "members" /\ p.stage = "sent" /\ p.mine BY AskIs
  <2>3. q.kind = "rooms" /\ q.stage = "sent" /\ q.mine BY <1>00
  <2>4. S \subseteq {p, q} OBVIOUS
  <2> HIDE DEF p, q, S
  <2>5. \A a \in S : a.stage = "sent" /\ a.mine /\ a.kind \in {"members", "rooms"}
    BY <2>2, <2>3, <2>4
  <2>6. \A a, d \in S : Fills(a) = Fills(d) => a = d
    BY <2>2, <2>3, <2>4 DEF Fills
  <2>7. Sends(S, gone) BY <2>1, <2>5, <2>6 DEF Sends, Changes, Named
  <2> HIDE DEF gone
  <2> QED BY <2>1, <2>5, <2>7, SendShows DEF server
<1>8. CASE Gone(c)
  <2> DEFINE rest == calls \ {c}
  <2>1. c.kind \in {"leave", "delete"} /\ UNCHANGED server BY <1>8 DEF Gone, Take
  <2>2. CASE c.stage = "ok"
    <3>1. Become(NoRoom, FALSE, FALSE, list, {Ask("rooms", NoRoom, None)}, rest, FALSE)
      BY <1>8, <2>2 DEF Gone
    <3>2. Rest(rest) /\ \A g \in calls \ rest : g.kind # "rooms" BY <2>1 DEF Rest
    <3>3. "rooms" \notin missed => ListComes(list, rest)
      BY <3>2, ListStays
    <3> HIDE DEF rest
    <3> QED BY <2>1, <3>1, <3>2, <3>3, BecomeShows DEF server
  <2>3. CASE c.stage # "ok"
    <3>1. calls' = rest /\ UNCHANGED <<panel, page, missed>> BY <1>8, <2>3 DEF Gone
    <3>2. c.stage = "failed" \/ c.stage = "sent" BY <1>0, <2>3 DEF CallFair
    <3>3. c.stage # "sent" BY <1>8 DEF Gone, Take
    <3>4. /\ \A k : k \notin {"leave", "delete"} => OfKind(k)' = OfKind(k)
          /\ \A s : Loads(s)' = Loads(s)
          /\ FileLoads' = FileLoads
      BY <2>1, <3>1 DEF OfKind, Loads, FileLoads
    <3>5. Panel' = Panel BY <3>1 DEF Panel, page
    <3>6. (\A e \in calls : CallFair(e))' BY <3>1 DEF ShowInv, CallFair
    <3>7. CrewFollows' BY <3>1, <3>4 DEF ShowInv, CrewFollows, page
    <3>8. FilesFollow' BY <3>1, <3>4, <3>5 DEF ShowInv, FilesFollow, page, panel, section
    <3>9. HooksFollow'
      <4>1. \A s, e : e \in calls /\ Changes(e, s) => e \in calls' BY <2>1, <3>1 DEF Changes
      <4> QED BY <2>1, <3>1, <3>4, <3>5, <4>1
           DEF ShowInv, HooksFollow, Live, page, panel, server
    <3>10. ChoiceFollows'
      BY <2>1, <3>1, <3>4, <3>5
         DEF ShowInv, ChoiceFollows, ListFollows, ToggleFollows, Fresh, page, panel, server
    <3> QED BY <3>6, <3>7, <3>8, <3>9, <3>10 DEF ShowPart
  <2> QED BY <2>2, <2>3
<1>9. CASE Entered(c)
  <2> DEFINE S == {a \in {Ask("rooms", NoRoom, c.room)} : c.stage = "ok"}
             gone == {c}
  <2>1. /\ Send(S, calls \ gone) /\ UNCHANGED <<server, page, panel>>
        /\ c.kind = "enter" /\ c.stage # "sent"
    BY <1>9 DEF Entered, Take
  <2>2. \A a \in S : a.kind = "rooms" /\ a.stage = "sent" /\ a.mine BY AskIs
  <2>3. Sends(S, gone) BY <2>1, <2>2 DEF Sends, Changes, Named
  <2> HIDE DEF S, gone
  <2> QED BY <2>1, <2>2, <2>3, SendShows DEF server, panel
<1> QED BY <1>1, <1>2, <1>3, <1>4, <1>5, <1>6, <1>7, <1>8, <1>9 DEF Answer

\* The user's acts: the page goes over, or a call is made that is no load.
LEMMA UserShows ==
  ASSUME ShowInv,
         \/ \E r \in Rooms \cup {NoRoom} : GoTo(r)
         \/ TogglePanel \/ ToggleFiles \/ TypeName \/ Save \/ ToggleEmail
         \/ AddMember \/ ManageMember \/ Leave \/ Delete
         \/ \E s \in Sorts : CreateHook(s)
         \/ \E h \in Hooks : Revoke(h)
         \/ \E r \in Rooms : Enter(r)
  PROVE ShowPart'
<1>1. ASSUME NEW r, NEW o, NEW f, Become(r, o, f, list, {}, calls, busy), UNCHANGED server
      PROVE ShowPart'
  <2>1. Rest(calls) BY DEF Rest
  <2>2. "rooms" \notin missed => ListComes(list, calls) BY <2>1, ListStays
  <2> DEFINE none == {}
  <2>3. none = {} /\ Become(r, o, f, list, none, calls, busy) BY <1>1
  <2> HIDE DEF none
  <2> QED BY <1>1, <2>1, <2>2, <2>3, BecomeShows DEF server
<1>2. ASSUME NEW k, NEW r, NEW x, Send({Ask(k, r, x)}, calls),
             k \notin {"rooms", "members", "hooks", "incoming", "event"},
             UNCHANGED <<page, hooks, section, email, stand>>,
             \/ toggle' = toggle /\ k # "email"
             \/ k = "email" /\ r = at /\ x = toggle'
      PROVE ShowPart'
  <2> DEFINE a == Ask(k, r, x)
             S == {a}
             gone == {}
  <2>1. a.kind = k /\ a.room = r /\ a.arg = x /\ a.stage = "sent" /\ a.mine BY AskIs
  <2>2. gone \subseteq calls /\ Send(S, calls \ gone)
    <3>1. calls \ gone = calls /\ gone \subseteq calls OBVIOUS
    <3> HIDE DEF gone
    <3> QED BY <1>2, <3>1 DEF Send
  <2>3. \A c \in S : c = a OBVIOUS
  <2>4. a \in S OBVIOUS
  <2>5. \A g \in gone : FALSE OBVIOUS
  <2> HIDE DEF a, S, gone
  <2>6. Sends(S, gone) BY <1>2, <2>1, <2>2, <2>3, <2>5 DEF Sends, PageLoads, Named
  <2> QED BY <1>2, <2>1, <2>3, <2>4, <2>6, SendShows
<1>3. ASSUME NEW r \in Rooms \cup {NoRoom}, GoTo(r) PROVE ShowPart'
  BY <1>1, <1>3 DEF GoTo
<1>4. CASE TogglePanel
  <2> DEFINE o == ~open
  <2>1. Become(at, o, filesOpen, list, {}, calls, busy) /\ UNCHANGED server
    BY <1>4 DEF TogglePanel
  <2> HIDE DEF o
  <2> QED BY <1>1, <2>1
<1>5. CASE ToggleFiles
  <2> DEFINE o == ~filesOpen
  <2>1. Become(at, open, o, list, {}, calls, busy) /\ UNCHANGED server
    BY <1>5 DEF ToggleFiles
  <2> HIDE DEF o
  <2> QED BY <1>1, <2>1
<1>6. CASE TypeName BY <1>6, QuietShows DEF TypeName, server
<1>7. CASE Save BY <1>2, <1>7 DEF Save, Start, server, panel
<1>8. CASE ToggleEmail
  <2> DEFINE o == ~toggle
  <2>1. /\ Send({Ask("email", at, o)}, calls) /\ toggle' = o
        /\ UNCHANGED <<server, page, hooks, section>>
    BY <1>8 DEF ToggleEmail, Start
  <2> HIDE DEF o
  <2> QED BY <1>2, <2>1 DEF server
<1>9. CASE AddMember BY <1>2, <1>9 DEF AddMember, Start, server, panel
<1>10. CASE ManageMember
  <2>1. /\ \E theirs \in In : \E k \in MemberActions(Panel.role, theirs) : Start({Ask(k, at, None)})
        /\ UNCHANGED <<server, page, toggle, hooks, section>>
    BY <1>10 DEF ManageMember
  <2>2. PICK theirs \in In : \E k \in MemberActions(Panel.role, theirs) : Start({Ask(k, at, None)})
    BY <2>1
  <2>3. PICK k \in MemberActions(Panel.role, theirs) : Start({Ask(k, at, None)})
    BY <2>2
  <2>4. k \in {"role", "transfer", "remove"} BY <2>3 DEF MemberActions
  <2> QED BY <1>2, <2>1, <2>3, <2>4 DEF Start, server
<1>11. CASE Leave BY <1>2, <1>11 DEF Leave, Start, server, panel
<1>12. CASE Delete BY <1>2, <1>12 DEF Delete, Start, server, panel
<1>13. ASSUME NEW s \in Sorts, CreateHook(s) PROVE ShowPart'
  BY <1>2, <1>13 DEF CreateHook, Start, server, panel
<1>14. ASSUME NEW h \in Hooks, Revoke(h) PROVE ShowPart'
  BY <1>2, <1>14 DEF Revoke, Start, server, panel
<1>15. ASSUME NEW r \in Rooms, Enter(r) PROVE ShowPart'
  BY <1>2, <1>15 DEF Enter, Start, server, panel
<1> QED BY <1>3, <1>4, <1>5, <1>6, <1>7, <1>8, <1>9, <1>10, <1>11, <1>12, <1>13, <1>14, <1>15

\* The others: a name and a role on the server are shown when they are listed.
LEMMA OthersShow ==
  ASSUME ShowInv, NEW r \in Rooms, Rename(r) \/ SetRole(r) \/ Added(r)
  PROVE ShowPart'
<1>1. CASE Rename(r) \/ SetRole(r)
  BY <1>1, QuietShows DEF Rename, SetRole, panel
<1>2. CASE Added(r)
  <2> DEFINE q == Ask("rooms", NoRoom, None)
             gone == {}
  <2>1. PICK S \in SUBSET {q} : Send(S, calls) BY <1>2 DEF Added
  <2>2. q.kind = "rooms" /\ q.stage = "sent" /\ q.mine BY AskIs
  <2>3. gone \subseteq calls /\ Send(S, calls \ gone)
    <3>1. calls \ gone = calls /\ gone \subseteq calls OBVIOUS
    <3> HIDE DEF gone
    <3> QED BY <2>1, <3>1 DEF Send
  <2>4. \A g \in gone : FALSE OBVIOUS
  <2> HIDE DEF q, gone
  <2>5. \A a \in S : a = q BY <2>1
  <2>6. Sends(S, gone) BY <2>2, <2>3, <2>4, <2>5 DEF Sends, Named
  <2>7. UNCHANGED <<email, stand, panel, page>> BY <1>2 DEF Added
  <2> QED BY <2>2, <2>5, <2>6, <2>7, SendShows DEF panel
<1> QED BY <1>1, <1>2

\* At rest the panel shows what is of the room it is open over, for any rooms,
\* webhooks and roles and any number of calls, in any order of their answers:
\* whatever is not excepted was asked for after the room, the role or the
\* server's state last changed (the effects of RoomInfoPanel.tsx).
THEOREM PanelShows == Spec => []PanelShowsRoom
<1>1. Init => ShowInv
  <2> SUFFICES ASSUME Init PROVE ShowInv
    OBVIOUS
  <2>1. PanelInv BY InitPanel
  <2>2. calls = {} /\ at = NoRoom /\ filesOpen = FALSE /\ list = MyList /\ Panel = None
    BY DEF Init, Panel
  <2>3. \A k : OfKind(k) = {} BY <2>2 DEF OfKind
  <2>4. (\A c \in calls : CallFair(c)) /\ CrewFollows /\ FilesFollow
    BY <2>2 DEF CrewFollows, FilesFollow
  <2>5. HooksFollow BY <2>2, <2>3 DEF HooksFollow, Loads, Alone
  <2>6. \A r \in Rooms : Fresh(list, r) BY <2>2 DEF Fresh, MyList
  <2>7. ChoiceFollows BY <2>2, <2>3, <2>6 DEF ChoiceFollows, ListFollows, ToggleFollows, Alone
  <2> QED BY <2>1, <2>4, <2>5, <2>7 DEF ShowInv
<1>2. ShowInv /\ [Next]_vars => ShowInv'
  <2> SUFFICES ASSUME ShowInv, [Next]_vars PROVE ShowInv'
    OBVIOUS
  <2>1. PanelInv' BY StepPanel DEF ShowInv
  <2> SUFFICES ShowPart'
    BY <2>1 DEF ShowInv, ShowPart
  <2>2. CASE UNCHANGED vars
    BY <2>2, QuietShows DEF vars, server, panel
  <2>3. CASE \/ \E r \in Rooms \cup {NoRoom} : GoTo(r)
             \/ TogglePanel \/ ToggleFiles \/ TypeName \/ Save \/ ToggleEmail
             \/ AddMember \/ ManageMember \/ Leave \/ Delete
             \/ \E s \in Sorts : CreateHook(s)
             \/ \E h \in Hooks : Revoke(h)
             \/ \E r \in Rooms : Enter(r)
    BY <2>3, UserShows
  <2>4. CASE \E c \in calls : Serve(c) \/ Break(c) \/ Copied(c) \/ Answer(c)
    BY <2>4, ServeShows, BreakShows, CopiedShows, AnswerShows
  <2>5. CASE \E r \in Rooms : Rename(r) \/ SetRole(r) \/ Added(r)
    BY <2>5, OthersShow
  <2> QED BY <2>2, <2>3, <2>4, <2>5 DEF Next
<1>3. ShowInv => PanelShowsRoom
  <2> SUFFICES ASSUME ShowInv, calls = {}, Panel # None
               PROVE /\ "members" \notin missed => crew = at
                     /\ \A s \in Sorts \ missed : Manages(Panel.role) => hooks[s] = Live(at, s)
                     /\ filesOpen /\ "files" \notin missed => files = at
                     /\ missed \cap {"rooms", "email"} = {} => toggle = email[at]
    BY DEF PanelShowsRoom
  <2>1. \A k : OfKind(k) = {} BY DEF OfKind
  <2>2. at # NoRoom /\ Panel = list[at] BY DEF Panel
  <2>3. "members" \notin missed => crew = at BY <2>1, <2>2 DEF ShowInv, CrewFollows
  <2>4. \A s \in Sorts \ missed : Manages(Panel.role) => hooks[s] = Live(at, s)
    BY <2>1 DEF ShowInv, HooksFollow, Loads
  <2>5. filesOpen /\ "files" \notin missed => files = at
    BY <2>1 DEF ShowInv, FilesFollow, FileLoads
  <2>6. ASSUME missed \cap {"rooms", "email"} = {} PROVE toggle = email[at]
    <3>1. at \in Rooms BY <2>2 DEF ShowInv, PanelInv, TypeOK
    <3>2. ListFollows /\ ToggleFollows BY <2>6 DEF ShowInv, ChoiceFollows
    <3>3. Panel.email = email[at] BY <2>1, <2>2, <3>1, <3>2 DEF ListFollows, Fresh
    <3> QED BY <2>1, <3>2, <3>3 DEF ToggleFollows
  <2> QED BY <2>3, <2>4, <2>5, <2>6
<1> QED BY <1>1, <1>2, <1>3, PTL DEF Spec

(***************************************************************************)
(* What is typed                                                           *)
(***************************************************************************)

\* The page going over spares a draft when neither the room nor what its record
\* says of it changes.
LEMMA BecomeSpares ==
  ASSUME NEW r, NEW o, NEW f, NEW l, NEW S, NEW rest, NEW b,
         Become(r, o, f, l, S, rest, b),
         Panel # None, Panel' # None, at' = at, View(Panel') = View(Panel)
  PROVE draft' = draft
<1> DEFINE now == IF o /\ r # NoRoom THEN l[r] ELSE None
<1>1. at' = r /\ open' = o /\ list' = l BY DEF Become
<1>2. Panel' = now BY <1>1 DEF Panel
<1>3. now # None /\ View(now) = View(Panel) BY <1>2 DEF View, Manages
<1>4. ~Refill(r, o, l) BY <1>1, <1>3 DEF Refill
<1> QED BY <1>3, <1>4 DEF Become

\* No list of rooms, answer or act but typing changes what is typed while the
\* panel stays over a room of which nothing new is listed (the dependencies of
\* the effect that refills the panel, RoomInfoPanel.tsx).
THEOREM DraftSurvives == Spec => DraftSurvivesList
<1> DEFINE Spared == (Panel # None /\ Panel' # None /\ at' = at /\ View(Panel') = View(Panel))
                       => (draft' = draft \/ TypeName)
<1>1. [Next]_vars => [Spared]_vars
  <2> SUFFICES ASSUME Next, Panel # None, Panel' # None, at' = at, View(Panel') = View(Panel)
               PROVE draft' = draft \/ TypeName
    OBVIOUS
  <2>1. ASSUME NEW r, NEW o, NEW f, NEW l, NEW S, NEW rest, NEW b,
               Become(r, o, f, l, S, rest, b)
        PROVE draft' = draft
    BY <2>1, BecomeSpares
  <2>2. CASE \E r \in Rooms \cup {NoRoom} : GoTo(r) BY <2>1, <2>2 DEF GoTo
  <2>3. CASE TogglePanel
    <3> DEFINE o == ~open
    <3>1. Become(at, o, filesOpen, list, {}, calls, busy) BY <2>3 DEF TogglePanel
    <3> HIDE DEF o
    <3> QED BY <2>1, <3>1
  <2>4. CASE ToggleFiles
    <3> DEFINE o == ~filesOpen
    <3>1. Become(at, open, o, list, {}, calls, busy) BY <2>4 DEF ToggleFiles
    <3> HIDE DEF o
    <3> QED BY <2>1, <3>1
  <2>5. CASE Save \/ ToggleEmail \/ AddMember \/ ManageMember \/ Leave \/ Delete
    BY <2>5 DEF Save, ToggleEmail, AddMember, ManageMember, Leave, Delete, panel
  <2>6. CASE \/ \E s \in Sorts : CreateHook(s)
             \/ \E h \in Hooks : Revoke(h)
             \/ \E r \in Rooms : Enter(r) \/ Rename(r) \/ SetRole(r) \/ Added(r)
    BY <2>6 DEF CreateHook, Revoke, Enter, Rename, SetRole, Added, panel
  <2>7. CASE \E c \in calls : Serve(c) \/ Break(c) \/ Copied(c)
    BY <2>7 DEF Serve, Break, Copied, panel
  <2>8. ASSUME NEW c \in calls, Answer(c) PROVE draft' = draft
    <3>1. CASE RoomsListed(c)
      <4> DEFINE r == IF c.arg # None THEN c.arg ELSE at
                 l == IF c.stage = "ok" THEN c.got ELSE list
      <4>1. Become(r, open, filesOpen, l, {}, calls \ {c}, busy) BY <3>1 DEF RoomsListed
      <4> HIDE DEF r, l
      <4> QED BY <2>1, <4>1
    <3>2. CASE Gone(c)
      <4>1. CASE c.stage = "ok" BY <2>1, <3>2, <4>1 DEF Gone
      <4>2. CASE c.stage # "ok" BY <3>2, <4>2 DEF Gone, panel
      <4> QED BY <4>1, <4>2
    <3>3. CASE \/ MembersListed(c) \/ HooksListed(c) \/ FilesListed(c) \/ Saved(c)
               \/ EmailSet(c) \/ HooksChanged(c) \/ Managed(c) \/ Entered(c)
      BY <3>3 DEF MembersListed, HooksListed, FilesListed, Saved, EmailSet, HooksChanged,
         Managed, Entered, panel
    <3> QED BY <2>8, <3>1, <3>2, <3>3 DEF Answer
  <2> QED BY <2>2, <2>3, <2>4, <2>5, <2>6, <2>7, <2>8 DEF Next
<1> QED BY <1>1, PTL DEF Spec, DraftSurvivesList
=============================================================================
