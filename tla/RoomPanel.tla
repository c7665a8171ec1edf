----------------------------- MODULE RoomPanel -----------------------------
(***************************************************************************)
(* The details of a room: the panel a member opens beside a conversation   *)
(* (frontend/src/components/RoomInfoPanel.tsx), the page that mounts it    *)
(* over its own list of rooms (pages/ChatShellPage.tsx), and the part of   *)
(* the API it calls (api/rooms.ts, api/webhooks.ts; backend                *)
(* routers/rooms.py, services/room_service.py, webhook_service.py).        *)
(*                                                                         *)
(* The panel is not keyed by its room: switching rooms keeps the component *)
(* and an effect refills it. Every call is served and answered in its own  *)
(* time, in any order, and other members change the rooms meanwhile. The   *)
(* service worker (sw.ts) may answer a list of rooms with an older one.    *)
(***************************************************************************)
EXTENDS Naturals, FiniteSets

CONSTANTS
  Rooms, Hooks,
  Home, Sort,  \* the room of each webhook, "incoming" or "event" (outgoing)
  Unmade,      \* the webhooks that do not exist at first
  FirstRoles,  \* what this user's roles in the rooms may be at first
  NoRoom, None,
  MaxActs,     \* bound on what the user does with the panel
  MaxOthers,   \* bound on the changes of other members
  MaxBreaks    \* bound on the calls the network breaks

ASSUME RoomPanelAssumption ==
  /\ NoRoom \notin Rooms
  /\ Home \in [Hooks -> Rooms] /\ Sort \in [Hooks -> {"incoming", "event"}]
  /\ Unmade \subseteq Hooks
  /\ FirstRoles \subseteq [Rooms -> {"owner", "admin", "member", "none", "unborn"}]

\* A name is told apart by the room it was given to.
Names == [of : Rooms, is : {"first", "second"}]
\* "none": an open room he is not in; "unborn", "gone": not created, deleted.
In == {"owner", "admin", "member"}
Roles == In \cup {"none", "unborn", "gone"}
Manages(r) == r \in {"owner", "admin"}   \* canManage; require_room_role
Records == [name : Names, role : In, email : BOOLEAN]
Sorts == {Sort[h] : h \in Hooks}
PageLoads == {"rooms", "members"}        \* the page asks, not the panel

VARIABLES
  name, role, email,  \* the server's rooms; this user's role and e-mail choice
  stand,       \* how each webhook stands: "unmade", "live" or "revoked"
  copies,      \* the lists of rooms answered so far: each may be the service
               \* worker's copy, as answers come to it in any order
  list,        \* the page's rooms: a record or None
  crew,        \* members: the room they are of
  at,          \* the room of the URL
  open,        \* infoOpen
  draft,       \* nameDraft
  toggle,      \* emailNotifications
  hooks,       \* incomingWebhooks, eventSubscriptions
  filesOpen, files,  \* the Files section; the room its attachments are of
  busy,        \* busyUserId, the row of the one other member there is
  calls,       \* the calls under way
  missed,      \* history: what the last call that was to set it may have got
               \* wrong: one broken, refused, answered with a copy, overtaken, or
               \* for a room or from a panel no longer on screen
  made, others, breaks

server == <<name, role, email, stand, copies>>
section == <<filesOpen, files>>
panel == <<draft, toggle, hooks, section, busy>>
page == <<list, crew, at, open>>
counts == <<made, others, breaks>>
vars == <<server, panel, page, calls, missed, counts>>

\* GET /rooms/mine.
MyList == [r \in Rooms |-> IF role[r] \notin In THEN None
                           ELSE [name |-> name[r], role |-> role[r], email |-> email[r]]]

Init ==
  /\ name = [r \in Rooms |-> [of |-> r, is |-> "first"]]
  /\ role \in FirstRoles
  /\ email = [r \in Rooms |-> FALSE]
  /\ stand = [h \in Hooks |-> IF h \in Unmade THEN "unmade" ELSE "live"]
  /\ list = MyList /\ copies = {MyList}
  /\ at = NoRoom /\ open = FALSE /\ crew = None
  /\ draft = None /\ toggle = FALSE /\ busy = FALSE
  /\ hooks = [s \in Sorts |-> {}]
  /\ filesOpen = FALSE /\ files = None
  /\ calls = {} /\ missed = {}
  /\ made = 0 /\ others = 0 /\ breaks = 0

(***************************************************************************)
(* Calls                                                                   *)
(***************************************************************************)

\* A call: what it asks of which room, and, once served, what comes back.
\* "mine" falls when the panel that started it is unmounted.
FreeId(k) == CHOOSE n \in 0 .. Cardinality(calls) : /\ \A c \in calls : c.kind = k => c.id # n
                               /\ \A m \in 0 .. n - 1 : \E c \in calls : c.kind = k /\ c.id = m
Ask(k, r, x) == [id |-> FreeId(k), kind |-> k, room |-> r, arg |-> x,
                 stage |-> "sent", got |-> None, mine |-> TRUE]

\* The state a call sets.
Fills(c) == IF c.kind = "hooks" THEN c.arg ELSE c.kind
Lists == PageLoads \cup Sorts \cup {"files", "email"}

\* A call that may leave something else on screen: it is from a panel closed
\* since, for a room no longer there, or overtaken by one still under way (a
\* choice of a closed panel is stored all the same).
Unseen(a, rest) ==
  \/ ~a.mine
  \/ a.kind # "rooms" /\ a.room # at'
  \/ \E d \in rest : (d.mine \/ d.kind = "email") /\ Fills(d) = Fills(a)

\* What is asked for anew, from the panel on screen and with nothing else to
\* set it, is missed no longer.
Send(S, rest) ==
  LET asked == {a \in S : Fills(a) \in Lists}
      unseen == {a \in asked : Unseen(a, rest)}
  IN /\ calls' = rest \cup S
     /\ missed' = (missed \ {Fills(a) : a \in asked \ unseen}) \cup {Fills(a) : a \in unseen}

\* What the panel shows: the record of the room it is open over.
Panel == IF open /\ at # NoRoom THEN list[at] ELSE None
View(rec) == <<rec.name, rec.email, Manages(rec.role)>>

\* Mutant: the effect runs when the panel mounts, not when the room changes.
RefillOnMount(r, o, l) ==
  LET now == IF o /\ r # NoRoom THEN l[r] ELSE None
  IN now # None /\ Panel = None

\* Mutant: the effect depends on the room object, new with every list.
RefillOnList(r, o, l) ==
  LET now == IF o /\ r # NoRoom THEN l[r] ELSE None
  IN now # None

\* The effect that refills the panel depends on the room and these fields.
Refill(r, o, l) ==
  LET now == IF o /\ r # NoRoom THEN l[r] ELSE None
  IN now # None /\ (Panel = None \/ r # at \/ View(now) # View(Panel))

\* Mutant: the effect of the Files section does not depend on the room.
FilesAskedOnOpening(r, was, is) == is /\ ~was

\* The effect that lists a room's attachments, once the section is open.
FilesAsked(r, was, is) == is /\ (~was \/ r # at)

\* The page's effect that lists a room's members.
MembersAsked(r) == r \notin {at, NoRoom}

\* The page goes over to room r, panel o, section f and list l, with the calls
\* S on top of the calls "rest", and its effects run.
Become(r, o, f, l, S, rest, b) ==
  LET now == IF o /\ r # NoRoom THEN l[r] ELSE None
      refill == Refill(r, o, l)
  IN /\ at' = r /\ open' = o /\ list' = l
     /\ IF now = None THEN draft' = None /\ toggle' = FALSE
        ELSE IF refill THEN draft' = now.name /\ toggle' = now.email
        ELSE UNCHANGED <<draft, toggle>>
     /\ hooks' = IF now = None \/ Panel = None \/ ~Manages(now.role)
                 THEN [s \in Sorts |-> {}] ELSE hooks
     /\ busy' = (b /\ now # None)
     /\ filesOpen' = (f /\ now # None)
     /\ files' = IF now = None THEN None ELSE files
     /\ UNCHANGED crew
     /\ Send(S \cup {Ask("hooks", r, s) : s \in {t \in Sorts : refill /\ Manages(now.role)}}
               \cup {c \in {Ask("files", r, None)} : now # None /\ FilesAsked(r, filesOpen, f)}
               \cup {c \in {Ask("members", r, None)} : MembersAsked(r)},
             IF now = None THEN {[c EXCEPT !.mine = @ /\ c.kind \in PageLoads] : c \in rest} ELSE rest)

Act == made < MaxActs /\ made' = made + 1 /\ UNCHANGED <<others, breaks>>
Start(S) == Send(S, calls) /\ Act

(***************************************************************************)
(* The user                                                                *)
(***************************************************************************)

\* A click in the room list, a link, the back button.
GoTo(r) ==
  /\ r # at /\ Act
  /\ r # NoRoom => list[r] # None
  /\ Become(r, open, filesOpen, list, {}, calls, busy)
  /\ UNCHANGED <<server>>

\* The info button of the pane and the panel's cross.
TogglePanel ==
  /\ at # NoRoom /\ list[at] # None /\ Act
  /\ Become(at, ~open, filesOpen, list, {}, calls, busy)
  /\ UNCHANGED <<server>>

\* setFilesOpen, and its effect.
ToggleFiles ==
  /\ Panel # None /\ Act
  /\ Become(at, open, ~filesOpen, list, {}, calls, busy)
  /\ UNCHANGED <<server>>

\* canEditSettings: the fields are there for a manager of the room.
TypeName ==
  /\ Panel # None /\ Manages(Panel.role)
  /\ draft' = [of |-> at, is |-> "second"] /\ draft' # draft
  /\ UNCHANGED <<server, page, toggle, hooks, section, busy, calls, missed, counts>>

\* handleSaveSettings.
Save ==
  /\ Panel # None /\ Manages(Panel.role)
  /\ Start({Ask("save", at, draft)})
  /\ UNCHANGED <<server, page, panel>>

\* handleToggleEmailNotifications, shown before it is answered.
ToggleEmail ==
  /\ Panel # None
  /\ toggle' = ~toggle
  /\ UNCHANGED <<server, page, draft, hooks, section, busy>>
  /\ Start({Ask("email", at, ~toggle)})

\* handleCreateWebhook, handleCreateSubscription. What is typed in the two
\* forms, and the signing secret shown after it, are left out.
CreateHook(s) ==
  /\ Panel # None /\ Manages(Panel.role)
  /\ Start({Ask("create", at, s)})
  /\ UNCHANGED <<server, page, panel>>

\* handleRevokeWebhook, handleRevokeSubscription, from a list the panel holds.
Revoke(h) ==
  /\ Panel # None /\ Manages(Panel.role) /\ h \in hooks[Sort[h]]
  /\ Start({Ask("revoke", at, h)})
  /\ UNCHANGED <<server, page, panel>>

\* handleAddMember, someone of the directory.
AddMember ==
  /\ Panel # None /\ Manages(Panel.role)
  /\ Start({Ask("add", at, None)})
  /\ UNCHANGED <<server, page, panel>>

\* memberActions: what a member of role "mine" is offered on one of role
\* "theirs"; to promote and to demote are both a call "role".
MemberActions(mine, theirs) ==
  {k \in {"role", "transfer", "remove"} :
     \/ mine = "owner" /\ (k = "role" => theirs # "owner")
     \/ mine = "admin" /\ theirs = "member" /\ k = "remove"}

\* handleMemberAction, on whatever role the page's list gives the member:
\* handleRoleChange, handleTransfer, handleRemove.
ManageMember ==
  /\ Panel # None /\ ~busy
  /\ busy' = TRUE
  /\ \E theirs \in In : \E k \in MemberActions(Panel.role, theirs) : Start({Ask(k, at, None)})
  /\ UNCHANGED <<server, page, draft, toggle, hooks, section>>

\* handleLeave, handleDelete.
Leave ==
  /\ Panel # None /\ Panel.role # "owner"
  /\ Start({Ask("leave", at, None)})
  /\ UNCHANGED <<server, page, panel>>
Delete ==
  /\ Panel # None /\ Panel.role = "owner"
  /\ Start({Ask("delete", at, None)})
  /\ UNCHANGED <<server, page, panel>>

\* handleJoin of the rooms to browse, handleSubmit of a new room.
Enter(r) ==
  /\ role[r] \in {"none", "unborn"}
  /\ Start({Ask("enter", r, None)})
  /\ UNCHANGED <<server, page, panel>>

(***************************************************************************)
(* The server                                                              *)
(***************************************************************************)

\* revoke_incoming_webhook, revoke_event_subscription look it up by its id and
\* its room.
Revocable(h, r) == stand[h] = "live" /\ Home[h] = r

\* list_incoming_webhooks, list_event_subscriptions.
Live(r, s) == {h \in Hooks : Home[h] = r /\ Sort[h] = s /\ stand[h] = "live"}

\* The checks of the endpoint a call goes to.
Allowed(c) ==
  CASE c.kind = "rooms" -> TRUE
    [] c.kind = "enter" -> role[c.room] # "gone"
    [] c.kind = "email" -> role[c.room] \in In
    [] c.kind = "leave" -> role[c.room] \in {"admin", "member"}
    [] c.kind \in {"transfer", "role", "delete"} -> role[c.room] = "owner"
    [] c.kind \in {"members", "files"} -> role[c.room] \in In
    [] c.kind = "revoke" -> Manages(role[c.room]) /\ Revocable(c.arg, c.room)
    [] OTHER -> Manages(role[c.room])

\* What the room's role becomes.
RoleAfter(c) ==
  CASE c.kind = "leave" -> "none"
    [] c.kind = "delete" -> "gone"
    [] c.kind = "enter" /\ role[c.room] = "none" -> "member"
    [] c.kind = "enter" /\ role[c.room] = "unborn" -> "owner"
    [] c.kind = "transfer" -> "admin"
    [] OTHER -> role[c.room]

Answered(c) ==
  CASE c.kind = "rooms" -> MyList
    [] c.kind = "hooks" -> Live(c.room, c.arg)
    [] OTHER -> None

\* The webhooks a call may create; there is a bound on them.
Coming(c) == {h \in Hooks : Home[h] = c.room /\ Sort[h] = c.arg /\ stand[h] = "unmade"}

\* A call reaches the server.
Serve(c) ==
  /\ c \in calls /\ c.stage = "sent" /\ (c.kind = "create" => Coming(c) # {})
  /\ calls' = (calls \ {c}) \cup
       {[c EXCEPT !.stage = IF Allowed(c) THEN "ok" ELSE "failed",
                  !.got = IF Allowed(c) THEN Answered(c) ELSE None]}
  /\ IF Allowed(c) /\ c.kind # "rooms"
     THEN /\ role' = [role EXCEPT ![c.room] = RoleAfter(c)]
          /\ name' = IF c.kind = "save" THEN [name EXCEPT ![c.room] = c.arg] ELSE name
          /\ email' = IF c.kind = "email" THEN [email EXCEPT ![c.room] = c.arg] ELSE email
          /\ CASE c.kind = "revoke" -> stand' = [stand EXCEPT ![c.arg] = "revoked"]
               [] c.kind = "create" -> \E h \in Coming(c) : stand' = [stand EXCEPT ![h] = "live"]
               [] OTHER -> UNCHANGED stand
     ELSE UNCHANGED <<name, role, email, stand>>
  /\ copies' = IF c.kind = "rooms" THEN copies \cup {MyList} ELSE copies
  /\ missed' = IF Allowed(c) THEN missed ELSE missed \cup ({Fills(c)} \cap Lists)
  /\ UNCHANGED <<panel, page, counts>>

\* The network breaks a call, served or not: the page gets a NetworkError.
Break(c) ==
  /\ c \in calls /\ c.stage # "failed" /\ breaks < MaxBreaks
  /\ calls' = (calls \ {c}) \cup {[c EXCEPT !.stage = "failed", !.got = None]}
  /\ breaks' = breaks + 1
  /\ missed' = Lists
  /\ UNCHANGED <<server, panel, page, made, others>>

\* The network answers a list of rooms in no time, or not at all: the service
\* worker answers it with its copy, as if it were the server's answer. (A copy
\* of a room's members is of that room too, which is all "crew" tells.)
Copied(c) ==
  /\ c \in calls /\ c.kind = "rooms" /\ c.stage # "failed" /\ breaks < MaxBreaks
  /\ \E l \in copies : calls' = (calls \ {c}) \cup {[c EXCEPT !.stage = "ok", !.got = l]}
  /\ breaks' = breaks + 1
  /\ missed' = missed \cup {"rooms"}
  /\ UNCHANGED <<server, panel, page, made, others>>

\* Another manager renames the room, or changes this user's role in it.
Rename(r) ==
  /\ others < MaxOthers
  /\ \E n \in Names : n.of = r /\ n # name[r] /\ name' = [name EXCEPT ![r] = n]
  /\ others' = others + 1
  /\ UNCHANGED <<role, email, stand, copies, panel, page, calls, missed, made, breaks>>
SetRole(r) ==
  /\ others < MaxOthers
  /\ role[r] \in {"admin", "member"}
  /\ \E x \in {"owner", "admin", "member", "none"} \ {role[r]} : role' = [role EXCEPT ![r] = x]
  /\ others' = others + 1
  /\ UNCHANGED <<name, email, stand, copies, panel, page, calls, missed, made, breaks>>

\* A manager adds this user: room_added, if the socket is up, lists the rooms.
Added(r) ==
  /\ others < MaxOthers /\ others' = others + 1
  /\ role[r] = "none" /\ role' = [role EXCEPT ![r] = "member"]
  /\ \E S \in SUBSET {Ask("rooms", NoRoom, None)} : Send(S, calls)
  /\ UNCHANGED <<name, email, stand, copies, panel, page, made, breaks>>

(***************************************************************************)
(* Answers                                                                 *)
(***************************************************************************)

Take(c, k) == c \in calls /\ c.kind \in k /\ c.stage # "sent"

\* refreshRooms, and goToRoom when it follows a room entered: there even when
\* the list did not come.
RoomsListed(c) ==
  /\ Take(c, {"rooms"})
  /\ Become(IF c.arg # None THEN c.arg ELSE at, open, filesOpen,
            IF c.stage = "ok" THEN c.got ELSE list, {}, calls \ {c}, busy)
  /\ UNCHANGED <<server, counts>>

\* setMembers, whatever room is on screen by now.
MembersListed(c) ==
  /\ Take(c, {"members"})
  /\ crew' = IF c.stage = "ok" THEN c.room ELSE None
  /\ calls' = calls \ {c}
  /\ UNCHANGED <<server, panel, list, at, open, missed, counts>>

\* setIncomingWebhooks, setEventSubscriptions: the same.
HooksListed(c) ==
  /\ Take(c, {"hooks"})
  /\ hooks' = IF c.mine THEN [hooks EXCEPT ![c.arg] = IF c.stage = "ok" THEN c.got ELSE {}]
              ELSE hooks
  /\ calls' = calls \ {c}
  /\ UNCHANGED <<server, page, draft, toggle, section, busy, missed, counts>>

\* setAttachments: the same; an error leaves the attachments there were.
FilesListed(c) ==
  /\ Take(c, {"files"})
  /\ files' = IF c.mine /\ c.stage = "ok" THEN c.room ELSE files
  /\ calls' = calls \ {c}
  /\ UNCHANGED <<server, page, draft, toggle, hooks, filesOpen, busy, missed, counts>>

\* The settings are saved: onRoomUpdated lists the rooms again.
Saved(c) ==
  /\ Take(c, {"save"})
  /\ Send({a \in {Ask("rooms", NoRoom, None)} : c.stage = "ok"}, calls \ {c})
  /\ UNCHANGED <<server, page, panel, counts>>

\* The same, or the toggle goes back to what it was before this one.
EmailSet(c) ==
  /\ Take(c, {"email"})
  /\ toggle' = IF c.stage = "failed" /\ c.mine THEN ~c.arg ELSE toggle
  /\ Send({a \in {Ask("rooms", NoRoom, None)} : c.stage = "ok"}, calls \ {c})
  /\ UNCHANGED <<server, page, draft, hooks, section, busy, counts>>

\* The list of the room it was made or revoked in is loaded anew; an error
\* leaves it.
HooksChanged(c) ==
  /\ Take(c, {"create", "revoke"})
  /\ UNCHANGED <<server, page, panel, counts>>
  /\ LET s == IF c.kind = "create" THEN c.arg ELSE Sort[c.arg]
     IN Send({[a EXCEPT !.mine = c.mine] :
                a \in {b \in {Ask("hooks", c.room, s)} : c.stage = "ok"}}, calls \ {c})

\* "finally" frees the row. onMembersChanged loads the members of the room the
\* user was in when he clicked; after a transfer the rooms are listed too.
Managed(c) ==
  /\ Take(c, {"add", "role", "remove", "transfer"})
  /\ UNCHANGED <<server, page, draft, toggle, hooks, section, counts>>
  /\ busy' = IF c.mine /\ c.kind # "add" THEN FALSE ELSE busy
  /\ Send({a \in {Ask("members", c.room, None), Ask("rooms", NoRoom, None)} :
             c.stage = "ok" /\ (a.kind = "rooms" => c.kind = "transfer")},
          calls \ {c})

\* onLeft, onRoomDeleted: the panel closes, the page goes back to the list,
\* from whatever room is on screen by now.
Gone(c) ==
  /\ Take(c, {"leave", "delete"})
  /\ IF c.stage = "ok"
     THEN Become(NoRoom, FALSE, FALSE, list, {Ask("rooms", NoRoom, None)}, calls \ {c}, FALSE)
     ELSE calls' = calls \ {c} /\ UNCHANGED <<panel, page, missed>>
  /\ UNCHANGED <<server, counts>>

\* onJoined, onCreated, onOpenRoom.
Entered(c) ==
  /\ Take(c, {"enter"})
  /\ Send({a \in {Ask("rooms", NoRoom, c.room)} : c.stage = "ok"}, calls \ {c})
  /\ UNCHANGED <<server, page, panel, counts>>

Answer(c) ==
  \/ RoomsListed(c) \/ MembersListed(c) \/ HooksListed(c) \/ FilesListed(c)
  \/ Saved(c) \/ EmailSet(c) \/ HooksChanged(c) \/ Managed(c) \/ Gone(c) \/ Entered(c)

Next ==
  \/ \E r \in Rooms \cup {NoRoom} : GoTo(r)
  \/ TogglePanel \/ ToggleFiles \/ TypeName \/ Save \/ ToggleEmail
  \/ AddMember \/ ManageMember \/ Leave \/ Delete
  \/ \E s \in Sorts : CreateHook(s)
  \/ \E h \in Hooks : Revoke(h)
  \/ \E c \in calls : Serve(c) \/ Break(c) \/ Copied(c) \/ Answer(c)
  \/ \E r \in Rooms : Enter(r) \/ Rename(r) \/ SetRole(r) \/ Added(r)

Spec == Init /\ [][Next]_vars

(***************************************************************************)
(* Properties                                                              *)
(***************************************************************************)

\* Every variable has its type.
TypeOK ==
  /\ name \in [Rooms -> Names] /\ role \in [Rooms -> Roles]
  /\ email \in [Rooms -> BOOLEAN] /\ stand \in [Hooks -> {"unmade", "live", "revoked"}]
  /\ list \in [Rooms -> Records \cup {None}]
  /\ copies \subseteq [Rooms -> Records \cup {None}]
  /\ at \in Rooms \cup {NoRoom}
  /\ {crew, files} \subseteq Rooms \cup {None}
  /\ {open, toggle, filesOpen, busy} \subseteq BOOLEAN /\ missed \subseteq Lists
  /\ draft \in Names \cup {None} /\ hooks \in [Sorts -> SUBSET Hooks]

\* The settings typed or read for one room never end up in another, although
\* the panel stays mounted when the user goes from room to room and a save
\* can be served after that.
NamesStayHome == \A r \in Rooms : name[r].of = r

\* A list of rooms that brings nothing new for the room of the panel leaves
\* what is being typed alone.
DraftSurvivesList ==
  [][(Panel # None /\ Panel' # None /\ at' = at /\ View(Panel') = View(Panel))
       => (draft' = draft \/ TypeName)]_vars

\* Once everything is answered the panel shows what is of the room it is open
\* over: its members, its webhooks as they are, its files, this user's e-mail
\* choice. Excepted is what the last call that was to set it may have got wrong:
\* one broken, refused, answered with an old copy or overtaken by another, for a
\* room the user had left by then, or from a panel he had closed since. Asking
\* for it again, alone, puts it right.
PanelShowsRoom ==
  (calls = {} /\ Panel # None) =>
    /\ "members" \notin missed => crew = at
    /\ \A s \in Sorts \ missed : Manages(Panel.role) => hooks[s] = Live(at, s)
    /\ filesOpen /\ "files" \notin missed => files = at
    /\ missed \cap {"rooms", "email"} = {} => toggle = email[at]
=============================================================================
