----------------------------- MODULE UnreadDots -----------------------------
(***************************************************************************)
(* The unread dots of the list of rooms, from the message another member    *)
(* posts to the dot one user's browser shows: what the server remembers to *)
(* have been read (backend services/room_service.py), who is told of a new *)
(* message (services/message_events.py, ws/chat.py), the socket            *)
(* (frontend/src/ws/useChatSocket.ts), the pane of the open room           *)
(* (components/ChatPane.tsx) and the page that keeps the list              *)
(* (pages/ChatShellPage.tsx, lib/roomIndicators.ts).                       *)
(*                                                                         *)
(* Three ways lead to a dot: a list of rooms, an unread_update, and the    *)
(* calls that mark a room read. Nothing orders one against another. A      *)
(* message is told apart by its number in its room, in the order of        *)
(* created_at; a mention, which is a dot of another colour, is left out.   *)
(***************************************************************************)
EXTENDS Naturals, Sequences, FiniteSets

CONSTANTS
  Rooms, NoRoom,
  MaxPosts,    \* bound on the messages of the others
  MaxActs,     \* bound on the user's acts
  MaxLists,    \* bound on the lists of rooms loaded
  MaxDrops     \* bound on the lost sockets, broken calls and lists
               \* answered with a copy

ASSUME UnreadDotsAssumption == NoRoom \notin Rooms

VARIABLES
  begun,     \* messages inserted in a room, committed or not
  posts,     \* the messages whose author's handler is still at work
  readAt,    \* last_read_at: the messages inserted when it was taken
  joined,    \* rooms this connection is in, for the manager and Presence
  ghost,     \* rooms a dead connection is still present in
  copies,    \* the dots of the lists answered so far: each may be the service
             \* worker's copy, as answers come to it in any order
  up,        \* the socket is open
  frames,    \* join and leave frames on their way
  inbox,     \* envelopes on their way
  at,        \* the room of the pane; NoRoom: none
  visible,   \* document.visibilityState
  dot,       \* has_unread of the list
  calls,     \* the page's calls: lists of rooms and mark-reads
  astray,    \* history: rooms whose dot a recorded race may have set wrong
  unsure,    \* history: rooms with a mark-read broken, or overtaken by another
  acts, lists, drops

server == <<begun, posts, readAt, joined, ghost, copies>>
link == <<up, frames, inbox>>
page == <<at, visible, dot>>
history == <<astray, unsure>>
counts == <<acts, lists, drops>>
dotsVars == <<server, link, page, calls, history, counts>>

\* last_message_at > last_read_at, over the committed messages.
Unread(r) ==
  \E n \in readAt[r] + 1 .. begun[r] : [room |-> r, n |-> n, stage |-> "inserted"] \notin posts

DotsInit ==
  /\ begun = [r \in Rooms |-> 0] /\ posts = {}
  /\ readAt = [r \in Rooms |-> 0]
  /\ joined = {} /\ ghost = {} /\ copies = {{}}
  /\ up = TRUE /\ frames = <<>> /\ inbox = <<>>
  /\ at = NoRoom /\ visible = TRUE
  /\ dot = [r \in Rooms |-> FALSE]
  /\ calls = {} /\ astray = {} /\ unsure = {}
  /\ acts = 0 /\ lists = 0 /\ drops = 0

(***************************************************************************)
(* A message of another member                                             *)
(***************************************************************************)

InboxOf(k) == {inbox[i].room : i \in {j \in 1 .. Len(inbox) : inbox[j].kind = k}}
FramesOf(k) == {frames[i].room : i \in {j \in 1 .. Len(frames) : frames[j].kind = k}}

Total == {x \in Rooms \X (1 .. MaxPosts) : x[2] <= begun[x[1]]}

\* create_message inserts it, ...
Insert(r) ==
  /\ Cardinality(Total) < MaxPosts
  /\ begun' = [begun EXCEPT ![r] = @ + 1]
  /\ posts' = posts \cup {[room |-> r, n |-> begun[r] + 1, stage |-> "inserted"]}
  /\ UNCHANGED <<readAt, joined, ghost, copies, link, page, calls, history, counts>>

Moved(p, s) == (posts \ {p}) \cup {[p EXCEPT !.stage = s]}

\* ... and commits.
Commit(p) ==
  /\ p \in posts /\ p.stage = "inserted"
  /\ posts' = Moved(p, "committed")
  /\ UNCHANGED <<begun, readAt, joined, ghost, copies, link, page, calls, history, counts>>

\* broadcast_new_message publishes it to the sockets in the room. A page on
\* its way out, its leave not read yet, will drop it.
Publish(p) ==
  /\ p \in posts /\ p.stage = "committed"
  /\ posts' = Moved(p, "published")
  /\ inbox' = IF p.room \in joined
              THEN Append(inbox, [kind |-> "message", room |-> p.room]) ELSE inbox
  /\ astray' = astray \cup ({p.room} \cap joined \cap FramesOf("leave")) \cup ({p.room} \cap (ghost \ joined))
  /\ UNCHANGED <<begun, readAt, joined, ghost, copies, up, frames, page, calls, unsure, counts>>

\* offline_ids: the members Presence does not find in the room.
Offline(r) == r \notin joined \cup ghost

\* _notify_offline_members, to every socket of the user there is.
Notify(p) ==
  /\ p \in posts /\ p.stage = "published"
  /\ posts' = posts \ {p}
  /\ inbox' = IF Offline(p.room) /\ up
              THEN Append(inbox, [kind |-> "unread_update", room |-> p.room]) ELSE inbox
  /\ astray' = IF ~up THEN astray \cup {p.room} ELSE astray
  /\ UNCHANGED <<begun, readAt, joined, ghost, copies, up, frames, page, calls, unsure, counts>>

(***************************************************************************)
(* The socket                                                              *)
(***************************************************************************)

\* The handler reads a frame. Of a message published before the room was
\* joined, and announced after it, the user is told neither way.
HandleFrame ==
  /\ frames # <<>> /\ frames' = Tail(frames)
  /\ LET f == Head(frames)
     IN IF f.kind = "join"
        THEN /\ joined' = joined \cup {f.room}
             /\ inbox' = Append(inbox, [kind |-> "joined", room |-> f.room])
             /\ astray' = astray \cup {p.room : p \in {q \in posts : q.stage = "published" /\ q.room = f.room}}
        ELSE joined' = joined \ {f.room} /\ UNCHANGED <<inbox, astray>>
  /\ UNCHANGED <<begun, posts, readAt, ghost, copies, up, page, calls, unsure, counts>>

\* The connection is lost with what is on its way; the handler has not noticed.
Drop ==
  /\ up /\ drops < MaxDrops /\ drops' = drops + 1
  /\ up' = FALSE /\ frames' = <<>> /\ inbox' = <<>>
  /\ ghost' = ghost \cup joined /\ joined' = {}
  /\ astray' = astray \cup InboxOf("message") \cup InboxOf("unread_update")
  /\ UNCHANGED <<begun, posts, readAt, copies, page, calls, unsure, acts, lists>>

\* The handler ends, or its entries in Presence expire.
Cleanup ==
  /\ ghost # {} /\ ghost' = {}
  /\ UNCHANGED <<begun, posts, readAt, joined, copies, link, page, calls, history, counts>>

\* sendRoomFrame: nothing while the socket is not open.
SendFrames(s) == frames' = IF up THEN frames \o s ELSE frames

\* joinRoom and leaveRoom keep the open room, if any, as the desired one.
Desired(k) == IF at = NoRoom THEN <<>> ELSE <<[kind |-> k, room |-> at]>>

\* onopen joins the desired rooms again; nothing loads the list.
Reconnect ==
  /\ ~up /\ up' = TRUE
  /\ frames' = IF visible THEN Desired("join") ELSE <<>>
  /\ UNCHANGED <<server, inbox, page, calls, history, counts>>

(***************************************************************************)
(* The page                                                                *)
(***************************************************************************)

Loading == {c \in calls : c.kind = "list"}
Marks(r) == {c \in calls : c.kind = "mark" /\ c.room = r}
FreeId == CHOOSE n \in 0 .. Cardinality(calls) : \A c \in calls : c.id # n

\* clearRoomIndicators.
Cleared(r) == [dot EXCEPT ![r] = FALSE]

\* markRead: nothing while the page is hidden.
MarkRead(r) ==
  IF visible
  THEN /\ dot' = Cleared(r)
       /\ calls' = calls \cup {[id |-> FreeId, kind |-> "mark", room |-> r, stamp |-> 0, stage |-> "sent"]}
       /\ unsure' = IF Marks(r) # {} THEN unsure \cup {r} ELSE unsure
  ELSE UNCHANGED <<dot, calls, unsure>>

\* The envelopes that are already there for a pane which will not show them.
Missing == {at} \cap InboxOf("message")

\* A row of the sidebar, or the way back: one pane leaves, the next joins.
GoTo(r) ==
  /\ visible /\ r # at /\ acts < MaxActs /\ acts' = acts + 1
  /\ at' = r
  /\ SendFrames(Desired("leave")
                  \o (IF r = NoRoom THEN <<>> ELSE <<[kind |-> "join", room |-> r]>>))
  /\ astray' = astray \cup Missing
  /\ UNCHANGED <<server, up, inbox, visible, dot, calls, unsure, lists, drops>>

\* handleVisibilityChange.
Look ==
  /\ acts < MaxActs /\ acts' = acts + 1
  /\ visible' = ~visible
  /\ SendFrames(Desired(IF visible THEN "leave" ELSE "join"))
  /\ astray' = IF visible THEN astray \cup Missing ELSE astray
  /\ UNCHANGED <<server, up, inbox, at, dot, calls, unsure, lists, drops>>

Arrived(k) == /\ inbox # <<>> /\ inbox' = Tail(inbox) /\ Head(inbox).kind = k

\* Mutant: a new message of the open room is shown, and no more.
ReceiveMessageOnly ==
  /\ Arrived("message")
  /\ UNCHANGED <<server, up, frames, page, calls, history, counts>>

\* joined and message: the pane of that room marks it read, any other ignores
\* it.
ReceiveMessage ==
  /\ Arrived("message")
  /\ IF Head(inbox).room = at THEN MarkRead(at) ELSE UNCHANGED <<dot, calls, unsure>>
  /\ UNCHANGED <<server, up, frames, at, visible, astray, counts>>
ReceiveJoined ==
  /\ Arrived("joined")
  /\ IF Head(inbox).room = at THEN MarkRead(at) ELSE UNCHANGED <<dot, calls, unsure>>
  /\ UNCHANGED <<server, up, frames, at, visible, astray, counts>>

\* Mutant: no dot for the open room, seen or not.
UnreadElsewhere ==
  /\ Arrived("unread_update")
  /\ LET r == Head(inbox).room
     IN /\ dot' = IF r = at THEN dot ELSE [dot EXCEPT ![r] = TRUE]
        /\ astray' = IF ~Unread(r) \/ Marks(r) # {} THEN astray \cup {r} ELSE astray
  /\ UNCHANGED <<server, up, frames, at, visible, calls, unsure, counts>>

\* unread_update sets the dot, whatever has been read since.
ReceiveUnread ==
  /\ Arrived("unread_update")
  /\ LET r == Head(inbox).room
     IN /\ dot' = [dot EXCEPT ![r] = TRUE]
        /\ astray' = IF ~Unread(r) \/ Marks(r) # {} THEN astray \cup {r} ELSE astray
  /\ UNCHANGED <<server, up, frames, at, visible, calls, unsure, counts>>

\* refreshRooms: on room_added, and after most of what the page does to rooms.
RefreshRooms ==
  /\ lists < MaxLists /\ lists' = lists + 1
  /\ calls' = calls \cup {[id |-> FreeId, kind |-> "list", stage |-> "sent", dots |-> {}]}
  /\ UNCHANGED <<server, link, page, history, acts, drops>>

(***************************************************************************)
(* The calls                                                               *)
(***************************************************************************)

\* list_member_rooms.
ServeList(c) ==
  /\ c \in Loading /\ c.stage = "sent"
  /\ LET dots == {r \in Rooms : Unread(r)}
     IN /\ calls' = (calls \ {c}) \cup {[c EXCEPT !.stage = "served", !.dots = dots]}
        /\ copies' = copies \cup {dots}
  /\ UNCHANGED <<begun, posts, readAt, joined, ghost, link, page, history, counts>>

\* The network answers in no time, or not at all: the service worker (sw.ts)
\* answers with its copy, as if it were the server's answer.
Copied(c) ==
  /\ c \in Loading /\ drops < MaxDrops /\ drops' = drops + 1
  /\ \E dots \in copies :
       calls' = (calls \ {c}) \cup {[c EXCEPT !.stage = "served", !.dots = dots]}
  /\ UNCHANGED <<server, link, page, history, acts, lists>>

\* Something about room r is on its way or under way.
Moving(r) ==
  \/ Marks(r) # {} \/ \E p \in posts : p.room = r
  \/ r \in InboxOf("message") \cup InboxOf("unread_update") \cup InboxOf("joined")

\* setRooms replaces every dot, however old the list is; a room is astray when
\* its dot differs from the server's, or may still.
AnswerList(c) ==
  /\ c \in Loading /\ c.stage = "served"
  /\ calls' = calls \ {c}
  /\ dot' = [r \in Rooms |-> r \in c.dots]
  /\ astray' = astray \cup {r \in Rooms : Moving(r) \/ (r \in c.dots) # Unread(r)}
  /\ UNCHANGED <<server, link, at, visible, unsure, counts>>

\* mark_room_read: now() is the start of its transaction.
BeginMark(c) ==
  /\ c \in calls /\ c.kind = "mark" /\ c.stage = "sent"
  /\ calls' = (calls \ {c}) \cup {[c EXCEPT !.stage = "begun", !.stamp = begun[c.room]]}
  /\ UNCHANGED <<server, link, page, history, counts>>

\* Its answer changes nothing.
CommitMark(c) ==
  /\ c \in calls /\ c.kind = "mark" /\ c.stage = "begun"
  /\ calls' = calls \ {c}
  /\ readAt' = [readAt EXCEPT ![c.room] = c.stamp]
  /\ UNCHANGED <<begun, posts, joined, ghost, copies, link, page, history, counts>>

\* A call fails: nothing is done about it.
Break(c) ==
  /\ c \in calls /\ c.stage = "sent" /\ drops < MaxDrops /\ drops' = drops + 1
  /\ calls' = calls \ {c}
  /\ unsure' = IF c.kind = "mark" THEN unsure \cup {c.room} ELSE unsure
  /\ UNCHANGED <<server, link, page, astray, acts, lists>>

DotsNext ==
  \/ \E r \in Rooms : Insert(r)
  \/ \E p \in posts : Commit(p) \/ Publish(p) \/ Notify(p)
  \/ HandleFrame \/ Drop \/ Cleanup \/ Reconnect
  \/ \E r \in Rooms \cup {NoRoom} : GoTo(r)
  \/ Look \/ ReceiveMessage \/ ReceiveJoined \/ ReceiveUnread \/ RefreshRooms
  \/ \E c \in calls :
       \/ ServeList(c) \/ Copied(c) \/ AnswerList(c)
       \/ BeginMark(c) \/ CommitMark(c) \/ Break(c)

DotsSpec == DotsInit /\ [][DotsNext]_dotsVars

(***************************************************************************)
(* Properties                                                              *)
(***************************************************************************)

\* What the socket and the page have under way.
Frame == [kind : {"join", "leave"}, room : Rooms]
Envelope == [kind : {"joined", "message", "unread_update"}, room : Rooms]
Calls ==
  [id : Nat, kind : {"list"}, stage : {"sent", "served"}, dots : SUBSET Rooms]
    \cup [id : Nat, kind : {"mark"}, room : Rooms, stamp : Nat, stage : {"sent", "begun"}]

\* Every variable has its type.
DotsTypeOK ==
  /\ begun \in [Rooms -> Nat] /\ readAt \in [Rooms -> Nat]
  /\ posts \subseteq [room : Rooms, n : Nat, stage : {"inserted", "committed", "published"}]
  /\ joined \subseteq Rooms /\ ghost \subseteq Rooms /\ copies \subseteq SUBSET Rooms
  /\ frames \in Seq(Frame) /\ inbox \in Seq(Envelope)
  /\ at \in Rooms \cup {NoRoom} /\ dot \in [Rooms -> BOOLEAN]
  /\ {up, visible} \subseteq BOOLEAN
  /\ calls \subseteq Calls
  /\ astray \subseteq Rooms /\ unsure \subseteq Rooms

\* The dot that a row of the list shows: none for the open room.
Dotted(r) == r # at /\ dot[r]

\* Nothing is on its way or under way.
Settled == up /\ frames = <<>> /\ inbox = <<>> /\ calls = {} /\ posts = {}

\* When all is settled, a room that is not open has its dot exactly when the
\* server holds it to be unread: whatever the user opened, left and hid
\* meanwhile. Excepted are the rooms of the recorded races: a message or an
\* unread_update lost with the socket or to a pane that has left; an
\* unread_update or a list, an old copy among them, that comes after the room
\* was marked read, or before; a mark-read broken or overtaken.
DotsAgree ==
  Settled => \A r \in Rooms \ ({at} \cup astray \cup unsure) : Dotted(r) = Unread(r)

\* When all is settled, the room on screen is read on the server, too, over
\* lost sockets, hidden pages and dead connections that are still present:
\* unless a mark-read was broken or overtaken.
OnScreenIsRead ==
  (Settled /\ visible /\ at # NoRoom) => (Unread(at) => at \in unsure)
=============================================================================
