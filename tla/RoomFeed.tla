------------------------------ MODULE RoomFeed ------------------------------
(***************************************************************************)
(* What one open tab shows of one room.                                    *)
(*                                                                         *)
(* Handlers of the author's connections commit a change and then publish   *)
(* it (ws/chat.py, services/message_events.py).  The room's channel        *)
(* reaches the sockets that have joined the room on this worker            *)
(* (ws/broadcaster.py, ws/connection_manager.py).  The tab joins and       *)
(* leaves with its visibility, reconnects after a close and kills zombie   *)
(* connections (frontend ws/useChatSocket.ts); its pane keeps a fetched    *)
(* history and a live tail, and refetches on every "joined"                *)
(* (frontend components/ChatPane.tsx).  Between the pane and the server    *)
(* the service worker keeps the last answer that arrived and gives it when *)
(* the network takes longer than four seconds or fails (frontend sw.ts).   *)
(* Every tab of the browser puts its answers there, those it no longer     *)
(* waits for too, so the copy may be any table the room has had.           *)
(*                                                                         *)
(* A message is its version number: 0 before it exists, Gone once deleted. *)
(* An edit stands for every envelope that replaces part of a message       *)
(* (message_update, reaction_update, link_preview): the pane treats them   *)
(* alike.                                                                  *)
(***************************************************************************)
EXTENDS Integers, Sequences

CONSTANTS
    Messages,    \* message ids
    Writers,     \* connections of the author of the messages
    MaxVer,      \* bound on the versions of a message
    MaxEvents,   \* bound on closes, breaks and visibility changes
    MaxFailures  \* bound on history fetches that fail or are answered from the copy

ASSUME FeedAssumption ==
    MaxVer \in Nat \ {0} /\ MaxEvents \in Nat /\ MaxFailures \in Nat

VARIABLES
    row,        \* the messages table
    pending,    \* pending[h]: the envelope h has committed but not published
    srvJoined,  \* the tab's socket is in manager._rooms[room]
    srvPc,      \* the tab's handler: idle, or between manager.join and the reply
    sock,       \* the browser's WebSocket
    frames,     \* frames on their way to the server
    inbox,      \* envelopes on their way to the tab
    visible,    \* document.visibilityState
    history,    \* ChatPane's history
    live,       \* ChatPane's live
    fetches,    \* history requests in flight
    banner,     \* wsError or historyUnavailableOffline is shown
    past,       \* the tables the room has had: each may be the service worker's copy
    copied,     \* the history on screen is a copy (a history variable)
    events, failures

server == <<row, pending, past>>
link   == <<srvJoined, srvPc, sock, frames, inbox>>
pane   == <<history, live, fetches, banner, copied>>
vars   == <<server, link, visible, pane, events, failures>>

Gone    == MaxVer + 1
Version == 0..Gone
Table   == [Messages -> Version]
Blank   == [m \in Messages |-> 0]
None    == [type |-> "none", id |-> 0, ver |-> 0]
NotRead == <<>>

Joined == [type |-> "joined", id |-> 0, ver |-> 0]
Update(type, m, v) == [type |-> type, id |-> m, ver |-> v]

\* A request is the last one (requestId is historyRequestIdRef's) or superseded;
\* it waits for the network until the copy is given instead.  Superseded ones that
\* stand at the same point are one: their answers change nothing.
Request == [last |-> TRUE, by |-> "network", snap |-> NotRead]

Init ==
    /\ row = Blank
    /\ pending = [h \in Writers |-> None]
    /\ srvJoined = FALSE /\ srvPc = "idle"
    /\ sock = "down" /\ frames = <<>> /\ inbox = <<>>
    /\ visible \in BOOLEAN
    /\ history = Blank /\ live = Blank
    /\ fetches = {Request}
    /\ banner = FALSE
    /\ past = {Blank} /\ copied = FALSE
    /\ events = 0 /\ failures = 0

-----------------------------------------------------------------------------
(* The author's handlers: commit, then publish                             *)

Commit(h, m, type, v) ==
    /\ pending[h] = None
    /\ row' = [row EXCEPT ![m] = v]
    /\ past' = past \cup {row'}
    /\ pending' = [pending EXCEPT ![h] = Update(type, m, v)]
    /\ UNCHANGED <<link, visible, pane, events, failures>>

Post(h, m) == row[m] = 0 /\ Commit(h, m, "message", 1)

Edit(h, m) == row[m] \in 1..(MaxVer - 1) /\ Commit(h, m, "message_update", row[m] + 1)

Delete(h, m) == row[m] \in 1..MaxVer /\ Commit(h, m, "message_deleted", Gone)

\* Redis delivers to the workers listening now, and a worker to the sockets in
\* the room now: nothing is kept for a socket that joins later.
Publish(h) ==
    /\ pending[h] # None
    /\ pending' = [pending EXCEPT ![h] = None]
    /\ inbox' = IF srvJoined THEN Append(inbox, pending[h]) ELSE inbox
    /\ UNCHANGED <<row, past, srvJoined, srvPc, sock, frames, visible, pane, events, failures>>

-----------------------------------------------------------------------------
(* The tab's handler on the server                                         *)

\* manager.join comes first; presence.join is awaited before the reply.
ServerJoin ==
    /\ srvPc = "idle"
    /\ frames # <<>> /\ Head(frames) = "join"
    /\ frames' = Tail(frames)
    /\ srvJoined' = TRUE
    /\ srvPc' = "joining"
    /\ UNCHANGED <<server, sock, inbox, visible, pane, events, failures>>

ServerReply ==
    /\ srvPc = "joining"
    /\ srvPc' = "idle"
    /\ inbox' = Append(inbox, Joined)
    /\ UNCHANGED <<server, srvJoined, sock, frames, visible, pane, events, failures>>

ServerLeave ==
    /\ srvPc = "idle"
    /\ frames # <<>> /\ Head(frames) = "leave"
    /\ frames' = Tail(frames)
    /\ srvJoined' = FALSE
    /\ UNCHANGED <<server, srvPc, sock, inbox, visible, pane, events, failures>>

-----------------------------------------------------------------------------
(* The tab's socket: useChatSocket                                         *)

\* Mutants: rejoin whether visible or not, and never rejoin
OpenJoining ==
    /\ sock = "down"
    /\ sock' = "open"
    /\ frames' = <<"join">>
    /\ UNCHANGED <<server, srvJoined, srvPc, inbox, visible, pane, events, failures>>

OpenSilent ==
    /\ sock = "down"
    /\ sock' = "open"
    /\ UNCHANGED <<server, srvJoined, srvPc, frames, inbox, visible, pane, events, failures>>

\* onopen: rejoin, but only while visible
Open ==
    /\ sock = "down"
    /\ sock' = "open"
    /\ frames' = IF visible THEN <<"join">> ELSE <<>>
    /\ UNCHANGED <<server, srvJoined, srvPc, inbox, visible, pane, events, failures>>

\* The connection ends; the server's cleanup leaves the room (leave_all).
Cut(state) ==
    /\ sock' = state
    /\ srvJoined' = FALSE /\ srvPc' = "idle"
    /\ frames' = <<>> /\ inbox' = <<>>

Close ==
    /\ sock = "open" /\ events < MaxEvents
    /\ events' = events + 1
    /\ Cut("down")
    /\ UNCHANGED <<server, visible, pane, failures>>

\* It dies without a close frame; the browser still says OPEN.
Break ==
    /\ sock = "open" /\ events < MaxEvents
    /\ events' = events + 1
    /\ Cut("zombie")
    /\ UNCHANGED <<server, visible, pane, failures>>

\* The watchdog: nothing has arrived for ZOMBIE_TIMEOUT_MS
Watchdog ==
    /\ sock = "zombie"
    /\ sock' = "down"
    /\ UNCHANGED <<server, srvJoined, srvPc, frames, inbox, visible, pane, events, failures>>

\* handleVisibilityChange; a frame sent to a zombie goes nowhere
ChangeVisibility ==
    /\ events < MaxEvents
    /\ events' = events + 1
    /\ visible' = ~visible
    /\ frames' = IF sock = "open"
                   THEN Append(frames, IF visible' THEN "join" ELSE "leave")
                   ELSE frames
    /\ UNCHANGED <<server, srvJoined, srvPc, sock, inbox, pane, failures>>

-----------------------------------------------------------------------------
(* The pane: ChatPane                                                      *)

\* refreshHistory: live is cleared now, history replaced when the answer comes
RefreshHistory ==
    /\ live' = Blank
    /\ banner' = FALSE
    /\ fetches' = {[f EXCEPT !.last = FALSE] : f \in fetches} \cup {Request}
    /\ UNCHANGED <<history, copied>>

\* prev.map((m) => m.id === envelope.id ? ... : m): only what is listed changes.
\* deleted_at survives a message_update, so a tombstone stays one.
Patch(list, e) ==
    [list EXCEPT ![e.id] = IF @ = 0 \/ @ = Gone THEN @ ELSE e.ver]

PatchBoth(e) ==
    /\ history' = Patch(history, e)
    /\ live' = Patch(live, e)
    /\ UNCHANGED <<fetches, banner, copied>>

AppendLive(e) ==
    /\ live' = [live EXCEPT ![e.id] = e.ver]
    /\ UNCHANGED <<history, fetches, banner, copied>>

Receive ==
    /\ sock = "open"
    /\ inbox # <<>>
    /\ inbox' = Tail(inbox)
    /\ LET e == Head(inbox)
       IN  \/ e.type = "joined" /\ RefreshHistory
           \/ e.type = "message" /\ AppendLive(e)
           \/ e.type \in {"message_update", "message_deleted"} /\ PatchBoth(e)
    /\ UNCHANGED <<server, srvJoined, srvPc, sock, frames, visible, events, failures>>

\* GET /rooms/{id}/messages reads the table
FetchRead ==
    /\ \E f \in fetches :
          /\ f.snap = NotRead
          /\ fetches' = (fetches \ {f}) \cup {[f EXCEPT !.snap = row]}
    /\ UNCHANGED <<server, link, visible, history, live, banner, copied, events, failures>>

\* NetworkFirst: no answer within NETWORK_TIMEOUT_SECONDS, or none at all, and
\* there is a copy: the page is given the copy, as a success (one that is the
\* table of now is as good as a read).
FetchCopied ==
    /\ failures < MaxFailures
    /\ failures' = failures + 1
    /\ \E f \in fetches, t \in past \ {row} :
          /\ f.by = "network"
          /\ fetches' = (fetches \ {f}) \cup {[f EXCEPT !.by = "copy", !.snap = t]}
    /\ UNCHANGED <<server, link, visible, history, live, banner, copied, events>>

\* Mutant: live is cleared when the answer comes
FetchReturnClears ==
    /\ \E f \in fetches :
          /\ f.snap # NotRead
          /\ fetches' = fetches \ {f}
          /\ IF f.last
               THEN history' = f.snap /\ copied' = (f.by = "copy") /\ live' = Blank
               ELSE UNCHANGED <<history, copied, live>>
    /\ UNCHANGED <<server, link, visible, banner, events, failures>>

\* Only the response to the latest request counts.
FetchReturn ==
    /\ \E f \in fetches :
          /\ f.snap # NotRead
          /\ fetches' = fetches \ {f}
          /\ IF f.last
               THEN history' = f.snap /\ copied' = (f.by = "copy")
               ELSE UNCHANGED <<history, copied>>
    /\ UNCHANGED <<server, link, visible, live, banner, events, failures>>

\* An error of the server, or no answer and no copy
FetchFail ==
    /\ failures < MaxFailures
    /\ failures' = failures + 1
    /\ \E f \in fetches :
          /\ f.by = "network"
          /\ fetches' = fetches \ {f}
          /\ banner' = (banner \/ f.last)
    /\ UNCHANGED <<server, link, visible, history, live, copied, events>>

Next ==
    \/ \E h \in Writers :
          \/ Publish(h)
          \/ \E m \in Messages : Post(h, m) \/ Edit(h, m) \/ Delete(h, m)
    \/ ServerJoin \/ ServerReply \/ ServerLeave
    \/ Open \/ Close \/ Break \/ Watchdog \/ ChangeVisibility
    \/ Receive \/ FetchRead \/ FetchCopied \/ FetchReturn \/ FetchFail

\* The server and the browser keep running; nobody has to write or look.  The
\* tab's handler takes one frame at a time, the page one event of its socket, and
\* requests are answered, by the network or by the service worker.
Fairness ==
    /\ \A h \in Writers : WF_vars(Publish(h))
    /\ WF_vars(ServerJoin \/ ServerReply \/ ServerLeave)
    /\ WF_vars(Open \/ Watchdog \/ Receive)
    /\ WF_vars(FetchRead \/ FetchReturn)

Spec     == Init /\ [][Next]_vars
FairSpec == Spec /\ Fairness
-----------------------------------------------------------------------------
(* Properties                                                              *)

Envelope == [type : {"none", "joined", "message", "message_update", "message_deleted"},
             id : Messages \cup {0}, ver : Version]

\* Every variable has its type; a request carries a table or nothing yet
\* (ChatPane.tsx:50-61).
TypeOK ==
    /\ row \in Table /\ history \in Table /\ live \in Table
    /\ pending \in [Writers -> Envelope]
    /\ srvJoined \in BOOLEAN /\ srvPc \in {"idle", "joining"}
    /\ sock \in {"down", "open", "zombie"}
    /\ frames \in Seq({"join", "leave"}) /\ inbox \in Seq(Envelope)
    /\ visible \in BOOLEAN /\ banner \in BOOLEAN
    /\ fetches \subseteq [last : BOOLEAN, by : {"network", "copy"}, snap : Table \cup {NotRead}]
    /\ past \subseteq Table /\ copied \in BOOLEAN
    /\ events \in 0..MaxEvents /\ failures \in 0..MaxFailures

Shown(m) == history[m] # 0 \/ live[m] # 0

\* Nothing is on its way and the tab is in the room, in view, without an error.
Settled ==
    /\ sock = "open" /\ visible /\ srvJoined /\ srvPc = "idle"
    /\ frames = <<>> /\ inbox = <<>> /\ fetches = {}
    /\ \A h \in Writers : pending[h] = None
    /\ ~banner

\* Once things settle the tab shows every message of the room, whatever
\* reconnects, visibility changes, slow and failed fetches came before: a
\* message missed while outside the channel is in the refetch, one that came
\* during the refetch is in its snapshot or in live (ChatPane.tsx:52-74,
\* 112-125).  The exception is a history the service worker gave from its copy
\* (sw.ts:69-76): it lacks what came since, and nothing on screen says so.
NothingMissing ==
    Settled /\ ~copied => \A m \in Messages : row[m] # 0 => Shown(m)

\* The tab believes it is in the room exactly when the server does: join and
\* leave frames keep up with visibility over reconnects and zombie connections
\* (useChatSocket.ts:108-132, 204-215).
ChannelFollowsVisibility ==
    (sock = "open" /\ frames = <<>>) => (srvJoined = visible)

\* A message posted is eventually shown, unless the tab is hidden, shows an
\* error or was given an old copy of the history (useChatSocket.ts:157-193,
\* ChatPane.tsx:112-125, sw.ts:69-76).
EventuallyShown ==
    \A m \in Messages : row[m] # 0 ~> (Shown(m) \/ ~visible \/ banner \/ copied)
=============================================================================
