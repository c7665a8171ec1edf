------------------------------ MODULE Composer ------------------------------
(***************************************************************************)
(* Writing a message: the draft and the attachments of the composer        *)
(* (frontend/src/components/Composer.tsx), the room it belongs to          *)
(* (ChatShellPage.tsx mounts a pane per room), the socket it is sent on    *)
(* (ws/useChatSocket.ts) and the server's answer (backend ws/chat.py).     *)
(*                                                                         *)
(* An upload is a request of its own that outlives the composer it was     *)
(* started from; the socket can be dead before the page has been told.     *)
(*                                                                         *)
(* Editor is the other half of the component, the text box; the two share  *)
(* no name, so that one module can speak of both (ComposerProofs).         *)
(***************************************************************************)
EXTENDS Naturals, FiniteSets

CONSTANTS
  Rooms,
  Files,       \* what the user attaches, each once
  Images,      \* those sent as an image
  Texts,       \* what the user types, each once
  NoRoom,
  None,
  MaxDeaths,   \* bound on the sockets that die
  MaxOpens     \* bound on the rooms opened

ASSUME ComposerAssumption ==
  /\ Images \subseteq Files
  /\ NoRoom \notin Rooms /\ None \notin Files \cup Texts

VARIABLES
  room,        \* the room of the pane on screen
  socket,      \* readyState: "open", "dead" before its close event, "closed"
  connected,   \* what the page knows of it
  archived,    \* rooms archived on the server
  listed,      \* rooms the page's list shows as archived
  box,         \* the text in the box
  image, file, \* pendingImage, pendingFile
  uploading,   \* the spinner
  upload,      \* per file, where its upload stands and the room it went to
  wire,        \* frames the server has not read
  posted, refused,
  lost,        \* history: frames that never left
  deaths, opens

pane == <<room, box, image, file, uploading, upload>>
net == <<socket, connected, wire, deaths>>
server == <<archived, posted, refused>>
composerVars == <<pane, net, server, listed, lost, opens>>

MessageFrame(r, t, i, f) == [room |-> r, text |-> t, image |-> i, file |-> f]
Frames == [room : Rooms, text : Texts \cup {None},
           image : Images \cup {None}, file : (Files \ Images) \cup {None}]
Sent == wire \cup posted \cup refused \cup lost

ComposerInit ==
  /\ room = NoRoom /\ socket = "open" /\ connected = TRUE
  /\ archived = {} /\ listed = {}
  /\ box = None /\ image = None /\ file = None /\ uploading = FALSE
  /\ upload = [f \in Files |-> [at |-> "new", to |-> NoRoom]]
  /\ wire = {} /\ posted = {} /\ refused = {} /\ lost = {}
  /\ deaths = 0 /\ opens = 0

\* isDisabled: neither connected nor writable is the same to every button.
Enabled == room # NoRoom /\ connected /\ room \notin listed

\* Mutant: the composer of the last room stays, with what it holds.
OpenRoomKeeping(r) ==
  /\ r # room /\ opens < MaxOpens
  /\ room' = r /\ opens' = opens + 1
  /\ UNCHANGED <<box, image, file, uploading, upload, net, server, listed, lost>>

\* The pane is keyed by its room: another room's pane starts empty, and an
\* upload under way answers a composer that is no more.
OpenRoom(r) ==
  /\ r # room /\ opens < MaxOpens
  /\ room' = r /\ opens' = opens + 1
  /\ box' = None /\ image' = None /\ file' = None /\ uploading' = FALSE
  /\ upload' = [f \in Files |-> IF upload[f].at = "flying"
                                THEN [upload[f] EXCEPT !.at = "orphan"] ELSE upload[f]]
  /\ UNCHANGED <<net, server, listed, lost>>

\* The text box: what is typed has not been sent or thrown away before.
TypeText(t) ==
  /\ Enabled
  /\ box = None /\ \A m \in Sent : m.text # t
  /\ box' = t
  /\ UNCHANGED <<room, image, file, uploading, upload, net, server, listed, lost, opens>>

(***************************************************************************)
(* Attachments                                                             *)
(***************************************************************************)

\* handleFile, for a file within the limit.
Start(f) ==
  /\ upload[f].at = "new"
  /\ upload' = [upload EXCEPT ![f] = [at |-> "flying", to |-> room]]
  /\ uploading' = TRUE
  /\ UNCHANGED <<room, box, image, file, net, server, listed, lost, opens>>

\* The button is disabled during an upload; the chooser it opens does not ask
\* again whether the room is still writable.
Pick(f) == room # NoRoom /\ ~uploading /\ Start(f)

\* A dropped file is taken during an upload too.
DropFile(f) == Enabled /\ Start(f)

\* The upload answers: the attachment takes the place of an earlier one of
\* its kind, and the spinner stops whichever upload it was.
Arrive(f) ==
  /\ upload[f].at = "flying"
  /\ upload' = [upload EXCEPT ![f].at = "stored"]
  /\ IF f \in Images THEN image' = f /\ UNCHANGED file ELSE file' = f /\ UNCHANGED image
  /\ uploading' = FALSE
  /\ UNCHANGED <<room, box, net, server, listed, lost, opens>>

\* Mutant: the spinner stops only when an upload succeeds.
FailSpinning(f) ==
  /\ upload[f].at = "flying"
  /\ upload' = [upload EXCEPT ![f].at = "failed"]
  /\ UNCHANGED <<room, box, image, file, uploading, net, server, listed, lost, opens>>

\* It fails: an error stands in its place.
Fail(f) ==
  /\ upload[f].at = "flying"
  /\ upload' = [upload EXCEPT ![f].at = "failed"]
  /\ uploading' = FALSE
  /\ UNCHANGED <<room, box, image, file, net, server, listed, lost, opens>>

\* The same for a composer that is gone: nothing but the server changes.
ArriveLate(f) ==
  /\ upload[f].at = "orphan"
  /\ upload' = [upload EXCEPT ![f].at = "unattached"]
  /\ UNCHANGED <<room, box, image, file, uploading, net, server, listed, lost, opens>>

\* The cross on an attachment.
RemoveImage ==
  /\ image # None /\ image' = None
  /\ UNCHANGED <<room, box, file, uploading, upload, net, server, listed, lost, opens>>
RemoveFile ==
  /\ file # None /\ file' = None
  /\ UNCHANGED <<room, box, image, uploading, upload, net, server, listed, lost, opens>>

(***************************************************************************)
(* Sending                                                                 *)
(***************************************************************************)

\* Mutant: the attached file stays for the next message.
SendKeepingFile ==
  /\ Enabled /\ (box # None \/ image # None \/ file # None)
  /\ wire' = wire \cup {MessageFrame(room, box, image, file)}
  /\ box' = None /\ image' = None
  /\ UNCHANGED <<room, file, uploading, upload, socket, connected, deaths, server, listed, lost, opens>>

\* handleSend and the socket's send, which drops the frame silently when the
\* socket is not open; the composer is emptied either way.
SendMessage ==
  /\ Enabled /\ (box # None \/ image # None \/ file # None)
  /\ LET m == MessageFrame(room, box, image, file)
     IN IF socket = "open" THEN wire' = wire \cup {m} /\ UNCHANGED lost
        ELSE lost' = lost \cup {m} /\ UNCHANGED wire
  /\ box' = None /\ image' = None /\ file' = None
  /\ UNCHANGED <<room, uploading, upload, socket, connected, deaths, server, listed, opens>>

\* The attachment is of the room it is posted in.
Valid(m) == \A f \in {m.image, m.file} \ {None} : upload[f].to = m.room

\* Mutant: a message to an archived room gets no answer.
TakeInSilence(m) ==
  /\ m \in wire /\ wire' = wire \ {m}
  /\ IF m.room \in archived THEN UNCHANGED <<posted, refused>>
     ELSE posted' = posted \cup {m} /\ UNCHANGED refused
  /\ UNCHANGED <<pane, socket, connected, deaths, archived, listed, lost, opens>>

\* The server's "message" branch, with its two refusals.
Take(m) ==
  /\ m \in wire /\ wire' = wire \ {m}
  /\ IF m.room \in archived \/ ~Valid(m) THEN refused' = refused \cup {m} /\ UNCHANGED posted
     ELSE posted' = posted \cup {m} /\ UNCHANGED refused
  /\ UNCHANGED <<pane, socket, connected, deaths, archived, listed, lost, opens>>

\* The connection dies with a part of what was on its way.
Die ==
  /\ socket = "open" /\ deaths < MaxDeaths
  /\ socket' = "dead" /\ deaths' = deaths + 1
  /\ \E M \in SUBSET wire : wire' = wire \ M /\ lost' = lost \cup M
  /\ UNCHANGED <<pane, connected, server, listed, opens>>

\* onclose, which the watchdog or the browser brings about.
CloseEvent ==
  /\ socket = "dead"
  /\ socket' = "closed" /\ connected' = FALSE
  /\ UNCHANGED <<pane, wire, deaths, server, listed, lost, opens>>

\* connect and onopen.
Reconnect ==
  /\ socket = "closed"
  /\ socket' = "open" /\ connected' = TRUE
  /\ UNCHANGED <<pane, wire, deaths, server, listed, lost, opens>>

\* A site admin archives a room; the page learns it with its next room list.
Archive(r) ==
  /\ r \notin archived
  /\ archived' = archived \cup {r}
  /\ UNCHANGED <<pane, net, posted, refused, listed, lost, opens>>
ListRooms ==
  /\ listed # archived
  /\ listed' = archived
  /\ UNCHANGED <<pane, net, server, lost, opens>>

ComposerNext ==
  \/ \E r \in Rooms \cup {NoRoom} : OpenRoom(r)
  \/ \E t \in Texts : TypeText(t)
  \/ \E f \in Files : Pick(f) \/ DropFile(f) \/ Arrive(f) \/ Fail(f) \/ ArriveLate(f)
  \/ RemoveImage \/ RemoveFile \/ SendMessage
  \/ \E m \in wire : Take(m)
  \/ Die \/ CloseEvent \/ Reconnect
  \/ \E r \in Rooms : Archive(r)
  \/ ListRooms

\* Requests are answered, the server reads, the browser's events and timers run.
Fairness ==
  /\ \A f \in Files : WF_composerVars(Arrive(f) \/ Fail(f))
  /\ WF_composerVars(\E m \in wire : Take(m))
  /\ WF_composerVars(CloseEvent) /\ WF_composerVars(Reconnect)

ComposerSpec == ComposerInit /\ [][ComposerNext]_composerVars /\ Fairness

(***************************************************************************)
(* Properties                                                              *)
(***************************************************************************)

\* Every variable has its type.
ComposerTypeOK ==
  /\ room \in Rooms \cup {NoRoom}
  /\ socket \in {"open", "dead", "closed"} /\ connected \in BOOLEAN
  /\ archived \subseteq Rooms /\ listed \subseteq archived
  /\ box \in Texts \cup {None} /\ image \in Images \cup {None}
  /\ file \in (Files \ Images) \cup {None} /\ uploading \in BOOLEAN
  /\ upload \in [Files -> [at : {"new", "flying", "orphan", "stored", "unattached", "failed"},
                           to : Rooms \cup {NoRoom}]]
  /\ wire \cup posted \cup refused \cup lost \subseteq Frames

\* An attachment shown in the composer or sent with a message was uploaded to
\* that very room, however the uploads and the changes of rooms overlap: the
\* server never has to refuse one ("Invalid image", "Invalid file").
AttachmentsStayHome ==
  /\ \A f \in {image, file} \ {None} : upload[f].to = room
  /\ \A m \in Sent : Valid(m)

\* No text and no attachment goes out twice, not even over a reconnect: what
\* has been handed to a socket is gone from the composer.
NothingSentTwice ==
  \A m, n \in Sent :
    (\/ m.text = n.text /\ m.text # None
     \/ m.image = n.image /\ m.image # None
     \/ m.file = n.file /\ m.file # None) => m = n

\* The attach button does not stay blocked: every upload ends, and the end of
\* any frees it.
SpinnerStops == uploading ~> ~uploading

\* What the conversation promises the writer (Outbox): every message sent
\* leaves the composer once, and ends once, posted, refused or lost with its
\* connection.
Delivery == INSTANCE Outbox WITH
  Messages <- Frames, handed <- wire, ended <- posted \cup refused \cup lost
ImplementsOutbox == Delivery!Spec
=============================================================================
