---------------------------- MODULE MessageStore ----------------------------
(***************************************************************************)
(* The messages of one room and their attachments, in the database and on  *)
(* disk, under the WebSocket handlers of several connections.              *)
(*                                                                         *)
(* A handler (ws/chat.py) keeps one database session for as long as its    *)
(* connection lives.  SQLAlchemy's identity map returns an object that is  *)
(* still referenced as it was loaded, and objects survive commits          *)
(* (expire_on_commit=False, database.py).  The handler's local variables   *)
(* message and target_message refer to the message it last created or      *)
(* edited and the one it last reacted to: db.get returns those as they     *)
(* were, and reads any other from the table.                               *)
(*                                                                         *)
(* Each SELECT, each commit and each file operation is a step.  Whether a  *)
(* message has content is all that is kept of it; an image or a file is    *)
(* its attachment.                                                         *)
(***************************************************************************)
CONSTANTS
    Conns,     \* WebSocket connections
    User,      \* User[c]: who opened connection c
    Messages,  \* message ids
    Author,    \* Author[m]: whose message m is
    Attached   \* the messages sent with an attachment

ASSUME StoreAssumption == Attached \subseteq Messages

VARIABLES
    row,        \* the messages table
    files,      \* attachments with a row in message_files or message_images
    disk,       \* attachments with a file in UPLOADS_DIR
    saved,      \* uploads between save_file and the commit of their row
    reactions,  \* the message_reactions table, for one emoji
    held,       \* the identity map of each connection's session
    msgVar,     \* the local variable message
    tgtVar,     \* the local variable target_message
    work,       \* the operation each handler is in
    room,       \* the room: there, being deleted, or gone
    listed,     \* the filenames delete_room is going to unlink
    lost        \* files whose upload or unlinking was cut off

tables  == <<row, files, reactions>>
session == <<held, msgVar, tgtVar, work>>
deletion == <<room, listed>>
vars    == <<tables, disk, saved, session, deletion, lost>>

Row  == [content : BOOLEAN, deleted : BOOLEAN, file : BOOLEAN]
None == [absent |-> TRUE]
Idle == [op |-> "idle"]
NoMessage == "none"

Op == [op : {"edit", "delete", "react"}, msg : Messages,
       stage : {"commit", "file", "refresh", "unlink", "read"}, found : BOOLEAN]

Doing(c, op, stage) == work[c] # Idle /\ work[c].op = op /\ work[c].stage = stage

\* What db.get returns
Loaded(c, m) == IF held[c][m] # None THEN held[c][m] ELSE row[m]

\* Objects no variable refers to leave the identity map.
Kept(map, refs) == [m \in Messages |-> IF m \in refs THEN map[m] ELSE None]

\* The operation is over; message and target_message are now mv and tv.
Finish(c, map, mv, tv) ==
    /\ work' = [work EXCEPT ![c] = Idle]
    /\ msgVar' = [msgVar EXCEPT ![c] = mv]
    /\ tgtVar' = [tgtVar EXCEPT ![c] = tv]
    /\ held' = [held EXCEPT ![c] = Kept(map, {mv, tv})]

\* An exception leaves the receive loop: the session ends with its connection.
HangUp(c) == Finish(c, held[c], NoMessage, NoMessage)

Start(c, op, m, stage) ==
    /\ work' = [work EXCEPT ![c] = [op |-> op, msg |-> m, stage |-> stage, found |-> FALSE]]
    /\ held' = [held EXCEPT ![c][m] = Loaded(c, m)]

Init ==
    /\ row = [m \in Messages |-> None]
    /\ files = {} /\ disk = {} /\ saved = {}
    /\ reactions = [m \in Messages |-> {}]
    /\ held = [c \in Conns |-> [m \in Messages |-> None]]
    /\ msgVar = [c \in Conns |-> NoMessage] /\ tgtVar = [c \in Conns |-> NoMessage]
    /\ work = [c \in Conns |-> Idle]
    /\ room = "there" /\ listed = {} /\ lost = {}

-----------------------------------------------------------------------------
(* Uploads: the file is on disk before its row is committed                *)

UploadSave(m) ==
    /\ room # "gone"
    /\ m \in Attached /\ m \notin disk /\ row[m] = None
    /\ disk' = disk \cup {m}
    /\ saved' = saved \cup {m}
    /\ UNCHANGED <<tables, session, deletion, lost>>

\* The row refers to its room; without one the request fails and the file stays.
UploadInsert(m) ==
    /\ m \in saved
    /\ saved' = saved \ {m}
    /\ IF room = "gone"
          THEN lost' = lost \cup {m} /\ UNCHANGED files
          ELSE files' = files \cup {m} /\ UNCHANGED lost
    /\ UNCHANGED <<row, reactions, disk, session, deletion>>

UploadCut(m) ==
    /\ m \in saved
    /\ saved' = saved \ {m}
    /\ lost' = lost \cup {m}
    /\ UNCHANGED <<tables, disk, session, deletion>>

-----------------------------------------------------------------------------
(* The handler: message, edit, delete                                      *)

\* create_message: the commit and the refresh after it; nobody else knows the
\* id before it is broadcast.
Post(c, m) ==
    /\ room # "gone"
    /\ work[c] = Idle /\ Author[m] = User[c]
    /\ row[m] = None
    /\ m \in Attached => m \in files
    /\ \E text \in BOOLEAN :
          /\ text \/ m \in Attached
          /\ row' = [row EXCEPT ![m] = [content |-> text, deleted |-> FALSE,
                                        file |-> m \in Attached]]
    /\ Finish(c, [held[c] EXCEPT ![m] = row'[m]], m, tgtVar[c])
    /\ UNCHANGED <<files, reactions, disk, saved, deletion, lost>>

\* edit_message and delete_message: a message that is not there, is deleted or
\* is somebody else's is refused with an error frame.
Mine(c, m) ==
    /\ work[c] = Idle /\ Author[m] = User[c]
    /\ Loaded(c, m) # None /\ ~Loaded(c, m).deleted

EditLoad(c, m) ==
    /\ Mine(c, m)
    /\ Start(c, "edit", m, "commit")
    /\ UNCHANGED <<tables, disk, saved, msgVar, tgtVar, deletion, lost>>

\* Mutant: an edit saves every column as loaded
EditCommitAll(c) ==
    /\ Doing(c, "edit", "commit")
    /\ LET m == work[c].msg
       IN  IF row[m] = None
             THEN HangUp(c) /\ UNCHANGED row
             ELSE /\ row' = [row EXCEPT ![m] = [held[c][m] EXCEPT !.content = TRUE]]
                  /\ work' = [work EXCEPT ![c].stage = "refresh"]
                  /\ UNCHANGED <<held, msgVar, tgtVar>>
    /\ UNCHANGED <<files, reactions, disk, saved, deletion, lost>>

\* content is written only if it differs from the text loaded, edited_at always;
\* no row to update fails the commit.
EditCommit(c) ==
    /\ Doing(c, "edit", "commit")
    /\ LET m == work[c].msg
       IN  IF row[m] = None
             THEN HangUp(c) /\ UNCHANGED row
             ELSE /\ \/ row' = [row EXCEPT ![m].content = TRUE]
                     \/ held[c][m].content /\ UNCHANGED row
                  /\ work' = [work EXCEPT ![c].stage = "refresh"]
                  /\ UNCHANGED <<held, msgVar, tgtVar>>
    /\ UNCHANGED <<files, reactions, disk, saved, deletion, lost>>

\* db.refresh reads the row again; message is the edited one from now on.
EditRefresh(c) ==
    /\ Doing(c, "edit", "refresh")
    /\ LET m == work[c].msg
       IN  IF row[m] = None
             THEN HangUp(c)
             ELSE Finish(c, [held[c] EXCEPT ![m] = row[m]], m, tgtVar[c])
    /\ UNCHANGED <<tables, disk, saved, deletion, lost>>

DeleteLoad(c, m) ==
    /\ Mine(c, m)
    /\ Start(c, "delete", m, IF Loaded(c, m).file THEN "file" ELSE "commit")
    /\ UNCHANGED <<tables, disk, saved, msgVar, tgtVar, deletion, lost>>

\* Mutant: the file is unlinked when its name is read
DeleteFileEarly(c) ==
    /\ Doing(c, "delete", "file")
    /\ work' = [work EXCEPT ![c].stage = "commit", ![c].found = work[c].msg \in files]
    /\ disk' = disk \ {work[c].msg}
    /\ UNCHANGED <<tables, saved, held, msgVar, tgtVar, deletion, lost>>

\* The attachment's row, if it is still there, gives the filename.
DeleteFile(c) ==
    /\ Doing(c, "delete", "file")
    /\ work' = [work EXCEPT ![c].stage = "commit", ![c].found = work[c].msg \in files]
    /\ UNCHANGED <<tables, disk, saved, held, msgVar, tgtVar, deletion, lost>>

\* What was loaded as NULL is not written; deleted_at is.
DeleteCommit(c) ==
    /\ Doing(c, "delete", "commit")
    /\ LET m == work[c].msg
       IN  IF row[m] = None
             THEN HangUp(c) /\ UNCHANGED <<row, files>>
             ELSE /\ row' = [row EXCEPT ![m] =
                        [content |-> @.content /\ ~held[c][m].content,
                         deleted |-> TRUE,
                         file    |-> @.file /\ ~held[c][m].file]]
                  /\ files' = IF work[c].found THEN files \ {m} ELSE files
                  /\ work' = [work EXCEPT ![c].stage = "refresh"]
                  /\ UNCHANGED <<held, msgVar, tgtVar>>
    /\ UNCHANGED <<reactions, disk, saved, deletion, lost>>

\* A refresh without a row fails, and the file stays.
DeleteRefresh(c) ==
    /\ Doing(c, "delete", "refresh")
    /\ LET m == work[c].msg
       IN  IF row[m] = None
             THEN /\ HangUp(c)
                  /\ lost' = IF work[c].found THEN lost \cup {m} ELSE lost
             ELSE /\ held' = [held EXCEPT ![c][m] = row[m]]
                  /\ work' = [work EXCEPT ![c].stage = "unlink"]
                  /\ UNCHANGED <<msgVar, tgtVar, lost>>
    /\ UNCHANGED <<tables, disk, saved, deletion>>

\* Mutant: the row goes and the file stays
DeleteUnlinkForgets(c) ==
    /\ Doing(c, "delete", "unlink")
    /\ Finish(c, held[c], msgVar[c], tgtVar[c])
    /\ UNCHANGED <<tables, disk, saved, deletion, lost>>

\* delete_file, if the attachment's row was found
DeleteUnlink(c) ==
    /\ Doing(c, "delete", "unlink")
    /\ disk' = IF work[c].found THEN disk \ {work[c].msg} ELSE disk
    /\ Finish(c, held[c], msgVar[c], tgtVar[c])
    /\ UNCHANGED <<tables, saved, deletion, lost>>

-----------------------------------------------------------------------------
(* The handler: reaction                                                   *)

\* target_message is assigned before it is checked, None included.
ReactLoad(c, m) ==
    /\ work[c] = Idle
    /\ IF Loaded(c, m) = None
          THEN Finish(c, held[c], msgVar[c], NoMessage)
        ELSE IF Loaded(c, m).deleted
          THEN Finish(c, [held[c] EXCEPT ![m] = Loaded(c, m)], msgVar[c], m)
          ELSE /\ work' = [work EXCEPT ![c] = [op |-> "react", msg |-> m,
                                               stage |-> "read", found |-> FALSE]]
               /\ tgtVar' = [tgtVar EXCEPT ![c] = m]
               /\ held' = [held EXCEPT ![c] =
                     Kept([@ EXCEPT ![m] = Loaded(c, m)], {m, msgVar[c]})]
               /\ UNCHANGED msgVar
    /\ UNCHANGED <<tables, disk, saved, deletion, lost>>

ReactRead(c) ==
    /\ Doing(c, "react", "read")
    /\ work' = [work EXCEPT ![c].stage = "commit",
                            ![c].found = User[c] \in reactions[work[c].msg]]
    /\ UNCHANGED <<tables, disk, saved, held, msgVar, tgtVar, deletion, lost>>

\* The INSERT finds the unique constraint or the foreign key in its way.
Conflict(c) ==
    /\ ~work[c].found
    /\ User[c] \in reactions[work[c].msg] \/ row[work[c].msg] = None

ReactCommit(c) ==
    /\ Doing(c, "react", "commit")
    /\ IF Conflict(c)
          THEN HangUp(c) /\ UNCHANGED reactions
          ELSE /\ reactions' = [reactions EXCEPT ![work[c].msg] =
                     IF work[c].found THEN @ \ {User[c]} ELSE @ \cup {User[c]}]
               /\ Finish(c, held[c], msgVar[c], tgtVar[c])
    /\ UNCHANGED <<row, files, disk, saved, deletion, lost>>

\* The connection ends, or its worker does, wherever the handler is.
Disconnect(c) ==
    /\ HangUp(c)
    /\ lost' = IF /\ Doing(c, "delete", "refresh") \/ Doing(c, "delete", "unlink")
                  /\ work[c].found
                 THEN lost \cup {work[c].msg} ELSE lost
    /\ UNCHANGED <<tables, disk, saved, deletion>>

-----------------------------------------------------------------------------
(* delete_room                                                             *)

RoomList ==
    /\ room = "there"
    /\ room' = "deleting"
    /\ listed' = files
    /\ UNCHANGED <<tables, disk, saved, session, lost>>

\* A row inserted between two of its DELETEs makes the last one fail.
RoomFail ==
    /\ room = "deleting"
    /\ room' = "there"
    /\ listed' = {}
    /\ UNCHANGED <<tables, disk, saved, session, lost>>

RoomCommit ==
    /\ room = "deleting"
    /\ room' = "gone"
    /\ row' = [m \in Messages |-> None]
    /\ files' = {}
    /\ reactions' = [m \in Messages |-> {}]
    /\ UNCHANGED <<disk, saved, session, listed, lost>>

RoomUnlink ==
    /\ room = "gone"
    /\ disk' = disk \ listed
    /\ listed' = {}
    /\ UNCHANGED <<tables, saved, session, room, lost>>

Next ==
    \/ \E m \in Messages : UploadSave(m) \/ UploadInsert(m) \/ UploadCut(m)
    \/ \E c \in Conns :
          \/ \E m \in Messages :
                Post(c, m) \/ EditLoad(c, m) \/ DeleteLoad(c, m) \/ ReactLoad(c, m)
          \/ EditCommit(c) \/ EditRefresh(c)
          \/ DeleteFile(c) \/ DeleteCommit(c) \/ DeleteRefresh(c) \/ DeleteUnlink(c)
          \/ ReactRead(c) \/ ReactCommit(c)
          \/ Disconnect(c)
    \/ RoomList \/ RoomFail \/ RoomCommit \/ RoomUnlink

Spec == Init /\ [][Next]_vars
-----------------------------------------------------------------------------
(* Properties                                                              *)

\* Every variable has its type, and an identity map holds only what the handler's
\* variables or its operation refer to (ws/chat.py:331, 375, 443).
TypeOK ==
    /\ row \in [Messages -> Row \cup {None}]
    /\ files \subseteq Attached /\ disk \subseteq Attached /\ saved \subseteq Attached
    /\ listed \subseteq Attached /\ lost \subseteq Messages
    /\ reactions \in [Messages -> SUBSET {User[c] : c \in Conns}]
    /\ held \in [Conns -> [Messages -> Row \cup {None}]]
    /\ msgVar \in [Conns -> Messages \cup {NoMessage}]
    /\ tgtVar \in [Conns -> Messages \cup {NoMessage}]
    /\ work \in [Conns -> Op \cup {Idle}]
    /\ room \in {"there", "deleting", "gone"}
    /\ \A c \in Conns, m \in Messages :
          held[c][m] # None =>
              m \in {msgVar[c], tgtVar[c]} \/ (work[c] # Idle /\ work[c].msg = m)

\* A message that refers to an attachment finds its row and its file, however
\* deletions of messages and of the room interleave, fail or are cut off:
\* files are unlinked only after the commit (message_service.py:86-121,
\* room_service.py:392-417).
AttachmentOnDisk ==
    \A m \in Messages : row[m] # None /\ row[m].file => m \in files /\ m \in disk

\* While the room is there no file is orphaned but by a crash: it has a row, or
\* will get one, or is about to be unlinked (routers/rooms.py:488-498, 540-552).
FilesAccounted ==
    room # "gone" => \A m \in disk :
        \/ m \in files \cup saved \cup lost
        \/ \E c \in Conns :
              /\ Doing(c, "delete", "refresh") \/ Doing(c, "delete", "unlink")
              /\ work[c].found /\ work[c].msg = m

\* A deleted message stays deleted: no edit, with however old a copy of it,
\* brings it back (message_service.py:63-82, 107-116).
TombstoneStays ==
    [][\A m \in Messages :
          row[m] # None /\ row[m].deleted => row'[m] = None \/ row'[m].deleted]_vars
=============================================================================
