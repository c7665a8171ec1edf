--------------------------- MODULE ComposerProofs ---------------------------
(***************************************************************************)
(* Theorems about the two halves of the composer.                          *)
(*                                                                         *)
(* Composer, for every set of rooms, files and texts and any number of     *)
(* uploads under way, dead sockets and rooms opened: an attachment stays   *)
(* with its room, nothing goes out twice, and every message that leaves is *)
(* handed over once and ends once.                                         *)
(*                                                                         *)
(* Editor, for every alphabet that keeps the triggers out of the tokens,   *)
(* every list and every length of text: at most one dropdown is open, the  *)
(* one open is for the token at the cursor, a marker put around a          *)
(* selection and the marks of its lines come off again, and what is code   *)
(* stays so through every pass that shows it.                              *)
(***************************************************************************)
EXTENDS Composer, Editor, TLAPS, SequenceTheorems, FiniteSetTheorems, WellFoundedInduction

(***************************************************************************)
(* Composer: types                                                         *)
(***************************************************************************)

\* What an upload can be.
Uploads == [at : {"new", "flying", "orphan", "stored", "unattached", "failed"},
            to : Rooms \cup {NoRoom}]

\* Every step keeps the types.
LEMMA TypeStep == ComposerTypeOK /\ [ComposerNext]_composerVars => ComposerTypeOK'
<1> SUFFICES ASSUME ComposerTypeOK, [ComposerNext]_composerVars PROVE ComposerTypeOK'
  OBVIOUS
<1> USE ComposerAssumption DEF ComposerTypeOK, net, server
<1>1. ASSUME NEW r \in Rooms \cup {NoRoom}, OpenRoom(r) PROVE ComposerTypeOK'
  BY <1>1 DEF OpenRoom
<1>2. ASSUME NEW t \in Texts, TypeText(t) PROVE ComposerTypeOK'
  BY <1>2 DEF TypeText
<1>3. ASSUME NEW f \in Files, Start(f) PROVE ComposerTypeOK'
  BY <1>3 DEF Start
<1>4. ASSUME NEW f \in Files, Arrive(f) PROVE ComposerTypeOK'
  BY <1>4 DEF Arrive
<1>5. ASSUME NEW f \in Files, Fail(f) PROVE ComposerTypeOK'
  BY <1>5 DEF Fail
<1>6. ASSUME NEW f \in Files, ArriveLate(f) PROVE ComposerTypeOK'
  BY <1>6 DEF ArriveLate
<1>7. CASE RemoveImage
  BY <1>7 DEF RemoveImage
<1>8. CASE RemoveFile
  BY <1>8 DEF RemoveFile
<1>9. CASE SendMessage
  <2>1. MessageFrame(room, box, image, file) \in Frames
    BY <1>9 DEF SendMessage, Enabled, MessageFrame, Frames
  <2> QED BY <1>9, <2>1 DEF SendMessage
<1>10. ASSUME NEW m \in wire, Take(m) PROVE ComposerTypeOK'
  BY <1>10 DEF Take, pane
<1>11. CASE Die
  BY <1>11 DEF Die, pane
<1>12. CASE CloseEvent
  BY <1>12 DEF CloseEvent, pane
<1>13. CASE Reconnect
  BY <1>13 DEF Reconnect, pane
<1>14. ASSUME NEW r \in Rooms, Archive(r) PROVE ComposerTypeOK'
  BY <1>14 DEF Archive, pane
<1>15. CASE ListRooms
  BY <1>15 DEF ListRooms, pane
<1>16. CASE UNCHANGED composerVars
  BY <1>16 DEF composerVars, pane
<1> QED
  BY <1>1, <1>2, <1>3, <1>4, <1>5, <1>6, <1>7, <1>8, <1>9, <1>10, <1>11, <1>12, <1>13, <1>14,
     <1>15, <1>16 DEF ComposerNext, Pick, DropFile

\* The first state has the types.
LEMMA TypeInit == ComposerInit => ComposerTypeOK
<1> SUFFICES ASSUME ComposerInit PROVE ComposerTypeOK
  OBVIOUS
<1>1. upload \in [Files -> Uploads] BY DEF ComposerInit, Uploads
<1>2. wire \cup posted \cup refused \cup lost \subseteq Frames BY DEF ComposerInit
<1> QED BY <1>1, <1>2 DEF ComposerInit, ComposerTypeOK, Uploads

\* The composer, the socket and what was sent are well typed at all times.
THEOREM Types == ComposerSpec => []ComposerTypeOK
BY TypeInit, TypeStep, PTL DEF ComposerSpec

(***************************************************************************)
(* Composer: attachments                                                   *)
(***************************************************************************)

Attached(m) == {m.image, m.file} \ {None}
StoredFor(f, r) == upload[f].at = "stored" /\ upload[f].to = r

\* An upload under way is for the room on screen; what has arrived in the
\* composer or gone out with a message is stored for the room it is shown in.
FlyingHome == \A f \in Files : upload[f].at = "flying" => upload[f].to = room
ShownStored == \A f \in {image, file} \ {None} : StoredFor(f, room)
SentStored == \A m \in Sent : \A f \in Attached(m) : StoredFor(f, m.room)
HomeInv == ComposerTypeOK /\ FlyingHome /\ ShownStored /\ SentStored

\* The attachments of the composer and of messages are files.
LEMMA AttachedFiles ==
  ASSUME ComposerTypeOK
  PROVE /\ {image, file} \ {None} \subseteq Files
        /\ \A m \in Sent : m \in Frames /\ Attached(m) \subseteq Files
BY ComposerAssumption DEF ComposerTypeOK, Sent, Frames, Attached

\* Only sending makes a message: what the server reads and what dies with a
\* socket has been sent already.
LEMMA SentStep ==
  ASSUME [ComposerNext]_composerVars
  PROVE \/ Sent' = Sent
        \/ SendMessage /\ Sent' = Sent \cup {MessageFrame(room, box, image, file)}
<1> USE DEF Sent, net, server
<1>1. ASSUME NEW r \in Rooms \cup {NoRoom}, OpenRoom(r) PROVE Sent' = Sent
  BY <1>1 DEF OpenRoom
<1>2. ASSUME NEW t \in Texts, TypeText(t) PROVE Sent' = Sent
  BY <1>2 DEF TypeText
<1>3. ASSUME NEW f \in Files, Start(f) \/ Arrive(f) \/ Fail(f) \/ ArriveLate(f)
      PROVE Sent' = Sent
  BY <1>3 DEF Start, Arrive, Fail, ArriveLate
<1>4. CASE RemoveImage \/ RemoveFile
  BY <1>4 DEF RemoveImage, RemoveFile
<1>5. CASE SendMessage
  BY <1>5 DEF SendMessage
<1>6. ASSUME NEW m \in wire, Take(m) PROVE Sent' = Sent
  BY <1>6 DEF Take
<1>7. CASE Die
  BY <1>7 DEF Die
<1>8. CASE CloseEvent \/ Reconnect \/ ListRooms
  BY <1>8 DEF CloseEvent, Reconnect, ListRooms
<1>9. ASSUME NEW r \in Rooms, Archive(r) PROVE Sent' = Sent
  BY <1>9 DEF Archive
<1>10. CASE UNCHANGED composerVars
  BY <1>10 DEF composerVars
<1> QED BY <1>1, <1>2, <1>3, <1>4, <1>5, <1>6, <1>7, <1>8, <1>9, <1>10 DEF ComposerNext, Pick, DropFile

\* What is stored stays stored for its room.
LEMMA StoredStays ==
  ASSUME ComposerTypeOK, [ComposerNext]_composerVars, NEW f \in Files, NEW r, StoredFor(f, r)
  PROVE StoredFor(f, r)'
<1> USE DEF ComposerTypeOK, StoredFor
<1>1. ASSUME NEW q \in Rooms \cup {NoRoom}, OpenRoom(q) PROVE upload'[f] = upload[f]
  BY <1>1 DEF OpenRoom
<1>2. ASSUME NEW g \in Files, Start(g) \/ Arrive(g) \/ Fail(g) \/ ArriveLate(g)
      PROVE upload'[f] = upload[f]
  <2>1. upload[g].at # "stored" BY <1>2 DEF Start, Arrive, Fail, ArriveLate
  <2>2. g # f BY <2>1
  <2> QED BY <1>2, <2>2 DEF Start, Arrive, Fail, ArriveLate
<1>3. CASE UNCHANGED upload
  BY <1>3
<1> QED BY <1>1, <1>2, <1>3
        DEF ComposerNext, Pick, DropFile, TypeText, RemoveImage, RemoveFile, SendMessage, Take, Die, CloseEvent,
            Reconnect, Archive, ListRooms, composerVars, pane

\* Every step keeps the uploads under way and the composer of one room.
LEMMA HomeStep == HomeInv /\ [ComposerNext]_composerVars => HomeInv'
<1> SUFFICES ASSUME HomeInv, [ComposerNext]_composerVars PROVE HomeInv'
  OBVIOUS
<1> USE DEF HomeInv
<1>1. ComposerTypeOK' BY TypeStep
<1>2. SentStored'
  <2>1. SUFFICES ASSUME NEW m \in Sent', NEW f \in Attached(m) PROVE StoredFor(f, m.room)'
    BY DEF SentStored, Attached
  <2>2. CASE m \in Sent
    <3>1. f \in Files /\ StoredFor(f, m.room) BY <2>2, AttachedFiles DEF SentStored
    <3> QED BY <3>1, StoredStays
  <2>3. CASE m \notin Sent
    <3>1. m = MessageFrame(room, box, image, file) BY <2>3, SentStep
    <3>2. f \in {image, file} \ {None} /\ m.room = room BY <3>1 DEF MessageFrame, Attached
    <3>3. f \in Files /\ StoredFor(f, m.room) BY <3>2, AttachedFiles DEF ShownStored
    <3> QED BY <3>3, StoredStays
  <2> QED BY <2>2, <2>3
<1>3. FlyingHome' /\ ShownStored'
  <2> USE ComposerAssumption DEF FlyingHome, ShownStored, StoredFor
  <2>1. ASSUME NEW r \in Rooms \cup {NoRoom}, OpenRoom(r) PROVE FlyingHome' /\ ShownStored'
    BY <2>1 DEF OpenRoom, ComposerTypeOK
  <2>2. ASSUME NEW f \in Files, Start(f) PROVE FlyingHome' /\ ShownStored'
    <3>1. FlyingHome' BY <2>2 DEF Start, ComposerTypeOK
    <3>2. f \notin {image, file} BY <2>2, AttachedFiles DEF Start, ComposerTypeOK
    <3> QED BY <2>2, <3>1, <3>2, AttachedFiles DEF Start, ComposerTypeOK
  <2>3. ASSUME NEW f \in Files, Arrive(f) PROVE FlyingHome' /\ ShownStored'
    <3>1. /\ upload' = [upload EXCEPT ![f].at = "stored"] /\ room' = room
          /\ upload[f].at = "flying" /\ upload[f].to = room
      BY <2>3 DEF Arrive
    <3>2. FlyingHome' BY <3>1 DEF ComposerTypeOK
    <3>3. StoredFor(f, room)' BY <3>1 DEF ComposerTypeOK
    <3>4. {image, file}' \subseteq {image, file} \cup {f} BY <2>3 DEF Arrive
    <3>5. ASSUME NEW g \in {image, file} \ {None} PROVE StoredFor(g, room)'
      <4>1. g \in Files /\ StoredFor(g, room) BY AttachedFiles
      <4> QED BY <4>1, <3>1, StoredStays
    <3> QED BY <3>2, <3>3, <3>4, <3>5
  <2>4. ASSUME NEW f \in Files, Fail(f) \/ ArriveLate(f) PROVE FlyingHome' /\ ShownStored'
    <3>1. f \notin {image, file} \ {None} BY <2>4 DEF Fail, ArriveLate
    <3> QED BY <2>4, <3>1, AttachedFiles DEF Fail, ArriveLate, ComposerTypeOK
  <2>5. CASE RemoveImage \/ RemoveFile \/ SendMessage
    BY <2>5 DEF RemoveImage, RemoveFile, SendMessage
  <2>6. CASE UNCHANGED <<room, image, file, upload>>
    BY <2>6
  <2> QED BY <2>1, <2>2, <2>3, <2>4, <2>5, <2>6
          DEF ComposerNext, Pick, DropFile, TypeText, Take, Die, CloseEvent, Reconnect, Archive, ListRooms,
              composerVars, pane
<1> QED BY <1>1, <1>2, <1>3

\* At first nothing is attached and nothing sent.
LEMMA HomeInit == ComposerInit => HomeInv
<1> SUFFICES ASSUME ComposerInit PROVE FlyingHome /\ ShownStored /\ SentStored
  BY TypeInit DEF HomeInv
<1>1. FlyingHome BY DEF ComposerInit, FlyingHome
<1>2. ShownStored BY DEF ComposerInit, ShownStored
<1>3. SentStored BY DEF ComposerInit, Sent, SentStored
<1> QED BY <1>1, <1>2, <1>3

\* In every behaviour, an attachment shown or sent was uploaded to that room.
THEOREM AttachmentsStay == ComposerSpec => []AttachmentsStayHome
<1>1. HomeInv => AttachmentsStayHome
  BY DEF HomeInv, ShownStored, SentStored, StoredFor, Attached, AttachmentsStayHome, Valid
<1> QED BY <1>1, HomeInit, HomeStep, PTL DEF ComposerSpec

(***************************************************************************)
(* Composer: each message once                                             *)
(***************************************************************************)

\* What the composer holds has not been sent.
Unsent ==
  \A m \in Sent : /\ box # None => m.text # box
                  /\ image # None => m.image # image
                  /\ file # None => m.file # file
OnceInv == HomeInv /\ Unsent /\ NothingSentTwice

\* What is sent is a new message: it shares nothing with an earlier one.
LEMMA SendIsNew ==
  ASSUME Unsent, SendMessage
  PROVE MessageFrame(room, box, image, file) \notin Sent
BY DEF Unsent, SendMessage, MessageFrame

\* Every step keeps the sent messages apart.
LEMMA OnceStep == OnceInv /\ [ComposerNext]_composerVars => OnceInv'
<1> SUFFICES ASSUME OnceInv, [ComposerNext]_composerVars PROVE OnceInv'
  OBVIOUS
<1> USE DEF OnceInv
<1>1. HomeInv' BY HomeStep
<1>2. NothingSentTwice'
  <2>1. CASE Sent' = Sent
    BY <2>1 DEF NothingSentTwice
  <2>2. CASE SendMessage /\ Sent' = Sent \cup {MessageFrame(room, box, image, file)}
    <3> DEFINE new == MessageFrame(room, box, image, file)
    <3>1. new.text = box /\ new.image = image /\ new.file = file BY DEF MessageFrame
    <3>2. Sent' = Sent \cup {new} BY <2>2
    <3> HIDE DEF new
    <3> QED BY <3>1, <3>2 DEF NothingSentTwice, Unsent
  <2> QED BY <2>1, <2>2, SentStep
<1>3. Unsent'
  <2>1. CASE SendMessage
    BY <2>1 DEF SendMessage, Unsent
  <2>2. CASE ~SendMessage
    <3>1. Sent' = Sent BY <2>2, SentStep
    <3>2. ASSUME NEW r \in Rooms \cup {NoRoom}, OpenRoom(r) PROVE Unsent'
      BY <3>2 DEF OpenRoom, Unsent
    <3>3. ASSUME NEW t \in Texts, TypeText(t) PROVE Unsent'
      BY <3>1, <3>3 DEF TypeText, Unsent
    <3>4. ASSUME NEW f \in Files, Arrive(f) PROVE Unsent'
      <4>1. ASSUME NEW m \in Sent, f \in Attached(m) PROVE FALSE
        BY <4>1, <3>4 DEF HomeInv, SentStored, StoredFor, Arrive
      <4>2. f # None BY ComposerAssumption
      <4> QED BY <3>1, <3>4, <4>1, <4>2 DEF Arrive, Unsent, Attached
    <3>5. CASE RemoveImage \/ RemoveFile
      BY <3>1, <3>5 DEF RemoveImage, RemoveFile, Unsent
    <3>6. CASE UNCHANGED <<box, image, file>>
      BY <3>1, <3>6 DEF Unsent
    <3> QED BY <2>2, <3>2, <3>3, <3>4, <3>5, <3>6
            DEF ComposerNext, Pick, DropFile, Start, Fail, ArriveLate, Take, Die, CloseEvent, Reconnect,
                Archive, ListRooms, composerVars, pane
  <2> QED BY <2>1, <2>2
<1> QED BY <1>1, <1>2, <1>3

\* At first nothing has been sent.
LEMMA OnceInit == ComposerInit => OnceInv
BY HomeInit DEF ComposerInit, OnceInv, Unsent, NothingSentTwice, Sent

\* No text and no attachment ever goes out twice.
THEOREM SentOnce == ComposerSpec => []NothingSentTwice
<1>1. OnceInv => NothingSentTwice BY DEF OnceInv
<1> QED BY <1>1, OnceInit, OnceStep, PTL DEF ComposerSpec

(***************************************************************************)
(* Composer: the refinement                                                *)
(***************************************************************************)

\* Every step of the composer, the socket and the server is a step of the
\* outbox or leaves it as it is.
LEMMA OutboxStep ==
  ASSUME OnceInv, [ComposerNext]_composerVars
  PROVE [Delivery!Next]_<<wire, posted \cup refused \cup lost>>
<1> USE DEF Delivery!Next, Delivery!Hand, Delivery!End
<1>1. CASE SendMessage
  <2> DEFINE m == MessageFrame(room, box, image, file)
  <2>1. m \notin wire \cup (posted \cup refused \cup lost)
    BY <1>1, SendIsNew DEF OnceInv, Sent
  <2>2. m \in Frames
    BY <1>1, ComposerAssumption DEF OnceInv, HomeInv, ComposerTypeOK, SendMessage, Enabled, MessageFrame, Frames
  <2>3. \/ wire' = wire \cup {m} /\ UNCHANGED (posted \cup refused \cup lost)
        \/ (posted \cup refused \cup lost)' = (posted \cup refused \cup lost) \cup {m}
           /\ UNCHANGED wire
    BY <1>1 DEF SendMessage, server
  <2>4. Delivery!Hand(m) BY <2>1, <2>3
  <2> QED BY <2>2, <2>4
<1>2. ASSUME NEW m \in wire, Take(m) PROVE Delivery!End
  <2>1. {m} \in SUBSET wire /\ {m} # {} OBVIOUS
  <2>2. /\ wire' = wire \ {m}
        /\ (posted \cup refused \cup lost)' = (posted \cup refused \cup lost) \cup {m}
    BY <1>2 DEF Take
  <2> QED BY <2>1, <2>2
<1>3. CASE Die
  <2>1. PICK M \in SUBSET wire : wire' = wire \ M /\ lost' = lost \cup M
    BY <1>3 DEF Die
  <2>2. (posted \cup refused \cup lost)' = (posted \cup refused \cup lost) \cup M
    BY <1>3, <2>1 DEF Die, server
  <2>3. CASE M = {}
    BY <2>1, <2>2, <2>3
  <2>4. CASE M # {}
    BY <2>1, <2>2, <2>4
  <2> QED BY <2>3, <2>4
<1>4. CASE UNCHANGED <<wire, posted, refused, lost>>
  BY <1>4
<1> QED BY <1>1, <1>2, <1>3, <1>4
        DEF ComposerNext, Pick, DropFile, OpenRoom, TypeText, Start, Arrive, Fail, ArriveLate, RemoveImage,
            RemoveFile, CloseEvent, Reconnect, Archive, ListRooms, composerVars, net, server

\* The safety half of ImplementsOutbox: each message is handed over once, and
\* ends once, posted, refused or lost.
THEOREM HandsOverOnce ==
  ComposerSpec => Delivery!Init /\ [][Delivery!Next]_<<wire, posted \cup refused \cup lost>>
<1>1. ComposerInit => Delivery!Init BY DEF ComposerInit, Delivery!Init
<1>2. OnceInv /\ [ComposerNext]_composerVars => [Delivery!Next]_<<wire, posted \cup refused \cup lost>>
  BY OutboxStep
<1> QED BY <1>1, <1>2, OnceInit, OnceStep, PTL DEF ComposerSpec

(***************************************************************************)
(* Editor: the dropdowns                                                   *)
(***************************************************************************)

\* The scans of two triggers cannot both end at their own: the one that stops
\* further left would have passed over the trigger of the other.
LEMMA OneToken ==
  ASSUME NEW text, NEW cur, NEW t \in Triggers, NEW u \in Triggers,
         Opens(text, cur, t), Opens(text, cur, u)
  PROVE  t = u
<1>1. cur \in Nat
  BY DEF Opens
<1>2. PICK i \in 1..cur : OpensAt(text, cur, t, i)
  BY DEF Opens
<1>3. PICK j \in 1..cur : OpensAt(text, cur, u, j)
  BY DEF Opens
<1>4. text[i] \notin Safe(u) /\ text[j] \notin Safe(t)
  <2>1. t \notin Safe(u) /\ u \notin Safe(t)
    BY CompletionAssumption DEF Safe, Triggers
  <2> QED BY <2>1, <1>2, <1>3 DEF OpensAt
<1>5. ~(i < j)
  <2>1. ASSUME i < j PROVE j \in (i + 1)..cur
    BY <1>1, <2>1
  <2>2. ASSUME i < j PROVE FALSE
    BY <2>1, <2>2, <1>2, <1>4 DEF OpensAt, StopsAt
  <2> QED BY <2>2
<1>6. ~(j < i)
  <2>1. ASSUME j < i PROVE i \in (j + 1)..cur
    BY <1>1, <2>1
  <2>2. ASSUME j < i PROVE FALSE
    BY <2>1, <2>2, <1>3, <1>4 DEF OpensAt, StopsAt
  <2> QED BY <2>2
<1>7. i = j
  BY <1>1, <1>5, <1>6
<1> QED
  BY <1>2, <1>3, <1>7 DEF OpensAt

\* A scan of the text leaves at most one dropdown open.
LEMMA DetectOne ==
  ASSUME NEW text, NEW cur, DetectAll(text, cur)
  PROVE  AtMostOneDropdown'
<1> SUFFICES ASSUME NEW t \in Triggers, NEW u \in Triggers,
                    query'[t] # NoQuery, query'[u] # NoQuery
             PROVE  t = u
  BY DEF AtMostOneDropdown
<1>1. query'[t] = Detect(text, cur, t) /\ query'[u] = Detect(text, cur, u)
  BY DEF DetectAll
<1>2. Opens(text, cur, t) /\ Opens(text, cur, u)
  BY <1>1 DEF Detect
<1> QED
  BY <1>2, OneToken

\* Closing one dropdown opens no other.
LEMMA CloseOne ==
  ASSUME AtMostOneDropdown, NEW t \in Triggers, query' = [query EXCEPT ![t] = NoQuery]
  PROVE  AtMostOneDropdown'
<1> SUFFICES ASSUME NEW v \in Triggers, NEW u \in Triggers,
                    query'[v] # NoQuery, query'[u] # NoQuery
             PROVE  v = u
  BY DEF AtMostOneDropdown
<1>1. query[v] # NoQuery /\ query[u] # NoQuery
  OBVIOUS
<1> QED
  BY <1>1 DEF AtMostOneDropdown

\* At most one dropdown of the composer is open, whatever is typed, selected,
\* completed or formatted.
THEOREM OneDropdown == Spec => []AtMostOneDropdown
<1>1. Init => AtMostOneDropdown
  BY DEF Init, Closed, AtMostOneDropdown
<1>2. AtMostOneDropdown /\ [Next]_vars => AtMostOneDropdown'
  <2> SUFFICES ASSUME AtMostOneDropdown, [Next]_vars
               PROVE  AtMostOneDropdown'
    OBVIOUS
  <2>1. ASSUME UNCHANGED query PROVE AtMostOneDropdown'
    BY <2>1 DEF AtMostOneDropdown
  <2>2. CASE \E c \in Typed : Type(c)
    BY <2>2, DetectOne DEF Type, Change
  <2>3. CASE Backspace
    BY <2>3, DetectOne DEF Backspace, Change
  <2>4. CASE \E sel \in Selections(MaxText) : Select(sel)
    BY <2>4, DetectOne DEF Select
  <2>5. CASE SelectEvent
    BY <2>5, DetectOne DEF SelectEvent
  <2>6. CASE Frame
    BY <2>6, <2>1 DEF Frame
  <2>7. CASE \E t \in Triggers : \E k \in DOMAIN Offers[t] : Highlight(t, k - 1) \/ Choose(t, k)
    <3>1. ASSUME NEW t \in Triggers, NEW i, Highlight(t, i) PROVE AtMostOneDropdown'
      BY <3>1, <2>1 DEF Highlight
    <3>2. ASSUME NEW t \in Triggers, NEW k, Choose(t, k) PROVE AtMostOneDropdown'
      BY <3>2, CloseOne DEF Choose
    <3> QED BY <2>7, <3>1, <3>2
  <2>8. CASE \E t \in Triggers : Dismiss(t) \/ ListChange(t)
    <3>1. ASSUME NEW t \in Triggers, Dismiss(t) PROVE AtMostOneDropdown'
      BY <3>1, CloseOne DEF Dismiss
    <3>2. ASSUME NEW t \in Triggers, ListChange(t) PROVE AtMostOneDropdown'
      BY <3>2, <2>1 DEF ListChange
    <3> QED BY <2>8, <3>1, <3>2
  <2>9. CASE \E a \in Actions : Format(a)
    BY <2>9, <2>1 DEF Format
  <2>10. CASE \E g \in Emoji : InsertEmoji(g)
    BY <2>10, <2>1 DEF InsertEmoji
  <2>11. CASE Send
    BY <2>11 DEF Send, Closed, AtMostOneDropdown
  <2>12. CASE UNCHANGED vars
    BY <2>12, <2>1 DEF vars
  <2> QED
    BY <2>2, <2>3, <2>4, <2>5, <2>6, <2>7, <2>8, <2>9, <2>10, <2>11, <2>12 DEF Next
<1> QED
  BY <1>1, <1>2, PTL DEF Spec

(***************************************************************************)
(* The token a dropdown belongs to                                         *)
(***************************************************************************)

\* There is a query for every trigger.
QueryInv == DOMAIN query = Triggers /\ QueryIsCurrent

\* A scan at the cursor leaves every query current.
LEMMA DetectCurrent ==
  ASSUME DetectAll(value', cursor'.start) PROVE QueryInv'
BY DEF DetectAll, QueryInv, QueryIsCurrent

\* Closing one dropdown leaves the others as current as they were.
LEMMA CloseCurrent ==
  ASSUME QueryInv, NEW t \in Triggers, query' = [query EXCEPT ![t] = NoQuery],
         \/ UNCHANGED <<value, cursor, frame, unread>>
         \/ unread'
  PROVE  QueryInv'
BY DEF QueryInv, QueryIsCurrent

\* Whatever moves the cursor or replaces the text, once the selection has
\* settled an open dropdown is that of the token left of the cursor.
THEOREM DropdownIsCurrent == Spec => []QueryIsCurrent
<1>1. Init => QueryInv
  BY DEF Init, Closed, QueryInv, QueryIsCurrent
<1>2. QueryInv /\ [Next]_vars => QueryInv'
  <2> SUFFICES ASSUME QueryInv, [Next]_vars
               PROVE  QueryInv'
    OBVIOUS
  <2>1. ASSUME UNCHANGED query, unread' \/ UNCHANGED <<value, cursor, frame, unread>>
        PROVE QueryInv'
    BY <2>1 DEF QueryInv, QueryIsCurrent
  <2>2. ASSUME NEW text, NEW at, Change(text, at) PROVE QueryInv'
    <3>1. cursor'.start = at /\ value' = text BY <2>2 DEF Change, Selection
    <3> QED BY <2>2, <3>1, DetectCurrent DEF Change
  <2>3. CASE \E c \in Typed : Type(c)
    BY <2>3, <2>2 DEF Type
  <2>4. CASE Backspace
    BY <2>4, <2>2 DEF Backspace
  <2>5. CASE \E sel \in Selections(MaxText) : Select(sel)
    BY <2>5, DetectCurrent DEF Select
  <2>6. CASE SelectEvent
    BY <2>6, DetectCurrent DEF SelectEvent
  <2>7. CASE Frame
    BY <2>7, <2>1 DEF Frame
  <2>8. ASSUME NEW t \in Triggers, NEW i, Highlight(t, i) PROVE QueryInv'
    BY <2>8, <2>1 DEF Highlight
  <2>9. ASSUME NEW t \in Triggers, NEW k, Choose(t, k) PROVE QueryInv'
    BY <2>9, CloseCurrent DEF Choose, Replace
  <2>10. ASSUME NEW t \in Triggers, Dismiss(t) PROVE QueryInv'
    BY <2>10, CloseCurrent DEF Dismiss
  <2>11. ASSUME NEW t \in Triggers, ListChange(t) PROVE QueryInv'
    BY <2>11, <2>1 DEF ListChange
  <2>12. CASE \E a \in Actions : Format(a)
    BY <2>12, <2>1 DEF Format, ReplaceBy, Replace
  <2>13. CASE \E g \in Emoji : InsertEmoji(g)
    BY <2>13, <2>1 DEF InsertEmoji, Replace
  <2>14. CASE Send
    BY <2>14 DEF Send, Closed, QueryInv, QueryIsCurrent
  <2>15. CASE UNCHANGED vars
    BY <2>15, <2>1 DEF vars
  <2> QED
    BY <2>3, <2>4, <2>5, <2>6, <2>7, <2>8, <2>9, <2>10, <2>11, <2>12, <2>13, <2>14, <2>15
    DEF Next
<1>3. QueryInv => QueryIsCurrent
  BY DEF QueryInv
<1> QED
  BY <1>1, <1>2, <1>3, PTL DEF Spec

(***************************************************************************)
(* Editor: InlineMarksToggle, no invariant of the steps but a law of the   *)
(* transform.  ApplyInline makes a text longer in one way only, by putting *)
(* the marker around the selection without its outer blanks (MarkerAdded). *)
(* The second press looks inside the selection first: when the text there  *)
(* begins and ends with the marker's character, what it takes off is not   *)
(* what the first put on, and yet leaves the same text (PeeledBack).       *)
(* Otherwise it finds its marker around the selection (FoundAround): the   *)
(* run there is longer by the marker, and a run that lacked the marker has *)
(* it once it is (MarkerCounts).                                           *)
(***************************************************************************)

\* A set of naturals has a least element.
LEMMA Smallest == ASSUME NEW T \in SUBSET Nat, T # {} PROVE \E x \in T : \A y \in T : x <= y
<1> DEFINE Less == {ss \in Nat \X Nat : ss[1] < ss[2]}
<1>1. IsWellFoundedOn(Less, Nat) BY NatLessThanWellFounded DEF OpToRel
<1>2. PICK x \in T : \A y \in T : <<y, x>> \notin Less
  <2> HIDE DEF Less
  <2> QED BY <1>1, WFMin
<1>3. \A y \in T : ~(y < x) BY <1>2
<1> QED BY <1>3

\* A set of positions has a greatest element.
LEMMA Greatest ==
  ASSUME NEW n \in Nat, NEW T \in SUBSET (1 .. n), T # {} PROVE \E x \in T : \A y \in T : x >= y
<1> DEFINE U == {n - x : x \in T}
<1>1. U \in SUBSET Nat /\ U # {}
  <2>1. \A x \in T : n - x \in Nat OBVIOUS
  <2>2. U \subseteq Nat BY <2>1
  <2>3. PICK x \in T : TRUE OBVIOUS
  <2>4. n - x \in U BY <2>3
  <2> HIDE DEF U
  <2> QED BY <2>2, <2>4
<1>2. PICK u \in U : \A y \in U : u <= y
  <2> HIDE DEF U
  <2> QED BY <1>1, Smallest
<1>3. PICK x \in T : u = n - x BY <1>2
<1>4. \A y \in T : n - y \in U OBVIOUS
<1>5. \A y \in T : n - x <= n - y BY <1>2, <1>3, <1>4
<1>6. \A y \in T : x >= y BY <1>5
<1> QED BY <1>6

\* The characters of C a text begins, or ends, with: all n of them, and no more.
Leads(v, C, n) ==
  /\ n \in 0 .. Len(v) /\ \A i \in 1 .. n : v[i] \in C
  /\ n < Len(v) => v[n + 1] \notin C
Trails(v, C, n) ==
  /\ n \in 0 .. Len(v) /\ \A i \in (Len(v) - n + 1) .. Len(v) : v[i] \in C
  /\ n < Len(v) => v[Len(v) - n] \notin C

\* Lead counts the characters a text begins with.
LEMMA LeadLaw ==
  ASSUME NEW S, NEW v \in Seq(S), NEW C
  PROVE /\ Leads(v, C, Lead(v, C))
        /\ \A n : Leads(v, C, n) => n = Lead(v, C)
<1> DEFINE I == {i \in 1 .. Len(v) : v[i] \notin C}
<1>1. Lead(v, C) = Before(IF I # {} THEN Min(I) ELSE 0, v)
  BY DEF SelectInSeq, Lead
<1>2. Leads(v, C, Lead(v, C))
  <2>1. CASE I = {}
    <3>1. Lead(v, C) = Len(v)
      BY <1>1, <2>1 DEF Before
    <3> QED BY <2>1, <3>1 DEF Leads
  <2>2. CASE I # {}
    <3>1. I \in SUBSET Nat OBVIOUS
    <3>2. \E x \in I : \A y \in I : x <= y
      <4> HIDE DEF I
      <4> QED BY <3>1, <2>2, Smallest
    <3>3. Min(I) \in I /\ \A y \in I : Min(I) <= y
      BY <3>2 DEF Min
    <3>4. PICK k : k = Min(I) OBVIOUS
    <3>5. k \in 1 .. Len(v) /\ v[k] \notin C BY <3>3, <3>4
    <3>6. \A y \in I : k <= y BY <3>3, <3>4
    <3>7. Lead(v, C) = k - 1
      BY <1>1, <2>2, <3>4, <3>5 DEF Before
    <3>8. \A i \in 1 .. (k - 1) : v[i] \in C BY <3>5, <3>6
    <3> QED BY <3>5, <3>7, <3>8 DEF Leads
  <2> QED BY <2>1, <2>2
<1>3. ASSUME NEW n, NEW p, Leads(v, C, n), Leads(v, C, p) PROVE n = p
  <2>1. n \in Nat /\ p \in Nat /\ Len(v) \in Nat BY <1>3 DEF Leads
  <2>2. ~(n < p) BY <1>3, <2>1 DEF Leads
  <2>3. ~(p < n) BY <1>3, <2>1 DEF Leads
  <2> QED BY <2>1, <2>2, <2>3
<1> QED BY <1>2, <1>3

\* Trail counts those it ends with.
LEMMA TrailLaw ==
  ASSUME NEW S, NEW v \in Seq(S), NEW C
  PROVE /\ Trails(v, C, Trail(v, C))
        /\ \A n : Trails(v, C, n) => n = Trail(v, C)
<1> DEFINE I == {i \in 1 .. Len(v) : v[i] \notin C}
<1>0. Len(v) \in Nat OBVIOUS
<1>1. Trail(v, C) = Len(v) - (IF I # {} THEN Max(I) ELSE 0)
  BY DEF SelectLastInSeq, Trail
<1>2. Trails(v, C, Trail(v, C))
  <2>1. CASE I = {}
    <3>1. Trail(v, C) = Len(v)
      BY <1>1, <2>1
    <3> QED BY <2>1, <3>1 DEF Trails
  <2>2. CASE I # {}
    <3>1. I \in SUBSET (1 .. Len(v)) OBVIOUS
    <3>2. \E x \in I : \A y \in I : x >= y
      <4> HIDE DEF I
      <4> QED BY <1>0, <3>1, <2>2, Greatest
    <3>3. Max(I) \in I /\ \A y \in I : Max(I) >= y
      BY <3>2 DEF Max
    <3>4. PICK k : k = Max(I) OBVIOUS
    <3>5. k \in 1 .. Len(v) /\ v[k] \notin C BY <3>3, <3>4
    <3>6. \A y \in I : k >= y BY <3>3, <3>4
    <3>7. Trail(v, C) = Len(v) - k
      BY <1>1, <2>2, <3>4, <3>5
    <3>8. \A i \in (k + 1) .. Len(v) : v[i] \in C BY <3>5, <3>6
    <3>9. Len(v) - (Len(v) - k) = k BY <1>0, <3>5
    <3> QED BY <1>0, <3>5, <3>7, <3>8, <3>9 DEF Trails
  <2> QED BY <2>1, <2>2
<1>3. ASSUME NEW n, NEW p, Trails(v, C, n), Trails(v, C, p) PROVE n = p
  <2>1. n \in Nat /\ p \in Nat /\ Len(v) \in Nat BY <1>3 DEF Trails
  <2>2. ASSUME n < p PROVE FALSE
    <3>1. Len(v) - n \in (Len(v) - p + 1) .. Len(v) BY <1>3, <2>1, <2>2 DEF Trails
    <3> QED BY <1>3, <2>2, <2>1, <3>1 DEF Trails
  <2>3. ASSUME p < n PROVE FALSE
    <3>1. Len(v) - p \in (Len(v) - n + 1) .. Len(v) BY <1>3, <2>1, <2>3 DEF Trails
    <3> QED BY <1>3, <2>3, <2>1, <3>1 DEF Trails
  <2> QED BY <2>1, <2>2, <2>3
<1> QED BY <1>2, <1>3

\* The part of a text between two offsets.
LEMMA CutLaw ==
  ASSUME NEW S, NEW v \in Seq(S), NEW i \in 0 .. Len(v), NEW j \in i .. Len(v)
  PROVE /\ Cut(v, i, j) \in Seq(S) /\ Len(Cut(v, i, j)) = j - i
        /\ \A k \in 1 .. (j - i) : Cut(v, i, j)[k] = v[i + k]
BY DEF Cut

\* The rest of a text.
LEMMA RestLaw ==
  ASSUME NEW S, NEW v \in Seq(S), NEW i \in 0 .. Len(v)
  PROVE /\ Rest(v, i) \in Seq(S) /\ Len(Rest(v, i)) = Len(v) - i
        /\ \A k \in 1 .. (Len(v) - i) : Rest(v, i)[k] = v[i + k]
BY DEF Rest, Cut

\* Two texts in a row.
LEMMA JoinLaw ==
  ASSUME NEW S, NEW v \in Seq(S), NEW w \in Seq(S)
  PROVE /\ v \o w \in Seq(S) /\ Len(v \o w) = Len(v) + Len(w)
        /\ \A k \in 1 .. Len(v) : (v \o w)[k] = v[k]
        /\ \A k \in 1 .. Len(w) : (v \o w)[Len(v) + k] = w[k]
OBVIOUS

\* Three texts in a row.
LEMMA JoinLength ==
  ASSUME NEW S, NEW x \in Seq(S), NEW y \in Seq(S), NEW z \in Seq(S)
  PROVE Len(x \o y \o z) = Len(x) + Len(y) + Len(z)
<1> DEFINE a == x \o y
<1>0. x \in Seq(S) /\ y \in Seq(S) /\ z \in Seq(S) OBVIOUS
<1>1. a \in Seq(S) /\ Len(a) = Len(x) + Len(y) BY ONLY <1>0, JoinLaw
<1> HIDE DEF a
<1>2. a \in Seq(S) BY <1>1
<1>3. Len(a \o z) = Len(a) + Len(z) BY ONLY <1>0, <1>2, JoinLaw
<1> QED BY <1>1, <1>3 DEF a

\* The part of a part of a text.
LEMMA CutOfCut ==
  ASSUME NEW S, NEW v \in Seq(S), NEW i \in 0 .. Len(v), NEW j \in i .. Len(v),
         NEW n \in Nat, 2 * n <= j - i
  PROVE Cut(Cut(v, i, j), n, (j - i) - n) = Cut(v, i + n, j - n)
<1> DEFINE x == Cut(v, i, j)
           y == Cut(x, n, (j - i) - n)
           z == Cut(v, i + n, j - n)
<1>0. i \in Nat /\ j \in Nat /\ i <= j /\ j <= Len(v) /\ Len(v) \in Nat OBVIOUS
<1>v. v \in Seq(S) OBVIOUS
<1>1. x \in Seq(S) /\ Len(x) = j - i /\ \A k \in 1 .. (j - i) : x[k] = v[i + k] BY CutLaw
<1>x. x \in Seq(S) BY <1>1
<1>2. z \in Seq(S) /\ Len(z) = (j - n) - (i + n) /\ \A k \in 1 .. ((j - n) - (i + n)) : z[k] = v[i + n + k]
  <2>1. i + n \in 0 .. Len(v) /\ j - n \in (i + n) .. Len(v) BY <1>0
  <2> QED BY ONLY <1>v, <2>1, CutLaw
<1> HIDE DEF x, z
<1>3. y \in Seq(S) /\ Len(y) = (j - i) - n - n /\ \A k \in 1 .. ((j - i) - n - n) : y[k] = x[n + k]
  <2>1. n \in 0 .. Len(x) /\ (j - i) - n \in n .. Len(x) BY <1>0, <1>1
  <2> QED BY ONLY <1>x, <2>1, CutLaw
<1> HIDE DEF y
<1>4. Len(y) = Len(z) BY <1>0, <1>2, <1>3
<1>5. ASSUME NEW k \in 1 .. Len(y) PROVE y[k] = z[k]
  <2>1. /\ k \in 1 .. ((j - i) - n - n) /\ k \in 1 .. ((j - n) - (i + n))
        /\ n + k \in 1 .. (j - i) /\ i + (n + k) = i + n + k
    BY <1>0, <1>3
  <2>2. y[k] = x[n + k] BY <1>3, <2>1
  <2>3. x[n + k] = v[i + (n + k)] BY <1>1, <2>1
  <2>4. z[k] = v[i + n + k] BY <1>2, <2>1
  <2> QED BY <2>1, <2>2, <2>3, <2>4
<1>6. y = z
  <2>1. y \in Seq(S) /\ z \in Seq(S) BY <1>2, <1>3
  <2> QED BY ONLY <2>1, <1>4, <1>5, SeqEqual
<1> QED BY <1>6 DEF x, y, z

\* A marker is one or two of a character.
Marks(m, c) == Len(m) \in 1 .. 2 /\ \A k \in 1 .. Len(m) : m[k] = c

\* The marker of an inline button is one or two of a character that is no blank.
LEMMA MarkerLaw ==
  ASSUME NEW m \in InlineMarkers
  PROVE Marks(m, m[1]) /\ m[1] \in {"*", "~", Tick, "^"} /\ m[1] \notin Blank
<1>1. \A c : Marks(<<c>>, c) /\ Marks(<<c, c>>, c) BY DEF Marks
<1>2. \A c : <<c>>[1] = c /\ <<c, c>>[1] = c OBVIOUS
<1>3. PICK c \in {"*", "~", Tick, "^"} : m = <<c>> \/ m = <<c, c>>
  BY DEF InlineMarkers
<1>4. c \notin Blank BY <1>3 DEF Blank, Newline, Tick
<1> QED BY <1>1, <1>2, <1>3, <1>4, Zenon

\* A run that has the marker is as long as it.
LEMMA MarkerFits ==
  ASSUME NEW m \in InlineMarkers, NEW run \in Nat, run > 0, HasMarker(m, run)
  PROVE run >= Len(m)
<1>1. Marks(m, m[1]) BY MarkerLaw
<1>2. CASE Len(m) = 2 BY <1>2 DEF HasMarker
<1>3. CASE Len(m) = 1 BY <1>3
<1> QED BY <1>1, <1>2, <1>3 DEF Marks

\* A run that lacks the marker has it once it is longer by the marker.
LEMMA MarkerCounts ==
  ASSUME NEW m \in InlineMarkers, NEW run \in Nat, ~(run > 0 /\ HasMarker(m, run))
  PROVE HasMarker(m, Len(m) + run)
<1>1. Marks(m, m[1]) BY MarkerLaw
<1>2. CASE Len(m) = 2 BY <1>2 DEF HasMarker
<1>3. CASE Len(m) = 1 /\ m[1] \in {"*", "~"}
  <2>1. run % 2 = 0 BY <1>3 DEF HasMarker
  <2>2. (1 + run) % 2 = 1 BY <2>1
  <2> QED BY <1>3, <2>2 DEF HasMarker
<1>4. CASE Len(m) = 1 /\ m[1] \notin {"*", "~"} BY <1>4 DEF HasMarker
<1> QED BY <1>1, <1>2, <1>3, <1>4 DEF Marks

\* A marker put around the part of a text between two offsets.
Wrapped(v, m, s, e) == Cut(v, 0, s) \o m \o Cut(v, s, e) \o m \o Rest(v, e)

\* Where each character of a marked text comes from.
LEMMA WrapLaw ==
  ASSUME NEW S, NEW v \in Seq(S), NEW m \in Seq(S), NEW s \in 0 .. Len(v), NEW e \in s .. Len(v)
  PROVE /\ Wrapped(v, m, s, e) \in Seq(S)
        /\ Len(Wrapped(v, m, s, e)) = Len(v) + 2 * Len(m)
        /\ \A k \in 1 .. s : Wrapped(v, m, s, e)[k] = v[k]
        /\ \A k \in 1 .. Len(m) : Wrapped(v, m, s, e)[s + k] = m[k]
        /\ \A k \in (s + 1) .. e : Wrapped(v, m, s, e)[Len(m) + k] = v[k]
        /\ \A k \in 1 .. Len(m) : Wrapped(v, m, s, e)[Len(m) + e + k] = m[k]
        /\ \A k \in (e + 1) .. Len(v) : Wrapped(v, m, s, e)[2 * Len(m) + k] = v[k]
<1> DEFINE n == Len(m)
           a == Cut(v, 0, s)
           b == a \o m
           c == b \o Cut(v, s, e)
           d == c \o m
           w == d \o Rest(v, e)
<1>m. m \in Seq(S) OBVIOUS
<1>0. n \in Nat /\ s \in Nat /\ e \in Nat /\ s <= e /\ e <= Len(v) /\ Len(v) \in Nat OBVIOUS
<1>1. a \in Seq(S) /\ Len(a) = s /\ \A k \in 1 .. s : a[k] = v[k]
  <2>1. 0 \in 0 .. Len(v) /\ s \in 0 .. Len(v) BY <1>0
  <2>2. /\ a \in Seq(S) /\ Len(a) = s - 0 /\ \A k \in 1 .. (s - 0) : a[k] = v[0 + k]
    BY <2>1, CutLaw
  <2>3. s - 0 = s /\ \A k \in 1 .. s : 0 + k = k BY <1>0
  <2> HIDE DEF a
  <2> QED BY <2>2, <2>3
<1>2. /\ Cut(v, s, e) \in Seq(S) /\ Len(Cut(v, s, e)) = e - s
      /\ \A k \in 1 .. (e - s) : Cut(v, s, e)[k] = v[s + k]
  BY CutLaw
<1>3. /\ Rest(v, e) \in Seq(S) /\ Len(Rest(v, e)) = Len(v) - e
      /\ \A k \in 1 .. (Len(v) - e) : Rest(v, e)[k] = v[e + k]
  BY <1>0, RestLaw
<1> HIDE DEF a, n
<1>4. /\ b \in Seq(S) /\ Len(b) = s + n /\ \A k \in 1 .. s : b[k] = v[k]
      /\ \A k \in 1 .. n : b[s + k] = m[k]
  <2>1. /\ b \in Seq(S) /\ Len(b) = Len(a) + Len(m)
        /\ \A k \in 1 .. Len(a) : b[k] = a[k]
        /\ \A k \in 1 .. Len(m) : b[Len(a) + k] = m[k]
    <3>1. a \in Seq(S) BY <1>1
    <3> QED BY ONLY <3>1, <1>m, JoinLaw
  <2> HIDE DEF b
  <2> QED BY <1>1, <2>1 DEF n
<1> HIDE DEF b
<1>5. /\ c \in Seq(S) /\ Len(c) = n + e /\ \A k \in 1 .. s : c[k] = v[k]
      /\ \A k \in 1 .. n : c[s + k] = m[k]
      /\ \A k \in (s + 1) .. e : c[n + k] = v[k]
  <2>1. /\ c \in Seq(S) /\ Len(c) = n + e
        /\ \A k \in 1 .. (s + n) : c[k] = b[k]
        /\ \A k \in 1 .. (e - s) : c[s + n + k] = Cut(v, s, e)[k]
    <3>1. /\ c \in Seq(S) /\ Len(c) = Len(b) + Len(Cut(v, s, e))
          /\ \A k \in 1 .. Len(b) : c[k] = b[k]
          /\ \A k \in 1 .. Len(Cut(v, s, e)) : c[Len(b) + k] = Cut(v, s, e)[k]
      <4>1. b \in Seq(S) BY <1>4
      <4>2. Cut(v, s, e) \in Seq(S) BY <1>2
      <4> QED BY ONLY <4>1, <4>2, JoinLaw
    <3>2. s + n + (e - s) = n + e BY <1>0 DEF n
    <3> HIDE DEF c
    <3> QED BY <1>2, <1>4, <3>1, <3>2
  <2>2. ASSUME NEW k \in (s + 1) .. e PROVE c[n + k] = v[k]
    <3>1. k - s \in 1 .. (e - s) /\ s + n + (k - s) = n + k /\ s + (k - s) = k BY <1>0
    <3> QED BY <1>2, <2>1, <3>1
  <2>3. \A k \in 1 .. n : s + k \in 1 .. (s + n) BY <1>0
  <2>4. \A k \in 1 .. s : k \in 1 .. (s + n) BY <1>0
  <2> QED BY <1>4, <2>1, <2>2, <2>3, <2>4
<1> HIDE DEF c
<1>6. /\ d \in Seq(S) /\ Len(d) = 2 * n + e /\ \A k \in 1 .. s : d[k] = v[k]
      /\ \A k \in 1 .. n : d[s + k] = m[k]
      /\ \A k \in (s + 1) .. e : d[n + k] = v[k]
      /\ \A k \in 1 .. n : d[n + e + k] = m[k]
  <2>1. /\ d \in Seq(S) /\ Len(d) = 2 * n + e
        /\ \A k \in 1 .. (n + e) : d[k] = c[k]
        /\ \A k \in 1 .. n : d[n + e + k] = m[k]
    <3>1. /\ d \in Seq(S) /\ Len(d) = Len(c) + Len(m)
          /\ \A k \in 1 .. Len(c) : d[k] = c[k]
          /\ \A k \in 1 .. Len(m) : d[Len(c) + k] = m[k]
      <4>1. c \in Seq(S) BY <1>5
      <4> QED BY ONLY <4>1, <1>m, JoinLaw
    <3>2. n + e + n = 2 * n + e BY <1>0 DEF n
    <3> HIDE DEF d
    <3> QED BY <1>5, <3>1, <3>2 DEF n
  <2>2. \A k \in 1 .. s : k \in 1 .. (n + e) BY <1>0
  <2>3. \A k \in 1 .. n : s + k \in 1 .. (n + e) BY <1>0
  <2>4. \A k \in (s + 1) .. e : n + k \in 1 .. (n + e) BY <1>0
  <2> QED BY <1>5, <2>1, <2>2, <2>3, <2>4
<1> HIDE DEF d
<1>7. /\ w \in Seq(S) /\ Len(w) = Len(v) + 2 * n
      /\ \A k \in 1 .. (2 * n + e) : w[k] = d[k]
      /\ \A k \in 1 .. (Len(v) - e) : w[2 * n + e + k] = v[e + k]
  <2>1. /\ w \in Seq(S) /\ Len(w) = Len(d) + Len(Rest(v, e))
        /\ \A k \in 1 .. Len(d) : w[k] = d[k]
        /\ \A k \in 1 .. Len(Rest(v, e)) : w[Len(d) + k] = Rest(v, e)[k]
    <3>1. d \in Seq(S) BY <1>6
    <3>2. Rest(v, e) \in Seq(S) BY <1>3
    <3> QED BY ONLY <3>1, <3>2, JoinLaw
  <2>2. 2 * n + e + (Len(v) - e) = Len(v) + 2 * n BY <1>0 DEF n
  <2> HIDE DEF w
  <2> QED BY <1>3, <1>6, <2>1, <2>2
<1>8. ASSUME NEW k \in (e + 1) .. Len(v) PROVE w[2 * n + k] = v[k]
  <2>1. k - e \in 1 .. (Len(v) - e) /\ 2 * n + e + (k - e) = 2 * n + k /\ e + (k - e) = k BY <1>0
  <2> QED BY <1>7, <2>1
<1>9. /\ \A k \in 1 .. s : k \in 1 .. (2 * n + e)
      /\ \A k \in 1 .. n : s + k \in 1 .. (2 * n + e)
      /\ \A k \in (s + 1) .. e : n + k \in 1 .. (2 * n + e)
      /\ \A k \in 1 .. n : n + e + k \in 1 .. (2 * n + e)
  BY <1>0
<1>10. w = Wrapped(v, m, s, e) BY DEF Wrapped, a, b, c, d
<1> HIDE DEF w
<1>11. /\ \A k \in 1 .. s : w[k] = v[k]
       /\ \A k \in 1 .. n : w[s + k] = m[k]
       /\ \A k \in (s + 1) .. e : w[n + k] = v[k]
       /\ \A k \in 1 .. n : w[n + e + k] = m[k]
  BY <1>6, <1>7, <1>9
<1> QED BY <1>7, <1>8, <1>10, <1>11 DEF n

\* The part of a selection without the blanks at its ends.
LEMMA TrimLaw ==
  ASSUME NEW S, NEW v \in Seq(S), NEW i \in 0 .. Len(v), NEW j \in i .. Len(v),
         ~IsBlank(Cut(v, i, j)),
         NEW s, s = i + Lead(Cut(v, i, j), Blank), NEW e, e = j - Trail(Cut(v, i, j), Blank)
  PROVE /\ s \in Nat /\ e \in Nat /\ i <= s /\ s < e /\ e <= j
        /\ v[s + 1] \notin Blank /\ v[e] \notin Blank
        /\ s # i => v[s] \in Blank
        /\ e # j => v[e + 1] \in Blank
<1> DEFINE x == Cut(v, i, j)
           l == Lead(x, Blank)
           r == Trail(x, Blank)
<1>0. i \in Nat /\ j \in Nat /\ i <= j OBVIOUS
<1>1. x \in Seq(S) /\ Len(x) = j - i /\ \A k \in 1 .. (j - i) : x[k] = v[i + k]
  BY CutLaw
<1>a. s = i + l /\ e = j - r OBVIOUS
<1> HIDE DEF x
<1>2. Leads(x, Blank, l) /\ Trails(x, Blank, r) BY <1>1, LeadLaw, TrailLaw
<1>3. l # Len(x) BY DEF IsBlank, x
<1> HIDE DEF l, r
<1>4. /\ l \in Nat /\ l < j - i /\ x[l + 1] \notin Blank
      /\ \A k \in 1 .. l : x[k] \in Blank
  BY <1>0, <1>1, <1>2, <1>3 DEF Leads
<1>5. /\ r \in Nat /\ r <= j - i
      /\ r < j - i => x[j - i - r] \notin Blank
      /\ \A k \in (j - i - r + 1) .. (j - i) : x[k] \in Blank
  BY <1>0, <1>1, <1>2 DEF Trails
<1>6. l + 1 <= j - i - r
  <2> SUFFICES ASSUME l + 1 > j - i - r PROVE FALSE
    BY <1>0, <1>4, <1>5
  <2>1. l + 1 \in (j - i - r + 1) .. (j - i) BY <1>0, <1>4, <1>5
  <2> QED BY <1>4, <1>5, <2>1
<1>7. s \in Nat /\ e \in Nat /\ i <= s /\ s < e /\ e <= j BY <1>0, <1>a, <1>4, <1>5, <1>6
<1>8. v[s + 1] \notin Blank
  <2>1. l + 1 \in 1 .. (j - i) /\ i + (l + 1) = s + 1 BY <1>0, <1>a, <1>4
  <2> QED BY <1>1, <1>4, <2>1
<1>9. v[e] \notin Blank
  <2>1. r < j - i /\ j - i - r \in 1 .. (j - i) /\ i + (j - i - r) = e
    BY <1>0, <1>a, <1>4, <1>5, <1>6
  <2> QED BY <1>1, <1>5, <2>1
<1>10. ASSUME s # i PROVE v[s] \in Blank
  <2>1. l \in 1 .. l /\ l \in 1 .. (j - i) /\ i + l = s BY <1>0, <1>a, <1>4, <1>10
  <2> QED BY <1>1, <1>4, <2>1
<1>11. ASSUME e # j PROVE v[e + 1] \in Blank
  <2>1. /\ j - i - r + 1 \in (j - i - r + 1) .. (j - i) /\ j - i - r + 1 \in 1 .. (j - i)
        /\ i + (j - i - r + 1) = e + 1
    BY <1>0, <1>a, <1>5, <1>6, <1>11
  <2> QED BY <1>1, <1>5, <2>1
<1> QED BY <1>7, <1>8, <1>9, <1>10, <1>11

\* The three parts of a text between its ends and two offsets.
MadeOf(v, i, j, x, y, z) ==
  /\ i \in Nat /\ j \in Nat /\ i <= j /\ j <= Len(v)
  /\ Len(x) = i /\ Len(y) = j - i /\ Len(z) = Len(v) - j
  /\ \A k \in 1 .. i : x[k] = v[k]
  /\ \A k \in (i + 1) .. j : y[k - i] = v[k]
  /\ \A k \in (j + 1) .. Len(v) : z[k - j] = v[k]

\* The parts of a text make it up.
LEMMA ThreeMake ==
  ASSUME NEW S, NEW v \in Seq(S), NEW x \in Seq(S), NEW y \in Seq(S), NEW z \in Seq(S),
         NEW i, NEW j, MadeOf(v, i, j, x, y, z)
  PROVE x \o y \o z = v
<1> USE DEF MadeOf
<1> DEFINE a == x \o y
           b == a \o z
<1>0. x \in Seq(S) /\ y \in Seq(S) /\ z \in Seq(S) /\ v \in Seq(S) /\ Len(v) \in Nat OBVIOUS
<1>1. /\ a \in Seq(S) /\ Len(a) = Len(x) + Len(y)
      /\ \A k \in 1 .. Len(x) : a[k] = x[k]
      /\ \A k \in 1 .. Len(y) : a[Len(x) + k] = y[k]
  BY ONLY <1>0, JoinLaw
<1> HIDE DEF a
<1>a. a \in Seq(S) BY <1>1
<1>2. /\ b \in Seq(S) /\ Len(b) = Len(a) + Len(z)
      /\ \A k \in 1 .. Len(a) : b[k] = a[k]
      /\ \A k \in 1 .. Len(z) : b[Len(a) + k] = z[k]
  BY ONLY <1>0, <1>a, JoinLaw
<1> HIDE DEF b
<1>3. Len(a) = j /\ Len(b) = Len(v) BY <1>0, <1>1, <1>2
<1>4. ASSUME NEW k \in 1 .. Len(v) PROVE b[k] = v[k]
  <2>1. CASE k <= i
    <3>1. k \in 1 .. i /\ k \in 1 .. j BY <2>1, <1>0
    <3> QED BY <3>1, <1>1, <1>2, <1>3
  <2>2. CASE i < k /\ k <= j
    <3>1. k \in (i + 1) .. j /\ k \in 1 .. j /\ k - i \in 1 .. (j - i) /\ i + (k - i) = k
      BY <2>2, <1>0
    <3>2. a[k] = y[k - i] BY <3>1, <1>1
    <3> QED BY <3>1, <3>2, <1>2, <1>3
  <2>3. CASE j < k
    <3>1. k \in (j + 1) .. Len(v) /\ k - j \in 1 .. (Len(v) - j) /\ j + (k - j) = k
      BY <2>3, <1>0
    <3>2. b[k] = z[k - j] BY <3>1, <1>2, <1>3
    <3> QED BY <3>1, <3>2
  <2> QED BY <2>1, <2>2, <2>3, <1>0
<1>5. b = v
  <2>1. b \in Seq(S) BY <1>2
  <2> QED BY <1>3, <1>4, <2>1, SeqEqual
<1> QED BY <1>5 DEF a, b

\* Between its markers stands the part they were put around.
LEMMA SelectionKept ==
  ASSUME NEW S, NEW v \in Seq(S), NEW m \in Seq(S), NEW s \in 0 .. Len(v), NEW e \in s .. Len(v)
  PROVE Cut(Wrapped(v, m, s, e), s + Len(m), e + Len(m)) = Cut(v, s, e)
<1> DEFINE w == Wrapped(v, m, s, e)
           n == Len(m)
           x == Cut(v, s, e)
           y == Cut(w, s + n, e + n)
<1>0. n \in Nat /\ s \in Nat /\ e \in Nat /\ s <= e /\ e <= Len(v) /\ Len(v) \in Nat OBVIOUS
<1>1. w \in Seq(S) /\ Len(w) = Len(v) + 2 * n /\ \A k \in (s + 1) .. e : w[n + k] = v[k]
  <2>1. w \in Seq(S) /\ Len(w) = Len(v) + 2 * n BY WrapLaw
  <2>2. \A k \in (s + 1) .. e : w[n + k] = v[k] BY WrapLaw
  <2> HIDE DEF w, n
  <2> QED BY <2>1, <2>2
<1>2. x \in Seq(S) /\ Len(x) = e - s /\ \A k \in 1 .. (e - s) : x[k] = v[s + k] BY CutLaw
<1>w. w \in Seq(S) BY <1>1
<1> HIDE DEF w, n, x
<1>3. y \in Seq(S) /\ Len(y) = (e + n) - (s + n) /\ \A k \in 1 .. ((e + n) - (s + n)) : y[k] = w[s + n + k]
  <2>1. s + n \in 0 .. Len(w) /\ e + n \in (s + n) .. Len(w) BY <1>0, <1>1
  <2> QED BY ONLY <1>w, <2>1, CutLaw
<1> HIDE DEF y
<1>4. Len(y) = Len(x) BY <1>0, <1>2, <1>3
<1>5. ASSUME NEW k \in 1 .. Len(y) PROVE y[k] = x[k]
  <2>1. /\ k \in 1 .. ((e + n) - (s + n)) /\ k \in 1 .. (e - s)
        /\ s + k \in (s + 1) .. e /\ n + (s + k) = s + n + k
    BY <1>0, <1>3
  <2>2. y[k] = w[s + n + k] BY <1>3, <2>1
  <2>3. w[n + (s + k)] = v[s + k] BY <1>1, <2>1
  <2>4. x[k] = v[s + k] BY <1>2, <2>1
  <2> QED BY <2>1, <2>2, <2>3, <2>4
<1>6. y = x
  <2>1. y \in Seq(S) /\ x \in Seq(S) BY <1>2, <1>3
  <2> QED BY ONLY <2>1, <1>4, <1>5, SeqEqual
<1> QED BY <1>6 DEF w, n, x, y

\* What is left of a marked text once the markers around the part are gone.
LEMMA StripLaw ==
  ASSUME NEW S, NEW v \in Seq(S), NEW m \in Seq(S), NEW s \in 0 .. Len(v), NEW e \in s .. Len(v)
  PROVE LET w == Wrapped(v, m, s, e)
        IN Cut(w, 0, s) \o Cut(w, s + Len(m), e + Len(m)) \o Rest(w, e + 2 * Len(m)) = v
<1> DEFINE w == Wrapped(v, m, s, e)
           n == Len(m)
           x == Cut(w, 0, s)
           y == Cut(w, s + n, e + n)
           z == Rest(w, e + 2 * n)
<1>0. n \in Nat /\ s \in Nat /\ e \in Nat /\ s <= e /\ e <= Len(v) /\ Len(v) \in Nat OBVIOUS
<1>1. /\ w \in Seq(S) /\ Len(w) = Len(v) + 2 * n
      /\ \A k \in 1 .. s : w[k] = v[k]
      /\ \A k \in (s + 1) .. e : w[n + k] = v[k]
      /\ \A k \in (e + 1) .. Len(v) : w[2 * n + k] = v[k]
  <2>1. w \in Seq(S) /\ Len(w) = Len(v) + 2 * n BY WrapLaw
  <2>2. \A k \in 1 .. s : w[k] = v[k] BY WrapLaw
  <2>3. \A k \in (s + 1) .. e : w[n + k] = v[k] BY WrapLaw
  <2>4. \A k \in (e + 1) .. Len(v) : w[2 * n + k] = v[k] BY WrapLaw
  <2> HIDE DEF w, n
  <2> QED BY <2>1, <2>2, <2>3, <2>4
<1>w. w \in Seq(S) /\ v \in Seq(S) BY <1>1
<1> HIDE DEF w, n
<1>2. x \in Seq(S) /\ Len(x) = s /\ \A k \in 1 .. s : x[k] = v[k]
  <2>1. 0 \in 0 .. Len(w) /\ s \in 0 .. Len(w) BY <1>0, <1>1
  <2>2. /\ x \in Seq(S) /\ Len(x) = s - 0 /\ \A k \in 1 .. (s - 0) : x[k] = w[0 + k]
    BY <1>1, <2>1, CutLaw
  <2>3. s - 0 = s /\ \A k \in 1 .. s : 0 + k = k BY <1>0
  <2> HIDE DEF x
  <2> QED BY <1>1, <2>2, <2>3
<1>3. y \in Seq(S) /\ Len(y) = e - s /\ \A k \in (s + 1) .. e : y[k - s] = v[k]
  <2>1. s + n \in 0 .. Len(w) /\ e + n \in (s + n) .. Len(w) /\ (e + n) - (s + n) = e - s
    BY <1>0, <1>1
  <2>2. /\ y \in Seq(S) /\ Len(y) = e - s /\ \A k \in 1 .. (e - s) : y[k] = w[s + n + k]
    <3>1. /\ y \in Seq(S) /\ Len(y) = (e + n) - (s + n)
          /\ \A k \in 1 .. ((e + n) - (s + n)) : y[k] = w[s + n + k]
      BY ONLY <1>w, <2>1, CutLaw
    <3> HIDE DEF y
    <3> QED BY ONLY <3>1, <2>1
  <2>3. ASSUME NEW k \in (s + 1) .. e PROVE y[k - s] = v[k]
    <3>1. k - s \in 1 .. (e - s) /\ s + n + (k - s) = n + k BY <1>0
    <3> HIDE DEF y
    <3>2. y[k - s] = w[n + k] BY <2>2, <3>1
    <3>3. w[n + k] = v[k] BY ONLY <1>1
    <3> QED BY <3>2, <3>3
  <2> QED BY <2>2, <2>3
<1>4. z \in Seq(S) /\ Len(z) = Len(v) - e /\ \A k \in (e + 1) .. Len(v) : z[k - e] = v[k]
  <2>1. e + 2 * n \in 0 .. Len(w) /\ Len(w) - (e + 2 * n) = Len(v) - e
    BY <1>0, <1>1
  <2>2. /\ z \in Seq(S) /\ Len(z) = Len(v) - e
        /\ \A k \in 1 .. (Len(v) - e) : z[k] = w[e + 2 * n + k]
    <3>1. /\ z \in Seq(S) /\ Len(z) = Len(w) - (e + 2 * n)
          /\ \A k \in 1 .. (Len(w) - (e + 2 * n)) : z[k] = w[e + 2 * n + k]
      BY ONLY <1>w, <2>1, RestLaw
    <3> HIDE DEF z
    <3> QED BY ONLY <3>1, <2>1
  <2>3. ASSUME NEW k \in (e + 1) .. Len(v) PROVE z[k - e] = v[k]
    <3>1. k - e \in 1 .. (Len(v) - e) /\ e + 2 * n + (k - e) = 2 * n + k BY <1>0
    <3> HIDE DEF z
    <3>2. z[k - e] = w[2 * n + k] BY <2>2, <3>1
    <3>3. w[2 * n + k] = v[k] BY ONLY <1>1
    <3> QED BY <3>2, <3>3
  <2> QED BY <2>2, <2>3
<1> HIDE DEF x, y, z
<1>5. MadeOf(v, s, e, x, y, z) BY <1>0, <1>2, <1>3, <1>4 DEF MadeOf
<1>6. x \o y \o z = v
  <2>1. x \in Seq(S) /\ y \in Seq(S) /\ z \in Seq(S) BY <1>2, <1>3, <1>4
  <2> QED BY ONLY <1>w, <2>1, <1>5, ThreeMake
<1> QED BY <1>6 DEF w, n, x, y, z

\* The same when the part brings markers of its own and those are taken away.
LEMMA PeelLaw ==
  ASSUME NEW S, NEW v \in Seq(S), NEW m \in Seq(S), NEW c, Marks(m, c),
         NEW s \in 0 .. Len(v), NEW e \in s .. Len(v), e - s >= 2 * Len(m),
         \A k \in (s + 1) .. (s + Len(m)) : v[k] = c,
         \A k \in (e - Len(m) + 1) .. e : v[k] = c
  PROVE LET w == Wrapped(v, m, s, e)
        IN Cut(w, 0, s + Len(m)) \o Cut(v, s + Len(m), e - Len(m)) \o Rest(w, e + Len(m)) = v
<1> DEFINE w == Wrapped(v, m, s, e)
           n == Len(m)
           x == Cut(w, 0, s + n)
           y == Cut(v, s + n, e - n)
           z == Rest(w, e + n)
<1>0. n \in Nat /\ s \in Nat /\ e \in Nat /\ s + 2 * n <= e /\ e <= Len(v) /\ Len(v) \in Nat OBVIOUS
<1>1. /\ w \in Seq(S) /\ Len(w) = Len(v) + 2 * n
      /\ \A k \in 1 .. s : w[k] = v[k]
      /\ \A k \in 1 .. n : w[s + k] = m[k]
      /\ \A k \in 1 .. n : w[n + e + k] = m[k]
      /\ \A k \in (e + 1) .. Len(v) : w[2 * n + k] = v[k]
  <2>1. w \in Seq(S) /\ Len(w) = Len(v) + 2 * n BY WrapLaw
  <2>2. \A k \in 1 .. s : w[k] = v[k] BY WrapLaw
  <2>3. \A k \in 1 .. n : w[s + k] = m[k] BY WrapLaw
  <2>4. \A k \in 1 .. n : w[n + e + k] = m[k] BY WrapLaw
  <2>5. \A k \in (e + 1) .. Len(v) : w[2 * n + k] = v[k] BY WrapLaw
  <2> HIDE DEF w, n
  <2> QED BY <2>1, <2>2, <2>3, <2>4, <2>5
<1>w. w \in Seq(S) /\ v \in Seq(S) BY <1>1
<1>a. \A k \in 1 .. n : m[k] = c BY DEF Marks
<1>b. /\ \A k \in (s + 1) .. (s + n) : v[k] = c
      /\ \A k \in (e - n + 1) .. e : v[k] = c
  OBVIOUS
<1> HIDE DEF w, n
<1>2. x \in Seq(S) /\ Len(x) = s + n /\ \A k \in 1 .. (s + n) : x[k] = v[k]
  <2>1. 0 \in 0 .. Len(w) /\ s + n \in 0 .. Len(w) BY <1>0, <1>1
  <2>2. /\ x \in Seq(S) /\ Len(x) = (s + n) - 0 /\ \A k \in 1 .. ((s + n) - 0) : x[k] = w[0 + k]
    BY <1>1, <2>1, CutLaw
  <2>3. (s + n) - 0 = s + n /\ \A k \in 1 .. (s + n) : 0 + k = k BY <1>0
  <2> HIDE DEF x
  <2>4. ASSUME NEW k \in 1 .. (s + n) PROVE w[k] = v[k]
    <3>1. CASE k <= s BY <3>1, <1>0, <1>1
    <3>2. CASE k > s
      <4>1. k - s \in 1 .. n /\ s + (k - s) = k /\ k \in (s + 1) .. (s + n) BY <3>2, <1>0
      <4>2. w[k] = m[k - s] BY <4>1, <1>1
      <4> QED BY <4>1, <4>2, <1>a, <1>b
    <3> QED BY <3>1, <3>2, <1>0
  <2> QED BY <2>2, <2>3, <2>4
<1>3. y \in Seq(S) /\ Len(y) = (e - n) - (s + n) /\ \A k \in (s + n + 1) .. (e - n) : y[k - (s + n)] = v[k]
  <2>1. s + n \in 0 .. Len(v) /\ e - n \in (s + n) .. Len(v)
    BY <1>0
  <2>2. /\ y \in Seq(S) /\ Len(y) = (e - n) - (s + n)
        /\ \A k \in 1 .. ((e - n) - (s + n)) : y[k] = v[s + n + k]
    BY <2>1, CutLaw
  <2>3. ASSUME NEW k \in (s + n + 1) .. (e - n) PROVE y[k - (s + n)] = v[k]
    <3>1. k - (s + n) \in 1 .. ((e - n) - (s + n)) /\ s + n + (k - (s + n)) = k BY <1>0
    <3> HIDE DEF y
    <3> QED BY <2>2, <3>1
  <2> QED BY <2>2, <2>3
<1>4. z \in Seq(S) /\ Len(z) = Len(v) - (e - n)
      /\ \A k \in (e - n + 1) .. Len(v) : z[k - (e - n)] = v[k]
  <2>1. e + n \in 0 .. Len(w) /\ Len(w) - (e + n) = Len(v) - (e - n)
    BY <1>0, <1>1
  <2>2. /\ z \in Seq(S) /\ Len(z) = Len(v) - (e - n)
        /\ \A k \in 1 .. (Len(v) - (e - n)) : z[k] = w[e + n + k]
    <3>1. /\ z \in Seq(S) /\ Len(z) = Len(w) - (e + n)
          /\ \A k \in 1 .. (Len(w) - (e + n)) : z[k] = w[e + n + k]
      BY ONLY <1>w, <2>1, RestLaw
    <3> HIDE DEF z
    <3> QED BY ONLY <3>1, <2>1
  <2>3. ASSUME NEW k \in (e - n + 1) .. Len(v) PROVE z[k - (e - n)] = v[k]
    <3>1. k - (e - n) \in 1 .. (Len(v) - (e - n)) /\ e + n + (k - (e - n)) = 2 * n + k BY <1>0
    <3> HIDE DEF z
    <3>2. z[k - (e - n)] = w[2 * n + k] BY <2>2, <3>1
    <3>3. CASE k > e
      <4>1. k \in (e + 1) .. Len(v) BY <3>3, <1>0
      <4> QED BY <3>2, <4>1, <1>1
    <3>4. CASE k <= e
      <4>1. k - (e - n) \in 1 .. n /\ n + e + (k - (e - n)) = 2 * n + k /\ k \in (e - n + 1) .. e
        BY <3>4, <1>0
      <4>2. w[2 * n + k] = m[k - (e - n)] BY <4>1, <1>1
      <4> QED BY <3>2, <4>1, <4>2, <1>a, <1>b
    <3> QED BY <3>3, <3>4, <1>0
  <2> QED BY <2>2, <2>3
<1> HIDE DEF x, y, z
<1>5. MadeOf(v, s + n, e - n, x, y, z)
  <2>1. s + n \in Nat /\ e - n \in Nat /\ s + n <= e - n /\ e - n <= Len(v) BY <1>0
  <2> QED BY <2>1, <1>2, <1>3, <1>4 DEF MadeOf
<1>6. x \o y \o z = v
  <2>1. x \in Seq(S) /\ y \in Seq(S) /\ z \in Seq(S) BY <1>2, <1>3, <1>4
  <2> QED BY ONLY <1>w, <2>1, <1>5, ThreeMake
<1> QED BY <1>6 DEF w, n, x, y, z

\* Where a run of a character ends that a marker continues.
LEMMA LeadGrows ==
  ASSUME NEW S, NEW v \in Seq(S), NEW m \in Seq(S), NEW c, Marks(m, c),
         NEW s \in 0 .. Len(v), NEW e \in s .. Len(v)
  PROVE LET w == Wrapped(v, m, s, e)
        IN /\ Lead(Rest(w, e + Len(m)), {c}) = Len(m) + Lead(Rest(v, e), {c})
           /\ Trail(Cut(w, 0, s + Len(m)), {c}) = Len(m) + Trail(Cut(v, 0, s), {c})
<1> DEFINE w == Wrapped(v, m, s, e)
           n == Len(m)
           q == Rest(v, e)
           z == Rest(w, e + n)
           p == Cut(v, 0, s)
           x == Cut(w, 0, s + n)
<1>0. n \in Nat /\ s \in Nat /\ e \in Nat /\ s <= e /\ e <= Len(v) /\ Len(v) \in Nat OBVIOUS
<1>1. /\ w \in Seq(S) /\ Len(w) = Len(v) + 2 * n
      /\ \A k \in 1 .. s : w[k] = v[k]
      /\ \A k \in 1 .. n : w[s + k] = m[k]
      /\ \A k \in 1 .. n : w[n + e + k] = m[k]
      /\ \A k \in (e + 1) .. Len(v) : w[2 * n + k] = v[k]
  <2>1. w \in Seq(S) /\ Len(w) = Len(v) + 2 * n BY WrapLaw
  <2>2. \A k \in 1 .. s : w[k] = v[k] BY WrapLaw
  <2>3. \A k \in 1 .. n : w[s + k] = m[k] BY WrapLaw
  <2>4. \A k \in 1 .. n : w[n + e + k] = m[k] BY WrapLaw
  <2>5. \A k \in (e + 1) .. Len(v) : w[2 * n + k] = v[k] BY WrapLaw
  <2> HIDE DEF w, n
  <2> QED BY <2>1, <2>2, <2>3, <2>4, <2>5
<1>a. \A k \in 1 .. n : m[k] = c BY DEF Marks
<1>w. w \in Seq(S) /\ v \in Seq(S) BY <1>1
<1>2. q \in Seq(S) /\ Len(q) = Len(v) - e /\ \A k \in 1 .. (Len(v) - e) : q[k] = v[e + k]
  <2>1. e \in 0 .. Len(v) BY <1>0
  <2> QED BY ONLY <1>w, <2>1, RestLaw
<1> HIDE DEF w, n
<1>3. /\ z \in Seq(S) /\ Len(z) = n + (Len(v) - e)
      /\ \A k \in 1 .. Len(z) : z[k] = w[e + n + k]
  <2>1. e + n \in 0 .. Len(w) /\ Len(w) - (e + n) = n + (Len(v) - e) BY <1>0, <1>1
  <2>2. /\ z \in Seq(S) /\ Len(z) = Len(w) - (e + n)
        /\ \A k \in 1 .. (Len(w) - (e + n)) : z[k] = w[e + n + k]
    BY ONLY <1>w, <2>1, RestLaw
  <2> HIDE DEF z
  <2> QED BY <2>1, <2>2
<1>4. p \in Seq(S) /\ Len(p) = s /\ \A k \in 1 .. s : p[k] = v[k]
  <2>1. 0 \in 0 .. Len(v) /\ s \in 0 .. Len(v) BY <1>0
  <2>2. /\ p \in Seq(S) /\ Len(p) = s - 0 /\ \A k \in 1 .. (s - 0) : p[k] = v[0 + k]
    BY ONLY <1>w, <2>1, CutLaw
  <2>3. s - 0 = s /\ \A k \in 1 .. s : 0 + k = k BY <1>0
  <2> HIDE DEF p
  <2> QED BY <2>2, <2>3
<1>5. x \in Seq(S) /\ Len(x) = s + n /\ \A k \in 1 .. (s + n) : x[k] = w[k]
  <2>1. 0 \in 0 .. Len(w) /\ s + n \in 0 .. Len(w) BY <1>0, <1>1
  <2>2. /\ x \in Seq(S) /\ Len(x) = (s + n) - 0 /\ \A k \in 1 .. ((s + n) - 0) : x[k] = w[0 + k]
    BY ONLY <1>w, <2>1, CutLaw
  <2>3. (s + n) - 0 = s + n /\ \A k \in 1 .. (s + n) : 0 + k = k BY <1>0
  <2> HIDE DEF x
  <2> QED BY <2>2, <2>3
<1> HIDE DEF q, z, p, x
<1>6. Lead(z, {c}) = n + Lead(q, {c})
  <2>1. PICK l : l = Lead(q, {c}) OBVIOUS
  <2>2. Leads(q, {c}, l) BY <1>2, <2>1, LeadLaw
  <2>3. l \in Nat /\ l <= Len(v) - e BY <1>0, <1>2, <2>2 DEF Leads
  <2>4. \A k \in 1 .. (n + l) : z[k] = c
    <3> SUFFICES ASSUME NEW k \in 1 .. (n + l) PROVE z[k] = c
      OBVIOUS
    <3>1. k \in 1 .. Len(z) BY <1>0, <1>3, <2>3
    <3>2. z[k] = w[e + n + k] BY <1>3, <3>1
    <3>3. CASE k <= n
      <4>1. k \in 1 .. n /\ e + n + k = n + e + k BY <3>3, <1>0, <2>3
      <4> QED BY <1>1, <1>a, <3>2, <4>1
    <3>4. CASE k > n
      <4>1. /\ e + (k - n) \in (e + 1) .. Len(v) /\ 2 * n + (e + (k - n)) = e + n + k
            /\ k - n \in 1 .. l /\ k - n \in 1 .. (Len(v) - e)
        BY <3>4, <1>0, <2>3
      <4>2. w[e + n + k] = v[e + (k - n)] BY <1>1, <4>1
      <4>3. q[k - n] = v[e + (k - n)] BY <1>2, <4>1
      <4>4. q[k - n] \in {c} BY <2>2, <4>1 DEF Leads
      <4> QED BY <3>2, <4>2, <4>3, <4>4
    <3> QED BY <3>3, <3>4, <1>0, <2>3
  <2>5. ASSUME n + l < Len(z) PROVE z[n + l + 1] # c
    <3>1. l < Len(v) - e /\ l + 1 \in 1 .. (Len(v) - e) /\ e + (l + 1) \in (e + 1) .. Len(v)
          /\ 2 * n + (e + (l + 1)) = e + n + (n + l + 1) /\ n + l + 1 \in 1 .. Len(z)
      BY <2>5, <1>0, <1>3, <2>3
    <3>2. q[l + 1] \notin {c} BY <1>2, <2>2, <3>1 DEF Leads
    <3>3. q[l + 1] = v[e + (l + 1)] BY <1>2, <3>1
    <3>4. w[e + n + (n + l + 1)] = v[e + (l + 1)] BY <1>1, <3>1
    <3>5. z[n + l + 1] = w[e + n + (n + l + 1)] BY <1>3, <3>1
    <3> QED BY <3>2, <3>3, <3>4, <3>5
  <2>6. n + l \in 0 .. Len(z) BY <1>0, <1>3, <2>3
  <2>7. Leads(z, {c}, n + l) BY <2>4, <2>5, <2>6 DEF Leads
  <2> QED BY <1>3, <2>1, <2>7, LeadLaw
<1>7. Trail(x, {c}) = n + Trail(p, {c})
  <2>1. PICK r : r = Trail(p, {c}) OBVIOUS
  <2>2. Trails(p, {c}, r) BY <1>4, <2>1, TrailLaw
  <2>3. r \in Nat /\ r <= s BY <1>0, <1>4, <2>2 DEF Trails
  <2>4. \A k \in (s - r + 1) .. (s + n) : x[k] = c
    <3> SUFFICES ASSUME NEW k \in (s - r + 1) .. (s + n) PROVE x[k] = c
      OBVIOUS
    <3>1. k \in 1 .. (s + n) BY <1>0, <2>3
    <3>2. x[k] = w[k] BY <1>5, <3>1
    <3>3. CASE k > s
      <4>1. k - s \in 1 .. n /\ s + (k - s) = k BY <3>3, <1>0, <2>3
      <4>2. w[k] = m[k - s] BY <1>1, <4>1
      <4> QED BY <1>a, <3>2, <4>1, <4>2
    <3>4. CASE k <= s
      <4>1. k \in 1 .. s /\ k \in (Len(p) - r + 1) .. Len(p) BY <3>4, <1>0, <1>4, <2>3
      <4>2. p[k] \in {c} BY <2>2, <4>1 DEF Trails
      <4> QED BY <1>1, <1>4, <3>2, <4>1, <4>2
    <3> QED BY <3>3, <3>4, <1>0, <2>3
  <2>5. ASSUME n + r < Len(x) PROVE x[Len(x) - (n + r)] # c
    <3>1. /\ r < Len(p) /\ Len(x) - (n + r) = s - r /\ Len(p) - r = s - r
          /\ s - r \in 1 .. s /\ s - r \in 1 .. (s + n)
      BY <2>5, <1>0, <1>4, <1>5, <2>3
    <3>2. p[s - r] \notin {c} BY <2>2, <3>1 DEF Trails
    <3> QED BY <1>1, <1>4, <1>5, <3>1, <3>2
  <2>6. n + r \in 0 .. Len(x) /\ Len(x) - (n + r) + 1 = s - r + 1 BY <1>0, <1>5, <2>3
  <2>7. Trails(x, {c}, n + r) BY <1>5, <2>4, <2>5, <2>6 DEF Trails
  <2> QED BY <1>5, <2>1, <2>7, TrailLaw
<1> QED BY <1>6, <1>7 DEF w, n, q, z, p, x

\* Taking a marker off leaves a shorter text.
LEMMA InsideShrinks ==
  ASSUME NEW S, NEW v \in Seq(S), NEW m \in Seq(S), m \in InlineMarkers,
         NEW i \in 0 .. Len(v), NEW j \in i .. Len(v), WrapsInside(State(v, i, j), m)
  PROVE Len(ApplyInline(State(v, i, j), m).value) <= Len(v)
<1> DEFINE n == Len(m)
           sel == Cut(v, i, j)
           x == Cut(v, 0, i)
           y == Cut(sel, n, Len(sel) - n)
           z == Rest(v, j)
<1>0. i \in Nat /\ j \in Nat /\ i <= j /\ j <= Len(v) /\ Len(v) \in Nat /\ n \in Nat OBVIOUS
<1>v. v \in Seq(S) OBVIOUS
<1>1. sel \in Seq(S) /\ Len(sel) = j - i BY CutLaw
<1>s. sel \in Seq(S) BY <1>1
<1>2. Len(sel) > 2 * n BY DEF WrapsInside, State
<1>3. ApplyInline(State(v, i, j), m).value = x \o y \o z
  BY DEF ApplyInline, State
<1> HIDE DEF sel, n
<1>4. x \in Seq(S) /\ Len(x) = i
  <2>1. 0 \in 0 .. Len(v) /\ i \in 0 .. Len(v) /\ i - 0 = i BY <1>0
  <2>2. x \in Seq(S) /\ Len(x) = i - 0 BY ONLY <1>v, <2>1, CutLaw
  <2> QED BY <2>1, <2>2
<1>5. y \in Seq(S) /\ Len(y) = (Len(sel) - n) - n
  <2>1. n \in 0 .. Len(sel) /\ Len(sel) - n \in n .. Len(sel) BY <1>0, <1>1, <1>2
  <2> QED BY ONLY <1>s, <2>1, CutLaw
<1>6. z \in Seq(S) /\ Len(z) = Len(v) - j
  <2>1. j \in 0 .. Len(v) BY <1>0
  <2> QED BY ONLY <1>v, <2>1, RestLaw
<1> HIDE DEF x, y, z
<1>7. Len(x \o y \o z) = Len(x) + Len(y) + Len(z)
  <2>1. x \in Seq(S) /\ y \in Seq(S) /\ z \in Seq(S) BY <1>4, <1>5, <1>6
  <2> QED BY ONLY <2>1, JoinLength
<1> QED BY <1>0, <1>1, <1>2, <1>3, <1>4, <1>5, <1>6, <1>7

\* So does taking off the one around the selection.
LEMMA OutsideShrinks ==
  ASSUME NEW S, NEW v \in Seq(S), NEW m \in Seq(S), m \in InlineMarkers,
         NEW i \in 0 .. Len(v), NEW j \in i .. Len(v),
         ~WrapsInside(State(v, i, j), m), WrapsOutside(State(v, i, j), m)
  PROVE Len(ApplyInline(State(v, i, j), m).value) <= Len(v)
<1> DEFINE n == Len(m)
           C == {m[1]}
           p == Cut(v, 0, i)
           q == Rest(v, j)
           r == Trail(p, C)
           l == Lead(q, C)
           x == Cut(v, 0, i - n)
           y == Cut(v, i, j)
           z == Rest(v, j + n)
<1>0. i \in Nat /\ j \in Nat /\ i <= j /\ j <= Len(v) /\ Len(v) \in Nat /\ n \in Nat OBVIOUS
<1>v. v \in Seq(S) OBVIOUS
<1>1. Least(r, l) > 0 /\ HasMarker(m, Least(r, l)) BY DEF WrapsOutside, State
<1>2. ApplyInline(State(v, i, j), m).value = x \o y \o z
  BY DEF ApplyInline, State
<1>3. p \in Seq(S) /\ Len(p) = i
  <2>1. 0 \in 0 .. Len(v) /\ i \in 0 .. Len(v) /\ i - 0 = i BY <1>0
  <2>2. p \in Seq(S) /\ Len(p) = i - 0 BY ONLY <1>v, <2>1, CutLaw
  <2> QED BY <2>1, <2>2
<1>4. q \in Seq(S) /\ Len(q) = Len(v) - j
  <2>1. j \in 0 .. Len(v) BY <1>0
  <2> QED BY ONLY <1>v, <2>1, RestLaw
<1> HIDE DEF p, q
<1>5. r \in Nat /\ r <= i
  <2>1. Trails(p, C, r) BY <1>3, TrailLaw
  <2> HIDE DEF r
  <2> QED BY <1>0, <1>3, <2>1 DEF Trails
<1>6. l \in Nat /\ l <= Len(v) - j
  <2>1. Leads(q, C, l) BY <1>4, LeadLaw
  <2> HIDE DEF l
  <2> QED BY <1>0, <1>4, <2>1 DEF Leads
<1> HIDE DEF r, l
<1>7. Least(r, l) \in Nat /\ Least(r, l) <= r /\ Least(r, l) <= l BY <1>5, <1>6 DEF Least
<1>8. Least(r, l) >= n BY <1>1, <1>7, MarkerFits
<1>9. n <= i /\ j + n <= Len(v) BY <1>0, <1>5, <1>6, <1>7, <1>8
<1> HIDE DEF n
<1>10. x \in Seq(S) /\ Len(x) = i - n
  <2>1. 0 \in 0 .. Len(v) /\ i - n \in 0 .. Len(v) /\ (i - n) - 0 = i - n BY <1>0, <1>9
  <2>2. x \in Seq(S) /\ Len(x) = (i - n) - 0 BY ONLY <1>v, <2>1, CutLaw
  <2> QED BY <2>1, <2>2
<1>11. y \in Seq(S) /\ Len(y) = j - i BY CutLaw
<1>12. z \in Seq(S) /\ Len(z) = Len(v) - (j + n)
  <2>1. j + n \in 0 .. Len(v) BY <1>0, <1>9
  <2> QED BY ONLY <1>v, <2>1, RestLaw
<1> HIDE DEF x, y, z
<1>13. Len(x \o y \o z) = Len(x) + Len(y) + Len(z)
  <2>1. x \in Seq(S) /\ y \in Seq(S) /\ z \in Seq(S) BY <1>10, <1>11, <1>12
  <2> QED BY ONLY <2>1, JoinLength
<1> QED BY <1>0, <1>2, <1>9, <1>10, <1>11, <1>12, <1>13

\* A marker that makes the text longer was put around the selection without
\* the blanks at its ends, and the selection had none inside it or around it.
LEMMA MarkerAdded ==
  ASSUME NEW S, NEW v \in Seq(S), NEW m \in Seq(S), m \in InlineMarkers,
         NEW i \in 0 .. Len(v), NEW j \in i .. Len(v), ~IsBlank(Cut(v, i, j)),
         Len(ApplyInline(State(v, i, j), m).value) > Len(v)
  PROVE LET s == i + Lead(Cut(v, i, j), Blank)
            e == j - Trail(Cut(v, i, j), Blank)
        IN /\ ~WrapsOutside(State(v, i, j), m)
           /\ ApplyInline(State(v, i, j), m) = State(Wrapped(v, m, s, e), s + Len(m), e + Len(m))
<1> DEFINE t == State(v, i, j)
<1>1. t.value = v /\ t.start = i /\ t.end = j BY DEF State
<1>2. ~WrapsInside(t, m)
  <2> SUFFICES ASSUME WrapsInside(t, m) PROVE FALSE
    OBVIOUS
  <2>1. Len(ApplyInline(t, m).value) <= Len(v) BY InsideShrinks
  <2> QED BY <2>1
<1>3. ~WrapsOutside(t, m)
  <2> SUFFICES ASSUME WrapsOutside(t, m) PROVE FALSE
    OBVIOUS
  <2>1. Len(ApplyInline(t, m).value) <= Len(v) BY <1>2, OutsideShrinks
  <2> QED BY <2>1
<1> HIDE DEF t
<1>4. ApplyInline(t, m) =
        LET s == i + Lead(Cut(v, i, j), Blank)
            e == j - Trail(Cut(v, i, j), Blank)
        IN State(Cut(v, 0, s) \o m \o Cut(v, s, e) \o m \o Rest(v, e), s + Len(m), e + Len(m))
  BY <1>1, <1>2, <1>3 DEF ApplyInline
<1> QED BY <1>3, <1>4 DEF Wrapped, t

\* A marked text whose part begins and ends with the marker's character: what
\* the second press takes away inside the selection.
LEMMA PeeledBack ==
  ASSUME NEW S, NEW v \in Seq(S), NEW m \in Seq(S), m \in InlineMarkers,
         NEW s \in 0 .. Len(v), NEW e \in s .. Len(v),
         WrapsInside(State(Wrapped(v, m, s, e), s + Len(m), e + Len(m)), m)
  PROVE ApplyInline(State(Wrapped(v, m, s, e), s + Len(m), e + Len(m)), m).value = v
<1> DEFINE n == Len(m)
           w == Wrapped(v, m, s, e)
           t == State(w, s + n, e + n)
           x == Cut(v, s, e)
           c == m[1]
           l == Lead(x, {c})
           r == Trail(x, {c})
           run == Least(l, Least(r, Len(x) - l))
<1>0. n \in Nat /\ s \in Nat /\ e \in Nat /\ s <= e /\ e <= Len(v) /\ Len(v) \in Nat OBVIOUS
<1>1. t.value = w /\ t.start = s + n /\ t.end = e + n BY DEF State
<1>2. Cut(w, s + n, e + n) = x BY SelectionKept
<1>3. x \in Seq(S) /\ Len(x) = e - s /\ \A k \in 1 .. (e - s) : x[k] = v[s + k] BY CutLaw
<1>m. Marks(m, c) BY MarkerLaw
<1>t. WrapsInside(t, m) OBVIOUS
<1> HIDE DEF t, w, x
<1>4. run > 0 /\ HasMarker(m, run) /\ Len(x) > 2 * n
  BY <1>t, <1>1, <1>2 DEF WrapsInside
<1>5. Leads(x, {c}, l) BY <1>3, LeadLaw
<1>6. Trails(x, {c}, r) BY <1>3, TrailLaw
<1> HIDE DEF l, r
<1>7. l \in Nat /\ r \in Nat /\ l <= Len(x) /\ r <= Len(x) /\ Len(x) \in Nat
  BY <1>0, <1>3, <1>5, <1>6 DEF Leads, Trails
<1>8. run \in Nat /\ run <= l /\ run <= r BY <1>7 DEF Least
<1> HIDE DEF run
<1>9. run >= n BY <1>4, <1>8, MarkerFits
<1>10. \A k \in (s + 1) .. (s + n) : v[k] = c
  <2> SUFFICES ASSUME NEW k \in (s + 1) .. (s + n) PROVE v[k] = c
    OBVIOUS
  <2>1. k - s \in 1 .. l /\ k - s \in 1 .. (e - s) /\ s + (k - s) = k
    BY <1>0, <1>3, <1>7, <1>8, <1>9
  <2>2. x[k - s] \in {c} BY <1>5, <2>1 DEF Leads
  <2> QED BY <1>3, <2>1, <2>2
<1>11. \A k \in (e - n + 1) .. e : v[k] = c
  <2> SUFFICES ASSUME NEW k \in (e - n + 1) .. e PROVE v[k] = c
    OBVIOUS
  <2>1. k - s \in (Len(x) - r + 1) .. Len(x) /\ k - s \in 1 .. (e - s) /\ s + (k - s) = k
    BY <1>0, <1>3, <1>4, <1>7, <1>8, <1>9
  <2>2. x[k - s] \in {c} BY <1>6, <2>1 DEF Trails
  <2> QED BY <1>3, <2>1, <2>2
<1>12. Cut(x, n, Len(x) - n) = Cut(v, s + n, e - n)
  <2>1. 2 * n <= e - s BY <1>0, <1>3, <1>4
  <2>2. Cut(Cut(v, s, e), n, (e - s) - n) = Cut(v, s + n, e - n) BY <1>0, <2>1, CutOfCut
  <2> QED BY <1>3, <2>2 DEF x
<1>13. ApplyInline(t, m).value = Cut(w, 0, s + n) \o Cut(x, n, Len(x) - n) \o Rest(w, e + n)
  BY <1>t, <1>1, <1>2 DEF ApplyInline, State
<1>14. Cut(w, 0, s + n) \o Cut(v, s + n, e - n) \o Rest(w, e + n) = v
  <2>1. e - s >= 2 * n BY <1>0, <1>3, <1>4
  <2> QED BY <2>1, <1>m, <1>10, <1>11, PeelLaw DEF w
<1> QED BY <1>12, <1>13, <1>14 DEF t, w

\* A part with no blank at its ends has no blanks to trim.
LEMMA NothingToTrim ==
  ASSUME NEW S, NEW v \in Seq(S), NEW s \in 0 .. Len(v), NEW e \in s .. Len(v), s < e,
         v[s + 1] \notin Blank, v[e] \notin Blank
  PROVE Lead(Cut(v, s, e), Blank) = 0 /\ Trail(Cut(v, s, e), Blank) = 0
<1> DEFINE x == Cut(v, s, e)
<1>0. s \in Nat /\ e \in Nat OBVIOUS
<1>1. x \in Seq(S) /\ Len(x) = e - s /\ \A k \in 1 .. (e - s) : x[k] = v[s + k] BY CutLaw
<1> HIDE DEF x
<1>2. x[1] \notin Blank /\ x[e - s] \notin Blank
  <2>1. 1 \in 1 .. (e - s) /\ e - s \in 1 .. (e - s) /\ s + (e - s) = e BY <1>0
  <2> QED BY <1>1, <2>1
<1>3. Leads(x, Blank, 0) BY <1>0, <1>1, <1>2 DEF Leads
<1>4. Trails(x, Blank, 0) BY <1>0, <1>1, <1>2 DEF Trails
<1>5. 0 = Lead(x, Blank) BY <1>1, <1>3, LeadLaw
<1>6. 0 = Trail(x, Blank) BY <1>1, <1>4, TrailLaw
<1> QED BY <1>5, <1>6 DEF x

\* The run of the marker's character around a part of a text.
RunAround(v, m, s, e) == Least(Trail(Cut(v, 0, s), {m[1]}), Lead(Rest(v, e), {m[1]}))

\* The run around a part with other characters at both sides.
LEMMA NoRun ==
  ASSUME NEW S, NEW v \in Seq(S), NEW m \in Seq(S), m \in InlineMarkers,
         NEW s \in 0 .. Len(v), NEW e \in s .. Len(v),
         \/ s # 0 /\ v[s] \in Blank
         \/ e # Len(v) /\ v[e + 1] \in Blank
  PROVE RunAround(v, m, s, e) = 0
<1> DEFINE p == Cut(v, 0, s)
           q == Rest(v, e)
           C == {m[1]}
           r == Trail(p, C)
           l == Lead(q, C)
<1>0. s \in Nat /\ e \in Nat /\ s <= e /\ e <= Len(v) /\ Len(v) \in Nat OBVIOUS
<1>v. v \in Seq(S) OBVIOUS
<1>c. m[1] \notin Blank BY MarkerLaw
<1>1. p \in Seq(S) /\ Len(p) = s /\ \A k \in 1 .. s : p[k] = v[k]
  <2>1. 0 \in 0 .. Len(v) /\ s \in 0 .. Len(v) BY <1>0
  <2>2. /\ p \in Seq(S) /\ Len(p) = s - 0 /\ \A k \in 1 .. (s - 0) : p[k] = v[0 + k]
    BY ONLY <1>v, <2>1, CutLaw
  <2>3. s - 0 = s /\ \A k \in 1 .. s : 0 + k = k BY <1>0
  <2> HIDE DEF p
  <2> QED BY <2>2, <2>3
<1>2. q \in Seq(S) /\ Len(q) = Len(v) - e /\ \A k \in 1 .. (Len(v) - e) : q[k] = v[e + k]
  <2>1. e \in 0 .. Len(v) BY <1>0
  <2> QED BY ONLY <1>v, <2>1, RestLaw
<1>3. Trails(p, C, r) BY <1>1, TrailLaw
<1>4. Leads(q, C, l) BY <1>2, LeadLaw
<1>5. RunAround(v, m, s, e) = Least(r, l) BY DEF RunAround
<1> HIDE DEF p, q, r, l
<1>6. r \in Nat /\ l \in Nat BY <1>3, <1>4 DEF Trails, Leads
<1>7. CASE s # 0 /\ v[s] \in Blank
  <2>1. s \in 1 .. s BY <1>7, <1>0
  <2>2. p[s] \notin C BY <1>1, <1>7, <1>c, <2>1
  <2>3. r = 0
    <3> SUFFICES ASSUME r > 0 PROVE FALSE
      BY <1>6
    <3>1. s \in (s - r + 1) .. s BY <1>0, <1>6
    <3> QED BY <1>1, <1>3, <2>2, <3>1 DEF Trails
  <2> QED BY <1>5, <1>6, <2>3 DEF Least
<1>8. CASE e # Len(v) /\ v[e + 1] \in Blank
  <2>1. 1 \in 1 .. (Len(v) - e) BY <1>8, <1>0
  <2>2. q[1] \notin C BY <1>2, <1>8, <1>c, <2>1
  <2>3. l = 0
    <3> SUFFICES ASSUME l > 0 PROVE FALSE
      BY <1>6
    <3>1. 1 \in 1 .. l BY <1>6
    <3> QED BY <1>4, <2>2, <3>1 DEF Leads
  <2> QED BY <1>5, <1>6, <2>3 DEF Least
<1> QED BY <1>7, <1>8

\* A marked text whose part the marker was trimmed to fit, and around which
\* there was no such marker: the second press finds the marker around it.
LEMMA FoundAround ==
  ASSUME NEW S, NEW v \in Seq(S), NEW m \in Seq(S), m \in InlineMarkers,
         NEW s \in 0 .. Len(v), NEW e \in s .. Len(v), s < e,
         v[s + 1] \notin Blank, v[e] \notin Blank,
         ~(RunAround(v, m, s, e) > 0 /\ HasMarker(m, RunAround(v, m, s, e)))
  PROVE WrapsOutside(State(Wrapped(v, m, s, e), s + Len(m), e + Len(m)), m)
<1> DEFINE n == Len(m)
           w == Wrapped(v, m, s, e)
           t == State(w, s + n, e + n)
           C == {m[1]}
           p == Cut(v, 0, s)
           q == Rest(v, e)
           r == Trail(p, C)
           l == Lead(q, C)
<1>0. n \in Nat /\ s \in Nat /\ e \in Nat /\ s <= e /\ e <= Len(v) /\ Len(v) \in Nat OBVIOUS
<1>v. v \in Seq(S) OBVIOUS
<1>m. Marks(m, m[1]) /\ n > 0
  <2>1. Marks(m, m[1]) BY MarkerLaw
  <2>2. Len(m) \in 1 .. 2 BY ONLY <2>1 DEF Marks
  <2> QED BY <2>1, <2>2
<1>1. t.value = w /\ t.start = s + n /\ t.end = e + n BY DEF State
<1>2. Cut(w, s + n, e + n) = Cut(v, s, e) BY SelectionKept
<1>3. Lead(Cut(v, s, e), Blank) = 0 /\ Trail(Cut(v, s, e), Blank) = 0 BY NothingToTrim
<1>45. /\ Lead(Rest(w, e + n), C) = n + l
       /\ Trail(Cut(w, 0, s + n), C) = n + r
  <2>1. PICK c : c = m[1] OBVIOUS
  <2>2. Marks(m, c) BY <1>m, <2>1
  <2>3. /\ Lead(Rest(Wrapped(v, m, s, e), e + Len(m)), {c}) = Len(m) + Lead(Rest(v, e), {c})
        /\ Trail(Cut(Wrapped(v, m, s, e), 0, s + Len(m)), {c}) = Len(m) + Trail(Cut(v, 0, s), {c})
    BY <2>2, LeadGrows
  <2> QED BY <2>1, <2>3
<1>4. Trail(Cut(w, 0, s + n), C) = n + r BY <1>45
<1>5. Lead(Rest(w, e + n), C) = n + l BY <1>45
<1>6. r \in Nat
  <2>1. 0 \in 0 .. Len(v) /\ s \in 0 .. Len(v) BY <1>0
  <2>2. p \in Seq(S) BY ONLY <1>v, <2>1, CutLaw
  <2>3. Trails(p, C, r) BY <2>2, TrailLaw
  <2> HIDE DEF p, r
  <2> QED BY <2>3 DEF Trails
<1>7. l \in Nat
  <2>1. e \in 0 .. Len(v) BY <1>0
  <2>2. q \in Seq(S) BY ONLY <1>v, <2>1, RestLaw
  <2>3. Leads(q, C, l) BY <2>2, LeadLaw
  <2> HIDE DEF q, l
  <2> QED BY <2>3 DEF Leads
<1>8. RunAround(v, m, s, e) = Least(r, l) BY DEF RunAround
<1> HIDE DEF w, t, p, q, r, l
<1>9. Least(r, l) \in Nat /\ Least(n + r, n + l) = n + Least(r, l) BY <1>0, <1>6, <1>7 DEF Least
<1>10. HasMarker(m, n + Least(r, l)) BY <1>8, <1>9, MarkerCounts
<1>11. n + Least(r, l) > 0 BY <1>0, <1>m, <1>9
<1> HIDE DEF n
<1>12. WrapsOutside(t, m)
  BY <1>1, <1>2, <1>3, <1>4, <1>5, <1>9, <1>10, <1>11 DEF WrapsOutside
<1> QED BY <1>12 DEF t, w, n

\* An inline marker put around a part of a text comes off again.
LEMMA InlineComesOff ==
  ASSUME NEW S, NEW v \in Seq(S), NEW m \in Seq(S), m \in InlineMarkers,
         NEW i \in 0 .. Len(v), NEW j \in i .. Len(v), ~IsBlank(Cut(v, i, j)),
         Len(ApplyInline(State(v, i, j), m).value) > Len(v)
  PROVE ApplyInline(ApplyInline(State(v, i, j), m), m).value = v
<1>1. PICK s, e : s = i + Lead(Cut(v, i, j), Blank) /\ e = j - Trail(Cut(v, i, j), Blank)
  OBVIOUS
<1> DEFINE n == Len(m)
           w == Wrapped(v, m, s, e)
           t == State(w, s + n, e + n)
<1>2. ~WrapsOutside(State(v, i, j), m) /\ ApplyInline(State(v, i, j), m) = t
  BY <1>1, MarkerAdded
<1>3. /\ s \in Nat /\ e \in Nat /\ i <= s /\ s < e /\ e <= j
      /\ v[s + 1] \notin Blank /\ v[e] \notin Blank
      /\ s # i => v[s] \in Blank
      /\ e # j => v[e + 1] \in Blank
  BY <1>1, TrimLaw
<1>4. s \in 0 .. Len(v) /\ e \in s .. Len(v) BY <1>3
<1>5. CASE WrapsInside(t, m)
  <2>1. ApplyInline(t, m).value = v BY <1>4, <1>5, PeeledBack
  <2> QED BY <1>2, <2>1
<1>6. CASE ~WrapsInside(t, m)
  <2>1. ~(RunAround(v, m, s, e) > 0 /\ HasMarker(m, RunAround(v, m, s, e)))
    <3>1. CASE s = i /\ e = j
      <4>1. Lead(Cut(v, i, j), Blank) = 0 /\ Trail(Cut(v, i, j), Blank) = 0
        BY <1>3, <1>4, <3>1, NothingToTrim
      <4> QED BY <1>2, <3>1, <4>1 DEF WrapsOutside, State, RunAround
    <3>2. CASE s # i
      <4>1. s # 0 /\ v[s] \in Blank BY <1>3, <3>2
      <4>2. RunAround(v, m, s, e) = 0 BY <1>4, <4>1, NoRun
      <4> QED BY <4>2
    <3>3. CASE e # j
      <4>1. e # Len(v) /\ v[e + 1] \in Blank BY <1>3, <3>3
      <4>2. RunAround(v, m, s, e) = 0 BY <1>4, <4>1, NoRun
      <4> QED BY <4>2
    <3> QED BY <3>1, <3>2, <3>3
  <2>2. WrapsOutside(t, m) BY <1>3, <1>4, <2>1, FoundAround
  <2>3. Cut(w, s + n, e + n) = Cut(v, s, e) BY <1>4, SelectionKept
  <2>4. Cut(w, 0, s) \o Cut(w, s + n, e + n) \o Rest(w, e + 2 * n) = v BY <1>4, StripLaw
  <2>5. t.value = w /\ t.start = s + n /\ t.end = e + n BY DEF State
  <2>6. n = Len(m) /\ (s + n) - n = s /\ e + n + n = e + 2 * n BY <1>3
  <2> HIDE DEF w, t, n
  <2>7. ApplyInline(t, m).value =
          Cut(w, 0, (s + n) - n) \o Cut(w, s + n, e + n) \o Rest(w, e + n + n)
    <3>1. ApplyInline(t, m) =
            State(Cut(w, 0, (s + n) - n) \o Cut(w, s + n, e + n) \o Rest(w, e + n + n),
                  (s + n) - n, (e + n) - n)
      <4>1. ApplyInline(t, m) =
              State(Cut(t.value, 0, t.start - Len(m)) \o Cut(t.value, t.start, t.end)
                      \o Rest(t.value, t.end + Len(m)),
                    t.start - Len(m), t.end - Len(m))
        BY ONLY <1>6, <2>2 DEF ApplyInline
      <4>2. /\ t.start - Len(m) = (s + n) - n /\ t.end - Len(m) = (e + n) - n
            /\ t.end + Len(m) = e + n + n
        BY ONLY <2>5, <2>6
      <4>3. Cut(t.value, t.start, t.end) = Cut(w, s + n, e + n) BY <2>5
      <4>4. Cut(t.value, 0, t.start - Len(m)) = Cut(w, 0, (s + n) - n) BY ONLY <2>5, <4>2
      <4>5. Rest(t.value, t.end + Len(m)) = Rest(w, e + n + n) BY ONLY <2>5, <4>2
      <4> QED BY ONLY <4>1, <4>2, <4>3, <4>4, <4>5
    <3> QED BY <3>1 DEF State
  <2> QED BY <1>2, <2>4, <2>6, <2>7
<1> QED BY <1>5, <1>6

\* InlineMarksToggle: "applying twice restores the original"
\* (frontend/src/lib/markdownFormat.ts).
LEMMA InlineTwice == TypeOK => InlineMarksToggle
<1> DEFINE S == Char \cup {"*", "~", Tick, "^"}
           t == State(value, cursor.start, cursor.end)
<1> SUFFICES ASSUME TypeOK, ~IsBlank(Slice(value, cursor.start, cursor.end)),
                    NEW m \in InlineMarkers, Len(ApplyInline(t, m).value) > Len(value)
             PROVE ApplyInline(ApplyInline(t, m), m).value = value
  BY DEF InlineMarksToggle
<1>1. value \in Seq(S)
  <2>1. value \in Seq(Char) BY DEF TypeOK
  <2>2. \A k \in 1 .. Len(value) : value[k] \in Char BY <2>1
  <2>3. Char \subseteq S OBVIOUS
  <2>4. \A k \in 1 .. Len(value) : value[k] \in S BY <2>2, <2>3
  <2> HIDE DEF S
  <2> QED BY <2>1, <2>4
<1>2. m \in Seq(S)
  <2>1. \A c \in S : <<c>> \in Seq(S) /\ <<c, c>> \in Seq(S) OBVIOUS
  <2>2. {"*", "~", Tick, "^"} \subseteq S OBVIOUS
  <2>3. PICK c \in {"*", "~", Tick, "^"} : m = <<c>> \/ m = <<c, c>>
    BY DEF InlineMarkers
  <2> HIDE DEF S
  <2> QED BY <2>1, <2>2, <2>3
<1>3. cursor.start \in 0 .. Len(value) /\ cursor.end \in cursor.start .. Len(value)
  BY <1>1 DEF TypeOK, Selections
<1>4. ~IsBlank(Cut(value, cursor.start, cursor.end)) BY <1>1, <1>3 DEF Slice, Cut
<1> HIDE DEF S
<1> QED BY <1>1, <1>2, <1>3, <1>4, InlineComesOff

(***************************************************************************)
(* Editor: the marks of lines                                              *)
(*                                                                         *)
(* split and join are recursive functions; each is shown to be defined by  *)
(* building it from the end of the text, and every law of theirs by the    *)
(* smallest counterexample there would be.                                 *)
(***************************************************************************)

\* f follows a step: the value at i is the base there, or the head there and the
\* value at the next place.
Follows(f, a, n, next, base, head) ==
  f = [i \in a .. n |-> IF next[i] = 0 THEN base[i] ELSE head[i] \o f[next[i]]]

\* The recursion behind split and join is well-defined: the value at i is built
\* from the value at a later place.
LEMMA Recursion ==
  ASSUME NEW a \in Nat, NEW n \in Nat, NEW next, NEW base, NEW head, a <= n + 1,
         \A i \in a .. n : next[i] = 0 \/ next[i] \in (i + 1) .. n
  PROVE \E f : Follows(f, a, n, next, base, head)
<1> DEFINE Def(f, d) ==
             f = [i \in (n - d) .. n |-> IF next[i] = 0 THEN base[i] ELSE head[i] \o f[next[i]]]
           T == {d \in Nat : d <= n - a /\ ~\E f : Def(f, d)}
<1>1. T = {}
  <2> SUFFICES ASSUME T # {} PROVE FALSE
    OBVIOUS
  <2>1. T \in SUBSET Nat OBVIOUS
  <2>2. PICK d \in T : \A y \in T : d <= y
    <3> HIDE DEF T
    <3> QED BY <2>1, Smallest
  <2>3. d \in Nat /\ d <= n - a /\ ~\E f : Def(f, d) BY <2>2
  <2>4. \E g : \A i \in (n - d + 1) .. n :
          g[i] = IF next[i] = 0 THEN base[i] ELSE head[i] \o g[next[i]]
    <3>1. CASE d = 0 BY <3>1
    <3>2. CASE d # 0
      <4>1. d - 1 \in Nat /\ d - 1 <= n - a BY <2>3, <3>2
      <4>2. d - 1 \notin T
        <5> HIDE DEF T
        <5> QED BY <2>2, <2>3
      <4>3. \E g : Def(g, d - 1)
        <5> HIDE DEF Def
        <5> QED BY <4>1, <4>2
      <4>4. n - (d - 1) = n - d + 1 BY <2>3
      <4> QED BY <4>3, <4>4
    <3> QED BY <3>1, <3>2
  <2>5. PICK g : \A i \in (n - d + 1) .. n :
          g[i] = IF next[i] = 0 THEN base[i] ELSE head[i] \o g[next[i]]
    BY <2>4
  <2> DEFINE f == [i \in (n - d) .. n |-> IF next[i] = 0 THEN base[i] ELSE head[i] \o g[next[i]]]
  <2>6. \A i \in (n - d + 1) .. n : f[i] = g[i] BY <2>3, <2>5
  <2>7. \A i \in (n - d) .. n : next[i] # 0 => next[i] \in (n - d + 1) .. n BY <2>3
  <2>8. \A i \in (n - d) .. n : next[i] # 0 => f[next[i]] = g[next[i]] BY <2>6, <2>7
  <2>9. Def(f, d) BY <2>8
  <2> QED BY <2>3, <2>9
<1> USE DEF Follows
<1>2. CASE a = n + 1
  <2>1. a .. n = {} BY <1>2
  <2> QED BY <2>1
<1>3. CASE a # n + 1
  <2>1. n - a \in Nat BY <1>3
  <2>2. n - a \notin T
    <3> HIDE DEF T
    <3> QED BY <1>1
  <2>4. \E f : Def(f, n - a)
    <3> HIDE DEF Def
    <3> QED BY <2>1, <2>2
  <2>3. n - (n - a) = a OBVIOUS
  <2> QED BY <2>4, <2>3
<1> QED BY <1>2, <1>3

\* n is the place of the first, or the last, line break, 0 for none.
FirstAt(v, n) ==
  /\ n \in 0 .. Len(v)
  /\ n > 0 => v[n] = Newline
  /\ \A i \in 1 .. Len(v) : v[i] = Newline => n > 0 /\ n <= i

\* The same of its last one.
LastAt(v, n) ==
  /\ n \in 0 .. Len(v)
  /\ n > 0 => v[n] = Newline
  /\ \A i \in 1 .. Len(v) : v[i] = Newline => n >= i

\* FirstBreak finds the first.
LEMMA FirstLaw ==
  ASSUME NEW S, NEW v \in Seq(S)
  PROVE /\ FirstAt(v, FirstBreak(v))
        /\ \A n : FirstAt(v, n) => n = FirstBreak(v)
<1> DEFINE I == {i \in 1 .. Len(v) : v[i] = Newline}
<1>0. Len(v) \in Nat OBVIOUS
<1>1. FirstBreak(v) = IF I # {} THEN Min(I) ELSE 0
  BY DEF FirstBreak, SelectInSeq
<1>2. FirstAt(v, FirstBreak(v))
  <2>1. CASE I = {} BY <1>0, <1>1, <2>1 DEF FirstAt
  <2>2. CASE I # {}
    <3>1. I \in SUBSET Nat OBVIOUS
    <3>2. \E x \in I : \A y \in I : x <= y
      <4> HIDE DEF I
      <4> QED BY <3>1, <2>2, Smallest
    <3>3. Min(I) \in I /\ \A y \in I : Min(I) <= y
      BY <3>2 DEF Min
    <3>4. PICK k : k = Min(I) OBVIOUS
    <3>5. k \in 1 .. Len(v) /\ v[k] = Newline BY <3>3, <3>4
    <3>6. \A y \in I : k <= y BY <3>3, <3>4
    <3>7. FirstBreak(v) = k BY <1>1, <2>2, <3>4
    <3> QED BY <1>0, <3>5, <3>6, <3>7 DEF FirstAt
  <2> QED BY <2>1, <2>2
<1>3. ASSUME NEW n, NEW p, FirstAt(v, n), FirstAt(v, p) PROVE n = p
  BY <1>0, <1>3 DEF FirstAt
<1> QED BY <1>2, <1>3

\* LastBreak finds the last.
LEMMA LastLaw ==
  ASSUME NEW S, NEW v \in Seq(S)
  PROVE /\ LastAt(v, LastBreak(v))
        /\ \A n : LastAt(v, n) => n = LastBreak(v)
<1> DEFINE I == {i \in 1 .. Len(v) : v[i] = Newline}
<1>0. Len(v) \in Nat OBVIOUS
<1>1. LastBreak(v) = IF I # {} THEN Max(I) ELSE 0
  BY DEF LastBreak, SelectLastInSeq
<1>2. LastAt(v, LastBreak(v))
  <2>1. CASE I = {} BY <1>0, <1>1, <2>1 DEF LastAt
  <2>2. CASE I # {}
    <3>1. I \in SUBSET (1 .. Len(v)) OBVIOUS
    <3>2. \E x \in I : \A y \in I : x >= y
      <4> HIDE DEF I
      <4> QED BY <1>0, <3>1, <2>2, Greatest
    <3>3. Max(I) \in I /\ \A y \in I : Max(I) >= y
      BY <3>2 DEF Max
    <3>4. PICK k : k = Max(I) OBVIOUS
    <3>5. k \in 1 .. Len(v) /\ v[k] = Newline BY <3>3, <3>4
    <3>6. \A y \in I : k >= y BY <3>3, <3>4
    <3>7. LastBreak(v) = k BY <1>1, <2>2, <3>4
    <3> QED BY <1>0, <3>5, <3>6, <3>7 DEF LastAt
  <2> QED BY <2>1, <2>2
<1>3. ASSUME NEW n, NEW p, LastAt(v, n), LastAt(v, p) PROVE n = p
  BY <1>0, <1>3 DEF LastAt
<1> QED BY <1>2, <1>3

\* A text cut at offset 0 is the text; the rest of the rest.
LEMMA RestAll == ASSUME NEW S, NEW v \in Seq(S) PROVE Rest(v, 0) = v
<1>1. 0 \in 0 .. Len(v) OBVIOUS
<1>2. Rest(v, 0) \in Seq(S) /\ Len(Rest(v, 0)) = Len(v) /\ \A k \in 1 .. Len(v) : Rest(v, 0)[k] = v[k]
  BY <1>1, RestLaw
<1> QED BY <1>2, SeqEqual

\* The rest of a rest is a rest.
LEMMA RestOfRest ==
  ASSUME NEW S, NEW v \in Seq(S), NEW i \in 0 .. Len(v), NEW j \in 0 .. (Len(v) - i)
  PROVE Rest(Rest(v, i), j) = Rest(v, i + j)
<1> DEFINE w == Rest(v, i)
           x == Rest(w, j)
           y == Rest(v, i + j)
<1>0. Len(v) \in Nat /\ i \in Nat /\ j \in Nat /\ i + j \in 0 .. Len(v) OBVIOUS
<1>1. w \in Seq(S) /\ Len(w) = Len(v) - i /\ \A k \in 1 .. (Len(v) - i) : w[k] = v[i + k] BY RestLaw
<1>2. y \in Seq(S) /\ Len(y) = Len(v) - (i + j) /\ \A k \in 1 .. (Len(v) - (i + j)) : y[k] = v[(i + j) + k]
  BY <1>0, RestLaw
<1> HIDE DEF w, y
<1>w. w \in Seq(S) /\ j \in 0 .. Len(w) BY <1>0, <1>1
<1>3. x \in Seq(S) /\ Len(x) = Len(w) - j /\ \A k \in 1 .. (Len(w) - j) : x[k] = w[j + k]
  BY ONLY <1>w, RestLaw
<1> HIDE DEF x
<1>e. Len(x) = Len(y) BY <1>0, <1>1, <1>2, <1>3
<1>4. ASSUME NEW k \in 1 .. Len(x) PROVE x[k] = y[k]
  <2>1. /\ k \in 1 .. (Len(w) - j) /\ j + k \in 1 .. (Len(v) - i)
        /\ k \in 1 .. (Len(v) - (i + j)) /\ i + (j + k) = (i + j) + k
    BY <1>0, <1>1, <1>3
  <2>2. x[k] = w[j + k] BY <1>3, <2>1
  <2>3. w[j + k] = v[i + (j + k)] BY <1>1, <2>1
  <2>4. y[k] = v[(i + j) + k] BY <1>2, <2>1
  <2> QED BY <2>1, <2>2, <2>3, <2>4
<1>5. x = y BY <1>2, <1>3, <1>4, <1>e, SeqEqual
<1> QED BY <1>5 DEF w, x, y

\* f holds what split makes of a text from each offset on; of a sequence of
\* lines, what join makes of it from each line on.
LinesFrom(v, f) ==
  f = [i \in 0 .. Len(v) |->
         LET rest == Rest(v, i)
             k == FirstBreak(rest)
         IN IF k = 0 THEN <<rest>> ELSE <<Cut(rest, 0, k - 1)>> \o f[i + k]]

\* f is what join computes, from each of the lines on.
TextFrom(ls, f) ==
  f = [i \in DOMAIN ls |->
         IF i = Len(ls) THEN ls[i] ELSE ls[i] \o <<Newline>> \o f[i + 1]]

\* There is such an f, and split takes its first value.
LEMMA LinesDef ==
  ASSUME NEW S, NEW v \in Seq(S)
  PROVE \E f : LinesFrom(v, f) /\ SplitLines(v) = f[0]
<1> DEFINE n == Len(v)
           at == [i \in 0 .. n |-> FirstBreak(Rest(v, i))]
           next == [i \in 0 .. n |-> IF at[i] = 0 THEN 0 ELSE i + at[i]]
           base == [i \in 0 .. n |-> <<Rest(v, i)>>]
           head == [i \in 0 .. n |-> <<Cut(Rest(v, i), 0, at[i] - 1)>>]
           from == CHOOSE f : LinesFrom(v, f)
<1>1. n \in Nat /\ 0 \in Nat /\ 0 <= n + 1 OBVIOUS
<1>2. \A i \in 0 .. n : at[i] \in 0 .. (n - i)
  <2>1. ASSUME NEW i \in 0 .. n PROVE FirstBreak(Rest(v, i)) \in 0 .. (n - i)
    <3>1. Rest(v, i) \in Seq(S) /\ Len(Rest(v, i)) = n - i BY RestLaw
    <3>2. FirstAt(Rest(v, i), FirstBreak(Rest(v, i))) BY <3>1, FirstLaw
    <3> QED BY <3>1, <3>2 DEF FirstAt
  <2> QED BY <2>1
<1>3. \A i \in 0 .. n : next[i] = 0 \/ next[i] \in (i + 1) .. n
  <2> HIDE DEF at
  <2> QED BY <1>1, <1>2
<1>4. \E f : Follows(f, 0, n, next, base, head)
  <2> HIDE DEF n, next, base, head
  <2> QED BY <1>1, <1>3, Recursion, Zenon
<1>5. \E f : LinesFrom(v, f)
  <2>1. PICK f : f = [i \in 0 .. n |-> IF next[i] = 0 THEN base[i] ELSE head[i] \o f[next[i]]]
    BY <1>4 DEF Follows
  <2>2. \A i \in 0 .. n : (next[i] = 0) <=> (at[i] = 0)
    <3> HIDE DEF at
    <3> QED BY <1>1, <1>2
  <2>3. \A i \in 0 .. n : at[i] # 0 => next[i] = i + at[i] OBVIOUS
  <2>4. \A i \in 0 .. n :
          (IF next[i] = 0 THEN base[i] ELSE head[i] \o f[next[i]])
            = IF FirstBreak(Rest(v, i)) = 0 THEN <<Rest(v, i)>>
              ELSE <<Cut(Rest(v, i), 0, FirstBreak(Rest(v, i)) - 1)>> \o f[i + FirstBreak(Rest(v, i))]
    BY <2>2, <2>3
  <2>5. f = [i \in 0 .. n |->
               IF FirstBreak(Rest(v, i)) = 0 THEN <<Rest(v, i)>>
               ELSE <<Cut(Rest(v, i), 0, FirstBreak(Rest(v, i)) - 1)>> \o f[i + FirstBreak(Rest(v, i))]]
    <3> HIDE DEF next, base, head
    <3> QED BY <2>1, <2>4
  <2> QED BY <2>5 DEF LinesFrom
<1>6. SplitLines(v) = from[0] BY DEF SplitLines, LinesFrom
<1>7. LinesFrom(v, from)
  <2> HIDE DEF LinesFrom
  <2> QED BY <1>5, Zenon
<1> HIDE DEF from
<1> QED BY <1>6, <1>7

\* What it makes of the rest of a text does not depend on where the rest is.
LEMMA LinesShift ==
  ASSUME NEW S, NEW v \in Seq(S), NEW i \in 0 .. Len(v), NEW f, LinesFrom(v, f),
         NEW g, LinesFrom(Rest(v, i), g)
  PROVE \A k \in 0 .. (Len(v) - i) : g[k] = f[i + k]
<1> DEFINE w == Rest(v, i)
           n == Len(v) - i
           T == {d \in Nat : \E k \in 0 .. n : d = n - k /\ g[k] # f[i + k]}
<1>1. w \in Seq(S) /\ Len(w) = n /\ n \in Nat BY RestLaw
<1>2. T = {}
  <2> SUFFICES ASSUME T # {} PROVE FALSE
    OBVIOUS
  <2>1. T \in SUBSET Nat OBVIOUS
  <2>2. PICK d \in T : \A y \in T : d <= y
    <3> HIDE DEF T
    <3> QED BY <2>1, Smallest
  <2>3. PICK k \in 0 .. n : d = n - k /\ g[k] # f[i + k] BY <2>2
  <2>4. Rest(w, k) = Rest(v, i + k) BY RestOfRest
  <2>5. PICK r, m : r = Rest(w, k) /\ m = FirstBreak(r) OBVIOUS
  <2>6. k \in 0 .. Len(w) /\ i + k \in 0 .. Len(v) /\ Len(w) = n /\ n = Len(v) - i BY <1>1
  <2>7. r \in Seq(S) /\ Len(r) = n - k BY <1>1, <2>5, <2>6, RestLaw
  <2>8. m \in 0 .. (n - k) BY <2>5, <2>7, FirstLaw DEF FirstAt
  <2>9. g[k] = IF m = 0 THEN <<r>> ELSE <<Cut(r, 0, m - 1)>> \o g[k + m]
    <3> HIDE DEF n, T
    <3> QED BY <2>5, <2>6 DEF LinesFrom
  <2>10. f[i + k] = IF m = 0 THEN <<r>> ELSE <<Cut(r, 0, m - 1)>> \o f[i + k + m]
    <3>1. f = [j \in 0 .. Len(v) |-> IF FirstBreak(Rest(v, j)) = 0 THEN <<Rest(v, j)>>
               ELSE <<Cut(Rest(v, j), 0, FirstBreak(Rest(v, j)) - 1)>> \o f[j + FirstBreak(Rest(v, j))]]
      BY DEF LinesFrom
    <3> HIDE DEF w, n, T
    <3> QED BY <2>4, <2>5, <2>6, <3>1
  <2>11. CASE m = 0 BY <2>3, <2>9, <2>10, <2>11
  <2>12. CASE m # 0
    <3>1. k + m \in 0 .. n /\ n - (k + m) \in Nat /\ n - (k + m) < d
      BY <1>1, <2>3, <2>8, <2>12
    <3>2. n - (k + m) \notin T
      <4> HIDE DEF T
      <4> QED BY <2>1, <2>2, <3>1
    <3>3. g[k + m] = f[i + (k + m)] BY <3>1, <3>2
    <3>4. i + (k + m) = i + k + m BY <2>8, <2>6
    <3> QED BY <2>3, <2>9, <2>10, <2>12, <3>3, <3>4
  <2> QED BY <2>11, <2>12
<1>3. \A k \in 0 .. n : n - k \in Nat BY <1>1
<1>4. ASSUME NEW k \in 0 .. n PROVE g[k] = f[i + k]
  <2>1. n - k \notin T
    <3> HIDE DEF T
    <3> QED BY <1>2
  <2> QED BY <1>3, <2>1
<1> QED BY <1>4

\* split, one line at a time.
LEMMA LinesStep ==
  ASSUME NEW S, NEW v \in Seq(S)
  PROVE /\ FirstBreak(v) \in 0 .. Len(v)
        /\ FirstBreak(v) = 0 => SplitLines(v) = <<v>>
        /\ FirstBreak(v) # 0 =>
             SplitLines(v) = <<Cut(v, 0, FirstBreak(v) - 1)>> \o SplitLines(Rest(v, FirstBreak(v)))
<1>1. PICK k : k = FirstBreak(v) OBVIOUS
<1>2. k \in 0 .. Len(v) BY <1>1, FirstLaw DEF FirstAt
<1>3. PICK f : LinesFrom(v, f) /\ SplitLines(v) = f[0] BY LinesDef
<1>4. Rest(v, 0) = v BY RestAll
<1>5. 0 \in 0 .. Len(v) OBVIOUS
<1>6. f[0] = IF k = 0 THEN <<v>> ELSE <<Cut(v, 0, k - 1)>> \o f[0 + k]
  <2>1. f[0] = IF FirstBreak(Rest(v, 0)) = 0 THEN <<Rest(v, 0)>>
               ELSE <<Cut(Rest(v, 0), 0, FirstBreak(Rest(v, 0)) - 1)>> \o f[0 + FirstBreak(Rest(v, 0))]
    BY <1>3, <1>5 DEF LinesFrom
  <2> QED BY <1>1, <1>4, <2>1
<1>7. Rest(v, k) \in Seq(S) BY <1>2, RestLaw
<1>8. PICK g : LinesFrom(Rest(v, k), g) /\ SplitLines(Rest(v, k)) = g[0] BY <1>7, LinesDef
<1>9. g[0] = f[k + 0]
  <2>1. 0 \in 0 .. (Len(v) - k) BY <1>2
  <2>2. \A j \in 0 .. (Len(v) - k) : g[j] = f[k + j] BY <1>2, <1>3, <1>8, LinesShift
  <2> QED BY <2>1, <2>2
<1>10. k + 0 = k /\ 0 + k = k BY <1>2
<1> QED BY <1>1, <1>2, <1>3, <1>6, <1>8, <1>9, <1>10

\* The same of join.
LEMMA TextDef ==
  ASSUME NEW S, NEW ls \in Seq(S)
  PROVE \E f : TextFrom(ls, f) /\ JoinLines(ls) = f[1]
<1> DEFINE n == Len(ls)
           next == [i \in 1 .. n |-> IF i = n THEN 0 ELSE i + 1]
           base == [i \in 1 .. n |-> ls[i]]
           head == [i \in 1 .. n |-> ls[i] \o <<Newline>>]
           from == CHOOSE f : TextFrom(ls, f)
<1>1. n \in Nat /\ 1 \in Nat /\ 1 <= n + 1 /\ DOMAIN ls = 1 .. n OBVIOUS
<1>d. \A i \in 1 .. n : next[i] = IF i = n THEN 0 ELSE i + 1 OBVIOUS
<1>2. \A i \in 1 .. n : next[i] = 0 \/ next[i] \in (i + 1) .. n
  <2> HIDE DEF n, next
  <2> QED BY <1>1, <1>d
<1>3. \E f : Follows(f, 1, n, next, base, head)
  <2> HIDE DEF n, next, base, head
  <2> QED BY <1>1, <1>2, Recursion
<1>4. \E f : TextFrom(ls, f)
  <2>1. PICK f : f = [i \in 1 .. n |-> IF next[i] = 0 THEN base[i] ELSE head[i] \o f[next[i]]]
    BY <1>3 DEF Follows
  <2>2. \A i \in 1 .. n : (next[i] = 0) <=> (i = n)
    <3> HIDE DEF n, next
    <3> QED BY <1>1, <1>d
  <2>3. \A i \in 1 .. n : i # n => next[i] = i + 1 OBVIOUS
  <2>4. \A i \in 1 .. n : (IF next[i] = 0 THEN base[i] ELSE head[i] \o f[next[i]])
                           = IF i = n THEN ls[i] ELSE ls[i] \o <<Newline>> \o f[i + 1]
    BY <2>2, <2>3
  <2>5. f = [i \in 1 .. n |-> IF i = n THEN ls[i] ELSE ls[i] \o <<Newline>> \o f[i + 1]]
    <3> HIDE DEF next, base, head
    <3> QED BY <2>1, <2>4
  <2> QED BY <1>1, <2>5 DEF TextFrom
<1>5. JoinLines(ls) = from[1] BY DEF JoinLines, TextFrom
<1>6. TextFrom(ls, from)
  <2> HIDE DEF TextFrom
  <2> QED BY <1>4, Zenon
<1> HIDE DEF from
<1> QED BY <1>5, <1>6

\* What it makes of the rest of the lines does not depend on where the rest is.
LEMMA TextShift ==
  ASSUME NEW S, NEW ls \in Seq(S), NEW i \in 0 .. Len(ls), NEW f, TextFrom(ls, f),
         NEW g, TextFrom(Rest(ls, i), g)
  PROVE \A k \in 1 .. (Len(ls) - i) : g[k] = f[i + k]
<1> DEFINE w == Rest(ls, i)
           n == Len(ls) - i
           T == {d \in Nat : \E k \in 1 .. n : d = n - k /\ g[k] # f[i + k]}
<1>1. w \in Seq(S) /\ Len(w) = n /\ n \in Nat /\ \A k \in 1 .. n : w[k] = ls[i + k] BY RestLaw
<1>2. T = {}
  <2> SUFFICES ASSUME T # {} PROVE FALSE
    OBVIOUS
  <2>1. T \in SUBSET Nat OBVIOUS
  <2>2. PICK d \in T : \A y \in T : d <= y
    <3> HIDE DEF T
    <3> QED BY <2>1, Smallest
  <2>3. PICK k \in 1 .. n : d = n - k /\ g[k] # f[i + k] BY <2>2
  <2>4. k \in 1 .. Len(w) /\ i + k \in 1 .. Len(ls) /\ (k = Len(w) <=> i + k = Len(ls)) BY <1>1
  <2>5. g[k] = IF k = Len(w) THEN w[k] ELSE w[k] \o <<Newline>> \o g[k + 1]
    <3>1. DOMAIN w = 1 .. Len(w) BY <1>1
    <3> HIDE DEF n, T, w
    <3>2. TextFrom(w, g) BY DEF w
    <3> QED BY <2>4, <3>1, <3>2 DEF TextFrom
  <2>6. f[i + k] = IF i + k = Len(ls) THEN ls[i + k] ELSE ls[i + k] \o <<Newline>> \o f[i + k + 1]
    <3>1. DOMAIN ls = 1 .. Len(ls) OBVIOUS
    <3> HIDE DEF n, T, w
    <3> QED BY <2>4, <3>1 DEF TextFrom
  <2>7. w[k] = ls[i + k] BY <1>1
  <2>8. CASE k = Len(w)
    <3> HIDE DEF n, T, w
    <3> QED BY <2>3, <2>4, <2>5, <2>6, <2>7, <2>8
  <2>9. CASE k # Len(w)
    <3>1. k + 1 \in 1 .. n /\ n - (k + 1) \in Nat /\ n - (k + 1) < d
      BY <1>1, <2>3, <2>9
    <3>2. n - (k + 1) \notin T
      <4> HIDE DEF T
      <4> QED BY <2>1, <2>2, <3>1
    <3>3. g[k + 1] = f[i + (k + 1)] BY <3>1, <3>2
    <3>4. i + (k + 1) = i + k + 1 BY <2>4
    <3> HIDE DEF n, T, w
    <3> QED BY <2>3, <2>4, <2>5, <2>6, <2>7, <2>9, <3>3, <3>4
  <2> QED BY <2>8, <2>9
<1>3. \A k \in 1 .. n : n - k \in Nat BY <1>1
<1>4. ASSUME NEW k \in 1 .. n PROVE g[k] = f[i + k]
  <2>1. n - k \notin T
    <3> HIDE DEF T
    <3> QED BY <1>2
  <2> QED BY <1>3, <2>1
<1> QED BY <1>4

\* join, one line at a time.
LEMMA JoinStep ==
  ASSUME NEW S, NEW ls \in Seq(S), Len(ls) > 0
  PROVE /\ Len(ls) = 1 => JoinLines(ls) = ls[1]
        /\ Len(ls) > 1 => JoinLines(ls) = ls[1] \o <<Newline>> \o JoinLines(Rest(ls, 1))
<1>1. PICK f : TextFrom(ls, f) /\ JoinLines(ls) = f[1] BY TextDef
<1>2. Len(ls) \in Nat /\ 1 \in DOMAIN ls OBVIOUS
<1>3. f[1] = IF 1 = Len(ls) THEN ls[1] ELSE ls[1] \o <<Newline>> \o f[1 + 1]
  BY <1>1, <1>2 DEF TextFrom
<1>4. ASSUME Len(ls) > 1 PROVE JoinLines(Rest(ls, 1)) = f[1 + 1]
  <2>1. 1 \in 0 .. Len(ls) /\ 1 \in 1 .. (Len(ls) - 1) BY <1>2, <1>4
  <2>2. Rest(ls, 1) \in Seq(S) BY <2>1, RestLaw
  <2>3. PICK g : TextFrom(Rest(ls, 1), g) /\ JoinLines(Rest(ls, 1)) = g[1] BY <2>2, TextDef
  <2>4. \A k \in 1 .. (Len(ls) - 1) : g[k] = f[1 + k] BY <1>1, <2>1, <2>3, TextShift
  <2> QED BY <2>1, <2>3, <2>4
<1>5. ASSUME Len(ls) = 1 PROVE JoinLines(ls) = ls[1] BY <1>1, <1>3, <1>5
<1>6. ASSUME Len(ls) > 1 PROVE JoinLines(ls) = ls[1] \o <<Newline>> \o JoinLines(Rest(ls, 1))
  <2>1. f[1] = ls[1] \o <<Newline>> \o f[1 + 1]
    <3>1. PICK n : n = Len(ls) OBVIOUS
    <3>2. n \in Nat /\ n > 1 BY <1>2, <1>6, <3>1
    <3>3. ~(1 = n) BY ONLY <3>2
    <3> QED BY <1>3, <3>1, <3>3, Zenon
  <2> QED BY <1>1, <1>4, <1>6, <2>1, Zenon
<1> QED BY <1>5, <1>6

\* A line has no line break in it; lines of a text over S.
OneLine(l) == \A k \in 1 .. Len(l) : l[k] # Newline

\* A sequence of such lines, at least one.
AllLines(S, ls) == ls \in Seq(Seq(S)) /\ Len(ls) > 0 /\ \A i \in 1 .. Len(ls) : OneLine(ls[i])

\* The first of two sequences in a row, when it has one element, and the rest.
LEMMA FirstAndRest ==
  ASSUME NEW S, NEW x \in S, NEW ls \in Seq(S)
  PROVE /\ <<x>> \o ls \in Seq(S) /\ Len(<<x>> \o ls) = 1 + Len(ls)
        /\ (<<x>> \o ls)[1] = x /\ Rest(<<x>> \o ls, 1) = ls
        /\ \A i \in 2 .. (1 + Len(ls)) : (<<x>> \o ls)[i] = ls[i - 1]
<1> DEFINE y == <<x>> \o ls
           z == Rest(y, 1)
<1>1. <<x>> \in Seq(S) /\ Len(<<x>>) = 1 /\ Len(ls) \in Nat OBVIOUS
<1>2. y \in Seq(S) /\ Len(y) = 1 + Len(ls) /\ y[1] = x
  OBVIOUS
<1>3. \A k \in 1 .. Len(ls) : y[1 + k] = ls[k] OBVIOUS
<1>4. \A i \in 2 .. (1 + Len(ls)) : y[i] = ls[i - 1] OBVIOUS
<1> HIDE DEF y
<1>5. z \in Seq(S) /\ Len(z) = Len(y) - 1 /\ \A k \in 1 .. (Len(y) - 1) : z[k] = y[1 + k]
  <2>1. 1 \in 0 .. Len(y) BY <1>1, <1>2
  <2> QED BY <1>2, <2>1, RestLaw
<1> HIDE DEF z
<1>6. z = ls
  <2>1. Len(z) = Len(ls) /\ \A k \in 1 .. Len(z) : z[k] = ls[k] BY <1>1, <1>2, <1>3, <1>5
  <2> QED BY <1>5, <2>1, SeqEqual
<1> QED BY <1>2, <1>4, <1>6 DEF y, z

\* The lines of a text are lines, and joined they are the text.
LEMMA SplitLaw ==
  ASSUME NEW S, NEW v \in Seq(S)
  PROVE AllLines(S, SplitLines(v)) /\ JoinLines(SplitLines(v)) = v
<1> DEFINE Good(w) == AllLines(S, SplitLines(w)) /\ JoinLines(SplitLines(w)) = w
           T == {d \in Nat : \E w \in Seq(S) : Len(w) = d /\ ~Good(w)}
<1>1. T = {}
  <2> SUFFICES ASSUME T # {} PROVE FALSE
    OBVIOUS
  <2>1. T \in SUBSET Nat OBVIOUS
  <2>2. PICK d \in T : \A y \in T : d <= y
    <3> HIDE DEF T
    <3> QED BY <2>1, Smallest
  <2>3. PICK w \in Seq(S) : Len(w) = d /\ ~Good(w) BY <2>2
  <2>4. PICK k : k = FirstBreak(w) OBVIOUS
  <2>5. FirstAt(w, k) BY <2>4, FirstLaw
  <2>6. /\ k \in 0 .. Len(w)
        /\ k = 0 => SplitLines(w) = <<w>>
        /\ k # 0 => SplitLines(w) = <<Cut(w, 0, k - 1)>> \o SplitLines(Rest(w, k))
    BY <2>4, LinesStep
  <2> HIDE DEF T, Good
  <2>7. CASE k = 0
    <3>1. SplitLines(w) = <<w>> BY <2>6, <2>7
    <3>2. OneLine(w) BY <2>5, <2>7 DEF FirstAt, OneLine
    <3>3. <<w>> \in Seq(Seq(S)) /\ Len(<<w>>) = 1 /\ <<w>>[1] = w OBVIOUS
    <3>4. AllLines(S, <<w>>) BY <3>2, <3>3 DEF AllLines
    <3>5. JoinLines(<<w>>) = w
      <4> DEFINE y == <<w>>
      <4>1. y \in Seq(Seq(S)) /\ Len(y) = 1 /\ Len(y) > 0 /\ y[1] = w BY <3>3
      <4> HIDE DEF y
      <4>2. JoinLines(y) = y[1] BY <4>1, JoinStep
      <4> QED BY <4>1, <4>2 DEF y
    <3> QED BY <2>3, <3>1, <3>4, <3>5 DEF Good
  <2>8. CASE k # 0
    <3> DEFINE x == Cut(w, 0, k - 1)
               r == Rest(w, k)
               ms == SplitLines(r)
               ls == <<x>> \o ms
    <3>0. k \in 1 .. Len(w) /\ Len(w) \in Nat BY <2>6, <2>8
    <3>1. x \in Seq(S) /\ Len(x) = k - 1 /\ \A j \in 1 .. (k - 1) : x[j] = w[j]
      <4>1. 0 \in 0 .. Len(w) /\ k - 1 \in 0 .. Len(w) /\ (k - 1) - 0 = k - 1 BY <3>0
      <4>2. w \in Seq(S) OBVIOUS
      <4>3. /\ Cut(w, 0, k - 1) \in Seq(S) /\ Len(Cut(w, 0, k - 1)) = (k - 1) - 0
            /\ \A j \in 1 .. ((k - 1) - 0) : Cut(w, 0, k - 1)[j] = w[0 + j]
        BY ONLY <4>1, <4>2, CutLaw
      <4> QED BY <3>0, <4>3
    <3>2. r \in Seq(S) /\ Len(r) = Len(w) - k /\ \A j \in 1 .. (Len(w) - k) : r[j] = w[k + j]
      BY <3>0, RestLaw
    <3> HIDE DEF x, r
    <3>3. Good(r)
      <4>1. Len(r) \in Nat /\ Len(r) < d BY <3>0, <3>2, <2>3
      <4>2. Len(r) \notin T BY <2>1, <2>2, <2>3, <4>1
      <4> QED BY <3>2, <4>1, <4>2 DEF T
    <3>4. ms \in Seq(Seq(S)) /\ Len(ms) > 0 /\ Len(ms) \in Nat
      BY <3>3 DEF Good, AllLines
    <3>5. \A i \in 1 .. Len(ms) : OneLine(ms[i]) BY <3>3 DEF Good, AllLines
    <3>6. JoinLines(ms) = r BY <3>3 DEF Good
    <3> HIDE DEF ms
    <3>7. /\ ls \in Seq(Seq(S)) /\ Len(ls) = 1 + Len(ms) /\ ls[1] = x /\ Rest(ls, 1) = ms
          /\ \A i \in 2 .. (1 + Len(ms)) : ls[i] = ms[i - 1]
      BY <3>1, <3>4, FirstAndRest
    <3> HIDE DEF ls
    <3>8. OneLine(x) BY <2>5, <3>0, <3>1 DEF FirstAt, OneLine
    <3>9. AllLines(S, ls)
      <4>1. ASSUME NEW i \in 1 .. Len(ls) PROVE OneLine(ls[i])
        <5>1. CASE i = 1 BY <3>7, <3>8, <5>1
        <5>2. CASE i # 1
          <6>1. i \in 2 .. (1 + Len(ms)) /\ i - 1 \in 1 .. Len(ms) BY <3>4, <3>7, <5>2
          <6> QED BY <3>5, <3>7, <6>1
        <5> QED BY <5>1, <5>2
      <4> QED BY <3>4, <3>7, <4>1 DEF AllLines
    <3>10. JoinLines(ls) = x \o <<Newline>> \o r
      <4>1. Len(ls) > 0 /\ Len(ls) > 1 BY <3>4, <3>7
      <4>2. JoinLines(ls) = ls[1] \o <<Newline>> \o JoinLines(Rest(ls, 1)) BY <3>7, <4>1, JoinStep
      <4> QED BY <3>6, <3>7, <4>2
    <3>11. x \o <<Newline>> \o r = w
      <4>1. w[k] = Newline /\ Newline \in S BY <2>5, <3>0 DEF FirstAt
      <4>2. <<Newline>> \in Seq(S) /\ Len(<<Newline>>) = 1 /\ <<Newline>>[1] = Newline BY <4>1
      <4>3. \A j \in (k + 1) .. Len(w) : j - k \in 1 .. (Len(w) - k) /\ k + (j - k) = j BY <3>0
      <4>4. \A j \in (k + 1) .. Len(w) : r[j - k] = w[j] BY <3>2, <4>3
      <4>5. \A j \in ((k - 1) + 1) .. k : j = k /\ j - (k - 1) = 1 BY <3>0
      <4>6. MadeOf(w, k - 1, k, x, <<Newline>>, r)
        BY <3>0, <3>1, <3>2, <4>1, <4>2, <4>4, <4>5 DEF MadeOf
      <4> DEFINE y == <<Newline>>
      <4> HIDE DEF y
      <4>7. y \in Seq(S) /\ MadeOf(w, k - 1, k, x, y, r) BY <4>2, <4>6 DEF y
      <4>8. x \o y \o r = w BY <3>1, <3>2, <4>7, ThreeMake
      <4> QED BY <4>8 DEF y
    <3>12. SplitLines(w) = ls BY <2>6, <2>8 DEF ls, ms, x, r
    <3> QED BY <2>3, <3>9, <3>10, <3>11, <3>12 DEF Good
  <2> QED BY <2>7, <2>8
<1>2. Len(v) \in Nat /\ Len(v) \notin T
  <2> HIDE DEF T
  <2> QED BY <1>1
<1>3. Good(v)
  <2> HIDE DEF Good
  <2> QED BY <1>2
<1> QED BY <1>3

\* The parts p, b, q in a row make up w; the second starts at i and ends at j.
InRow(w, i, j, p, b, q) == w = p \o b \o q /\ i = Len(p) /\ j = Len(p) + Len(b)

\* What the parts say of the whole, and where they are in it.
LEMMA ThreeParts ==
  ASSUME NEW S, NEW p \in Seq(S), NEW b \in Seq(S), NEW q \in Seq(S),
         NEW w, NEW i, NEW j, InRow(w, i, j, p, b, q)
  PROVE /\ w \in Seq(S) /\ Len(w) = j + Len(q) /\ i \in Nat /\ j \in i .. Len(w)
        /\ \A k \in 1 .. i : w[k] = p[k]
        /\ \A k \in 1 .. Len(b) : w[i + k] = b[k]
        /\ \A k \in 1 .. Len(q) : w[j + k] = q[k]
        /\ Cut(w, 0, i) = p /\ Cut(w, i, j) = b /\ Rest(w, j) = q
<1> DEFINE a == p \o b
<1>w. w = a \o q /\ i = Len(p) /\ j = Len(p) + Len(b) BY DEF InRow
<1>0. p \in Seq(S) /\ b \in Seq(S) /\ q \in Seq(S) /\ i \in Nat /\ Len(b) \in Nat /\ Len(q) \in Nat
  BY <1>w
<1>1. /\ a \in Seq(S) /\ Len(a) = Len(p) + Len(b)
      /\ \A k \in 1 .. Len(p) : a[k] = p[k]
      /\ \A k \in 1 .. Len(b) : a[Len(p) + k] = b[k]
  BY ONLY <1>0, JoinLaw
<1> HIDE DEF a
<1>a. a \in Seq(S) BY <1>1
<1>2. /\ w \in Seq(S) /\ Len(w) = Len(a) + Len(q)
      /\ \A k \in 1 .. Len(a) : w[k] = a[k]
      /\ \A k \in 1 .. Len(q) : w[Len(a) + k] = q[k]
  <2>1. /\ a \o q \in Seq(S) /\ Len(a \o q) = Len(a) + Len(q)
        /\ \A k \in 1 .. Len(a) : (a \o q)[k] = a[k]
        /\ \A k \in 1 .. Len(q) : (a \o q)[Len(a) + k] = q[k]
    BY ONLY <1>0, <1>a, JoinLaw
  <2> QED BY ONLY <2>1, <1>w
<1>3. Len(w) = j + Len(q) /\ j \in Nat /\ i <= j /\ j <= Len(w) BY <1>w, <1>0, <1>1, <1>2
<1>4. \A k \in 1 .. i : w[k] = p[k]
  <2>1. \A k \in 1 .. i : k \in 1 .. Len(a) BY <1>w, <1>0, <1>1
  <2> QED BY <1>w, <2>1, <1>1, <1>2
<1>5. \A k \in 1 .. Len(b) : w[i + k] = b[k]
  <2>1. \A k \in 1 .. Len(b) : i + k \in 1 .. Len(a) BY <1>w, <1>0, <1>1
  <2> QED BY <1>w, <2>1, <1>1, <1>2
<1>6. \A k \in 1 .. Len(q) : w[j + k] = q[k] BY <1>w, <1>1, <1>2
<1>7. Cut(w, 0, i) = p
  <2>1. 0 \in 0 .. Len(w) /\ i \in 0 .. Len(w) BY <1>0, <1>3
  <2>2. w \in Seq(S) BY <1>2
  <2>3. /\ Cut(w, 0, i) \in Seq(S) /\ Len(Cut(w, 0, i)) = i - 0
        /\ \A k \in 1 .. (i - 0) : Cut(w, 0, i)[k] = w[0 + k]
    BY ONLY <2>1, <2>2, CutLaw
  <2>4. \A k \in 1 .. i : Cut(w, 0, i)[k] = p[k] BY <1>0, <1>4, <2>3
  <2>5. Len(Cut(w, 0, i)) = Len(p) BY <1>w, <1>0, <2>3
  <2> QED BY <1>w, <1>0, <2>3, <2>4, <2>5, SeqEqual
<1>8. Cut(w, i, j) = b
  <2>1. i \in 0 .. Len(w) /\ j \in i .. Len(w) /\ j - i = Len(b) BY <1>w, <1>0, <1>3
  <2>2. w \in Seq(S) BY <1>2
  <2>3. /\ Cut(w, i, j) \in Seq(S) /\ Len(Cut(w, i, j)) = j - i
        /\ \A k \in 1 .. (j - i) : Cut(w, i, j)[k] = w[i + k]
    BY ONLY <2>1, <2>2, CutLaw
  <2>4. \A k \in 1 .. Len(b) : Cut(w, i, j)[k] = b[k] BY <1>5, <2>1, <2>3
  <2>5. Len(Cut(w, i, j)) = Len(b) BY <2>1, <2>3
  <2> QED BY <1>0, <2>3, <2>4, <2>5, SeqEqual
<1>9. Rest(w, j) = q
  <2>1. j \in 0 .. Len(w) /\ Len(w) - j = Len(q) BY <1>w, <1>0, <1>3
  <2>2. w \in Seq(S) BY <1>2
  <2>3. /\ Rest(w, j) \in Seq(S) /\ Len(Rest(w, j)) = Len(w) - j
        /\ \A k \in 1 .. (Len(w) - j) : Rest(w, j)[k] = w[j + k]
    BY ONLY <2>1, <2>2, RestLaw
  <2>4. \A k \in 1 .. Len(q) : Rest(w, j)[k] = q[k] BY <1>6, <2>1, <2>3
  <2>5. Len(Rest(w, j)) = Len(q) BY <2>1, <2>3
  <2> QED BY <1>0, <2>3, <2>4, <2>5, SeqEqual
<1>10. i \in Nat /\ j \in i .. Len(w)
  <2>1. Len(w) \in Nat BY <1>2
  <2> QED BY <1>w, <1>0, <1>3, <2>1
<1>11. w \in Seq(S) BY <1>2
<1> QED BY ONLY <1>3, <1>4, <1>5, <1>6, <1>7, <1>8, <1>9, <1>10, <1>11

\* A sequence of one element.
LEMMA Single == ASSUME NEW S, NEW ls \in Seq(S), Len(ls) = 1 PROVE ls = <<ls[1]>>
OBVIOUS

\* A sequence is its first element and the rest.
LEMMA Peel ==
  ASSUME NEW S, NEW ls \in Seq(S), Len(ls) > 0
  PROVE /\ ls[1] \in S /\ Rest(ls, 1) \in Seq(S) /\ Len(Rest(ls, 1)) = Len(ls) - 1
        /\ ls = <<ls[1]>> \o Rest(ls, 1)
        /\ \A i \in 1 .. (Len(ls) - 1) : Rest(ls, 1)[i] = ls[i + 1]
<1>0. Len(ls) \in Nat /\ 1 \in 0 .. Len(ls) /\ ls[1] \in S OBVIOUS
<1>1. PICK r : r = Rest(ls, 1) OBVIOUS
<1>2. r \in Seq(S) /\ Len(r) = Len(ls) - 1 /\ \A k \in 1 .. (Len(ls) - 1) : r[k] = ls[1 + k]
  BY <1>0, <1>1, RestLaw
<1>3. PICK y : y = <<ls[1]>> \o r OBVIOUS
<1>4. /\ y \in Seq(S) /\ Len(y) = 1 + Len(r) /\ y[1] = ls[1]
      /\ \A i \in 2 .. (1 + Len(r)) : y[i] = r[i - 1]
  BY <1>0, <1>2, <1>3, FirstAndRest
<1>5. ASSUME NEW i \in 1 .. Len(y) PROVE y[i] = ls[i]
  <2>1. CASE i = 1 BY <1>4, <2>1
  <2>2. CASE i # 1
    <3>1. i \in 2 .. (1 + Len(r)) /\ i - 1 \in 1 .. (Len(ls) - 1) /\ 1 + (i - 1) = i
      BY <1>0, <1>2, <1>4, <2>2
    <3>2. y[i] = r[i - 1] BY <1>4, <3>1
    <3>3. r[i - 1] = ls[1 + (i - 1)] BY <1>2, <3>1
    <3> QED BY <3>1, <3>2, <3>3
  <2> QED BY <2>1, <2>2
<1>6. Len(y) = Len(ls) BY <1>0, <1>2, <1>4
<1>7. y = ls BY <1>4, <1>5, <1>6, SeqEqual
<1>8. \A i \in 1 .. (Len(ls) - 1) : r[i] = ls[i + 1]
  <2>1. \A i \in 1 .. (Len(ls) - 1) : 1 + i = i + 1 BY <1>0
  <2> QED BY <1>2, <2>1
<1> QED BY <1>0, <1>1, <1>2, <1>3, <1>7, <1>8

\* Lines joined are a text, and split again are the lines.
LEMMA JoinedLaw ==
  ASSUME NEW S, Newline \in S, NEW ls, AllLines(S, ls)
  PROVE JoinLines(ls) \in Seq(S) /\ SplitLines(JoinLines(ls)) = ls
<1> DEFINE Good(ms) == JoinLines(ms) \in Seq(S) /\ SplitLines(JoinLines(ms)) = ms
           T == {d \in Nat : \E ms \in Seq(Seq(S)) : Len(ms) = d /\ AllLines(S, ms) /\ ~Good(ms)}
<1>1. T = {}
  <2> SUFFICES ASSUME T # {} PROVE FALSE
    OBVIOUS
  <2>1. T \in SUBSET Nat OBVIOUS
  <2>2. PICK d \in T : \A y \in T : d <= y
    <3> HIDE DEF T
    <3> QED BY <2>1, Smallest
  <2>3. PICK ms \in Seq(Seq(S)) : Len(ms) = d /\ AllLines(S, ms) /\ ~Good(ms)
    BY <2>2
  <2>4. /\ Len(ms) \in Nat /\ Len(ms) > 0 /\ \A i \in 1 .. Len(ms) : OneLine(ms[i])
    BY <2>3 DEF AllLines
  <2>l. PICK m : m = Len(ms) OBVIOUS
  <2>m. m \in Nat /\ m > 0 BY <2>4, <2>l
  <2> HIDE DEF T, Good
  <2>5. ms[1] \in Seq(S) /\ OneLine(ms[1]) BY <2>4
  <2>6. CASE Len(ms) = 1
    <3>1. JoinLines(ms) = ms[1] BY <2>4, <2>6, JoinStep
    <3>2. FirstAt(ms[1], 0) BY <2>5 DEF FirstAt, OneLine
    <3>3. FirstBreak(ms[1]) = 0 BY <2>5, <3>2, FirstLaw
    <3>4. SplitLines(ms[1]) = <<ms[1]>> BY <2>5, <3>3, LinesStep
    <3>5. ms = <<ms[1]>> BY <2>6, Single
    <3>6. SplitLines(JoinLines(ms)) = ms BY <3>1, <3>4, <3>5
    <3> QED BY <2>3, <2>5, <3>1, <3>6 DEF Good
  <2>7. CASE Len(ms) # 1
    <3> DEFINE l == ms[1]
               r == Rest(ms, 1)
               z == JoinLines(r)
               y == <<Newline>>
    <3>w. PICK w : w = l \o y \o z OBVIOUS
    <3>1. /\ r \in Seq(Seq(S)) /\ Len(r) = Len(ms) - 1 /\ ms = <<l>> \o r
          /\ \A i \in 1 .. (Len(ms) - 1) : r[i] = ms[i + 1]
      BY <2>4, Peel
    <3>2. JoinLines(ms) = w
      <4>1. m > 1 BY <2>7, <2>l, <2>m
      <4>2. Len(ms) > 1 BY <2>l, <4>1
      <4>3. JoinLines(ms) = l \o y \o z BY <2>4, <4>2, JoinStep
      <4> QED BY <3>w, <4>3
    <3>3. y \in Seq(S) /\ Len(y) = 1 /\ y[1] = Newline OBVIOUS
    <3>a. l \in Seq(S) /\ OneLine(l) BY <2>5
    <3> HIDE DEF l, r, y
    <3>4. AllLines(S, r)
      <4>1. Len(r) > 0 BY <2>4, <2>7, <3>1
      <4>2. ASSUME NEW i \in 1 .. Len(r) PROVE OneLine(r[i])
        <5>1. i \in 1 .. (Len(ms) - 1) /\ i + 1 \in 1 .. Len(ms) BY <2>4, <3>1
        <5> QED BY <2>4, <3>1, <5>1
      <4> QED BY <3>1, <4>1, <4>2 DEF AllLines
    <3>5. Good(r)
      <4>1. Len(r) \in Nat /\ Len(r) < d BY <2>3, <2>4, <3>1
      <4>2. Len(r) \notin T BY <2>1, <2>2, <2>3, <4>1
      <4> QED BY <3>1, <3>4, <4>1, <4>2 DEF T
    <3>6. z \in Seq(S) /\ SplitLines(z) = r BY <3>5 DEF Good
    <3> HIDE DEF z
    <3>p. PICK i, j : i = Len(l) /\ j = Len(l) + Len(y) OBVIOUS
    <3>q. l \in Seq(S) /\ y \in Seq(S) /\ z \in Seq(S) BY <3>3, <3>6, <3>a
    <3>t. /\ w \in Seq(S) /\ Len(w) = j + Len(z) /\ i \in Nat /\ j \in i .. Len(w)
          /\ \A k \in 1 .. i : w[k] = l[k]
          /\ \A k \in 1 .. Len(y) : w[i + k] = y[k]
          /\ \A k \in 1 .. Len(z) : w[j + k] = z[k]
          /\ Cut(w, 0, i) = l /\ Cut(w, i, j) = y /\ Rest(w, j) = z
      <4>1. InRow(w, i, j, l, y, z) BY <3>p, <3>w DEF InRow
      <4> QED BY ONLY <3>q, <4>1, ThreeParts
    <3>7. /\ w \in Seq(S) /\ Len(w) = Len(l) + Len(y) + Len(z)
          /\ \A k \in 1 .. Len(l) : w[k] = l[k]
          /\ \A k \in 1 .. Len(y) : w[Len(l) + k] = y[k]
          /\ Cut(w, 0, Len(l)) = l /\ Rest(w, Len(l) + Len(y)) = z
      BY <3>p, <3>t
    <3>8. PICK n : n = Len(l) + 1 OBVIOUS
    <3>9. Len(l) \in Nat /\ Len(z) \in Nat BY <3>6, <3>a
    <3>10. FirstAt(w, n)
      <4>1. n \in 0 .. Len(w) BY <3>3, <3>7, <3>8, <3>9
      <4>2. w[n] = Newline BY <3>3, <3>7, <3>8
      <4>3. \A k \in 1 .. Len(l) : w[k] # Newline BY <3>7, <3>a DEF OneLine
      <4>4. \A k \in 1 .. Len(w) : w[k] = Newline => n > 0 /\ n <= k BY <3>8, <3>9, <4>3
      <4> QED BY <4>1, <4>2, <4>4 DEF FirstAt
    <3>11. FirstBreak(w) = n BY <3>7, <3>10, FirstLaw
    <3>12. SplitLines(w) = <<Cut(w, 0, n - 1)>> \o SplitLines(Rest(w, n))
      <4>1. n # 0 BY <3>8, <3>9
      <4> QED BY <3>7, <3>11, <4>1, LinesStep
    <3>13. n - 1 = Len(l) /\ n = Len(l) + Len(y) BY <3>3, <3>8, <3>9
    <3>14. SplitLines(w) = ms BY <3>1, <3>6, <3>7, <3>12, <3>13
    <3> QED BY <2>3, <3>2, <3>7, <3>14 DEF Good
  <2> QED BY <2>6, <2>7
<1>2. ls \in Seq(Seq(S)) /\ Len(ls) \in Nat BY DEF AllLines
<1>3. Len(ls) \notin T
  <2> HIDE DEF T
  <2> QED BY <1>1
<1>4. Good(ls)
  <2> HIDE DEF Good
  <2> QED BY <1>2, <1>3
<1> QED BY <1>4

\* Part of a sequence of lines.
LEMMA LinesCut ==
  ASSUME NEW S, NEW ls, AllLines(S, ls), NEW i \in 0 .. Len(ls), NEW j \in (i + 1) .. Len(ls)
  PROVE /\ AllLines(S, Cut(ls, i, j)) /\ Len(Cut(ls, i, j)) = j - i
        /\ \A k \in 1 .. (j - i) : Cut(ls, i, j)[k] = ls[i + k]
<1> DEFINE c == Cut(ls, i, j)
<1>1. ls \in Seq(Seq(S)) /\ \A k \in 1 .. Len(ls) : OneLine(ls[k]) BY DEF AllLines
<1>2. i \in Nat /\ j \in Nat /\ i < j /\ j <= Len(ls) /\ Len(ls) \in Nat BY <1>1
<1>3. c \in Seq(Seq(S)) /\ Len(c) = j - i /\ \A k \in 1 .. (j - i) : c[k] = ls[i + k]
  <2>1. i \in 0 .. Len(ls) /\ j \in i .. Len(ls) BY <1>2
  <2> QED BY <1>1, <2>1, CutLaw
<1> HIDE DEF c
<1>4. ASSUME NEW k \in 1 .. Len(c) PROVE OneLine(c[k])
  <2>1. k \in 1 .. (j - i) /\ i + k \in 1 .. Len(ls) BY <1>2, <1>3
  <2> QED BY <1>1, <1>3, <2>1
<1>5. Len(c) > 0 BY <1>2, <1>3
<1>6. AllLines(S, c) BY <1>3, <1>4, <1>5 DEF AllLines
<1> QED BY <1>3, <1>6 DEF c

\* The last line is joined after the others.
LEMMA JoinLast ==
  ASSUME NEW S, Newline \in S, NEW ls, AllLines(S, ls), Len(ls) > 1
  PROVE JoinLines(ls) = JoinLines(Cut(ls, 0, Len(ls) - 1)) \o <<Newline>> \o ls[Len(ls)]
<1> DEFINE Good(ms) == JoinLines(ms) = JoinLines(Cut(ms, 0, Len(ms) - 1)) \o <<Newline>> \o ms[Len(ms)]
           T == {d \in Nat : \E ms \in Seq(Seq(S)) : Len(ms) = d /\ d > 1 /\ AllLines(S, ms) /\ ~Good(ms)}
<1>1. T = {}
  <2> SUFFICES ASSUME T # {} PROVE FALSE
    OBVIOUS
  <2>1. T \in SUBSET Nat OBVIOUS
  <2>2. PICK d \in T : \A y \in T : d <= y
    <3> HIDE DEF T
    <3> QED BY <2>1, Smallest
  <2>3. PICK ms \in Seq(Seq(S)) : Len(ms) = d /\ d > 1 /\ AllLines(S, ms) /\ ~Good(ms)
    BY <2>2
  <2> DEFINE l == ms[1]
             r == Rest(ms, 1)
             c == Cut(ms, 0, d - 1)
             x == ms[d]
             y == <<Newline>>
  <2>4. d \in Nat /\ d > 1 /\ Len(ms) = d /\ d > 0 BY <2>1, <2>2, <2>3
  <2>5. /\ l \in Seq(S) /\ r \in Seq(Seq(S)) /\ Len(r) = d - 1
        /\ \A i \in 1 .. (d - 1) : r[i] = ms[i + 1]
    BY <2>4, Peel
  <2>6. AllLines(S, c) /\ Len(c) = d - 1 /\ \A k \in 1 .. (d - 1) : c[k] = ms[k]
    <3>1. 0 \in 0 .. Len(ms) /\ d - 1 \in (0 + 1) .. Len(ms) /\ (d - 1) - 0 = d - 1 BY <2>4
    <3>2. AllLines(S, ms) BY <2>3
    <3>3. /\ AllLines(S, Cut(ms, 0, d - 1)) /\ Len(Cut(ms, 0, d - 1)) = (d - 1) - 0
          /\ \A k \in 1 .. ((d - 1) - 0) : Cut(ms, 0, d - 1)[k] = ms[0 + k]
      BY ONLY <3>1, <3>2, LinesCut
    <3>4. \A k \in 1 .. (d - 1) : 0 + k = k BY <2>4
    <3> HIDE DEF T, Good
    <3> QED BY ONLY <3>1, <3>3, <3>4
  <2>7. x \in Seq(S) /\ x = r[d - 1]
    <3>1. d - 1 \in 1 .. (d - 1) /\ (d - 1) + 1 = d /\ d \in 1 .. Len(ms) BY <2>4
    <3> QED BY <2>5, <3>1
  <2>8. y \in Seq(S) OBVIOUS
  <2>9. ~Good(ms) /\ (Good(ms) <=> JoinLines(ms) = JoinLines(c) \o y \o x) BY <2>3, <2>4
  <2> HIDE DEF l, r, c, x, y, T, Good
  <2>10. JoinLines(ms) = l \o y \o JoinLines(r)
    BY <2>4, JoinStep DEF l, r, y
  <2>11. c \in Seq(Seq(S)) /\ Len(c) > 0 BY <2>6 DEF AllLines
  <2>12. c[1] = l
    <3>1. 1 \in 1 .. (d - 1) BY <2>4
    <3> QED BY <2>6, <3>1 DEF l
  <2>13. CASE d = 2
    <3>1. JoinLines(r) = x
      <4>1. Len(r) = 1 /\ Len(r) > 0 /\ d - 1 = 1 BY <2>4, <2>5, <2>13
      <4>2. JoinLines(r) = r[1] BY <2>5, <4>1, JoinStep
      <4> QED BY <2>7, <4>1, <4>2
    <3>2. JoinLines(c) = l
      <4>1. Len(c) = 1 BY <2>4, <2>6, <2>13
      <4> QED BY <2>11, <2>12, <4>1, JoinStep
    <3> QED BY <2>9, <2>10, <3>1, <3>2
  <2>14. CASE d # 2
    <3> DEFINE z == Cut(r, 0, d - 2)
    <3>1. AllLines(S, r)
      <4>1. ASSUME NEW i \in 1 .. Len(r) PROVE OneLine(r[i])
        <5>1. i \in 1 .. (d - 1) /\ i + 1 \in 1 .. Len(ms) BY <2>4, <2>5
        <5>2. \A k \in 1 .. Len(ms) : OneLine(ms[k]) BY <2>3 DEF AllLines
        <5> QED BY <2>5, <5>1, <5>2
      <4>2. Len(r) > 0 BY <2>4, <2>5
      <4> QED BY <2>5, <4>1, <4>2 DEF AllLines
    <3>2. Good(r)
      <4>1. Len(r) \in Nat /\ Len(r) < d /\ Len(r) > 1 BY <2>4, <2>5, <2>14
      <4>2. Len(r) \notin T BY <2>1, <2>2, <2>4, <4>1
      <4> QED BY <2>5, <3>1, <4>1, <4>2 DEF T
    <3>3. JoinLines(r) = JoinLines(z) \o y \o x
      <4>1. Len(r) - 1 = d - 2 /\ Len(r) = d - 1 BY <2>4, <2>5
      <4> QED BY <2>7, <3>2, <4>1 DEF Good, y
    <3>4. AllLines(S, z) /\ Len(z) = d - 2 /\ \A k \in 1 .. (d - 2) : z[k] = r[k]
      <4>1. 0 \in 0 .. Len(r) /\ d - 2 \in (0 + 1) .. Len(r) /\ (d - 2) - 0 = d - 2
        BY <2>4, <2>5, <2>14
      <4>2. /\ AllLines(S, Cut(r, 0, d - 2)) /\ Len(Cut(r, 0, d - 2)) = (d - 2) - 0
            /\ \A k \in 1 .. ((d - 2) - 0) : Cut(r, 0, d - 2)[k] = r[0 + k]
        BY ONLY <3>1, <4>1, LinesCut
      <4> QED BY <2>4, <4>1, <4>2
    <3> HIDE DEF z
    <3>5. Rest(c, 1) = z
      <4>1. PICK w : w = Rest(c, 1) OBVIOUS
      <4>2. /\ w \in Seq(Seq(S)) /\ Len(w) = (d - 1) - 1
            /\ \A i \in 1 .. ((d - 1) - 1) : w[i] = c[i + 1]
        BY <2>6, <2>11, <4>1, Peel
      <4>3. z \in Seq(Seq(S)) BY <3>4 DEF AllLines
      <4>4. Len(w) = Len(z) BY <2>4, <3>4, <4>2
      <4>5. ASSUME NEW i \in 1 .. Len(w) PROVE w[i] = z[i]
        <5>1. /\ i \in 1 .. ((d - 1) - 1) /\ i \in 1 .. (d - 2) /\ i \in 1 .. (d - 1)
              /\ i + 1 \in 1 .. (d - 1)
          BY <2>4, <4>2
        <5> QED BY <2>5, <2>6, <3>4, <4>2, <5>1
      <4>6. w = z BY <4>2, <4>3, <4>4, <4>5, SeqEqual
      <4> QED BY <4>1, <4>6
    <3>6. JoinLines(c) = l \o y \o JoinLines(z)
      <4>1. Len(c) > 1 BY <2>4, <2>6, <2>14
      <4>2. JoinLines(c) = c[1] \o <<Newline>> \o JoinLines(Rest(c, 1)) BY <2>11, <4>1, JoinStep
      <4> QED BY <2>12, <3>5, <4>2 DEF y
    <3>7. JoinLines(z) \in Seq(S) BY <3>4, JoinedLaw
    <3>8. PICK p : p = JoinLines(z) OBVIOUS
    <3>9. p \in Seq(S) BY <3>7, <3>8
    <3>10. l \o y \o (p \o y \o x) = (l \o y \o p) \o y \o x
      <4>1. PICK a : a = l \o y OBVIOUS
      <4>2. a \in Seq(S) BY <2>5, <2>8, <4>1
      <4>3. PICK b : b = p \o y OBVIOUS
      <4>4. b \in Seq(S) BY <2>8, <3>9, <4>3
      <4>x. x \in Seq(S) BY <2>7
      <4>5. a \o (b \o x) = (a \o b) \o x BY ONLY <4>2, <4>4, <4>x, ConcatAssociative
      <4>6. a \o b = (a \o p) \o y BY <2>8, <3>9, <4>2, <4>3, ConcatAssociative
      <4> QED BY <4>1, <4>3, <4>5, <4>6
    <3> QED BY <2>9, <2>10, <3>3, <3>6, <3>8, <3>10
  <2> QED BY <2>13, <2>14
<1>2. ls \in Seq(Seq(S)) /\ Len(ls) \in Nat BY DEF AllLines
<1>3. Len(ls) \notin T
  <2> HIDE DEF T
  <2> QED BY <1>1
<1>4. Good(ls)
  <2> HIDE DEF Good
  <2> QED BY <1>2, <1>3
<1> QED BY <1>4

\* Where the touched lines start, and where they end.
LEMMA StartIs ==
  ASSUME NEW S, NEW w \in Seq(S), NEW s \in 0 .. Len(w), NEW e, NEW i \in 0 .. s,
         i > 0 => w[i] = Newline, \A k \in (i + 1) .. s : w[k] # Newline
  PROVE LineStart(State(w, s, e)) = i
<1>1. PICK c : c = Cut(w, 0, s) OBVIOUS
<1>2. 0 \in 0 .. Len(w) /\ s \in 0 .. Len(w) /\ s - 0 = s /\ i \in Nat /\ s \in Nat OBVIOUS
<1>3. c \in Seq(S) /\ Len(c) = s /\ \A k \in 1 .. s : c[k] = w[k]
  <2>1. w \in Seq(S) OBVIOUS
  <2>2. /\ Cut(w, 0, s) \in Seq(S) /\ Len(Cut(w, 0, s)) = s - 0
        /\ \A k \in 1 .. (s - 0) : Cut(w, 0, s)[k] = w[0 + k]
    BY ONLY <1>2, <2>1, CutLaw
  <2>3. \A k \in 1 .. s : 0 + k = k BY <1>2
  <2> QED BY ONLY <1>1, <1>2, <2>2, <2>3
<1>4. LastAt(c, i)
  <2>1. i > 0 => c[i] = Newline BY <1>2, <1>3
  <2>2. ASSUME NEW k \in 1 .. Len(c), c[k] = Newline PROVE i >= k
    <3>1. ~(k \in (i + 1) .. s) BY <1>3, <2>2
    <3> QED BY <1>2, <1>3, <3>1
  <2> QED BY <1>2, <1>3, <2>1, <2>2 DEF LastAt
<1>5. LastBreak(c) = i BY <1>3, <1>4, LastLaw
<1> QED BY <1>1, <1>5 DEF LineStart, State

\* What LineEnd counts from: a line break at the end of the selection is not in it.
Stop(w, s, e) == IF e > s /\ w[e] = Newline THEN e - 1 ELSE e

\* Where the touched lines end.
LEMMA EndIs ==
  ASSUME NEW S, NEW w \in Seq(S), NEW s, NEW e, NEW x \in 0 .. Len(w), x = Stop(w, s, e),
         NEW j \in x .. Len(w), j < Len(w) => w[j + 1] = Newline,
         \A k \in (x + 1) .. j : w[k] # Newline
  PROVE LineEnd(State(w, s, e)) = j
<1>1. PICK r : r = Rest(w, x) OBVIOUS
<1>2. x \in Nat /\ j \in Nat /\ Len(w) \in Nat /\ x <= j /\ j <= Len(w) OBVIOUS
<1>3. r \in Seq(S) /\ Len(r) = Len(w) - x /\ \A k \in 1 .. (Len(w) - x) : r[k] = w[x + k]
  BY <1>1, RestLaw
<1>4. PICK n : n = FirstBreak(r) OBVIOUS
<1>5. FirstAt(r, n) BY <1>3, <1>4, FirstLaw
<1>6. n \in 0 .. Len(r) /\ (n > 0 => r[n] = Newline)
      /\ \A i \in 1 .. Len(r) : r[i] = Newline => n > 0 /\ n <= i
  BY <1>5 DEF FirstAt
<1>7. LineEnd(State(w, s, e)) = IF n = 0 THEN Len(w) ELSE x + n - 1
  BY <1>1, <1>4 DEF LineEnd, State, Stop
<1>8. CASE j = Len(w)
  <2>1. ASSUME n > 0 PROVE FALSE
    <3>1. n \in 1 .. (Len(w) - x) /\ x + n \in (x + 1) .. j BY <1>2, <1>3, <1>6, <1>8, <2>1
    <3>2. w[x + n] = Newline BY <1>3, <1>6, <2>1, <3>1
    <3> QED BY <3>1, <3>2
  <2>2. n = 0 BY <1>2, <1>3, <1>6, <2>1
  <2> QED BY <1>7, <1>8, <2>2
<1>9. CASE j # Len(w)
  <2>1. PICK m : m = j + 1 - x OBVIOUS
  <2>2. m \in 1 .. (Len(w) - x) /\ x + m = j + 1 /\ m \in Nat BY <1>2, <1>9, <2>1
  <2>3. w[j + 1] = Newline BY <1>2, <1>9
  <2>4. r[m] = Newline BY <1>3, <2>2, <2>3
  <2>5. n > 0 /\ n <= m BY <1>3, <1>6, <2>2, <2>4
  <2>6. ASSUME n < m PROVE FALSE
    <3>1. n \in 1 .. (Len(w) - x) /\ x + n \in (x + 1) .. j BY <1>2, <1>3, <1>6, <2>2, <2>5, <2>6
    <3>2. w[x + n] = Newline BY <1>3, <1>6, <2>5, <3>1
    <3> QED BY <3>1, <3>2
  <2>7. n = m BY <1>3, <1>6, <2>2, <2>5, <2>6
  <2>8. n # 0 /\ x + n - 1 = j BY <1>2, <2>2, <2>5, <2>7
  <2> QED BY <1>7, <2>8
<1> QED BY <1>8, <1>9

\* The state t of the text v touches the lines between i and j.
Touches(v, s, e, t, i, j) == t = State(v, s, e) /\ i = LineStart(t) /\ j = LineEnd(t)

\* The touched lines are whole ones, and those of a cursor are one.
LEMMA BoundsLaw ==
  ASSUME NEW S, NEW v \in Seq(S), NEW s \in 0 .. Len(v), NEW e \in s .. Len(v),
         NEW t, NEW i, NEW j, Touches(v, s, e, t, i, j)
  PROVE /\ i \in 0 .. s /\ j \in i .. Len(v) /\ s <= j
        /\ i > 0 => v[i] = Newline
        /\ j < Len(v) => v[j + 1] = Newline
        /\ s = e => \A k \in (i + 1) .. j : v[k] # Newline
<1>0. s \in Nat /\ e \in Nat /\ s <= e /\ e <= Len(v) /\ Len(v) \in Nat OBVIOUS
<1>1. PICK c : c = Cut(v, 0, s) OBVIOUS
<1>2. c \in Seq(S) /\ Len(c) = s /\ \A k \in 1 .. s : c[k] = v[k]
  <2>1. v \in Seq(S) /\ 0 \in 0 .. Len(v) /\ s \in 0 .. Len(v) OBVIOUS
  <2>2. /\ Cut(v, 0, s) \in Seq(S) /\ Len(Cut(v, 0, s)) = s - 0
        /\ \A k \in 1 .. (s - 0) : Cut(v, 0, s)[k] = v[0 + k]
    BY ONLY <2>1, CutLaw
  <2>3. s - 0 = s /\ \A k \in 1 .. s : 0 + k = k BY <1>0
  <2> QED BY ONLY <1>1, <2>2, <2>3
<1>3. i = LastBreak(c) BY <1>1 DEF Touches, LineStart, State
<1>4. LastAt(c, i) BY <1>2, <1>3, LastLaw
<1>5. i \in 0 .. s /\ (i > 0 => v[i] = Newline) /\ \A k \in 1 .. s : v[k] = Newline => i >= k
  BY <1>0, <1>2, <1>4 DEF LastAt
<1>6. PICK x : x = Stop(v, s, e) OBVIOUS
<1>7. x \in s .. e BY <1>0, <1>6 DEF Stop
<1>8. PICK r : r = Rest(v, x) OBVIOUS
<1>9. r \in Seq(S) /\ Len(r) = Len(v) - x /\ \A k \in 1 .. (Len(v) - x) : r[k] = v[x + k]
  <2>1. x \in 0 .. Len(v) BY <1>0, <1>7
  <2> QED BY <1>8, <2>1, RestLaw
<1>10. PICK n : n = FirstBreak(r) OBVIOUS
<1>11. FirstAt(r, n) BY <1>9, <1>10, FirstLaw
<1>12. /\ n \in 0 .. Len(r) /\ (n > 0 => r[n] = Newline)
       /\ \A k \in 1 .. Len(r) : r[k] = Newline => n > 0 /\ n <= k
  BY <1>11 DEF FirstAt
<1>13. j = IF n = 0 THEN Len(v) ELSE x + n - 1
  BY <1>6, <1>8, <1>10 DEF Touches, LineEnd, State, Stop
<1>14. j \in x .. Len(v) BY <1>0, <1>7, <1>9, <1>12, <1>13
<1>15. ASSUME j < Len(v) PROVE v[j + 1] = Newline
  <2>1. n > 0 /\ j + 1 = x + n /\ n \in 1 .. (Len(v) - x)
    BY <1>0, <1>7, <1>9, <1>12, <1>13, <1>15
  <2> QED BY <1>9, <1>12, <2>1
<1>16. ASSUME s = e, NEW k \in (i + 1) .. j PROVE v[k] # Newline
  <2>1. x = s BY <1>0, <1>6, <1>16 DEF Stop
  <2>2. CASE k <= s
    <3>1. k \in 1 .. s /\ ~(i >= k) BY <1>0, <1>5, <2>2
    <3> QED BY <1>5, <3>1
  <2>3. CASE k > s
    <3>1. PICK m : m = k - x OBVIOUS
    <3>2. m \in 1 .. (Len(v) - x) /\ x + m = k /\ m \in Nat
      BY <1>0, <1>5, <1>14, <2>1, <2>3, <3>1
    <3>3. ~(n > 0 /\ n <= m) BY <1>9, <1>12, <1>13, <1>0, <2>1, <3>2
    <3>4. r[m] # Newline BY <1>9, <1>12, <3>2, <3>3
    <3> QED BY <1>9, <3>2, <3>4
  <2> QED BY <1>0, <1>5, <2>2, <2>3
<1>17. i \in 0 .. s /\ j \in i .. Len(v) /\ s <= j BY <1>0, <1>5, <1>7, <1>14
<1> QED BY <1>5, <1>15, <1>16, <1>17

\* b stands in the text w, from i to j, between whole lines.
Block(S, w, i, j, p, b, q) ==
  /\ p \in Seq(S) /\ b \in Seq(S) /\ q \in Seq(S) /\ InRow(w, i, j, p, b, q)
  /\ i > 0 => p[i] = Newline
  /\ Len(q) > 0 => q[1] = Newline

\* What stands where.
LEMMA BlockLaw ==
  ASSUME NEW S, NEW w, NEW i, NEW j, NEW p, NEW b, NEW q, Block(S, w, i, j, p, b, q)
  PROVE /\ w \in Seq(S) /\ i \in Nat /\ j \in i .. Len(w) /\ j = i + Len(b)
        /\ i > 0 => w[i] = Newline
        /\ j < Len(w) => w[j + 1] = Newline
        /\ \A k \in 1 .. Len(b) : w[i + k] = b[k]
        /\ Cut(w, 0, i) = p /\ Cut(w, i, j) = b /\ Rest(w, j) = q
<1>1. p \in Seq(S) /\ b \in Seq(S) /\ q \in Seq(S) /\ InRow(w, i, j, p, b, q) BY DEF Block
<1>2. /\ w \in Seq(S) /\ Len(w) = j + Len(q) /\ i \in Nat /\ j \in i .. Len(w)
      /\ \A k \in 1 .. i : w[k] = p[k]
      /\ \A k \in 1 .. Len(b) : w[i + k] = b[k]
      /\ \A k \in 1 .. Len(q) : w[j + k] = q[k]
      /\ Cut(w, 0, i) = p /\ Cut(w, i, j) = b /\ Rest(w, j) = q
  BY ONLY <1>1, ThreeParts
<1>3. j = i + Len(b) BY <1>1 DEF InRow
<1>4. ASSUME i > 0 PROVE w[i] = Newline
  <2>1. i \in 1 .. i BY <1>2, <1>4
  <2>2. p[i] = Newline BY <1>4 DEF Block
  <2> QED BY <1>2, <2>1, <2>2
<1>5. ASSUME j < Len(w) PROVE w[j + 1] = Newline
  <2>1. Len(q) \in Nat BY <1>1
  <2>2. Len(q) > 0 /\ 1 \in 1 .. Len(q) BY <1>2, <1>5, <2>1
  <2>3. q[1] = Newline BY <2>2 DEF Block
  <2> QED BY <1>2, <2>2, <2>3
<1> QED BY <1>2, <1>3, <1>4, <1>5

\* A cursor in a block of one line touches the block.
LEMMA CursorInBlock ==
  ASSUME NEW S, NEW w, NEW i, NEW j, NEW p, NEW b, NEW q, Block(S, w, i, j, p, b, q),
         OneLine(b), NEW c \in i .. j
  PROVE LineStart(State(w, c, c)) = i /\ LineEnd(State(w, c, c)) = j
<1>1. /\ w \in Seq(S) /\ i \in Nat /\ j \in i .. Len(w) /\ j = i + Len(b)
      /\ i > 0 => w[i] = Newline
      /\ j < Len(w) => w[j + 1] = Newline
      /\ \A k \in 1 .. Len(b) : w[i + k] = b[k]
  BY BlockLaw
<1>0. Len(w) \in Nat /\ Len(b) \in Nat
  <2>1. w \in Seq(S) /\ b \in Seq(S) BY <1>1 DEF Block
  <2> QED BY <2>1
<1>2. ASSUME NEW k \in (i + 1) .. j PROVE w[k] # Newline
  <2>1. PICK m : m = k - i OBVIOUS
  <2>2. m \in 1 .. Len(b) /\ i + m = k BY <1>0, <1>1, <2>1
  <2>3. b[m] # Newline BY <2>2 DEF OneLine
  <2> QED BY <1>1, <2>2, <2>3
<1>3. LineStart(State(w, c, c)) = i
  <2>1. c \in 0 .. Len(w) /\ i \in 0 .. c BY <1>0, <1>1
  <2>2. \A k \in (i + 1) .. c : w[k] # Newline
    <3>1. \A k \in (i + 1) .. c : k \in (i + 1) .. j BY <1>0, <1>1
    <3> QED BY <1>2, <3>1
  <2> QED BY <1>1, <2>1, <2>2, StartIs
<1>4. LineEnd(State(w, c, c)) = j
  <2>1. c \in 0 .. Len(w) /\ c = Stop(w, c, c) /\ j \in c .. Len(w) BY <1>0, <1>1 DEF Stop
  <2>2. \A k \in (c + 1) .. j : w[k] # Newline
    <3>1. \A k \in (c + 1) .. j : k \in (i + 1) .. j BY <1>0, <1>1
    <3> QED BY <1>2, <3>1
  <2> QED BY <1>1, <2>1, <2>2, EndIs
<1> QED BY <1>3, <1>4

\* A selected block touches itself, but for a line break at its end.
LEMMA BlockSelected ==
  ASSUME NEW S, NEW w, NEW i, NEW j, NEW p, NEW b, NEW q, Block(S, w, i, j, p, b, q),
         Len(b) > 0
  PROVE /\ LineStart(State(w, i, j)) = i
        /\ LineEnd(State(w, i, j)) = IF b[Len(b)] = Newline THEN j - 1 ELSE j
<1>1. /\ w \in Seq(S) /\ i \in Nat /\ j \in i .. Len(w) /\ j = i + Len(b)
      /\ i > 0 => w[i] = Newline
      /\ j < Len(w) => w[j + 1] = Newline
      /\ \A k \in 1 .. Len(b) : w[i + k] = b[k]
  BY BlockLaw
<1>0. Len(w) \in Nat /\ Len(b) \in Nat
  <2>1. w \in Seq(S) /\ b \in Seq(S) BY <1>1 DEF Block
  <2> QED BY <2>1
<1>2. w[j] = b[Len(b)] /\ j > i
  <2>1. Len(b) \in 1 .. Len(b) BY <1>0
  <2> QED BY <1>0, <1>1, <2>1
<1>3. LineStart(State(w, i, j)) = i
  <2>1. i \in 0 .. Len(w) /\ i \in 0 .. i BY <1>0, <1>1
  <2>2. \A k \in (i + 1) .. i : w[k] # Newline BY <1>1
  <2> QED BY <1>1, <2>1, <2>2, StartIs
<1>4. CASE b[Len(b)] = Newline
  <2>1. j - 1 \in 0 .. Len(w) /\ j - 1 \in (j - 1) .. Len(w) /\ (j - 1) + 1 = j
    BY <1>0, <1>1, <1>2
  <2>2. j - 1 = Stop(w, i, j) BY <1>2, <1>4 DEF Stop
  <2>3. \A k \in ((j - 1) + 1) .. (j - 1) : w[k] # Newline BY <1>1
  <2>4. LineEnd(State(w, i, j)) = j - 1
    <3>1. j - 1 < Len(w) => w[(j - 1) + 1] = Newline BY <1>2, <1>4, <2>1
    <3> QED BY <1>1, <2>1, <2>2, <2>3, <3>1, EndIs
  <2> QED BY <1>3, <1>4, <2>4
<1>5. CASE b[Len(b)] # Newline
  <2>1. j \in 0 .. Len(w) /\ j \in j .. Len(w) BY <1>0, <1>1, <1>2
  <2>2. j = Stop(w, i, j) BY <1>2, <1>5 DEF Stop
  <2>3. \A k \in (j + 1) .. j : w[k] # Newline BY <1>1
  <2>4. LineEnd(State(w, i, j)) = j BY <1>1, <2>1, <2>2, <2>3, EndIs
  <2> QED BY <1>3, <1>5, <2>4
<1> QED BY <1>4, <1>5

\* A text of one line is its only line.
LEMMA OneLineSplit ==
  ASSUME NEW S, NEW b \in Seq(S), OneLine(b)
  PROVE SplitLines(b) = <<b>>
<1>1. FirstAt(b, 0) BY DEF FirstAt, OneLine
<1>2. FirstBreak(b) = 0 BY <1>1, FirstLaw
<1> QED BY <1>2, LinesStep

\* How lines joined end: with their last one.
LEMMA JoinedEnd ==
  ASSUME NEW S, Newline \in S, NEW ls, AllLines(S, ls), NEW n, n = Len(ls), NEW b, b = JoinLines(ls)
  PROVE /\ ls[n] # <<>> => Len(b) > 0 /\ b[Len(b)] # Newline
        /\ ls[n] = <<>> /\ n > 1 =>
             /\ Len(b) > 0 /\ b[Len(b)] = Newline
             /\ b = JoinLines(Cut(ls, 0, n - 1)) \o <<Newline>>
             /\ AllLines(S, Cut(ls, 0, n - 1))
<1>1. ls \in Seq(Seq(S)) /\ n \in Nat /\ n > 0 /\ \A i \in 1 .. n : OneLine(ls[i]) BY DEF AllLines
<1>2. PICK x : x = ls[n] OBVIOUS
<1>3. x \in Seq(S) /\ OneLine(x)
  <2>1. n \in 1 .. Len(ls) BY <1>1
  <2> QED BY <1>1, <1>2, <2>1
<1>4. b \in Seq(S) BY JoinedLaw
<1>5. ASSUME x # <<>> PROVE Len(x) \in Nat /\ Len(x) > 0 /\ x[Len(x)] # Newline
  <2>1. Len(x) \in Nat /\ Len(x) > 0 BY <1>3, <1>5
  <2>2. Len(x) \in 1 .. Len(x) BY <2>1
  <2> QED BY <1>3, <2>1, <2>2 DEF OneLine
<1>6. CASE n = 1
  <2>1. b = x
    <3>1. Len(ls) = 1 /\ Len(ls) > 0 BY <1>6
    <3> QED BY <1>1, <1>2, <1>6, <3>1, JoinStep
  <2> QED BY <1>2, <1>5, <1>6, <2>1
<1>7. CASE n # 1
  <2>1. PICK c : c = Cut(ls, 0, n - 1) OBVIOUS
  <2>2. AllLines(S, c)
    <3>1. 0 \in 0 .. Len(ls) /\ n - 1 \in (0 + 1) .. Len(ls) BY <1>1, <1>7
    <3>2. AllLines(S, ls) OBVIOUS
    <3> QED BY ONLY <2>1, <3>1, <3>2, LinesCut
  <2>3. n > 1 BY <1>1, <1>7
  <2>4. b = JoinLines(c) \o <<Newline>> \o x
    <3>1. Len(ls) > 1 BY <2>3
    <3> QED BY <1>2, <2>1, <3>1, JoinLast
  <2>5. PICK a : a = JoinLines(c) \o <<Newline>> OBVIOUS
  <2>6. a \in Seq(S) /\ Len(a) \in Nat /\ Len(a) > 0 /\ a[Len(a)] = Newline
    <3>1. PICK z : z = JoinLines(c) OBVIOUS
    <3>2. z \in Seq(S) BY <2>2, <3>1, JoinedLaw
    <3>3. PICK y : y = <<Newline>> OBVIOUS
    <3>4. y \in Seq(S) /\ Len(y) = 1 /\ y[1] = Newline BY <3>3
    <3>5. a = z \o y BY <2>5, <3>1, <3>3
    <3>6. a \in Seq(S) /\ Len(a) = Len(z) + Len(y) /\ \A k \in 1 .. Len(y) : a[Len(z) + k] = y[k]
      <4>1. y \in Seq(S) BY <3>4
      <4> QED BY ONLY <3>2, <3>5, <4>1, JoinLaw
    <3>7. Len(z) \in Nat BY <3>2
    <3> QED BY <3>4, <3>6, <3>7
  <2>7. b = a \o x BY <2>4, <2>5
  <2>8. CASE x = <<>>
    <3>1. b = a BY <2>6, <2>7, <2>8
    <3> QED BY <1>2, <2>1, <2>2, <2>5, <2>6, <2>8, <3>1
  <2>9. CASE x # <<>>
    <3>1. Len(b) = Len(a) + Len(x) /\ \A k \in 1 .. Len(x) : b[Len(a) + k] = x[k]
      BY <1>3, <2>6, <2>7, JoinLaw
    <3>2. Len(x) \in Nat /\ Len(x) > 0 /\ x[Len(x)] # Newline BY <1>5, <2>9
    <3>3. Len(x) \in 1 .. Len(x) BY <3>2
    <3> QED BY <1>2, <2>6, <2>9, <3>1, <3>2, <3>3
  <2> QED BY <2>8, <2>9
<1> QED BY <1>6, <1>7

\* Lines with a mark before each that is not skipped.
Marked(ls, mk) == [i \in DOMAIN ls |-> IF Skipped(ls, i) THEN ls[i] ELSE mk[i] \o ls[i]]

\* mk has a mark for each line: a text without a line break, not empty.
MarksOf(S, ls, mk) == \A i \in 1 .. Len(ls) : mk[i] \in Seq(S) /\ OneLine(mk[i]) /\ Len(mk[i]) > 0

\* They are lines; one of them that is empty was skipped.
LEMMA MarkedLaw ==
  ASSUME NEW S, NEW ls, AllLines(S, ls), NEW mk, MarksOf(S, ls, mk), NEW ms, ms = Marked(ls, mk)
  PROVE /\ AllLines(S, ms) /\ Len(ms) = Len(ls)
        /\ \A i \in 1 .. Len(ls) : ms[i] = IF Skipped(ls, i) THEN ls[i] ELSE mk[i] \o ls[i]
        /\ \A i \in 1 .. Len(ls) : ms[i] = <<>> => Skipped(ls, i)
<1>1. /\ ls \in Seq(Seq(S)) /\ Len(ls) \in Nat /\ Len(ls) > 0 /\ DOMAIN ls = 1 .. Len(ls)
      /\ \A i \in 1 .. Len(ls) : OneLine(ls[i])
  BY DEF AllLines
<1>2. \A i \in 1 .. Len(ls) : ms[i] = IF Skipped(ls, i) THEN ls[i] ELSE mk[i] \o ls[i]
  BY <1>1 DEF Marked
<1>3. ASSUME NEW i \in 1 .. Len(ls)
      PROVE ms[i] \in Seq(S) /\ OneLine(ms[i]) /\ (ms[i] = <<>> => Skipped(ls, i))
  <2>1. ls[i] \in Seq(S) /\ OneLine(ls[i]) BY <1>1
  <2>2. CASE Skipped(ls, i) BY <1>2, <2>1, <2>2
  <2>3. CASE ~Skipped(ls, i)
    <3>1. PICK m, l, z : m = mk[i] /\ l = ls[i] /\ z = ms[i] OBVIOUS
    <3>2. /\ m \in Seq(S) /\ l \in Seq(S) /\ Len(m) \in Nat /\ Len(m) > 0 /\ Len(l) \in Nat
          /\ OneLine(m) /\ OneLine(l)
      BY <2>1, <3>1 DEF MarksOf
    <3>3. z = m \o l BY <1>2, <2>3, <3>1
    <3>4. /\ z \in Seq(S) /\ Len(z) = Len(m) + Len(l)
          /\ \A k \in 1 .. Len(m) : z[k] = m[k]
          /\ \A k \in 1 .. Len(l) : z[Len(m) + k] = l[k]
      BY <3>2, <3>3, JoinLaw
    <3>5. ASSUME NEW k \in 1 .. Len(z) PROVE z[k] # Newline
      <4>1. CASE k <= Len(m)
        <5>1. k \in 1 .. Len(m) BY <3>2, <4>1
        <5> QED BY <3>2, <3>4, <5>1 DEF OneLine
      <4>2. CASE k > Len(m)
        <5>1. PICK j : j = k - Len(m) OBVIOUS
        <5>2. j \in 1 .. Len(l) /\ Len(m) + j = k BY <3>2, <3>4, <4>2, <5>1
        <5> QED BY <3>2, <3>4, <5>2 DEF OneLine
      <4> QED BY <3>2, <4>1, <4>2
    <3>6. z # <<>> BY <3>2, <3>4
    <3> QED BY <3>1, <3>4, <3>5, <3>6 DEF OneLine
  <2> QED BY <2>2, <2>3
<1>4. ms \in Seq(Seq(S)) /\ Len(ms) = Len(ls)
  <2>1. ms = [i \in 1 .. Len(ls) |-> IF Skipped(ls, i) THEN ls[i] ELSE mk[i] \o ls[i]]
    BY <1>1 DEF Marked
  <2>2. ms \in [1 .. Len(ls) -> Seq(S)]
    <3>1. \A i \in 1 .. Len(ls) : (IF Skipped(ls, i) THEN ls[i] ELSE mk[i] \o ls[i]) \in Seq(S)
      BY <1>2, <1>3
    <3> QED BY <2>1, <3>1
  <2>3. DOMAIN ms = 1 .. Len(ls) BY <2>1
  <2> QED BY <1>1, <2>2, <2>3
<1> QED BY <1>1, <1>2, <1>3, <1>4 DEF AllLines

\* The state t of the text w touches the lines between i and j.
StandsAt(t, w, i, j) == t.value = w /\ LineStart(t) = i /\ LineEnd(t) = j

\* Putting lines in the place of the block a text state touches.
LEMMA BlockReplaced ==
  ASSUME NEW S, Newline \in S, NEW w, NEW i, NEW j, NEW p, NEW q,
         NEW ms, AllLines(S, ms), NEW ls, NEW t,
         Block(S, w, i, j, p, JoinLines(ms), q), StandsAt(t, w, i, j)
  PROVE Lines(t) = ms /\ TransformLines(t, ls).value = p \o JoinLines(ls) \o q
<1>1. Cut(w, 0, i) = p /\ Cut(w, i, j) = JoinLines(ms) /\ Rest(w, j) = q BY BlockLaw
<1>2. SplitLines(JoinLines(ms)) = ms BY JoinedLaw
<1>3. Lines(t) = ms BY <1>1, <1>2 DEF Lines, StandsAt
<1>4. TransformLines(t, ls).value = Cut(t.value, 0, LineStart(t)) \o JoinLines(ls) \o Rest(t.value, LineEnd(t))
  BY DEF TransformLines, State
<1> QED BY <1>1, <1>3, <1>4 DEF StandsAt

\* The touched lines and what stands around them.
LEMMA TouchedBlock ==
  ASSUME NEW S, NEW v \in Seq(S), NEW s \in 0 .. Len(v), NEW e \in s .. Len(v),
         NEW t, NEW i, NEW j, Touches(v, s, e, t, i, j)
  PROVE /\ i \in 0 .. s /\ j \in i .. Len(v) /\ s <= j
        /\ Block(S, v, i, j, Cut(v, 0, i), Cut(v, i, j), Rest(v, j))
        /\ AllLines(S, Lines(t)) /\ JoinLines(Lines(t)) = Cut(v, i, j)
        /\ s = e => Lines(t) = <<Cut(v, i, j)>> /\ OneLine(Cut(v, i, j))
<1>1. /\ i \in 0 .. s /\ j \in i .. Len(v) /\ s <= j
      /\ i > 0 => v[i] = Newline
      /\ j < Len(v) => v[j + 1] = Newline
      /\ s = e => \A k \in (i + 1) .. j : v[k] # Newline
  BY BoundsLaw
<1>0. s \in Nat /\ Len(v) \in Nat /\ i \in Nat /\ j \in Nat /\ i <= j /\ j <= Len(v) BY <1>1
<1>2. PICK p, b, q : p = Cut(v, 0, i) /\ b = Cut(v, i, j) /\ q = Rest(v, j) OBVIOUS
<1>v. v \in Seq(S) OBVIOUS
<1>3. p \in Seq(S) /\ Len(p) = i /\ \A k \in 1 .. i : p[k] = v[k]
  <2>1. 0 \in 0 .. Len(v) /\ i \in 0 .. Len(v) BY <1>0
  <2>2. /\ Cut(v, 0, i) \in Seq(S) /\ Len(Cut(v, 0, i)) = i - 0
        /\ \A k \in 1 .. (i - 0) : Cut(v, 0, i)[k] = v[0 + k]
    BY ONLY <1>v, <2>1, CutLaw
  <2>3. i - 0 = i /\ \A k \in 1 .. i : 0 + k = k BY <1>0
  <2> QED BY ONLY <1>2, <2>2, <2>3
<1>4. b \in Seq(S) /\ Len(b) = j - i /\ \A k \in 1 .. (j - i) : b[k] = v[i + k]
  <2>1. i \in 0 .. Len(v) /\ j \in i .. Len(v) BY <1>0
  <2>2. /\ Cut(v, i, j) \in Seq(S) /\ Len(Cut(v, i, j)) = j - i
        /\ \A k \in 1 .. (j - i) : Cut(v, i, j)[k] = v[i + k]
    BY ONLY <1>v, <2>1, CutLaw
  <2> QED BY ONLY <1>2, <2>2
<1>5. q \in Seq(S) /\ Len(q) = Len(v) - j /\ \A k \in 1 .. (Len(v) - j) : q[k] = v[j + k]
  <2>1. j \in 0 .. Len(v) BY <1>0
  <2>2. /\ Rest(v, j) \in Seq(S) /\ Len(Rest(v, j)) = Len(v) - j
        /\ \A k \in 1 .. (Len(v) - j) : Rest(v, j)[k] = v[j + k]
    BY ONLY <1>v, <2>1, RestLaw
  <2> QED BY ONLY <1>2, <2>2
<1>6. MadeOf(v, i, j, p, b, q)
  <2>1. \A k \in (i + 1) .. j : k - i \in 1 .. (j - i) /\ i + (k - i) = k BY <1>0
  <2>2. \A k \in (j + 1) .. Len(v) : k - j \in 1 .. (Len(v) - j) /\ j + (k - j) = k BY <1>0
  <2>3. \A k \in (i + 1) .. j : b[k - i] = v[k] BY <1>4, <2>1
  <2>4. \A k \in (j + 1) .. Len(v) : q[k - j] = v[k] BY <1>5, <2>2
  <2> QED BY <1>0, <1>3, <1>4, <1>5, <2>3, <2>4 DEF MadeOf
<1>7. p \o b \o q = v BY <1>3, <1>4, <1>5, <1>6, ThreeMake
<1>8. Block(S, v, i, j, p, b, q)
  <2>1. i > 0 => p[i] = Newline
    <3>1. i > 0 => i \in 1 .. i BY <1>0
    <3> QED BY <1>1, <1>3, <3>1
  <2>2. Len(q) > 0 => q[1] = Newline
    <3>1. Len(q) > 0 => 1 \in 1 .. (Len(v) - j) /\ j < Len(v) BY <1>0, <1>5
    <3> QED BY <1>1, <1>5, <3>1
  <2>3. j = Len(p) + Len(b) BY <1>0, <1>3, <1>4
  <2> QED BY <1>3, <1>4, <1>5, <1>7, <2>1, <2>2, <2>3 DEF Block, InRow
<1>9. Lines(t) = SplitLines(b) BY <1>2 DEF Touches, Lines, State
<1>10. AllLines(S, Lines(t)) /\ JoinLines(Lines(t)) = b BY <1>4, <1>9, SplitLaw
<1>11. ASSUME s = e PROVE Lines(t) = <<b>> /\ OneLine(b)
  <2>1. OneLine(b)
    <3>1. \A k \in 1 .. (j - i) : i + k \in (i + 1) .. j BY <1>0
    <3> QED BY <1>1, <1>4, <1>11, <3>1 DEF OneLine
  <2> QED BY <1>4, <1>9, <2>1, OneLineSplit
<1> QED BY <1>1, <1>2, <1>8, <1>10, <1>11

\* w is v with the lines ms, joined, in the place of what it has from i to j.
Replaces(v, i, j, ms, w, k, p, b, q) ==
  p = Cut(v, 0, i) /\ b = JoinLines(ms) /\ q = Rest(v, j) /\ w = p \o b \o q /\ k = i + Len(b)

\* What TransformLines makes of a block: the text around it is kept, the cursor
\* stays in it, a selection becomes the block.
LEMMA TransformedBlock ==
  ASSUME NEW S, Newline \in S, NEW v \in Seq(S), NEW s \in 0 .. Len(v), NEW e \in s .. Len(v),
         NEW t, NEW i, NEW j, Touches(v, s, e, t, i, j),
         NEW ms, NEW w, NEW k, NEW p, NEW b \in Seq(S), NEW q, Replaces(v, i, j, ms, w, k, p, b, q),
         NEW u, u = TransformLines(t, ms)
  PROVE /\ Block(S, w, i, k, p, b, q)
        /\ s = e => \E c \in i .. k : u = State(w, c, c)
        /\ s # e => u = State(w, i, k)
<1>1. /\ i \in 0 .. s /\ j \in i .. Len(v) /\ s <= j
      /\ Block(S, v, i, j, Cut(v, 0, i), Cut(v, i, j), Rest(v, j))
  BY TouchedBlock
<1>0. s \in Nat /\ e \in Nat /\ Len(v) \in Nat /\ i \in Nat /\ j \in Nat /\ Len(b) \in Nat BY <1>1
<1>2. p = Cut(v, 0, i) /\ b = JoinLines(ms) /\ q = Rest(v, j) /\ w = p \o b \o q /\ k = i + Len(b)
  BY DEF Replaces
<1>3. Block(S, v, i, j, p, Cut(v, i, j), q) BY <1>1, <1>2
<1>4. Len(p) = i BY <1>3 DEF Block, InRow
<1>5. Block(S, w, i, k, p, b, q)
  <2>1. InRow(w, i, k, p, b, q) BY <1>2, <1>4 DEF InRow
  <2> QED BY <1>3, <2>1 DEF Block
<1>6. PICK g : g = Len(b) - (j - i) OBVIOUS
<1>7. PICK c : c = IF s + g < i THEN i ELSE s + g OBVIOUS
<1>8. g \in Int /\ c \in i .. k
  <2>1. s <= j /\ i <= s BY <1>0, <1>1
  <2>2. PICK n : n = Len(b) OBVIOUS
  <2>3. n \in Nat /\ k = i + n /\ g = n - (j - i) BY <1>0, <1>2, <1>6, <2>2
  <2>4. s \in Nat /\ i \in Nat /\ j \in Nat BY <1>0
  <2> QED BY ONLY <1>7, <2>1, <2>3, <2>4
<1>9. /\ t.value = v /\ t.start = s /\ t.end = e
      /\ i = LineStart(t) /\ j = LineEnd(t)
  BY DEF Touches, State
<1>10. u = IF s = e THEN State(w, c, c) ELSE State(w, i, i + Len(b))
  <2>1. u = IF t.start = t.end
            THEN State(Cut(t.value, 0, LineStart(t)) \o JoinLines(ms) \o Rest(t.value, LineEnd(t)),
                       IF t.start + (Len(JoinLines(ms)) - (LineEnd(t) - LineStart(t))) < LineStart(t)
                       THEN LineStart(t) ELSE t.start + (Len(JoinLines(ms)) - (LineEnd(t) - LineStart(t))),
                       IF t.start + (Len(JoinLines(ms)) - (LineEnd(t) - LineStart(t))) < LineStart(t)
                       THEN LineStart(t) ELSE t.start + (Len(JoinLines(ms)) - (LineEnd(t) - LineStart(t))))
            ELSE State(Cut(t.value, 0, LineStart(t)) \o JoinLines(ms) \o Rest(t.value, LineEnd(t)),
                       LineStart(t), LineStart(t) + Len(JoinLines(ms)))
    BY DEF TransformLines
  <2>2. c = IF t.start + (Len(JoinLines(ms)) - (LineEnd(t) - LineStart(t))) < LineStart(t)
            THEN LineStart(t) ELSE t.start + (Len(JoinLines(ms)) - (LineEnd(t) - LineStart(t)))
    BY <1>2, <1>6, <1>7, <1>9
  <2>3. w = Cut(t.value, 0, LineStart(t)) \o JoinLines(ms) \o Rest(t.value, LineEnd(t)) BY <1>2, <1>9
  <2> QED BY <1>2, <1>9, <2>1, <2>2, <2>3
<1> QED BY <1>2, <1>5, <1>8, <1>10

\* Marked lines are found again by the same button, all but a last one that is
\* empty and was skipped; put back as they were, they make the text it was.
LEMMA MarksComeOff ==
  ASSUME NEW S, Newline \in S, NEW v \in Seq(S), NEW s \in 0 .. Len(v), NEW e \in s .. Len(v),
         NEW t, t = State(v, s, e), NEW ls, ls = Lines(t), NEW mk, MarksOf(S, ls, mk),
         NEW ms, ms = Marked(ls, mk), NEW u, u = TransformLines(t, ms)
  PROVE /\ AllLines(S, ls) /\ AllLines(S, ms) /\ Len(ms) = Len(ls)
        /\ \A k \in 1 .. Len(ls) : ms[k] = IF Skipped(ls, k) THEN ls[k] ELSE mk[k] \o ls[k]
        /\ \E n \in 1 .. Len(ls) :
             /\ Lines(u) = Cut(ms, 0, n)
             /\ \A k \in (n + 1) .. Len(ls) : Skipped(ls, k)
             /\ TransformLines(u, Cut(ls, 0, n)).value = v
<1>1. PICK i, j : Touches(v, s, e, t, i, j) BY DEF Touches
<1>2. PICK p, o, q : p = Cut(v, 0, i) /\ o = Cut(v, i, j) /\ q = Rest(v, j) OBVIOUS
<1>3. /\ Block(S, v, i, j, p, o, q)
      /\ AllLines(S, ls) /\ JoinLines(ls) = o
      /\ s = e => ls = <<o>> /\ OneLine(o)
  BY <1>1, <1>2, TouchedBlock
<1>4. v = p \o o \o q /\ p \in Seq(S) /\ o \in Seq(S) /\ q \in Seq(S) BY <1>3 DEF Block, InRow
<1>5. /\ AllLines(S, ms) /\ Len(ms) = Len(ls)
      /\ \A k \in 1 .. Len(ls) : ms[k] = IF Skipped(ls, k) THEN ls[k] ELSE mk[k] \o ls[k]
      /\ \A k \in 1 .. Len(ls) : ms[k] = <<>> => Skipped(ls, k)
  BY <1>3, MarkedLaw
<1>6. PICK b, n : b = JoinLines(ms) /\ n = Len(ls) OBVIOUS
<1>7. b \in Seq(S) BY <1>5, <1>6, JoinedLaw
<1>8. n \in Nat /\ n > 0 /\ n \in 1 .. Len(ls) BY <1>3, <1>6 DEF AllLines
<1>9. PICK w, h : w = p \o b \o q /\ h = i + Len(b) OBVIOUS
<1>10. /\ Block(S, w, i, h, p, b, q)
       /\ s = e => \E c \in i .. h : u = State(w, c, c)
       /\ s # e => u = State(w, i, h)
  <2>1. Replaces(v, i, j, ms, w, h, p, b, q) BY <1>2, <1>6, <1>9 DEF Replaces
  <2> QED BY <1>1, <1>7, <2>1, TransformedBlock
<1>11. Cut(ms, 0, n) = ms /\ Cut(ls, 0, n) = ls
  <2>1. ASSUME NEW x, AllLines(S, x), Len(x) = n PROVE Cut(x, 0, n) = x
    <3>1. x \in Seq(Seq(S)) BY <2>1 DEF AllLines
    <3> QED BY <1>8, <2>1, <3>1 DEF Cut
  <2> QED BY <1>3, <1>5, <1>6, <2>1
<1> DEFINE Done(d) ==
             /\ Lines(u) = Cut(ms, 0, d)
             /\ \A k \in (d + 1) .. Len(ls) : Skipped(ls, k)
             /\ TransformLines(u, Cut(ls, 0, d)).value = v
<1>12. ASSUME StandsAt(u, w, i, h) PROVE Done(n)
  <2>1. Lines(u) = ms /\ TransformLines(u, ls).value = p \o JoinLines(ls) \o q
    <3>1. Block(S, w, i, h, p, JoinLines(ms), q) BY <1>6, <1>10
    <3>2. Newline \in S /\ AllLines(S, ms) BY <1>5
    <3> QED BY ONLY <1>12, <3>1, <3>2, BlockReplaced
  <2>2. \A k \in (n + 1) .. Len(ls) : Skipped(ls, k) BY <1>6, <1>8
  <2> QED BY <1>3, <1>4, <1>11, <2>1, <2>2
<1>13. CASE s = e
  <2>1. PICK c \in i .. h : u = State(w, c, c) BY <1>10, <1>13
  <2>2. OneLine(b)
    <3>1. ls = <<o>> /\ Len(ls) = 1 BY <1>3, <1>13
    <3>2. Len(ms) = 1 /\ Len(ms) > 0 /\ ms \in Seq(Seq(S)) /\ OneLine(ms[1])
      BY <1>5, <3>1 DEF AllLines
    <3>3. b = ms[1] BY <1>6, <3>2, JoinStep
    <3> QED BY <3>2, <3>3
  <2>3. LineStart(State(w, c, c)) = i /\ LineEnd(State(w, c, c)) = h
    BY <1>10, <2>2, CursorInBlock
  <2>4. StandsAt(u, w, i, h) BY <2>1, <2>3 DEF State, StandsAt
  <2>5. Done(n) BY <1>12, <2>4
  <2> QED BY <1>3, <1>5, <1>8, <2>5
<1>14. CASE s # e
  <2>1. u = State(w, i, h) BY <1>10, <1>14
  <2>2. u.value = w BY <2>1 DEF State
  <2>3. /\ ms[n] # <<>> => Len(b) > 0 /\ b[Len(b)] # Newline
        /\ ms[n] = <<>> /\ n > 1 =>
             /\ Len(b) > 0 /\ b[Len(b)] = Newline
             /\ b = JoinLines(Cut(ms, 0, n - 1)) \o <<Newline>>
             /\ AllLines(S, Cut(ms, 0, n - 1))
    <3>1. n = Len(ms) BY <1>5, <1>6
    <3> QED BY <1>5, <1>6, <3>1, JoinedEnd
  <2>4. CASE ms[n] # <<>>
    <3>1. LineStart(u) = i /\ LineEnd(u) = h BY <1>10, <2>1, <2>3, <2>4, BlockSelected
    <3>2. Done(n) BY <1>12, <2>2, <3>1 DEF StandsAt
    <3> QED BY <1>3, <1>5, <1>8, <3>2
  <2>5. CASE ms[n] = <<>>
    <3>1. Skipped(ls, n) BY <1>5, <1>8, <2>5
    <3>2. n > 1 /\ ls[n] = <<>> BY <1>6, <3>1 DEF Skipped
    <3>3. LineStart(u) = i /\ LineEnd(u) = h - 1 BY <1>10, <2>1, <2>3, <2>5, <3>2, BlockSelected
    <3>4. PICK m, c, y, r : /\ m = Cut(ms, 0, n - 1) /\ c = JoinLines(m)
                            /\ y = <<Newline>> /\ r = y \o q
      OBVIOUS
    <3>5. AllLines(S, m) /\ b = c \o y BY <2>3, <2>5, <3>2, <3>4
    <3>6. c \in Seq(S) BY <3>4, <3>5, JoinedLaw
    <3>7. y \in Seq(S) /\ Len(y) = 1 /\ y[1] = Newline BY <3>4
    <3>8. /\ r \in Seq(S) /\ Len(r) = Len(y) + Len(q) /\ \A k \in 1 .. Len(y) : r[k] = y[k]
      BY <1>4, <3>4, <3>7, JoinLaw
    <3>9. PICK z : z = JoinLines(Cut(ls, 0, n - 1)) OBVIOUS
    <3>10. z \in Seq(S) /\ o = z \o y
      <4>1. /\ o = JoinLines(Cut(ls, 0, n - 1)) \o <<Newline>>
            /\ AllLines(S, Cut(ls, 0, n - 1))
        BY <1>3, <1>6, <3>2, JoinedEnd
      <4> QED BY <3>4, <3>9, <4>1, JoinedLaw
    <3>11. \A x \in Seq(S) : p \o x \o r = p \o (x \o y) \o q
      <4>1. ASSUME NEW x \in Seq(S) PROVE p \o x \o r = p \o (x \o y) \o q
        <5>1. PICK f, g : f = p \o x /\ g = x \o y OBVIOUS
        <5>2. f \in Seq(S) /\ g \in Seq(S) BY <1>4, <3>7, <5>1
        <5>3. p \in Seq(S) /\ q \in Seq(S) /\ y \in Seq(S) /\ x \in Seq(S) BY <1>4, <3>7
        <5>6. f \in Seq(S) BY <5>2
        <5>7. y \in Seq(S) BY <3>7
        <5>8. q \in Seq(S) BY <1>4
        <5>9. p \in Seq(S) BY <1>4
        <5>10. x \in Seq(S) BY <4>1
        <5>4. (f \o y) \o q = f \o (y \o q) BY ONLY <5>6, <5>7, <5>8, ConcatAssociative
        <5>5. (p \o x) \o y = p \o (x \o y) BY ONLY <5>9, <5>10, <5>7, ConcatAssociative
        <5> QED BY <3>4, <5>1, <5>4, <5>5
      <4> QED BY <4>1
    <3>12. Block(S, w, i, h - 1, p, c, r)
      <4>1. w = p \o c \o r BY <1>9, <3>5, <3>6, <3>11
      <4>2. i = Len(p) /\ Len(b) = Len(c) + 1 /\ Len(c) \in Nat /\ i \in Nat
        <5>1. Len(c \o y) = Len(c) + Len(y) BY <3>6, <3>7, JoinLaw
        <5>2. i = Len(p) /\ p \in Seq(S) BY <1>3 DEF Block, InRow
        <5> QED BY <3>5, <3>6, <3>7, <5>1, <5>2
      <4>3. h - 1 = Len(p) + Len(c) BY <1>9, <4>2
      <4>4. r[1] = Newline
        <5>1. 1 \in 1 .. Len(y) BY <3>7
        <5> QED BY <3>7, <3>8, <5>1
      <4>5. i > 0 => p[i] = Newline BY <1>3 DEF Block
      <4> QED BY <1>4, <3>6, <3>8, <4>1, <4>2, <4>3, <4>4, <4>5 DEF Block, InRow
    <3>13. Lines(u) = m /\ TransformLines(u, Cut(ls, 0, n - 1)).value = p \o z \o r
      <4>1. Block(S, w, i, h - 1, p, JoinLines(m), r) BY <3>4, <3>12
      <4>2. StandsAt(u, w, i, h - 1) BY <2>2, <3>3 DEF StandsAt
      <4>3. Newline \in S /\ AllLines(S, m) BY <3>5
      <4>4. PICK x : x = Cut(ls, 0, n - 1) OBVIOUS
      <4>6. PICK g : g = h - 1 OBVIOUS
      <4>7. Block(S, w, i, g, p, JoinLines(m), r) /\ StandsAt(u, w, i, g) BY <4>1, <4>2, <4>6
      <4>5. Lines(u) = m /\ TransformLines(u, x).value = p \o JoinLines(x) \o r
        BY ONLY <4>3, <4>7, BlockReplaced
      <4> QED BY <3>9, <4>4, <4>5
    <3>14. p \o z \o r = v BY <1>4, <3>10, <3>11
    <3>15. n - 1 \in 1 .. Len(ls) /\ \A k \in ((n - 1) + 1) .. Len(ls) : k = n BY <1>6, <1>8, <3>2
    <3>16. Done(n - 1) BY <3>1, <3>4, <3>13, <3>14, <3>15
    <3> QED BY <1>3, <1>5, <3>15, <3>16
  <2> QED BY <2>4, <2>5
<1> QED BY <1>13, <1>14

\* A mark put before a line is found there, and what follows it is the line.
LEMMA MarkFound ==
  ASSUME NEW S, NEW m \in Seq(S), NEW l \in Seq(S)
  PROVE Begins(m \o l, m) /\ Rest(m \o l, Len(m)) = l
<1>1. PICK x : x = m \o l OBVIOUS
<1>2. /\ x \in Seq(S) /\ Len(x) = Len(m) + Len(l)
      /\ \A k \in 1 .. Len(m) : x[k] = m[k]
      /\ \A k \in 1 .. Len(l) : x[Len(m) + k] = l[k]
  BY ONLY <1>1, m \in Seq(S), l \in Seq(S), JoinLaw
<1>3. Len(m) \in Nat /\ Len(l) \in Nat OBVIOUS
<1>4. Cut(x, 0, Len(m)) = m
  <2>1. 0 \in 0 .. Len(x) /\ Len(m) \in 0 .. Len(x) BY <1>2, <1>3
  <2>2. x \in Seq(S) BY <1>2
  <2>3. PICK c : c = Cut(x, 0, Len(m)) OBVIOUS
  <2>4. /\ c \in Seq(S) /\ Len(c) = Len(m) - 0
        /\ \A k \in 1 .. (Len(m) - 0) : c[k] = x[0 + k]
    BY ONLY <2>1, <2>2, <2>3, CutLaw
  <2>5. Len(m) - 0 = Len(m) /\ \A k \in 1 .. Len(m) : 0 + k = k BY <1>3
  <2>6. Len(c) = Len(m) /\ \A k \in 1 .. Len(c) : c[k] = m[k] BY <1>2, <2>4, <2>5
  <2>7. c \in Seq(S) BY <2>4
  <2>8. c = m BY ONLY m \in Seq(S), <2>6, <2>7, SeqEqual
  <2> QED BY <2>3, <2>8
<1>5. Rest(x, Len(m)) = l
  <2>1. Len(m) \in 0 .. Len(x) BY <1>2, <1>3
  <2>2. x \in Seq(S) BY <1>2
  <2>3. PICK c : c = Rest(x, Len(m)) OBVIOUS
  <2>4. /\ c \in Seq(S) /\ Len(c) = Len(x) - Len(m)
        /\ \A k \in 1 .. (Len(x) - Len(m)) : c[k] = x[Len(m) + k]
    BY ONLY <2>1, <2>2, <2>3, RestLaw
  <2>5. Len(x) - Len(m) = Len(l) BY <1>2, <1>3
  <2>6. Len(c) = Len(l) /\ \A k \in 1 .. Len(c) : c[k] = l[k] BY <1>2, <2>4, <2>5
  <2>7. c \in Seq(S) BY <2>4
  <2>8. c = l BY ONLY l \in Seq(S), <2>6, <2>7, SeqEqual
  <2> QED BY <2>3, <2>8
<1>6. Len(x) >= Len(m) BY <1>2, <1>3
<1> QED BY <1>1, <1>4, <1>5, <1>6 DEF Begins

\* The characters of a number.
Figures == ToSet(Digits)

\* They are the ten digits.
LEMMA FiguresAre == Figures = {"0", "1", "2", "3", "4", "5", "6", "7", "8", "9"}
<1>1. DOMAIN Digits = 1 .. 10 BY DEF Digits
<1>2. Figures = {Digits[i] : i \in 1 .. 10} BY <1>1 DEF Figures, ToSet
<1>3. 1 .. 10 = {1, 2, 3, 4, 5, 6, 7, 8, 9, 10} OBVIOUS
<1> QED BY <1>2, <1>3 DEF Digits

\* A number in decimal is made of figures, at least one.
LEMMA NumeralLaw ==
  ASSUME NEW n \in Nat
  PROVE Numeral(n) \in Seq(Figures) /\ Len(Numeral(n)) > 0
<1> DEFINE Unit(k) == <<Digits[(k % 10) + 1]>>
           Step(f, k) == (IF k < 10 THEN <<>> ELSE f[k \div 10]) \o Unit(k)
           Def(f, m) == f = [k \in 0 .. m |-> Step(f, k)]
           Good(x) == x \in Seq(Figures) /\ Len(x) > 0
<1>1. \A k \in Nat : Good(Unit(k))
  <2>1. ASSUME NEW k \in Nat PROVE Good(Unit(k))
    <3>1. (k % 10) + 1 \in 1 .. 10 OBVIOUS
    <3>2. PICK i : i = (k % 10) + 1 OBVIOUS
    <3>3. DOMAIN Digits = 1 .. 10 BY DEF Digits
    <3>4. Digits[i] \in Figures BY <3>1, <3>2, <3>3 DEF Figures, ToSet
    <3>5. <<Digits[i]>> \in Seq(Figures) /\ Len(<<Digits[i]>>) = 1 BY <3>4
    <3> QED BY <3>2, <3>5
  <2> QED BY <2>1
<1>2. \A k \in Nat : k >= 10 => k \div 10 \in 0 .. (k - 1) OBVIOUS
<1> HIDE DEF Unit
<1>3. \E f : Def(f, n)
  <2> DEFINE T == {m \in Nat : ~\E f : Def(f, m)}
  <2>1. T = {}
    <3> SUFFICES ASSUME T # {} PROVE FALSE OBVIOUS
    <3>1. T \in SUBSET Nat OBVIOUS
    <3>2. PICK m \in T : \A y \in T : m <= y
      <4> HIDE DEF T
      <4> QED BY <3>1, Smallest
    <3>3. m \in Nat /\ ~\E f : Def(f, m) BY <3>2
    <3>4. \E g : \A k \in 0 .. (m - 1) : g[k] = Step(g, k)
      <4>1. CASE m = 0 BY <4>1
      <4>2. CASE m # 0
        <5> HIDE DEF Step
        <5>1. m - 1 \in Nat BY <3>3, <4>2
        <5>2. m - 1 \notin T
          <6> HIDE DEF T
          <6> QED BY <3>2, <3>3
        <5>3. \E g : Def(g, m - 1)
          <6> HIDE DEF Def
          <6> QED BY <5>1, <5>2
        <5> QED BY <5>3
      <4> QED BY <4>1, <4>2
    <3>5. PICK g : \A k \in 0 .. (m - 1) : g[k] = Step(g, k)
      <4> HIDE DEF Step
      <4> QED BY <3>4
    <3> DEFINE f == [k \in 0 .. m |-> Step(g, k)]
    <3>6. \A k \in 0 .. (m - 1) : f[k] = g[k]
      <4>1. \A k \in 0 .. (m - 1) : k \in 0 .. m BY <3>3
      <4> HIDE DEF Step
      <4> QED BY <3>5, <4>1
    <3>7. \A k \in 0 .. m : k >= 10 => k \div 10 \in 0 .. (m - 1) BY <1>2, <3>3
    <3>8. \A k \in 0 .. m : k >= 10 => f[k \div 10] = g[k \div 10] BY <3>6, <3>7
    <3>9. \A k \in 0 .. m : f[k] = Step(f, k)
      <4>1. ASSUME NEW k \in 0 .. m PROVE f[k] = Step(f, k)
        <5>1. f[k] = Step(g, k)
          <6> HIDE DEF Step
          <6> QED OBVIOUS
        <5>2. k \in Nat BY <3>3
        <5>3. k < 10 \/ k >= 10 BY <5>2
        <5>4. CASE k < 10 BY <5>1, <5>4
        <5>5. CASE k >= 10
          <6>1. f[k \div 10] = g[k \div 10] BY <3>8, <5>5
          <6> HIDE DEF f
          <6> QED BY <5>1, <6>1
        <5> QED BY <5>3, <5>4, <5>5
      <4> HIDE DEF f, Step
      <4> QED BY <4>1
    <3>10. Def(f, m)
      <4>1. f = [k \in 0 .. m |-> f[k]] OBVIOUS
      <4> HIDE DEF f, Step
      <4> QED BY <3>9, <4>1
    <3> QED BY <3>3, <3>10
  <2>2. n \notin T
    <3> HIDE DEF T
    <3> QED BY <2>1
  <2> HIDE DEF Def
  <2> QED BY <2>2
<1> DEFINE c == CHOOSE f : Def(f, n)
<1>4. Def(c, n)
  <2> HIDE DEF Def
  <2> QED BY <1>3
<1>5. Numeral(n) = c[n] BY DEF Numeral, Unit
<1>6. PICK f : Def(f, n) /\ Numeral(n) = f[n]
  <2> HIDE DEF Def
  <2> QED BY <1>4, <1>5
<1> HIDE DEF c
<1> DEFINE T == {k \in Nat : k <= n /\ ~Good(f[k])}
<1>7. T = {}
  <2> SUFFICES ASSUME T # {} PROVE FALSE OBVIOUS
  <2>1. T \in SUBSET Nat OBVIOUS
  <2>2. PICK k \in T : \A y \in T : k <= y
    <3> HIDE DEF T
    <3> QED BY <2>1, Smallest
  <2>3. k \in Nat /\ k <= n /\ ~Good(f[k]) BY <2>2
  <2>4. f[k] = Step(f, k)
    <3>1. k \in 0 .. n BY <2>3
    <3> HIDE DEF Step
    <3> QED BY <1>6, <3>1
  <2> HIDE DEF Def
  <2>5. Good(Unit(k)) BY <1>1, <2>3
  <2>6. PICK x : x = IF k < 10 THEN <<>> ELSE f[k \div 10] OBVIOUS
  <2>7. x \in Seq(Figures)
    <3>1. CASE k < 10 BY <2>6, <3>1
    <3>2. CASE k >= 10
      <4>1. PICK d : d = k \div 10 OBVIOUS
      <4>2. d \in 0 .. (k - 1) BY <1>2, <2>3, <3>2, <4>1
      <4>3. d \in Nat /\ d < k /\ d <= n BY <2>3, <4>2
      <4>4. d \notin T
        <5> HIDE DEF T
        <5> QED BY <2>2, <2>3, <4>3
      <4>5. Good(f[d])
        <5> HIDE DEF Good
        <5> QED BY <4>3, <4>4
      <4>6. x = f[d] BY <2>3, <2>6, <3>2, <4>1
      <4> QED BY <4>5, <4>6
    <3> QED BY <2>3, <3>1, <3>2
  <2>8. PICK y : y = Unit(k) OBVIOUS
  <2>9. y \in Seq(Figures) BY <2>5, <2>8
  <2>10. Len(y) \in Nat /\ Len(y) > 0 /\ Len(x) \in Nat BY <2>5, <2>7, <2>8
  <2>11. x \o y \in Seq(Figures) /\ Len(x \o y) = Len(x) + Len(y) BY ONLY <2>7, <2>9, JoinLaw
  <2>12. Good(x \o y) BY <2>10, <2>11
  <2> HIDE DEF Good
  <2> QED BY <2>3, <2>4, <2>6, <2>8, <2>12
<1>8. Good(f[n])
  <2>1. n \notin T
    <3> HIDE DEF T
    <3> QED BY <1>7
  <2> HIDE DEF Good
  <2> QED BY <2>1
<1> QED BY <1>6, <1>8

\* Characters of marks, named for the provers.
Dot == "."
Space == " "
Hash == "#"

\* The mark of a quote and of a bullet is found.
LEMMA PlainMarkFound ==
  ASSUME NEW S, NEW l \in Seq(S), NEW kind \in {"quote", "bullet"},
         NEW m \in Seq(S), m = IF kind = "quote" THEN <<">", " ">> ELSE <<"-", " ">>
  PROVE MarkLength(kind, m \o l) = Len(m)
<1>1. Begins(m \o l, m) BY MarkFound
<1>2. Len(m) = 2 OBVIOUS
<1>3. CASE kind = "quote" BY <1>1, <1>2, <1>3 DEF MarkLength
<1>4. CASE kind = "bullet" BY <1>1, <1>2, <1>4 DEF MarkLength
<1> QED BY <1>3, <1>4

\* So is that of a numbered item, whatever its number.
LEMMA NumberFound ==
  ASSUME NEW S, NEW l \in Seq(S), NEW d \in Seq(S), d \in Seq(Figures), Len(d) > 0,
         Dot \in S, Space \in S, NEW m, m = d \o <<Dot, Space>>
  PROVE MarkLength("ordered", m \o l) = Len(m)
<1>1. PICK p : p = <<Dot, Space>> OBVIOUS
<1>2. p \in Seq(S) /\ Len(p) = 2 /\ p[1] = Dot BY <1>1
<1>p. p \in Seq(S) BY <1>2
<1>3. m = d \o p BY <1>1
<1>4. PICK r : r = p \o l OBVIOUS
<1>5. /\ r \in Seq(S) /\ Len(r) = Len(p) + Len(l)
      /\ \A k \in 1 .. Len(p) : r[k] = p[k]
  BY ONLY <1>p, <1>4, l \in Seq(S), JoinLaw
<1>r. r \in Seq(S) BY <1>5
<1>6. m \o l = d \o r
  <2>1. (d \o p) \o l = d \o (p \o l) BY ONLY <1>p, l \in Seq(S), d \in Seq(S), ConcatAssociative
  <2> QED BY <1>3, <1>4, <2>1
<1>7. PICK x : x = d \o r OBVIOUS
<1>8. /\ x \in Seq(S) /\ Len(x) = Len(d) + Len(r)
      /\ \A k \in 1 .. Len(d) : x[k] = d[k]
      /\ \A k \in 1 .. Len(r) : x[Len(d) + k] = r[k]
  BY ONLY <1>r, <1>7, d \in Seq(S), JoinLaw
<1>9. PICK n : n = Len(d) OBVIOUS
<1>10. n \in Nat /\ n > 0 /\ Len(l) \in Nat /\ Len(r) \in Nat /\ Len(r) >= 2 BY <1>2, <1>5, <1>9
<1>11. Lead(x, Figures) = n
  <2>1. Leads(x, Figures, n)
    <3>1. n \in 0 .. Len(x) BY <1>8, <1>9, <1>10
    <3>2. \A k \in 1 .. n : x[k] \in Figures BY <1>8, <1>9
    <3>3. x[n + 1] = Dot
      <4>1. 1 \in 1 .. Len(r) /\ 1 \in 1 .. Len(p) BY <1>2, <1>10
      <4> QED BY <1>2, <1>5, <1>8, <1>9, <4>1
    <3>4. Dot \notin Figures BY FiguresAre, Zenon DEF Dot
    <3> QED BY <3>1, <3>2, <3>3, <3>4 DEF Leads
  <2>2. x \in Seq(S) BY <1>8
  <2> QED BY <2>1, <2>2, LeadLaw
<1>12. Rest(x, n) = r
  <2>1. Rest(d \o r, Len(d)) = r BY ONLY <1>r, d \in Seq(S), MarkFound
  <2> QED BY <1>7, <1>9, <2>1
<1>13. Begins(r, p)
  <2>1. Begins(p \o l, p) BY ONLY <1>p, l \in Seq(S), MarkFound
  <2> QED BY <1>4, <2>1
<1>14. Len(m) = n + 2
  <2>1. Len(d \o p) = Len(d) + Len(p) BY ONLY <1>p, d \in Seq(S), JoinLaw
  <2> QED BY <1>2, <1>3, <1>9, <2>1
<1>15. MarkLength("ordered", x) = IF n > 0 /\ Begins(Rest(x, n), p) THEN n + 2 ELSE 0
  BY <1>1, <1>11, Zenon DEF MarkLength, Figures, Dot, Space
<1> QED BY <1>6, <1>7, <1>10, <1>12, <1>13, <1>14, <1>15

\* A line that begins with the mark of a heading is one.
LEMMA HeadingFound ==
  ASSUME NEW S, NEW l \in Seq(S), NEW level \in 1 .. 6, NEW m, m = Times(Hash, level) \o <<Space>>,
         Begins(l, m)
  PROVE MarkLength("heading", l) > 0
<1>1. PICK h, p : h = Times(Hash, level) /\ p = <<Space>> OBVIOUS
<1>2. h \in Seq({Hash, Space}) /\ Len(h) = level /\ \A k \in 1 .. level : h[k] = Hash
  BY <1>1 DEF Times
<1>3. p \in Seq({Hash, Space}) /\ Len(p) = 1 /\ p[1] = Space BY <1>1
<1>4. /\ Len(m) = level + 1
      /\ \A k \in 1 .. level : m[k] = Hash
      /\ m[level + 1] = Space
  <2>1. h \in Seq({Hash, Space}) BY <1>2
  <2>2. p \in Seq({Hash, Space}) BY <1>3
  <2>3. /\ Len(h \o p) = Len(h) + Len(p)
        /\ \A k \in 1 .. Len(h) : (h \o p)[k] = h[k]
        /\ \A k \in 1 .. Len(p) : (h \o p)[Len(h) + k] = p[k]
    BY ONLY <2>1, <2>2, JoinLaw
  <2>4. 1 \in 1 .. Len(p) BY <1>3
  <2> QED BY <1>1, <1>2, <1>3, <2>3, <2>4
<1>5. Len(l) \in Nat /\ Len(l) >= level + 1 /\ Cut(l, 0, level + 1) = m BY <1>4 DEF Begins
<1>6. \A k \in 1 .. (level + 1) : l[k] = m[k]
  <2>1. 0 \in 0 .. Len(l) /\ level + 1 \in 0 .. Len(l) BY <1>5
  <2>2. PICK j : j = level + 1 OBVIOUS
  <2>3. j \in 0 .. Len(l) BY <2>1, <2>2
  <2>4. \A k \in 1 .. (j - 0) : Cut(l, 0, j)[k] = l[0 + k]
    BY ONLY l \in Seq(S), <2>1, <2>3, CutLaw
  <2>5. j - 0 = j /\ \A k \in 1 .. j : 0 + k = k BY <2>2
  <2> QED BY <1>5, <2>2, <2>4, <2>5
<1>7. \A k \in 1 .. level : l[k] = Hash
  <2>1. \A k \in 1 .. level : k \in 1 .. (level + 1) OBVIOUS
  <2> QED BY <1>4, <1>6, <2>1
<1>8. l[level + 1] = Space BY <1>4, <1>6
<1>9. Lead(l, {Hash}) = level
  <2>2. Space \notin {Hash} BY Zenon DEF Space, Hash
  <2>3. level \in 0 .. Len(l) BY <1>5
  <2>1. Leads(l, {Hash}, level) BY <1>7, <1>8, <2>2, <2>3 DEF Leads
  <2> QED BY <2>1, LeadLaw
<1>10. Begins(Rest(l, level), <<Space>>)
  <2>1. PICK r : r = Rest(l, level) OBVIOUS
  <2>2. level \in 0 .. Len(l) BY <1>5
  <2>3. /\ r \in Seq(S) /\ Len(r) = Len(l) - level
        /\ \A k \in 1 .. (Len(l) - level) : r[k] = l[level + k]
    BY ONLY l \in Seq(S), <2>1, <2>2, RestLaw
  <2>4. r[1] = Space /\ Len(r) >= 1 /\ Len(r) \in Nat
    <3>1. 1 \in 1 .. (Len(l) - level) BY <1>5
    <3> QED BY <1>5, <1>8, <2>3, <3>1
  <2>5. PICK c : c = Cut(r, 0, 1) OBVIOUS
  <2>6. c \in Seq(S) /\ Len(c) = 1 /\ c[1] = Space
    <3>1. 0 \in 0 .. Len(r) /\ 1 \in 0 .. Len(r) BY <2>4
    <3>2. r \in Seq(S) BY <2>3
    <3>3. c \in Seq(S) /\ Len(c) = 1 - 0 /\ \A k \in 1 .. (1 - 0) : c[k] = r[0 + k]
      BY ONLY <2>5, <3>1, <3>2, CutLaw
    <3>4. 1 - 0 = 1 /\ 0 + 1 = 1 OBVIOUS
    <3> QED BY <2>4, <3>3, <3>4
  <2>7. c = <<Space>> BY <2>6
  <2>8. Len(<<Space>>) = 1 OBVIOUS
  <2> QED BY <2>1, <2>4, <2>5, <2>7, <2>8 DEF Begins
<1>12. level \in 1 .. 6 OBVIOUS
<1>11. MarkLength("heading", l) = level + 1 BY <1>9, <1>10, <1>12, Zenon DEF MarkLength, Hash, Space
<1>13. level + 1 > 0 OBVIOUS
<1> QED BY <1>11, <1>13

\* The touched lines put back as they are make the text it was.
LEMMA LinesKept ==
  ASSUME NEW S, Newline \in S, NEW v \in Seq(S), NEW s \in 0 .. Len(v), NEW e \in s .. Len(v),
         NEW t, t = State(v, s, e), NEW ls, ls = Lines(t)
  PROVE AllLines(S, ls) /\ TransformLines(t, ls).value = v
<1>1. PICK i, j : Touches(v, s, e, t, i, j) BY DEF Touches
<1>2. PICK p, o, q : p = Cut(v, 0, i) /\ o = Cut(v, i, j) /\ q = Rest(v, j) OBVIOUS
<1>3. Block(S, v, i, j, p, o, q) /\ AllLines(S, ls) /\ JoinLines(ls) = o
  BY <1>1, <1>2, TouchedBlock
<1>4. StandsAt(t, v, i, j) BY <1>1 DEF StandsAt, Touches, State
<1>5. v = p \o o \o q BY <1>3 DEF Block, InRow
<1>6. Block(S, v, i, j, p, JoinLines(ls), q) BY <1>3
<1>7. AllLines(S, ls) /\ Newline \in S BY <1>3
<1>8. TransformLines(t, ls).value = p \o JoinLines(ls) \o q
  BY ONLY <1>4, <1>6, <1>7, BlockReplaced
<1> QED BY <1>3, <1>5, <1>8

\* The lines L with those that are marked as they are in ls.
Bare(L, ls) == [i \in DOMAIN L |-> IF Skipped(L, i) THEN L[i] ELSE ls[i]]

\* Marking the touched lines ls of the text v made the state u, which touches L.
Pressed(S, v, s, e, t, ls, mk, u, L) ==
  /\ t = State(v, s, e) /\ ls = Lines(t) /\ MarksOf(S, ls, mk)
  /\ u = TransformLines(t, Marked(ls, mk)) /\ L = Lines(u)

\* What that leaves to take off: every line to be marked carries its mark, and
\* the lines without make the text v again.
Removable(v, ls, mk, u, L) ==
  /\ Targets(L) # {} /\ DOMAIN L \subseteq DOMAIN ls
  /\ \A i \in Targets(L) : L[i] = mk[i] \o ls[i]
  /\ TransformLines(u, Bare(L, ls)).value = v

\* The same button finds the lines it has marked with their marks.
LEMMA SecondPress ==
  ASSUME NEW S, Newline \in S, NEW v \in Seq(S), NEW s \in 0 .. Len(v), NEW e \in s .. Len(v),
         NEW t, NEW ls, NEW mk, NEW u, NEW L, Pressed(S, v, s, e, t, ls, mk, u, L), Targets(ls) # {}
  PROVE Removable(v, ls, mk, u, L)
<1>0. /\ t = State(v, s, e) /\ ls = Lines(t) /\ MarksOf(S, ls, mk)
      /\ u = TransformLines(t, Marked(ls, mk)) /\ L = Lines(u)
  BY DEF Pressed
<1>1. PICK ms : ms = Marked(ls, mk) OBVIOUS
<1>2. u = TransformLines(t, ms) BY <1>0, <1>1
<1>3. /\ AllLines(S, ls) /\ AllLines(S, ms) /\ Len(ms) = Len(ls)
      /\ \A k \in 1 .. Len(ls) : ms[k] = IF Skipped(ls, k) THEN ls[k] ELSE mk[k] \o ls[k]
      /\ \E n \in 1 .. Len(ls) :
             /\ Lines(u) = Cut(ms, 0, n)
             /\ \A k \in (n + 1) .. Len(ls) : Skipped(ls, k)
             /\ TransformLines(u, Cut(ls, 0, n)).value = v
  BY <1>0, <1>1, <1>2, MarksComeOff
<1>4. PICK n \in 1 .. Len(ls) :
             /\ L = Cut(ms, 0, n)
             /\ \A k \in (n + 1) .. Len(ls) : Skipped(ls, k)
             /\ TransformLines(u, Cut(ls, 0, n)).value = v
  BY <1>0, <1>3
<1>5. Len(ls) \in Nat /\ ls \in Seq(Seq(S)) /\ DOMAIN ls = 1 .. Len(ls) /\ n \in Nat /\ n > 0 /\ n <= Len(ls)
  BY <1>3, <1>4 DEF AllLines
<1>6. \A x : AllLines(S, x) /\ Len(x) = Len(ls) =>
        /\ Cut(x, 0, n) \in Seq(Seq(S)) /\ Len(Cut(x, 0, n)) = n
        /\ \A k \in 1 .. n : Cut(x, 0, n)[k] = x[k]
  <2>1. ASSUME NEW x, AllLines(S, x), Len(x) = Len(ls)
        PROVE /\ Cut(x, 0, n) \in Seq(Seq(S)) /\ Len(Cut(x, 0, n)) = n
              /\ \A k \in 1 .. n : Cut(x, 0, n)[k] = x[k]
    <3>1. 0 \in 0 .. Len(x) /\ n \in (0 + 1) .. Len(x) BY <1>5, <2>1
    <3>2. AllLines(S, x) BY <2>1
    <3>3. /\ AllLines(S, Cut(x, 0, n)) /\ Len(Cut(x, 0, n)) = n - 0
          /\ \A k \in 1 .. (n - 0) : Cut(x, 0, n)[k] = x[0 + k]
      BY ONLY <3>1, <3>2, LinesCut
    <3>4. n - 0 = n /\ \A k \in 1 .. n : 0 + k = k BY <1>5
    <3> QED BY <3>3, <3>4 DEF AllLines
  <2> QED BY <2>1
<1>7. L \in Seq(Seq(S)) /\ Len(L) = n /\ \A k \in 1 .. n : L[k] = ms[k] BY <1>3, <1>4, <1>6
<1>8. PICK r : r = Cut(ls, 0, n) OBVIOUS
<1>9. r \in Seq(Seq(S)) /\ Len(r) = n /\ \A k \in 1 .. n : r[k] = ls[k] BY <1>3, <1>6, <1>8
<1>10. DOMAIN L = 1 .. n /\ DOMAIN r = 1 .. n BY <1>7, <1>9
<1>11. \A k \in 1 .. n : k \in 1 .. Len(ls) BY <1>5
<1>12. \A k \in 1 .. n : ~Skipped(ls, k) => ms[k] # <<>> /\ ms[k] = mk[k] \o ls[k]
  <2>1. ASSUME NEW k \in 1 .. n, ~Skipped(ls, k) PROVE ms[k] # <<>> /\ ms[k] = mk[k] \o ls[k]
    <3>1. k \in 1 .. Len(ls) BY <1>11
    <3>2. ms[k] = mk[k] \o ls[k] BY <1>3, <2>1, <3>1
    <3>3. PICK a, b : a = mk[k] /\ b = ls[k] OBVIOUS
    <3>4. a \in Seq(S) BY <1>0, <3>1, <3>3 DEF MarksOf
    <3>5. b \in Seq(S) BY <1>5, <3>1, <3>3
    <3>6. Len(a) > 0 /\ Len(a) \in Nat /\ Len(b) \in Nat BY <1>0, <3>1, <3>3, <3>4, <3>5 DEF MarksOf
    <3>7. Len(a \o b) = Len(a) + Len(b) BY ONLY <3>4, <3>5, JoinLaw
    <3>8. Len(a \o b) > 0 BY <3>6, <3>7
    <3>9. ms[k] = a \o b BY <3>2, <3>3
    <3> QED BY <3>2, <3>8, <3>9
  <2> QED BY <2>1
<1>13. PICK j \in Targets(ls) : TRUE OBVIOUS
<1>14. j \in 1 .. n /\ ~Skipped(ls, j) BY <1>4, <1>5, <1>13 DEF Targets
<1>15. \A k \in 1 .. n : Skipped(L, k) <=> Skipped(ls, k)
  <2>1. ASSUME NEW k \in 1 .. n, Skipped(ls, k) PROVE Skipped(L, k)
    <3>1. ls[k] = <<>> /\ ms[k] = <<>> BY <1>3, <1>11, <2>1 DEF Skipped
    <3>2. n > 1
      <4>1. n = 1 => k = j BY <1>14
      <4> QED BY <1>5, <1>14, <2>1, <4>1
    <3> QED BY <1>7, <3>1, <3>2 DEF Skipped
  <2>2. ASSUME NEW k \in 1 .. n, Skipped(L, k) PROVE Skipped(ls, k)
    <3>1. ms[k] = <<>> BY <1>7, <2>2 DEF Skipped
    <3> QED BY <1>12, <3>1
  <2> QED BY <2>1, <2>2
<1>16. Targets(L) = {k \in 1 .. n : ~Skipped(ls, k)} BY <1>10, <1>15 DEF Targets
<1>17. Targets(L) # {} BY <1>14, <1>16
<1>18. \A i \in Targets(L) : L[i] = mk[i] \o ls[i] BY <1>7, <1>12, <1>16
<1>19. Bare(L, ls) = r
  <2>1. \A i \in 1 .. n : r[i] = IF Skipped(L, i) THEN L[i] ELSE ls[i]
    <3>1. \A i \in 1 .. n : Skipped(L, i) => L[i] = ls[i] BY <1>3, <1>7, <1>11, <1>15
    <3> QED BY <1>9, <3>1
  <2>2. r = [i \in 1 .. n |-> r[i]] BY <1>9, <1>10
  <2>3. r = [i \in 1 .. n |-> IF Skipped(L, i) THEN L[i] ELSE ls[i]] BY ONLY <2>1, <2>2
  <2> QED BY <1>10, <2>3 DEF Bare
<1>20. DOMAIN L \subseteq DOMAIN ls BY <1>5, <1>10, <1>11
<1> QED BY <1>4, <1>8, <1>17, <1>18, <1>19, <1>20 DEF Removable

\* The lines without what n counts at their beginning.
Taken(ls, n) == [i \in DOMAIN ls |-> IF Skipped(ls, i) THEN ls[i] ELSE Rest(ls[i], n[i])]

\* The mark a prefix button puts before a line.
PrefixMark(kind, ls, i) ==
  CASE kind = "quote" -> <<">", " ">>
    [] kind = "bullet" -> <<"-", " ">>
    [] OTHER -> Numeral(Cardinality({j \in Targets(ls) : j <= i})) \o <<".", " ">>
PrefixMarks(kind, ls) == [i \in DOMAIN ls |-> PrefixMark(kind, ls, i)]
HeadingMarks(level, ls) == [i \in DOMAIN ls |-> Times(Hash, level) \o <<Space>>]

\* The lines have no mark of this kind; their marks' lengths.
Unmarked(kind, ls) == \A i \in DOMAIN ls : MarkLength(kind, ls[i]) = 0
MarkLengths(kind, ls) == [i \in DOMAIN ls |-> MarkLength(kind, ls[i])]
Lengths(n, ls) == [i \in DOMAIN ls |-> n]

\* The first thing a prefix button does: it marks the lines that have no mark.
LEMMA PrefixOn ==
  ASSUME NEW S, NEW t, NEW kind, NEW ls \in Seq(Seq(S)), ls = Lines(t),
         Unmarked(kind, ls)
  PROVE ApplyPrefix(t, kind) = TransformLines(t, Marked(ls, PrefixMarks(kind, ls)))
<1>0. PICK mk : mk = PrefixMarks(kind, ls) OBVIOUS
<1>m. mk = [i \in DOMAIN ls |-> PrefixMark(kind, ls, i)] BY <1>0 DEF PrefixMarks
<1>u. \A i \in DOMAIN ls : MarkLength(kind, ls[i]) = 0 BY DEF Unmarked
<1> DEFINE off == Targets(ls) # {} /\ \A i \in Targets(ls) : MarkLength(kind, ls[i]) > 0
           F(i) == IF Skipped(ls, i) THEN ls[i]
                   ELSE IF off THEN Rest(ls[i], MarkLength(kind, ls[i]))
                   ELSE PrefixMark(kind, ls, i) \o Rest(ls[i], MarkLength(kind, ls[i]))
           G(i) == IF Skipped(ls, i) THEN ls[i] ELSE mk[i] \o ls[i]
<1>1. ApplyPrefix(t, kind) = TransformLines(t, [i \in DOMAIN ls |-> F(i)])
  BY Zenon DEF ApplyPrefix, PrefixMark
<1>2. ~off BY <1>u DEF Targets
<1>3. ASSUME NEW i \in DOMAIN ls PROVE F(i) = G(i)
  <2>1. MarkLength(kind, ls[i]) = 0 /\ mk[i] = PrefixMark(kind, ls, i) BY <1>m, <1>u
  <2>2. ls[i] \in Seq(S) OBVIOUS
  <2>3. Rest(ls[i], 0) = ls[i] BY <2>2, RestAll
  <2> HIDE DEF off
  <2> QED BY <1>2, <2>1, <2>3, Zenon
<1>4. TransformLines(t, [i \in DOMAIN ls |-> F(i)]) = TransformLines(t, [i \in DOMAIN ls |-> G(i)])
  <2> HIDE DEF F, G
  <2>1. [i \in DOMAIN ls |-> F(i)] = [i \in DOMAIN ls |-> G(i)] BY <1>3
  <2> QED BY <2>1
<1> QED BY <1>0, <1>1, <1>4 DEF Marked

\* The second: it takes the marks off lines that all have one.
LEMMA PrefixOff ==
  ASSUME NEW t, NEW kind, NEW ls, ls = Lines(t),
         Targets(ls) # {}, \A i \in Targets(ls) : MarkLength(kind, ls[i]) > 0
  PROVE ApplyPrefix(t, kind) = TransformLines(t, Taken(ls, MarkLengths(kind, ls)))
<1>0. PICK n : n = MarkLengths(kind, ls) OBVIOUS
<1> DEFINE off == Targets(ls) # {} /\ \A i \in Targets(ls) : MarkLength(kind, ls[i]) > 0
           F(i) == IF Skipped(ls, i) THEN ls[i]
                   ELSE IF off THEN Rest(ls[i], MarkLength(kind, ls[i]))
                   ELSE PrefixMark(kind, ls, i) \o Rest(ls[i], MarkLength(kind, ls[i]))
           G(i) == IF Skipped(ls, i) THEN ls[i] ELSE Rest(ls[i], n[i])
<1>1. ApplyPrefix(t, kind) = TransformLines(t, [i \in DOMAIN ls |-> F(i)])
  BY Zenon DEF ApplyPrefix, PrefixMark
<1>2. off OBVIOUS
<1>3. ASSUME NEW i \in DOMAIN ls PROVE F(i) = G(i)
  <2>1. n[i] = MarkLength(kind, ls[i]) BY <1>0 DEF MarkLengths
  <2> HIDE DEF off
  <2> QED BY <1>2, <2>1, Zenon
<1>4. TransformLines(t, [i \in DOMAIN ls |-> F(i)]) = TransformLines(t, [i \in DOMAIN ls |-> G(i)])
  <2> HIDE DEF F, G
  <2>1. [i \in DOMAIN ls |-> F(i)] = [i \in DOMAIN ls |-> G(i)] BY <1>3
  <2> QED BY <2>1
<1> QED BY <1>0, <1>1, <1>4 DEF Taken

\* The same of a heading button.
LEMMA HeadingOn ==
  ASSUME NEW S, NEW t, NEW level \in 1 .. 6, NEW ls \in Seq(Seq(S)), ls = Lines(t),
         Unmarked("heading", ls)
  PROVE ApplyHeading(t, level) = TransformLines(t, Marked(ls, HeadingMarks(level, ls)))
<1>0. PICK m, mk : m = Times(Hash, level) \o <<Space>> /\ mk = HeadingMarks(level, ls) OBVIOUS
<1>m. mk = [i \in DOMAIN ls |-> m] BY <1>0 DEF HeadingMarks
<1>u. \A i \in DOMAIN ls : MarkLength("heading", ls[i]) = 0 BY DEF Unmarked
<1> DEFINE off == Targets(ls) # {} /\ \A i \in Targets(ls) : Begins(ls[i], m)
           F(i) == IF Skipped(ls, i) THEN ls[i]
                   ELSE IF off THEN Rest(ls[i], level + 1)
                   ELSE m \o Rest(ls[i], MarkLength("heading", ls[i]))
           G(i) == IF Skipped(ls, i) THEN ls[i] ELSE mk[i] \o ls[i]
<1>1. ApplyHeading(t, level) = TransformLines(t, [i \in DOMAIN ls |-> F(i)])
  BY <1>0, Zenon DEF ApplyHeading, Hash, Space
<1>2. ~off
  <2>1. ASSUME NEW i \in DOMAIN ls PROVE ~Begins(ls[i], m)
    <3>1. PICK l : l = ls[i] OBVIOUS
    <3>2. l \in Seq(S) BY <3>1
    <3>3. ~(MarkLength("heading", l) > 0) BY <1>u, <3>1
    <3>4. ~Begins(l, m) BY <1>0, <3>2, <3>3, HeadingFound
    <3> QED BY <3>1, <3>4
  <2> QED BY <2>1 DEF Targets
<1>3. ASSUME NEW i \in DOMAIN ls PROVE F(i) = G(i)
  <2>1. MarkLength("heading", ls[i]) = 0 /\ mk[i] = m BY <1>m, <1>u
  <2>2. ls[i] \in Seq(S) OBVIOUS
  <2>3. Rest(ls[i], 0) = ls[i] BY <2>2, RestAll
  <2> HIDE DEF off
  <2> QED BY <1>2, <2>1, <2>3, Zenon
<1>4. TransformLines(t, [i \in DOMAIN ls |-> F(i)]) = TransformLines(t, [i \in DOMAIN ls |-> G(i)])
  <2> HIDE DEF F, G
  <2>1. [i \in DOMAIN ls |-> F(i)] = [i \in DOMAIN ls |-> G(i)] BY <1>3
  <2> QED BY <2>1
<1> QED BY <1>0, <1>1, <1>4 DEF Marked

\* And of one pressed on headings of its level.
LEMMA HeadingOff ==
  ASSUME NEW t, NEW level, NEW ls, ls = Lines(t), Targets(ls) # {},
         \A i \in Targets(ls) : Begins(ls[i], Times(Hash, level) \o <<Space>>)
  PROVE ApplyHeading(t, level) = TransformLines(t, Taken(ls, Lengths(level + 1, ls)))
<1>0. PICK m, n : m = Times(Hash, level) \o <<Space>> /\ n = Lengths(level + 1, ls) OBVIOUS
<1> DEFINE off == Targets(ls) # {} /\ \A i \in Targets(ls) : Begins(ls[i], m)
           F(i) == IF Skipped(ls, i) THEN ls[i]
                   ELSE IF off THEN Rest(ls[i], level + 1)
                   ELSE m \o Rest(ls[i], MarkLength("heading", ls[i]))
           G(i) == IF Skipped(ls, i) THEN ls[i] ELSE Rest(ls[i], n[i])
<1>1. ApplyHeading(t, level) = TransformLines(t, [i \in DOMAIN ls |-> F(i)])
  BY <1>0, Zenon DEF ApplyHeading, Hash, Space
<1>2. off BY <1>0
<1>3. ASSUME NEW i \in DOMAIN ls PROVE F(i) = G(i)
  <2>1. n[i] = level + 1 BY <1>0 DEF Lengths
  <2> HIDE DEF off
  <2> QED BY <1>2, <2>1, Zenon
<1>4. TransformLines(t, [i \in DOMAIN ls |-> F(i)]) = TransformLines(t, [i \in DOMAIN ls |-> G(i)])
  <2> HIDE DEF F, G
  <2>1. [i \in DOMAIN ls |-> F(i)] = [i \in DOMAIN ls |-> G(i)] BY <1>3
  <2> QED BY <2>1
<1> QED BY <1>0, <1>1, <1>4 DEF Taken

\* A press that changed the text marked some line, so that there is a mark to
\* take off.
LEMMA MarkedOnce ==
  ASSUME NEW S, Newline \in S, NEW v \in Seq(S), NEW s \in 0 .. Len(v), NEW e \in s .. Len(v),
         NEW t, NEW ls, NEW mk, NEW u, NEW L, Pressed(S, v, s, e, t, ls, mk, u, L),
         u.value # v
  PROVE Removable(v, ls, mk, u, L)
<1>0. /\ t = State(v, s, e) /\ ls = Lines(t)
      /\ u = TransformLines(t, Marked(ls, mk))
  BY DEF Pressed
<1>1. AllLines(S, ls) /\ TransformLines(t, ls).value = v BY <1>0, LinesKept
<1>2. ls \in Seq(Seq(S)) BY <1>1 DEF AllLines
<1>3. Targets(ls) # {}
  <2> SUFFICES ASSUME Targets(ls) = {} PROVE FALSE OBVIOUS
  <2>1. \A i \in DOMAIN ls : Skipped(ls, i) BY DEF Targets
  <2>2. Marked(ls, mk) = [i \in DOMAIN ls |-> ls[i]] BY <2>1 DEF Marked
  <2>3. Marked(ls, mk) = ls BY <1>2, <2>2
  <2> QED BY <1>0, <1>1, <2>3
<1> QED BY <1>3, SecondPress

\* With the marks counted, taking them off makes the text again.
LEMMA MarksTaken ==
  ASSUME NEW S, NEW v, NEW ls, AllLines(S, ls), NEW mk, MarksOf(S, ls, mk), NEW u, NEW L,
         Removable(v, ls, mk, u, L), NEW n, \A i \in Targets(L) : n[i] = Len(mk[i])
  PROVE TransformLines(u, Taken(L, n)).value = v
<1>2. DOMAIN ls = 1 .. Len(ls) /\ ls \in Seq(Seq(S)) BY DEF AllLines
<1>4. /\ DOMAIN L \subseteq DOMAIN ls
      /\ \A i \in Targets(L) : L[i] = mk[i] \o ls[i]
      /\ TransformLines(u, Bare(L, ls)).value = v
  BY DEF Removable
<1> DEFINE F(i) == IF Skipped(L, i) THEN L[i] ELSE ls[i]
           G(i) == IF Skipped(L, i) THEN L[i] ELSE Rest(L[i], n[i])
<1>5. \A i \in DOMAIN L : F(i) = G(i)
  <2>1. ASSUME NEW i \in DOMAIN L, ~Skipped(L, i) PROVE Rest(L[i], n[i]) = ls[i]
    <3>1. i \in Targets(L) BY <2>1 DEF Targets
    <3>2. i \in 1 .. Len(ls) BY <1>2, <1>4
    <3>3. PICK a, b : a = mk[i] /\ b = ls[i] OBVIOUS
    <3>4. a \in Seq(S) BY <3>2, <3>3 DEF MarksOf
    <3>5. b \in Seq(S) BY <1>2, <3>2, <3>3
    <3>6. Rest(a \o b, Len(a)) = b BY ONLY <3>4, <3>5, MarkFound
    <3>7. L[i] = a \o b /\ n[i] = Len(a) BY <1>4, <3>1, <3>3
    <3> QED BY <3>3, <3>6, <3>7
  <2> QED BY <2>1
<1>6. [i \in DOMAIN L |-> F(i)] = [i \in DOMAIN L |-> G(i)]
  <2> HIDE DEF F, G
  <2> QED BY <1>5
<1>7. Bare(L, ls) = Taken(L, n) BY <1>6 DEF Bare, Taken
<1> QED BY <1>4, <1>7

\* The characters a text with marks is made of.
HoldsMarks(S) == Newline \in S /\ Figures \subseteq S /\ {">", "-", Dot, Space, Hash} \subseteq S

\* A prefix button's mark is one of a line, and the button finds it again.
LEMMA PrefixMarkLaw ==
  ASSUME NEW S, HoldsMarks(S), NEW kind \in {"quote", "bullet", "ordered"},
         NEW ls, IsFiniteSet(Targets(ls)), NEW i, NEW m, m = PrefixMark(kind, ls, i)
  PROVE /\ m \in Seq(S) /\ OneLine(m) /\ Len(m) > 0
        /\ \A l \in Seq(S) : MarkLength(kind, m \o l) = Len(m)
<1>0. Dot \in S /\ Space \in S /\ Figures \subseteq S /\ ">" \in S /\ "-" \in S BY Zenon DEF HoldsMarks
<1>1. Space # Newline /\ Dot # Newline /\ ">" # Newline /\ "-" # Newline
  BY Zenon DEF Space, Dot, Newline
<1>2. ASSUME NEW a \in S, a # Newline, NEW b \in S, b # Newline
      PROVE <<a, b>> \in Seq(S) /\ OneLine(<<a, b>>) /\ Len(<<a, b>>) > 0
  <2>1. PICK x : x = <<a, b>> OBVIOUS
  <2>2. x \in Seq(S) /\ Len(x) = 2 /\ x[1] = a /\ x[2] = b BY <1>2, <2>1
  <2>3. \A k \in 1 .. 2 : k = 1 \/ k = 2 OBVIOUS
  <2>4. OneLine(x) BY <1>2, <2>2, <2>3 DEF OneLine
  <2> QED BY <2>1, <2>2, <2>4
<1>3. CASE kind \in {"quote", "bullet"}
  <2>1. m = IF kind = "quote" THEN <<">", " ">> ELSE <<"-", " ">> BY <1>3, Zenon DEF PrefixMark
  <2>2. m = <<">", Space>> \/ m = <<"-", Space>> BY <2>1, Zenon DEF Space
  <2>3. m \in Seq(S) /\ OneLine(m) /\ Len(m) > 0
    <3>1. PICK a, b : a = ">" /\ b = "-" OBVIOUS
    <3>2. a \in S /\ b \in S /\ a # Newline /\ b # Newline BY <1>0, <1>1, <3>1, Zenon
    <3>3. m = <<a, Space>> \/ m = <<b, Space>> BY <2>2, <3>1, Zenon
    <3> QED BY ONLY <1>0, <1>1, <1>2, <3>2, <3>3, Zenon
  <2>4. ASSUME NEW l \in Seq(S) PROVE MarkLength(kind, m \o l) = Len(m)
    <3>1. m \in Seq(S) BY <2>3
    <3> QED BY <1>3, <2>1, <3>1, PlainMarkFound, Zenon
  <2> QED BY <2>3, <2>4
<1>4. CASE kind = "ordered"
  <2>1. PICK c : c = Cardinality({j \in Targets(ls) : j <= i}) OBVIOUS
  <2>2. c \in Nat
    <3>1. {j \in Targets(ls) : j <= i} \in SUBSET Targets(ls) OBVIOUS
    <3>2. IsFiniteSet({j \in Targets(ls) : j <= i}) BY <3>1, FS_Subset
    <3> QED BY <2>1, <3>2, FS_CardinalityType
  <2>3. PICK d : d = Numeral(c) OBVIOUS
  <2>4. m = d \o <<Dot, Space>> BY <1>4, <2>1, <2>3, Zenon DEF PrefixMark, Dot, Space
  <2>5. d \in Seq(Figures) /\ Len(d) > 0 BY <2>2, <2>3, NumeralLaw
  <2>6. d \in Seq(S) BY <1>0, <2>5
  <2>7. OneLine(d)
    <3>1. Newline \notin Figures BY FiguresAre, Zenon DEF Newline
    <3> QED BY <2>5, <3>1 DEF OneLine
  <2>8. PICK p : p = <<Dot, Space>> OBVIOUS
  <2>9. p \in Seq(S) /\ OneLine(p) /\ Len(p) > 0 BY <1>0, <1>1, <1>2, <2>8
  <2>p. p \in Seq(S) BY <2>9
  <2>10. m = d \o p BY <2>4, <2>8
  <2>11. /\ m \in Seq(S) /\ Len(m) = Len(d) + Len(p)
         /\ \A k \in 1 .. Len(d) : m[k] = d[k]
         /\ \A k \in 1 .. Len(p) : m[Len(d) + k] = p[k]
    BY ONLY <2>6, <2>p, <2>10, JoinLaw
  <2>12. Len(d) \in Nat /\ Len(p) \in Nat BY <2>6, <2>9
  <2>13. OneLine(m)
    <3>1. ASSUME NEW k \in 1 .. Len(m) PROVE m[k] # Newline
      <4>1. CASE k \in 1 .. Len(d) BY <2>7, <2>11, <4>1 DEF OneLine
      <4>2. CASE k \notin 1 .. Len(d)
        <5>1. PICK h : h = k - Len(d) OBVIOUS
        <5>2. h \in 1 .. Len(p) /\ k = Len(d) + h BY <2>11, <2>12, <4>2, <5>1
        <5> QED BY <2>9, <2>11, <5>2 DEF OneLine
      <4> QED BY <4>1, <4>2
    <3> QED BY <3>1 DEF OneLine
  <2>14. Len(m) > 0 BY <2>9, <2>11, <2>12
  <2>15. ASSUME NEW l \in Seq(S) PROVE MarkLength("ordered", m \o l) = Len(m)
    <3>1. Dot \in S /\ Space \in S /\ Len(d) > 0 BY <1>0, <2>5
    <3>2. d \in Seq(Figures) BY <2>5
    <3> QED BY ONLY <2>4, <2>6, <3>1, <3>2, l \in Seq(S), NumberFound
  <2> QED BY <1>4, <2>11, <2>13, <2>14, <2>15
<1> QED BY <1>3, <1>4

\* A prefix button pressed twice restores a text without its marks.
LEMMA PrefixComesOff ==
  ASSUME NEW S, HoldsMarks(S), NEW v \in Seq(S), NEW s \in 0 .. Len(v), NEW e \in s .. Len(v),
         NEW t, t = State(v, s, e), NEW kind \in {"quote", "bullet", "ordered"},
         \A i \in DOMAIN Lines(t) : MarkLength(kind, Lines(t)[i]) = 0,
         ApplyPrefix(t, kind).value # v
  PROVE ApplyPrefix(ApplyPrefix(t, kind), kind).value = v
<1>0. Newline \in S BY Zenon DEF HoldsMarks
<1>1. PICK ls : ls = Lines(t) OBVIOUS
<1>2. AllLines(S, ls) BY <1>0, <1>1, LinesKept
<1>3. DOMAIN ls = 1 .. Len(ls) /\ Len(ls) \in Nat /\ ls \in Seq(Seq(S)) BY <1>2 DEF AllLines
<1>4. Unmarked(kind, ls) BY <1>1 DEF Unmarked
<1>5. PICK mk : mk = PrefixMarks(kind, ls) OBVIOUS
<1>6. IsFiniteSet(Targets(ls))
  <2>1. IsFiniteSet(1 .. Len(ls)) BY <1>3, FS_Interval
  <2>2. Targets(ls) \in SUBSET (1 .. Len(ls)) BY <1>3 DEF Targets
  <2> QED BY <2>1, <2>2, FS_Subset
<1>7. \A i \in DOMAIN ls : /\ mk[i] \in Seq(S) /\ OneLine(mk[i]) /\ Len(mk[i]) > 0
                           /\ \A l \in Seq(S) : MarkLength(kind, mk[i] \o l) = Len(mk[i])
  <2>1. ASSUME NEW i \in DOMAIN ls
        PROVE /\ mk[i] \in Seq(S) /\ OneLine(mk[i]) /\ Len(mk[i]) > 0
              /\ \A l \in Seq(S) : MarkLength(kind, mk[i] \o l) = Len(mk[i])
    <3>1. PICK m : m = PrefixMark(kind, ls, i) OBVIOUS
    <3>2. mk[i] = m BY <1>5, <3>1 DEF PrefixMarks
    <3>3. /\ m \in Seq(S) /\ OneLine(m) /\ Len(m) > 0
          /\ \A l \in Seq(S) : MarkLength(kind, m \o l) = Len(m)
      BY <1>6, <3>1, PrefixMarkLaw
    <3> QED BY <3>2, <3>3
  <2> QED BY <2>1
<1>8. MarksOf(S, ls, mk) BY <1>3, <1>7 DEF MarksOf
<1>9. PICK u : u = ApplyPrefix(t, kind) OBVIOUS
<1>10. u = TransformLines(t, Marked(ls, mk)) BY <1>1, <1>3, <1>4, <1>5, <1>9, PrefixOn
<1>11. PICK L : L = Lines(u) OBVIOUS
<1>12. Pressed(S, v, s, e, t, ls, mk, u, L) BY <1>1, <1>8, <1>10, <1>11 DEF Pressed
<1>13. PICK n : n = MarkLengths(kind, L) OBVIOUS
<1>14. Removable(v, ls, mk, u, L)
  <2>1. u.value # v BY <1>9
  <2> QED BY <1>0, <1>12, <2>1, MarkedOnce
<1>15. /\ Targets(L) # {} /\ DOMAIN L \subseteq DOMAIN ls /\ Targets(L) \subseteq DOMAIN L
       /\ \A i \in Targets(L) : L[i] = mk[i] \o ls[i]
  BY <1>14 DEF Removable, Targets
<1>16. ASSUME NEW i \in Targets(L)
       PROVE n[i] = MarkLength(kind, L[i]) /\ n[i] = Len(mk[i]) /\ MarkLength(kind, L[i]) > 0
  <2>1. i \in DOMAIN L /\ i \in DOMAIN ls BY <1>15
  <2>2. ls[i] \in Seq(S) BY <1>3, <2>1
  <2>3. MarkLength(kind, mk[i] \o ls[i]) = Len(mk[i]) /\ Len(mk[i]) > 0 BY <1>7, <2>1, <2>2
  <2>4. MarkLength(kind, L[i]) = Len(mk[i]) BY <1>15, <2>3
  <2> QED BY <1>13, <2>1, <2>3, <2>4 DEF MarkLengths
<1>17. ApplyPrefix(u, kind) = TransformLines(u, Taken(L, n))
  BY <1>11, <1>13, <1>15, <1>16, PrefixOff
<1>18. TransformLines(u, Taken(L, n)).value = v
  <2>1. \A i \in Targets(L) : n[i] = Len(mk[i]) BY <1>16
  <2> QED BY ONLY <1>2, <1>8, <1>14, <2>1, MarksTaken
<1> QED BY <1>9, <1>17, <1>18

\* So does a heading button.
LEMMA HeadingComesOff ==
  ASSUME NEW S, HoldsMarks(S), NEW v \in Seq(S), NEW s \in 0 .. Len(v), NEW e \in s .. Len(v),
         NEW t, t = State(v, s, e), NEW level \in 1 .. 6,
         \A i \in DOMAIN Lines(t) : MarkLength("heading", Lines(t)[i]) = 0,
         ApplyHeading(t, level).value # v
  PROVE ApplyHeading(ApplyHeading(t, level), level).value = v
<1>0. Newline \in S /\ Hash \in S /\ Space \in S BY Zenon DEF HoldsMarks
<1>h. Hash # Newline /\ Space # Newline BY Zenon DEF Space, Hash, Newline
<1>1. PICK ls : ls = Lines(t) OBVIOUS
<1>2. AllLines(S, ls) BY <1>0, <1>1, LinesKept
<1>3. DOMAIN ls = 1 .. Len(ls) /\ Len(ls) \in Nat /\ ls \in Seq(Seq(S)) BY <1>2 DEF AllLines
<1>4. Unmarked("heading", ls) BY <1>1 DEF Unmarked
<1>5. PICK m, mk : m = Times(Hash, level) \o <<Space>> /\ mk = HeadingMarks(level, ls) OBVIOUS
<1>7. m \in Seq(S) /\ OneLine(m) /\ Len(m) = level + 1
  <2>1. PICK h, p : h = Times(Hash, level) /\ p = <<Space>> OBVIOUS
  <2>2. h \in Seq(S) /\ Len(h) = level /\ \A k \in 1 .. level : h[k] = Hash
    BY <1>0, <2>1 DEF Times
  <2>3. p \in Seq(S) /\ Len(p) = 1 /\ p[1] = Space BY <1>0, <2>1
  <2>4. h \in Seq(S) BY <2>2
  <2>5. p \in Seq(S) BY <2>3
  <2>6. m = h \o p BY <1>5, <2>1
  <2>7. /\ m \in Seq(S) /\ Len(m) = Len(h) + Len(p)
        /\ \A k \in 1 .. Len(h) : m[k] = h[k]
        /\ \A k \in 1 .. Len(p) : m[Len(h) + k] = p[k]
    BY ONLY <2>4, <2>5, <2>6, JoinLaw
  <2>8. m[level + 1] = Space
    <3>1. 1 \in 1 .. Len(p) BY <2>3
    <3> QED BY <2>2, <2>3, <2>7, <3>1
  <2>9. \A k \in 1 .. Len(m) : k \in 1 .. level \/ k = level + 1 BY <2>2, <2>3, <2>7
  <2> QED BY <1>h, <2>2, <2>3, <2>7, <2>8, <2>9 DEF OneLine
<1>8. MarksOf(S, ls, mk)
  <2>1. Len(m) > 0 BY <1>7
  <2>2. \A i \in 1 .. Len(ls) : mk[i] = m BY <1>3, <1>5 DEF HeadingMarks
  <2> QED BY <1>7, <2>1, <2>2 DEF MarksOf
<1>9. PICK u : u = ApplyHeading(t, level) OBVIOUS
<1>10. u = TransformLines(t, Marked(ls, mk)) BY <1>1, <1>3, <1>4, <1>5, <1>9, HeadingOn
<1>11. PICK L : L = Lines(u) OBVIOUS
<1>12. Pressed(S, v, s, e, t, ls, mk, u, L) BY <1>1, <1>8, <1>10, <1>11 DEF Pressed
<1>13. PICK n : n = Lengths(level + 1, L) OBVIOUS
<1>14. Removable(v, ls, mk, u, L)
  <2>1. u.value # v BY <1>9
  <2> QED BY <1>0, <1>12, <2>1, MarkedOnce
<1>15. /\ Targets(L) # {} /\ DOMAIN L \subseteq DOMAIN ls /\ Targets(L) \subseteq DOMAIN L
       /\ \A i \in Targets(L) : L[i] = mk[i] \o ls[i]
  BY <1>14 DEF Removable, Targets
<1>16. ASSUME NEW i \in Targets(L) PROVE n[i] = Len(mk[i]) /\ Begins(L[i], m)
  <2>1. i \in DOMAIN L /\ i \in DOMAIN ls BY <1>15
  <2>2. PICK l : l = ls[i] OBVIOUS
  <2>3. l \in Seq(S) BY <1>3, <2>1, <2>2
  <2>4. m \in Seq(S) BY <1>7
  <2>5. Begins(m \o l, m) BY ONLY <2>3, <2>4, MarkFound
  <2>6. mk[i] = m BY <1>5, <2>1 DEF HeadingMarks
  <2>7. L[i] = m \o l BY <1>15, <2>2, <2>6
  <2>8. n[i] = level + 1 BY <1>13, <2>1 DEF Lengths
  <2> QED BY <1>7, <2>5, <2>6, <2>7, <2>8
<1>17. ApplyHeading(u, level) = TransformLines(u, Taken(L, n))
  BY <1>5, <1>11, <1>13, <1>15, <1>16, HeadingOff
<1>18. TransformLines(u, Taken(L, n)).value = v
  <2>1. \A i \in Targets(L) : n[i] = Len(mk[i]) BY <1>16
  <2> QED BY ONLY <1>2, <1>8, <1>14, <2>1, MarksTaken
<1> QED BY <1>9, <1>17, <1>18

\* The buttons that mark lines: the prefixes and the headings.
LEMMA LineButtons ==
  ASSUME NEW a \in {b \in Actions : b.kind \in {"prefix", "heading"}}
  PROVE \/ a.kind = "prefix" /\ a.prefix \in {"quote", "bullet", "ordered"}
        \/ a.kind = "heading" /\ a.level \in 1 .. 6
<1>1. a \in Actions /\ (a.kind = "prefix" \/ a.kind = "heading") OBVIOUS
<1>2. CASE a \in [kind : {"inline"}, marker : InlineMarkers] BY <1>1, <1>2
<1>3. CASE a \in [kind : {"codeBlock", "link"}] BY <1>1, <1>3
<1>4. CASE a \in [kind : {"prefix"}, prefix : {"quote", "bullet", "ordered"}] BY <1>4
<1>5. CASE a \in [kind : {"heading"}, level : 1 .. 3] BY <1>5
<1> QED BY <1>1, <1>2, <1>3, <1>4, <1>5, Zenon DEF Actions

\* LineMarksToggle: "Keep the affected lines selected so the same button
\* toggles it back off" (frontend/src/lib/markdownFormat.ts).  Whatever text is
\* in the box and however many lines are selected, a quote, a list or a heading
\* put on lines without marks comes off with the same button.
LEMMA LinesTwice == TypeOK => LineMarksToggle
<1> DEFINE S == Char \cup Figures \cup {">", "-", Dot, Space, Hash, Newline}
           t == State(value, cursor.start, cursor.end)
<1> SUFFICES ASSUME TypeOK,
                    \A i \in DOMAIN Lines(t), k \in {"quote", "bullet", "ordered", "heading"} :
                      MarkLength(k, Lines(t)[i]) = 0,
                    NEW a \in {b \in Actions : b.kind \in {"prefix", "heading"}},
                    ApplyFormat(t, a).value # value
             PROVE ApplyFormat(ApplyFormat(t, a), a).value = value
  BY Zenon DEF LineMarksToggle
<1>1. value \in Seq(S)
  <2>1. value \in Seq(Char) BY DEF TypeOK
  <2>2. \A k \in 1 .. Len(value) : value[k] \in Char BY <2>1
  <2>3. Char \subseteq S BY Zenon
  <2> HIDE DEF S
  <2>4. \A k \in 1 .. Len(value) : value[k] \in S BY <2>2, <2>3
  <2> QED BY <2>1, <2>4
<1>2. HoldsMarks(S)
  <2>1. Figures \subseteq S BY Zenon
  <2>2. Newline \in S BY Zenon
  <2>3. {">", "-", Dot, Space, Hash} \subseteq S BY Zenon
  <2> HIDE DEF S
  <2> QED BY <2>1, <2>2, <2>3, Zenon DEF HoldsMarks
<1>3. cursor.start \in 0 .. Len(value) /\ cursor.end \in cursor.start .. Len(value)
  <2>1. value \in Seq(Char) /\ cursor \in Selections(Len(value)) BY DEF TypeOK
  <2> QED BY <2>1 DEF Selections
<1> HIDE DEF S
<1>4. CASE a.kind = "prefix" /\ a.prefix \in {"quote", "bullet", "ordered"}
  <2>1. PICK kind \in {"quote", "bullet", "ordered"} : kind = a.prefix BY <1>4
  <2>2. \A u : ApplyFormat(u, a) = ApplyPrefix(u, kind) BY <1>4, <2>1, Zenon DEF ApplyFormat
  <2>3. \A i \in DOMAIN Lines(t) : MarkLength(kind, Lines(t)[i]) = 0 BY Zenon
  <2>4. ApplyPrefix(t, kind).value # value BY <2>2, Zenon
  <2>5. ApplyPrefix(ApplyPrefix(t, kind), kind).value = value
    BY <1>1, <1>2, <1>3, <2>3, <2>4, PrefixComesOff
  <2> QED BY <2>2, <2>5, Zenon
<1>5. CASE a.kind = "heading" /\ a.level \in 1 .. 6
  <2>1. PICK level \in 1 .. 6 : level = a.level BY <1>5
  <2>2. \A u : ApplyFormat(u, a) = ApplyHeading(u, level) BY <1>5, <2>1, Zenon DEF ApplyFormat
  <2>3. \A i \in DOMAIN Lines(t) : MarkLength("heading", Lines(t)[i]) = 0 BY Zenon
  <2>4. ApplyHeading(t, level).value # value BY <2>2, Zenon
  <2>5. ApplyHeading(ApplyHeading(t, level), level).value = value
    BY <1>1, <1>2, <1>3, <2>3, <2>4, HeadingComesOff
  <2> QED BY <2>2, <2>5, Zenon
<1> QED BY <1>4, <1>5, LineButtons

(***************************************************************************)
(* Editor: what a transform returns                                        *)
(***************************************************************************)

\* A piece of a text of S is one, whatever its bounds.
LEMMA CutTyped ==
  ASSUME NEW S, NEW v \in Seq(S), NEW i \in Nat, NEW j \in Int, j <= Len(v)
  PROVE Cut(v, i, j) \in Seq(S) /\ Rest(v, i) \in Seq(S)
<1>1. ASSUME NEW k \in Int, k <= Len(v) PROVE Cut(v, i, k) \in Seq(S)
  <2>1. ASSUME i + 1 <= k PROVE SubSeq(v, i + 1, k) \in Seq(S) BY <1>1, <2>1
  <2>2. ASSUME ~(i + 1 <= k) PROVE SubSeq(v, i + 1, k) = <<>> BY <1>1, <2>2
  <2>3. <<>> \in Seq(S) OBVIOUS
  <2> QED BY <2>1, <2>2, <2>3 DEF Cut
<1>2. Len(v) \in Int OBVIOUS
<1> QED BY <1>1, <1>2 DEF Rest

\* The pieces of a text before one offset and after another.
LEMMA PiecesTyped ==
  ASSUME NEW S, NEW v \in Seq(S), NEW i \in Nat, NEW j \in Nat
  PROVE Slice(v, 0, i) \in Seq(S) /\ Rest(v, j) \in Seq(S)
<1>1. PICK n : n = IF i < Len(v) THEN i ELSE Len(v) OBVIOUS
<1>2. Len(v) \in Nat OBVIOUS
<1>3. n \in Int /\ n <= Len(v) BY <1>1, <1>2
<1>4. 0 \in Nat /\ Len(v) \in Int /\ Len(v) <= Len(v) BY <1>2
<1>5. Cut(v, 0, n) \in Seq(S) BY <1>3, <1>4, CutTyped
<1>6. Rest(v, j) \in Seq(S) BY <1>4, CutTyped
<1>7. Slice(v, 0, i) = Cut(v, 0, n) BY <1>1 DEF Slice, Cut
<1> QED BY <1>5, <1>6, <1>7

\* What a transform may return: a text of S with a selection.
Formed(S, r) == r.value \in Seq(S) /\ r.start \in Nat /\ r.end \in Nat /\ r.start <= r.end

\* A text of S with two offsets in order is one.
LEMMA StateFormed ==
  ASSUME NEW S, NEW w \in Seq(S), NEW i \in Nat, NEW j \in Nat, i <= j
  PROVE Formed(S, State(w, i, j))
BY DEF Formed, State

\* Three, four, five texts in a row are a text.
LEMMA Rows ==
  ASSUME NEW S, NEW a \in Seq(S), NEW b \in Seq(S), NEW c \in Seq(S), NEW d \in Seq(S), NEW e \in Seq(S)
  PROVE /\ a \o b \in Seq(S) /\ a \o b \o c \in Seq(S) /\ a \o b \o c \o d \in Seq(S)
        /\ a \o b \o c \o d \o e \in Seq(S)
OBVIOUS

\* An inline marker makes a text with a selection.
LEMMA InlineFormed ==
  ASSUME NEW S, NEW v \in Seq(S), NEW s \in 0 .. Len(v), NEW e \in s .. Len(v),
         NEW m \in InlineMarkers, m \in Seq(S)
  PROVE Formed(S, ApplyInline(State(v, s, e), m))
<1>1. PICK t : t = State(v, s, e) OBVIOUS
<1>2. t.value = v /\ t.start = s /\ t.end = e BY <1>1 DEF State
<1>3. PICK sel, n : sel = Cut(v, s, e) /\ n = Len(m) OBVIOUS
<1>4. s \in Nat /\ e \in Nat /\ s <= e /\ e <= Len(v) /\ Len(v) \in Nat /\ n \in Nat BY <1>3
<1>5. sel \in Seq(S) /\ Len(sel) = e - s BY <1>3, CutLaw
<1>s. sel \in Seq(S) BY <1>5
<1>6. \A k \in Nat : Rest(v, k) \in Seq(S) /\ Cut(v, 0, s) \in Seq(S)
  <2>1. ASSUME NEW k \in Nat PROVE Rest(v, k) \in Seq(S) /\ Cut(v, 0, s) \in Seq(S)
    <3>1. s \in Int /\ s <= Len(v) BY <1>4
    <3>2. Rest(v, k) \in Seq(S) BY <3>1, CutTyped
    <3>3. 0 \in Nat OBVIOUS
    <3> QED BY <3>1, <3>2, <3>3, CutTyped
  <2> QED BY <2>1
<1>7. \A p, x, q : p \in Seq(S) /\ x \in Seq(S) /\ q \in Seq(S) => p \o x \o q \in Seq(S) BY Rows
<1>8. CASE WrapsInside(t, m)
  <2>1. PICK x : x = Cut(sel, n, Len(sel) - n) OBVIOUS
  <2>2. x \in Seq(S)
    <3>1. Len(sel) - n \in Int /\ Len(sel) - n <= Len(sel) BY <1>4, <1>5
    <3> QED BY <1>4, <1>5, <2>1, <3>1, CutTyped
  <2>3. ApplyInline(t, m) = State(Cut(v, 0, s) \o x \o Rest(v, e), s, s + Len(x))
    BY <1>2, <1>3, <1>8, <2>1, Zenon DEF ApplyInline
  <2>4. Len(x) \in Nat BY <2>2
  <2>5. Cut(v, 0, s) \o x \o Rest(v, e) \in Seq(S) BY <1>4, <1>6, <1>7, <2>2
  <2>6. s + Len(x) \in Nat /\ s <= s + Len(x) BY <1>4, <2>4
  <2>7. PICK w : w = Cut(v, 0, s) \o x \o Rest(v, e) OBVIOUS
  <2>8. w \in Seq(S) BY <2>5, <2>7
  <2>9. s \in Nat BY <1>4
  <2>10. Formed(S, State(w, s, s + Len(x))) BY ONLY <2>6, <2>8, <2>9, StateFormed
  <2> QED BY <1>1, <2>3, <2>7, <2>10
<1>9. CASE ~WrapsInside(t, m) /\ WrapsOutside(t, m)
  <2>1. ApplyInline(t, m) = State(Cut(v, 0, s - n) \o sel \o Rest(v, e + n), s - n, e - n)
    BY <1>2, <1>3, <1>9, Zenon DEF ApplyInline
  <2>2. s - n \in Nat
    <3>1. PICK x, y : x = Cut(v, 0, s) /\ y = Rest(v, e) OBVIOUS
    <3>2. PICK run : run = Least(Trail(x, {m[1]}), Lead(y, {m[1]})) OBVIOUS
    <3>3. run > 0 /\ HasMarker(m, run) BY <1>2, <1>9, <3>1, <3>2, Zenon DEF WrapsOutside
    <3>4. x \in Seq(S) /\ y \in Seq(S) BY <1>4, <1>6, <3>1
    <3>5. Len(x) = s
      <4>1. 0 \in 0 .. Len(v) /\ s \in 0 .. Len(v) BY <1>4
      <4>2. Len(x) = s - 0 BY ONLY v \in Seq(S), <3>1, <4>1, CutLaw
      <4> QED BY <1>4, <4>2
    <3>6. Trails(x, {m[1]}, Trail(x, {m[1]})) /\ Leads(y, {m[1]}, Lead(y, {m[1]})) BY <3>4, LeadLaw, TrailLaw
    <3>7. run \in Nat /\ run <= s BY <1>4, <3>2, <3>4, <3>5, <3>6 DEF Trails, Leads, Least
    <3>8. run >= n BY <1>3, <3>3, <3>7, MarkerFits
    <3> QED BY <1>4, <3>7, <3>8
  <2>3. PICK i : i = s - n OBVIOUS
  <2>4. Cut(v, 0, i) \in Seq(S)
    <3>1. i \in Int /\ i <= Len(v) /\ 0 \in Nat BY <1>4, <2>2, <2>3
    <3> QED BY <3>1, CutTyped
  <2>5. e + n \in Nat /\ e - n \in Nat /\ s - n <= e - n BY <1>4, <2>2
  <2>6. Rest(v, e + n) \in Seq(S) BY <1>6, <2>5
  <2>7. Cut(v, 0, s - n) \o sel \o Rest(v, e + n) \in Seq(S) BY <1>7, <1>s, <2>3, <2>4, <2>6
  <2>8. PICK w, j : w = Cut(v, 0, s - n) \o sel \o Rest(v, e + n) /\ j = e - n OBVIOUS
  <2>9. w \in Seq(S) BY <2>7, <2>8
  <2>10. i \in Nat /\ j \in Nat /\ i <= j BY <2>2, <2>3, <2>5, <2>8
  <2>11. Formed(S, State(w, i, j)) BY ONLY <2>9, <2>10, StateFormed
  <2> QED BY <1>1, <2>1, <2>3, <2>8, <2>11
<1>10. CASE ~WrapsInside(t, m) /\ ~WrapsOutside(t, m) /\ IsBlank(sel)
  <2>1. ApplyInline(t, m) = State(Cut(v, 0, s) \o m \o m \o Rest(v, s), s + n, s + n)
    BY <1>2, <1>3, <1>10, Zenon DEF ApplyInline
  <2>2. Cut(v, 0, s) \o m \o m \o Rest(v, s) \in Seq(S)
    <3>1. Cut(v, 0, s) \in Seq(S) /\ Rest(v, s) \in Seq(S) BY <1>4, <1>6
    <3> QED BY <3>1, Rows
  <2>3. s + n \in Nat /\ s + n <= s + n BY <1>4
  <2>4. PICK w, i : w = Cut(v, 0, s) \o m \o m \o Rest(v, s) /\ i = s + n OBVIOUS
  <2>5. w \in Seq(S) BY <2>2, <2>4
  <2>6. i \in Nat /\ i <= i BY <2>3, <2>4
  <2>7. Formed(S, State(w, i, i)) BY ONLY <2>5, <2>6, StateFormed
  <2> QED BY <1>1, <2>1, <2>4, <2>7
<1>11. CASE ~WrapsInside(t, m) /\ ~WrapsOutside(t, m) /\ ~IsBlank(sel)
  <2>1. PICK i, j : i = s + Lead(sel, Blank) /\ j = e - Trail(sel, Blank) OBVIOUS
  <2>2. i \in Nat /\ j \in Nat /\ s <= i /\ i < j /\ j <= e
    <3>1. ~IsBlank(Cut(v, s, e)) BY <1>3, <1>11
    <3>2. i = s + Lead(Cut(v, s, e), Blank) /\ j = e - Trail(Cut(v, s, e), Blank) BY <1>3, <2>1
    <3> QED BY <3>1, <3>2, TrimLaw
  <2>3. ApplyInline(t, m) = State(Wrapped(v, m, i, j), i + n, j + n)
    BY <1>2, <1>3, <1>11, <2>1, Zenon DEF ApplyInline, Wrapped
  <2>4. i \in 0 .. Len(v) /\ j \in i .. Len(v) BY <1>4, <2>2
  <2>5. Wrapped(v, m, i, j) \in Seq(S) BY <2>4, WrapLaw
  <2>6. i + n \in Nat /\ j + n \in Nat /\ i + n <= j + n BY <1>4, <2>2
  <2> QED BY <1>1, <2>3, <2>5, <2>6 DEF Formed, State
<1> QED BY <1>8, <1>9, <1>10, <1>11

\* Lines of S joined are a text of S.
LEMMA JoinTyped ==
  ASSUME NEW S, Newline \in S, NEW ls \in Seq(Seq(S)), Len(ls) > 0
  PROVE JoinLines(ls) \in Seq(S)
<1> DEFINE T == {n \in Nat : \E x \in Seq(Seq(S)) : n = Len(x) /\ n > 0 /\ JoinLines(x) \notin Seq(S)}
<1>1. T = {}
  <2> SUFFICES ASSUME T # {} PROVE FALSE OBVIOUS
  <2>1. T \in SUBSET Nat OBVIOUS
  <2>2. PICK n \in T : \A y \in T : n <= y
    <3> HIDE DEF T
    <3> QED BY <2>1, Smallest
  <2>3. PICK x \in Seq(Seq(S)) : n = Len(x) /\ n > 0 /\ JoinLines(x) \notin Seq(S) BY <2>2
  <2>4. n \in Nat BY <2>2
  <2>5. PICK a, r : a = x[1] /\ r = Rest(x, 1) OBVIOUS
  <2>6. a \in Seq(S) /\ r \in Seq(Seq(S)) /\ Len(r) = n - 1 BY <2>3, <2>5, Peel
  <2>7. CASE n = 1
    <3>1. Len(x) = 1 /\ Len(x) > 0 BY <2>3, <2>7
    <3>2. JoinLines(x) = a BY <2>5, <3>1, JoinStep
    <3> QED BY <2>3, <2>6, <3>2
  <2>8. CASE n # 1
    <3>1. n - 1 \in Nat /\ n - 1 > 0 /\ n > 1 BY <2>3, <2>4, <2>8
    <3>2. JoinLines(x) = a \o <<Newline>> \o JoinLines(r)
      <4>1. Len(x) > 1 /\ Len(x) > 0 BY <2>3, <3>1
      <4> QED BY <2>5, <4>1, JoinStep
    <3>3. JoinLines(r) \in Seq(S)
      <4>1. n - 1 \notin T
        <5> HIDE DEF T
        <5>1. ~(n <= n - 1) BY <2>4
        <5> QED BY <2>2, <5>1
      <4>2. Len(r) = n - 1 /\ r \in Seq(Seq(S)) BY <2>6
      <4> QED BY <3>1, <4>1, <4>2
    <3>4. PICK b, c : b = <<Newline>> /\ c = JoinLines(r) OBVIOUS
    <3>5. b \in Seq(S) BY <3>4
    <3>6. c \in Seq(S) BY <3>3, <3>4
    <3>7. a \in Seq(S) BY <2>6
    <3>8. a \o b \o c \in Seq(S) BY ONLY <3>5, <3>6, <3>7, Rows
    <3> QED BY <2>3, <3>2, <3>4, <3>8
  <2> QED BY <2>7, <2>8
<1>2. Len(ls) \in Nat OBVIOUS
<1>3. Len(ls) \notin T
  <2> HIDE DEF T
  <2> QED BY <1>1
<1> QED BY <1>2, <1>3

\* Lines put in the place of those touched make a text with a selection.
LEMMA TransformFormed ==
  ASSUME NEW S, Newline \in S, NEW v \in Seq(S), NEW s \in 0 .. Len(v), NEW e \in s .. Len(v),
         NEW t, t = State(v, s, e), NEW ms \in Seq(Seq(S)), Len(ms) > 0
  PROVE Formed(S, TransformLines(t, ms))
<1>1. PICK i, j : Touches(v, s, e, t, i, j) BY DEF Touches
<1>2. i \in 0 .. s /\ j \in i .. Len(v) /\ s <= j BY <1>1, BoundsLaw
<1>0. s \in Nat /\ i \in Nat /\ j \in Nat /\ Len(v) \in Nat BY <1>2
<1>3. PICK b, p, q : b = JoinLines(ms) /\ p = Cut(v, 0, i) /\ q = Rest(v, j) OBVIOUS
<1>4. b \in Seq(S) BY <1>3, JoinTyped
<1>5. p \in Seq(S)
  <2>1. 0 \in Nat /\ i \in Int /\ i <= Len(v) BY <1>0, <1>2
  <2> QED BY <1>3, <2>1, CutTyped
<1>6. q \in Seq(S)
  <2>1. i \in Int /\ i <= Len(v) BY <1>0, <1>2
  <2> QED BY <1>0, <1>3, <2>1, CutTyped
<1>7. PICK w : w = p \o b \o q OBVIOUS
<1>8. w \in Seq(S) BY ONLY <1>4, <1>5, <1>6, <1>7, Rows
<1>9. PICK g : g = Len(b) - (j - i) OBVIOUS
<1>10. PICK c : c = IF s + g < i THEN i ELSE s + g OBVIOUS
<1>11. t.value = v /\ t.start = s /\ t.end = e /\ i = LineStart(t) /\ j = LineEnd(t)
  BY <1>1 DEF Touches, State
<1>12. TransformLines(t, ms) = IF s = e THEN State(w, c, c) ELSE State(w, i, i + Len(b))
  BY <1>3, <1>7, <1>9, <1>10, <1>11, Zenon DEF TransformLines
<1>13. c \in Nat /\ c <= c
  <2>1. Len(b) \in Nat BY <1>4
  <2> QED BY <1>0, <1>9, <1>10, <2>1
<1>14. PICK k : k = i + Len(b) OBVIOUS
<1>15. i \in Nat /\ k \in Nat /\ i <= k
  <2>1. Len(b) \in Nat BY <1>4
  <2> QED BY <1>0, <1>14, <2>1
<1>16. Formed(S, State(w, c, c)) BY ONLY <1>8, <1>13, StateFormed
<1>17. Formed(S, State(w, i, k)) BY ONLY <1>8, <1>15, StateFormed
<1> QED BY <1>12, <1>14, <1>16, <1>17

\* The mark a line has takes at most some of its characters.
LEMMA MarkTyped ==
  ASSUME NEW S, NEW l \in Seq(S), NEW kind
  PROVE MarkLength(kind, l) \in Nat
<1>1. Lead(l, Figures) \in Nat /\ Lead(l, {Hash}) \in Nat
  <2>1. Leads(l, Figures, Lead(l, Figures)) /\ Leads(l, {Hash}, Lead(l, {Hash})) BY LeadLaw
  <2>2. Len(l) \in Nat OBVIOUS
  <2> QED BY <2>1, <2>2 DEF Leads
<1>2. PICK n, h : n = Lead(l, Figures) /\ h = Lead(l, {Hash}) OBVIOUS
<1>3. n + 2 \in Nat /\ h + 1 \in Nat /\ 0 \in Nat /\ 2 \in Nat BY <1>1, <1>2
<1>4. \/ MarkLength(kind, l) = 0 \/ MarkLength(kind, l) = 2
      \/ MarkLength(kind, l) = n + 2 \/ MarkLength(kind, l) = h + 1
  BY <1>2, Zenon DEF MarkLength, Figures, Hash
<1> QED BY <1>3, <1>4

\* A prefix button makes a text with a selection.
LEMMA PrefixFormed ==
  ASSUME NEW S, HoldsMarks(S), NEW v \in Seq(S), NEW s \in 0 .. Len(v), NEW e \in s .. Len(v),
         NEW t, t = State(v, s, e), NEW kind \in {"quote", "bullet", "ordered"}
  PROVE Formed(S, ApplyPrefix(t, kind))
<1>0. Newline \in S BY Zenon DEF HoldsMarks
<1>1. PICK ls : ls = Lines(t) OBVIOUS
<1>2. AllLines(S, ls) BY <1>0, <1>1, LinesKept
<1>3. DOMAIN ls = 1 .. Len(ls) /\ Len(ls) \in Nat /\ Len(ls) > 0 /\ ls \in Seq(Seq(S)) BY <1>2 DEF AllLines
<1>4. IsFiniteSet(Targets(ls))
  <2>1. IsFiniteSet(1 .. Len(ls)) BY <1>3, FS_Interval
  <2>2. Targets(ls) \in SUBSET (1 .. Len(ls)) BY <1>3 DEF Targets
  <2> QED BY <2>1, <2>2, FS_Subset
<1> DEFINE off == Targets(ls) # {} /\ \A i \in Targets(ls) : MarkLength(kind, ls[i]) > 0
           F(i) == IF Skipped(ls, i) THEN ls[i]
                   ELSE IF off THEN Rest(ls[i], MarkLength(kind, ls[i]))
                   ELSE PrefixMark(kind, ls, i) \o Rest(ls[i], MarkLength(kind, ls[i]))
<1>5. ApplyPrefix(t, kind) = TransformLines(t, [i \in DOMAIN ls |-> F(i)])
  BY <1>1, Zenon DEF ApplyPrefix, PrefixMark
<1>6. ASSUME NEW i \in DOMAIN ls PROVE F(i) \in Seq(S)
  <2>1. PICK l : l = ls[i] OBVIOUS
  <2>2. l \in Seq(S) BY <1>3, <2>1
  <2>3. PICK n : n = MarkLength(kind, l) OBVIOUS
  <2>4. n \in Nat BY <2>2, <2>3, MarkTyped
  <2>5. Len(l) \in Int /\ Len(l) <= Len(l) BY <2>2
  <2>6. Rest(l, n) \in Seq(S) BY <2>2, <2>4, <2>5, CutTyped
  <2>7. PICK m : m = PrefixMark(kind, ls, i) OBVIOUS
  <2>8. m \in Seq(S) BY <1>4, <2>7, PrefixMarkLaw
  <2>9. m \o Rest(l, n) \in Seq(S) BY <2>6, <2>8
  <2>10. F(i) = l \/ F(i) = Rest(l, n) \/ F(i) = m \o Rest(l, n) BY <2>1, <2>3, <2>7, Zenon
  <2> QED BY <2>2, <2>6, <2>9, <2>10
<1>7. PICK ms : ms = [i \in DOMAIN ls |-> F(i)] OBVIOUS
<1> HIDE DEF F
<1>8. ms \in Seq(Seq(S)) /\ Len(ms) = Len(ls) BY <1>3, <1>6, <1>7
<1>9. ms \in Seq(Seq(S)) /\ Len(ms) > 0 BY <1>3, <1>8
<1> QED BY <1>0, <1>5, <1>7, <1>9, TransformFormed

\* So does a heading button.
LEMMA HeadingFormed ==
  ASSUME NEW S, HoldsMarks(S), NEW v \in Seq(S), NEW s \in 0 .. Len(v), NEW e \in s .. Len(v),
         NEW t, t = State(v, s, e), NEW level \in 1 .. 6
  PROVE Formed(S, ApplyHeading(t, level))
<1>0. Newline \in S /\ Hash \in S /\ Space \in S BY Zenon DEF HoldsMarks
<1>1. PICK ls : ls = Lines(t) OBVIOUS
<1>2. AllLines(S, ls) BY <1>0, <1>1, LinesKept
<1>3. DOMAIN ls = 1 .. Len(ls) /\ Len(ls) \in Nat /\ Len(ls) > 0 /\ ls \in Seq(Seq(S)) BY <1>2 DEF AllLines
<1>4. PICK m : m = Times(Hash, level) \o <<Space>> OBVIOUS
<1>m. m \in Seq(S)
  <2>1. PICK h, p : h = Times(Hash, level) /\ p = <<Space>> OBVIOUS
  <2>2. h \in Seq(S) BY <1>0, <2>1 DEF Times
  <2>3. p \in Seq(S) BY <1>0, <2>1
  <2> QED BY <1>4, <2>1, <2>2, <2>3
<1> DEFINE off == Targets(ls) # {} /\ \A i \in Targets(ls) : Begins(ls[i], m)
           F(i) == IF Skipped(ls, i) THEN ls[i]
                   ELSE IF off THEN Rest(ls[i], level + 1)
                   ELSE m \o Rest(ls[i], MarkLength("heading", ls[i]))
<1>5. ApplyHeading(t, level) = TransformLines(t, [i \in DOMAIN ls |-> F(i)])
  BY <1>1, <1>4, Zenon DEF ApplyHeading, Hash, Space
<1>6. ASSUME NEW i \in DOMAIN ls PROVE F(i) \in Seq(S)
  <2>1. PICK l : l = ls[i] OBVIOUS
  <2>2. l \in Seq(S) BY <1>3, <2>1
  <2>3. PICK n, k : n = MarkLength("heading", l) /\ k = level + 1 OBVIOUS
  <2>4. n \in Nat /\ k \in Nat BY <2>2, <2>3, MarkTyped
  <2>5. Len(l) \in Int /\ Len(l) <= Len(l) BY <2>2
  <2>6. Rest(l, n) \in Seq(S) /\ Rest(l, k) \in Seq(S) BY <2>2, <2>4, <2>5, CutTyped
  <2>9. m \o Rest(l, n) \in Seq(S) BY <1>m, <2>6
  <2>10. F(i) = l \/ F(i) = Rest(l, k) \/ F(i) = m \o Rest(l, n) BY <2>1, <2>3, Zenon
  <2> QED BY <2>2, <2>6, <2>9, <2>10
<1>7. PICK ms : ms = [i \in DOMAIN ls |-> F(i)] OBVIOUS
<1> HIDE DEF F
<1>8. ms \in Seq(Seq(S)) /\ Len(ms) = Len(ls) BY <1>3, <1>6, <1>7
<1>9. ms \in Seq(Seq(S)) /\ Len(ms) > 0 BY <1>3, <1>8
<1> QED BY <1>0, <1>5, <1>7, <1>9, TransformFormed

\* A text of S that holds what the toolbar puts holds every mark and marker.
LEMMA ToolbarLaw ==
  ASSUME NEW S, ToolbarChars \subseteq S
  PROVE /\ HoldsMarks(S) /\ Newline \in S /\ Tick \in S /\ Address \in S
        /\ \A m \in InlineMarkers : m \in Seq(S)
<1>1. HoldsMarks(S)
  <2>1. Figures \subseteq S BY Zenon DEF ToolbarChars, Figures
  <2>2. Newline \in S BY Zenon DEF ToolbarChars, Blank
  <2>3. ">" \in S /\ "-" \in S /\ Dot \in S /\ Hash \in S BY Zenon DEF ToolbarChars, Dot, Hash
  <2>4. Space \in S BY Zenon DEF ToolbarChars, Blank, Space
  <2> QED BY <2>1, <2>2, <2>3, <2>4, Zenon DEF HoldsMarks
<1>2. Newline \in S BY Zenon DEF ToolbarChars, Blank
<1>3. Tick \in S /\ Address \in S BY Zenon DEF ToolbarChars
<1>4. ASSUME NEW m \in InlineMarkers PROVE m \in Seq(S)
  <2>1. PICK c : c \in S /\ (m = <<c>> \/ m = <<c, c>>)
    <3>1. "*" \in S /\ "~" \in S /\ Tick \in S /\ "^" \in S BY Zenon DEF ToolbarChars
    <3>2. \/ m = <<"*", "*">> \/ m = <<"*">> \/ m = <<"~", "~">> \/ m = <<"~">>
          \/ m = <<Tick>> \/ m = <<"^">>
      BY <1>4, Zenon DEF InlineMarkers
    <3> QED BY <3>1, <3>2, Zenon
  <2>2. \A x \in S : <<x>> \in Seq(S) /\ <<x, x>> \in Seq(S) BY ONLY TRUE
  <2> QED BY <2>1, <2>2, Zenon
<1> QED BY <1>1, <1>2, <1>3, <1>4

\* A code block makes a text with a selection.
LEMMA CodeBlockFormed ==
  ASSUME NEW S, ToolbarChars \subseteq S, NEW v \in Seq(S), NEW s \in 0 .. Len(v), NEW e \in s .. Len(v),
         NEW t, t = State(v, s, e)
  PROVE Formed(S, ApplyCodeBlock(t))
<1>1. PICK before, after, whole : before = Cut(v, 0, s) /\ after = Rest(v, e) /\ whole = Cut(v, s, e)
  OBVIOUS
<1>2. before \in Seq(S) /\ after \in Seq(S) /\ whole \in Seq(S)
  <2>1. s \in Nat /\ e \in Nat /\ 0 \in Nat /\ s \in Int /\ s <= Len(v) /\ e \in Int /\ e <= Len(v) OBVIOUS
  <2>2. Cut(v, 0, s) \in Seq(S) BY <2>1, CutTyped
  <2>3. Cut(v, s, e) \in Seq(S) /\ Rest(v, e) \in Seq(S) BY <2>1, CutTyped
  <2> QED BY <1>1, <2>2, <2>3
<1>3. PICK sel : sel = IF whole # <<>> /\ Last(whole) = Newline THEN Front(whole) ELSE whole OBVIOUS
<1>4. sel \in Seq(S)
  <2>1. Front(whole) = SubSeq(whole, 1, Len(whole) - 1) BY DEF Front
  <2>2. whole # <<>> => SubSeq(whole, 1, Len(whole) - 1) \in Seq(S) BY <1>2
  <2> QED BY <1>2, <1>3, <2>1, <2>2
<1>5. PICK lead, trail : /\ lead = IF before # <<>> /\ Last(before) # Newline THEN <<Newline>> ELSE <<>>
                         /\ trail = IF after # <<>> /\ after[1] # Newline THEN <<Newline>> ELSE <<>>
  OBVIOUS
<1>6. PICK n, f : n = <<Newline>> /\ f = Times(Tick, 3) OBVIOUS
<1>7. Newline \in S /\ Tick \in S BY ToolbarLaw
<1>8. n \in Seq(S) /\ lead \in Seq(S) /\ trail \in Seq(S) BY <1>5, <1>6, <1>7
<1>9. f \in Seq(S) BY <1>6, <1>7 DEF Times
<1>10. PICK i, j : i = Len(before) + Len(lead) + 4 /\ j = i + Len(sel) OBVIOUS
<1>11. i \in Nat /\ j \in Nat /\ i <= j
  <2>1. Len(before) \in Nat /\ Len(lead) \in Nat /\ Len(sel) \in Nat BY <1>2, <1>4, <1>8
  <2> QED BY <1>10, <2>1
<1>12. PICK w : w = before \o lead \o f \o n \o sel \o n \o f \o trail \o after OBVIOUS
<1>13. w \in Seq(S)
  <2>1. PICK x : x = before \o lead \o f \o n \o sel OBVIOUS
  <2>2. x \in Seq(S)
    <3>1. before \in Seq(S) /\ lead \in Seq(S) /\ n \in Seq(S) BY <1>2, <1>8
    <3> QED BY ONLY <1>4, <1>9, <2>1, <3>1, Rows
  <2>3. w = x \o n \o f \o trail \o after BY <1>12, <2>1
  <2>4. n \in Seq(S) /\ trail \in Seq(S) /\ after \in Seq(S) BY <1>2, <1>8
  <2> QED BY ONLY <1>9, <2>2, <2>3, <2>4, Rows
<1>14. t.value = v /\ t.start = s /\ t.end = e BY DEF State
<1>15. ApplyCodeBlock(t) = State(w, i, j)
  BY <1>1, <1>3, <1>5, <1>6, <1>10, <1>12, <1>14, Zenon DEF ApplyCodeBlock
<1> QED BY <1>11, <1>13, <1>15, StateFormed

\* A link makes a text with a selection.
LEMMA LinkFormed ==
  ASSUME NEW S, ToolbarChars \subseteq S, NEW v \in Seq(S), NEW s \in 0 .. Len(v), NEW e \in s .. Len(v),
         NEW t, t = State(v, s, e)
  PROVE Formed(S, ApplyLink(t))
<1>0. s \in Nat /\ e \in Nat /\ s <= e OBVIOUS
<1>1. PICK p, q, sel : p = Cut(v, 0, s) /\ q = Rest(v, e) /\ sel = Cut(v, s, e)
  OBVIOUS
<1>2. p \in Seq(S) /\ q \in Seq(S) /\ sel \in Seq(S)
  <2>1. s \in Nat /\ e \in Nat /\ 0 \in Nat /\ s \in Int /\ s <= Len(v) /\ e \in Int /\ e <= Len(v) OBVIOUS
  <2>2. Cut(v, 0, s) \in Seq(S) BY <2>1, CutTyped
  <2>3. Cut(v, s, e) \in Seq(S) /\ Rest(v, e) \in Seq(S) BY <2>1, CutTyped
  <2> QED BY <1>1, <2>2, <2>3
<1>3. PICK a, b, c, d, u, l : a = "[" /\ b = "]" /\ c = "(" /\ d = ")" /\ u = "url" /\ l = "link text"
  OBVIOUS
<1>4. a \in S /\ b \in S /\ c \in S /\ d \in S /\ u \in S /\ l \in S /\ Address \in S
  BY <1>3, Zenon DEF ToolbarChars
<1>5. PICK x, y, z : /\ x = <<a, b, c, Address, d>> /\ y = <<a, l, b, c, u, d>>
                     /\ z = <<a>> \o sel \o <<b, c, u, d>>
  OBVIOUS
<1>6. x \in Seq(S) /\ y \in Seq(S) BY ONLY <1>4, <1>5
<1>7. z \in Seq(S)
  <2>1. PICK f, g : f = <<a>> /\ g = <<b, c, u, d>> OBVIOUS
  <2>2. f \in Seq(S) /\ g \in Seq(S) BY ONLY <1>4, <2>1
  <2>3. sel \in Seq(S) BY <1>2
  <2>4. f \o sel \o g \in Seq(S) BY ONLY <2>2, <2>3, Rows
  <2> QED BY <1>5, <2>1, <2>4
<1>8. t.value = v /\ t.start = s /\ t.end = e BY DEF State
<1>9. \/ ApplyLink(t) = State(p \o x \o q, s + 1, s + 1)
      \/ ApplyLink(t) = State(p \o y \o q, s + 1, s + 2)
      \/ ApplyLink(t) = State(p \o z \o q, s + Len(sel) + 3, s + Len(sel) + 4)
  <2>1. sel # <<Address>> \/ sel # <<>> OBVIOUS
  <2>2. CASE sel = <<Address>>
    <3>1. ApplyLink(t) = State(p \o <<"[", "]", "(", Address, ")">> \o q, s + 1, s + 1)
      BY <1>1, <1>8, <2>1, <2>2, Zenon DEF ApplyLink
    <3> QED BY <1>3, <1>5, <3>1, Zenon
  <2>3. CASE sel = <<>>
    <3>1. ApplyLink(t) = State(p \o <<"[", "link text", "]", "(", "url", ")">> \o q, s + 1, s + 2)
      BY <1>1, <1>8, <2>1, <2>3, Zenon DEF ApplyLink
    <3> QED BY <1>3, <1>5, <3>1, Zenon
  <2>4. CASE sel # <<Address>> /\ sel # <<>>
    <3>1. ApplyLink(t) = State(p \o (<<"[">> \o sel \o <<"]", "(", "url", ")">>) \o q,
                               s + Len(sel) + 3, s + Len(sel) + 4)
      BY <1>1, <1>8, <2>4, Zenon DEF ApplyLink
    <3> QED BY <1>3, <1>5, <3>1, Zenon
  <2> QED BY <2>2, <2>3, <2>4
<1>10. ASSUME NEW k \in Seq(S), NEW i \in Nat, NEW j \in Nat, i <= j
       PROVE Formed(S, State(p \o k \o q, i, j))
  <2>1. PICK w : w = p \o k \o q OBVIOUS
  <2>2. p \in Seq(S) /\ q \in Seq(S) BY <1>2
  <2>3. w \in Seq(S) BY ONLY k \in Seq(S), <2>1, <2>2, Rows
  <2>4. Formed(S, State(w, i, j)) BY <1>10, <2>3, StateFormed
  <2> QED BY <2>1, <2>4
<1>11. Len(sel) \in Nat BY <1>2
<1>12. /\ s + 1 \in Nat /\ s + 2 \in Nat /\ s + 1 <= s + 1 /\ s + 1 <= s + 2
       /\ s + Len(sel) + 3 \in Nat /\ s + Len(sel) + 4 \in Nat /\ s + Len(sel) + 3 <= s + Len(sel) + 4
  BY <1>0, <1>11
<1>13. /\ Formed(S, State(p \o x \o q, s + 1, s + 1))
       /\ Formed(S, State(p \o y \o q, s + 1, s + 2))
  BY <1>6, <1>10, <1>12
<1>14. Formed(S, State(p \o z \o q, s + Len(sel) + 3, s + Len(sel) + 4))
  BY <1>7, <1>10, <1>12
<1> QED BY <1>9, <1>13, <1>14, Zenon

\* So does every button of the toolbar.
LEMMA FormatFormed ==
  ASSUME NEW S, ToolbarChars \subseteq S, NEW v \in Seq(S), NEW s \in 0 .. Len(v), NEW e \in s .. Len(v),
         NEW t, t = State(v, s, e), NEW a \in Actions
  PROVE Formed(S, ApplyFormat(t, a))
<1>0. HoldsMarks(S) /\ \A m \in InlineMarkers : m \in Seq(S) BY ToolbarLaw
<1>1. CASE a \in [kind : {"inline"}, marker : InlineMarkers]
  <2>1. PICK m \in InlineMarkers : m = a.marker BY <1>1
  <2>2. a.kind = "inline" BY <1>1
  <2>3. ApplyFormat(t, a) = ApplyInline(t, m) BY <2>1, <2>2, Zenon DEF ApplyFormat
  <2>4. m \in Seq(S) BY <1>0
  <2>5. Formed(S, ApplyInline(State(v, s, e), m)) BY <2>4, InlineFormed
  <2> QED BY <2>3, <2>5
<1>2. CASE a \in [kind : {"prefix"}, prefix : {"quote", "bullet", "ordered"}]
  <2>1. PICK k \in {"quote", "bullet", "ordered"} : k = a.prefix BY <1>2
  <2>2. a.kind = "prefix" BY <1>2
  <2>3. ApplyFormat(t, a) = ApplyPrefix(t, k) BY <2>1, <2>2, Zenon DEF ApplyFormat
  <2> QED BY <1>0, <2>3, PrefixFormed
<1>3. CASE a \in [kind : {"heading"}, level : 1 .. 3]
  <2>1. PICK k \in 1 .. 6 : k = a.level BY <1>3
  <2>2. a.kind = "heading" BY <1>3
  <2>3. ApplyFormat(t, a) = ApplyHeading(t, k) BY <2>1, <2>2, Zenon DEF ApplyFormat
  <2> QED BY <1>0, <2>3, HeadingFormed
<1>4. CASE a \in [kind : {"codeBlock", "link"}]
  <2>1. a.kind = "codeBlock" \/ a.kind = "link" BY <1>4
  <2>2. ApplyFormat(t, a) = ApplyCodeBlock(t) \/ ApplyFormat(t, a) = ApplyLink(t)
    BY <2>1, Zenon DEF ApplyFormat
  <2>3. Formed(S, ApplyCodeBlock(t)) /\ Formed(S, ApplyLink(t)) BY CodeBlockFormed, LinkFormed
  <2> QED BY <2>2, <2>3
<1> QED BY <1>1, <1>2, <1>3, <1>4, Zenon DEF Actions

(***************************************************************************)
(* Editor: the types                                                       *)
(*                                                                         *)
(* TypeOK is not inductive: an open dropdown must have numbers to cut the  *)
(* text at, and its list items whose completion is a text.                 *)
(***************************************************************************)
QueryTyped(q) == q = NoQuery \/ (q.start \in Nat /\ q.end \in Nat /\ q.start < q.end)
FrameTyped(f) == f = NoFrame \/ (f.start \in Nat /\ f.end \in Nat /\ f.start <= f.end)
Completes(items, t) == \A k \in DOMAIN items : Inserted[t][items[k]] \in Seq(Char)

TypeInv ==
  /\ value \in Seq(Char) /\ Len(value) <= MaxText
  /\ cursor \in Selections(Len(value))
  /\ DOMAIN query = Triggers /\ \A t \in Triggers : QueryTyped(query[t])
  /\ DOMAIN list = Triggers /\ \A t \in Triggers : Completes(list[t], t)
  /\ FrameTyped(frame)
  /\ unread \in BOOLEAN

\* A scan finds no token, or one that is left of the cursor.
LEMMA DetectTyped ==
  ASSUME NEW text, NEW at, NEW t \in Triggers
  PROVE QueryTyped(Detect(text, at, t))
<1>1. CASE Opens(text, at, t)
  <2>1. at \in Nat /\ \E k \in 1 .. at : OpensAt(text, at, t, k) BY <1>1 DEF Opens
  <2>2. PICK k \in 1 .. at : k = CHOOSE i \in 1 .. at : OpensAt(text, at, t, i) BY <2>1
  <2>3. Detect(text, at, t) = [start |-> k - 1, end |-> at, text |-> Slice(text, k, at)]
    BY <1>1, <2>2 DEF Detect
  <2> QED BY <2>1, <2>3 DEF QueryTyped
<1>2. CASE ~Opens(text, at, t)
  BY <1>2 DEF Detect, QueryTyped
<1> QED BY <1>1, <1>2

\* A scan leaves every dropdown with its type.
LEMMA DetectAllTyped ==
  ASSUME NEW text, NEW at, DetectAll(text, at)
  PROVE DOMAIN query' = Triggers /\ \A t \in Triggers : QueryTyped(query'[t])
BY DetectTyped DEF DetectAll

\* So does the closing of one.
LEMMA CloseTyped ==
  ASSUME TypeInv, NEW t \in Triggers, query' = [query EXCEPT ![t] = NoQuery]
  PROVE DOMAIN query' = Triggers /\ \A u \in Triggers : QueryTyped(query'[u])
<1>1. DOMAIN query = Triggers /\ \A u \in Triggers : QueryTyped(query[u]) BY DEF TypeInv
<1>2. QueryTyped(NoQuery) BY DEF QueryTyped
<1> QED BY <1>1, <1>2

\* A selection of the text.
LEMMA SelectionIn ==
  ASSUME NEW n \in Nat, NEW s \in 0 .. n, NEW e \in s .. n
  PROVE Selection(s, e) \in Selections(n)
BY DEF Selection, Selections

\* A change by the keyboard keeps the types.
LEMMA ChangeTyped ==
  ASSUME TypeInv, NEW text \in Seq(Char), NEW at \in 0 .. Len(text), Change(text, at)
  PROVE TypeInv'
<1>1. Len(text) <= MaxText /\ value' = text /\ cursor' = Selection(at, at) /\ UNCHANGED <<list, frame, unread>>
  BY DEF Change
<1>2. DetectAll(text, at) BY DEF Change
<1>3. Selection(at, at) \in Selections(Len(text)) BY SelectionIn
<1>4. DOMAIN query' = Triggers /\ \A t \in Triggers : QueryTyped(query'[t]) BY <1>2, DetectAllTyped
<1> QED BY <1>1, <1>3, <1>4 DEF TypeInv

\* A text the code sets, with the selection of the next frame, keeps them.
LEMMA ReplaceTyped ==
  ASSUME TypeInv, NEW text \in Seq(Char), NEW i \in Nat, NEW j \in Nat, i <= j, UNCHANGED list,
         Replace(text, Selection(i, j)),
         DOMAIN query' = Triggers /\ \A t \in Triggers : QueryTyped(query'[t])
  PROVE TypeInv'
<1>1. /\ Len(text) <= MaxText /\ value' = text /\ cursor' = Selection(Len(text), Len(text))
      /\ frame' = Selection(i, j) /\ unread' = TRUE
  BY DEF Replace
<1>2. Selection(Len(text), Len(text)) \in Selections(Len(text)) BY SelectionIn
<1>3. FrameTyped(Selection(i, j)) BY DEF FrameTyped, Selection
<1> QED BY <1>1, <1>2, <1>3 DEF TypeInv

\* A character of the alphabet put at the selection, or nothing.
LEMMA SplicedTyped ==
  ASSUME NEW v \in Seq(Char), NEW i \in Nat, NEW j \in Nat, NEW w \in Seq(Char)
  PROVE Slice(v, 0, i) \o w \o Rest(v, j) \in Seq(Char)
BY PiecesTyped, Rows

\* Its length where the selection lies in the text.
LEMMA SplicedLength ==
  ASSUME NEW v \in Seq(Char), NEW i \in 0 .. Len(v), NEW j \in Nat, NEW w \in Seq(Char)
  PROVE i + Len(w) <= Len(Slice(v, 0, i) \o w \o Rest(v, j))
<1>1. Slice(v, 0, i) \in Seq(Char) /\ Rest(v, j) \in Seq(Char) BY PiecesTyped
<1>2. Len(Slice(v, 0, i)) = i BY DEF Slice
<1> QED BY <1>1, <1>2

\* Every step of the composer keeps the types.
LEMMA StepTyped == TypeInv /\ [Next]_vars => TypeInv'
<1> SUFFICES ASSUME TypeInv, [Next]_vars PROVE TypeInv' OBVIOUS
<1>1. PICK s, e : s = cursor.start /\ e = cursor.end OBVIOUS
<1>2. value \in Seq(Char) /\ Len(value) \in Nat /\ Len(value) <= MaxText BY DEF TypeInv
<1>3. s \in Nat /\ e \in Nat /\ s <= e /\ e <= Len(value)
  <2>1. cursor \in Selections(Len(value)) BY DEF TypeInv
  <2> QED BY <1>1, <1>2, <2>1 DEF Selections
<1>4. MaxText \in Nat /\ Typed \subseteq Char /\ Emoji \subseteq Char /\ ToolbarChars \subseteq Char
  BY EditorAssumption
<1>5. DOMAIN query = Triggers /\ (\A t \in Triggers : QueryTyped(query[t]))
      /\ DOMAIN list = Triggers /\ (\A t \in Triggers : Completes(list[t], t)) /\ FrameTyped(frame)
  BY DEF TypeInv
<1>6. \A c \in Char : <<c>> \in Seq(Char) /\ Len(<<c>>) = 1 BY ONLY TRUE
<1>7. ASSUME NEW c \in Typed, Type(c) PROVE TypeInv'
  <2>1. PICK text : text = Slice(value, 0, s) \o <<c>> \o Rest(value, e) OBVIOUS
  <2>2. PICK w : w = <<c>> OBVIOUS
  <2>3. w \in Seq(Char) /\ Len(w) = 1 BY <1>4, <1>6, <2>2
  <2>4. s \in 0 .. Len(value) BY <1>2, <1>3
  <2>5. text \in Seq(Char) BY <1>2, <1>3, <2>1, <2>2, <2>3, SplicedTyped
  <2>6. s + Len(w) <= Len(text) BY <1>2, <1>3, <2>1, <2>2, <2>3, <2>4, SplicedLength
  <2>7. s + 1 \in 0 .. Len(text) BY <1>3, <2>3, <2>5, <2>6
  <2>8. Change(text, s + 1) BY <1>1, <1>7, <2>1 DEF Type
  <2> QED BY <2>5, <2>7, <2>8, ChangeTyped
<1>8. ASSUME Backspace PROVE TypeInv'
  <2>1. PICK from : from = IF s = e THEN s - 1 ELSE s OBVIOUS
  <2>2. PICK text : text = Slice(value, 0, from) \o Rest(value, e) OBVIOUS
  <2>3. from >= 0 /\ Change(text, from) BY <1>1, <1>8, <2>1, <2>2 DEF Backspace
  <2>4. from \in 0 .. Len(value) BY <1>2, <1>3, <2>1, <2>3
  <2>5. Slice(value, 0, from) \in Seq(Char) /\ Rest(value, e) \in Seq(Char)
    BY <1>2, <1>3, <2>4, PiecesTyped
  <2>6. Len(Slice(value, 0, from)) = from BY <1>2, <2>4 DEF Slice
  <2>7. text \in Seq(Char) /\ from \in 0 .. Len(text) BY <2>2, <2>4, <2>5, <2>6
  <2> QED BY <2>3, <2>7, ChangeTyped
<1>9. ASSUME NEW sel \in Selections(MaxText), Select(sel) PROVE TypeInv'
  <2>1. sel \in Selections(Len(value)) /\ cursor' = sel /\ unread' = FALSE /\ UNCHANGED <<value, list, frame>>
        /\ DetectAll(value, sel.start)
    BY <1>9 DEF Select
  <2>2. DOMAIN query' = Triggers /\ \A t \in Triggers : QueryTyped(query'[t]) BY <2>1, DetectAllTyped
  <2> QED BY <2>1, <2>2 DEF TypeInv
<1>10. ASSUME SelectEvent PROVE TypeInv'
  <2>1. unread' = FALSE /\ UNCHANGED <<value, cursor, list, frame>> /\ DetectAll(value, cursor.start)
    BY <1>10 DEF SelectEvent
  <2>2. DOMAIN query' = Triggers /\ \A t \in Triggers : QueryTyped(query'[t]) BY <2>1, DetectAllTyped
  <2> QED BY <2>1, <2>2 DEF TypeInv
<1>11. ASSUME Frame PROVE TypeInv'
  <2>1. frame # NoFrame /\ frame' = NoFrame /\ unread' = TRUE /\ UNCHANGED <<value, query, active, list>>
        /\ cursor' = Selection(Least(frame.start, Len(value)), Least(frame.end, Len(value)))
    BY <1>11 DEF Frame
  <2>2. PICK a, b, n : a = frame.start /\ b = frame.end /\ n = Len(value) OBVIOUS
  <2>3. a \in Nat /\ b \in Nat /\ a <= b /\ n \in Nat BY <1>2, <1>5, <2>1, <2>2 DEF FrameTyped
  <2>4. Least(a, n) \in 0 .. n /\ Least(b, n) \in Least(a, n) .. n BY <2>3 DEF Least
  <2>5. Selection(Least(a, n), Least(b, n)) \in Selections(n) BY <2>3, <2>4, SelectionIn
  <2>6. FrameTyped(NoFrame) BY DEF FrameTyped
  <2> QED BY <2>1, <2>2, <2>5, <2>6 DEF TypeInv
<1>12. ASSUME NEW t \in Triggers, NEW i, Highlight(t, i) PROVE TypeInv'
  BY <1>12 DEF Highlight, TypeInv
<1>13. ASSUME NEW t \in Triggers, NEW k, Choose(t, k) PROVE TypeInv'
  <2>1. k \in DOMAIN list[t] /\ query[t] # NoQuery BY <1>13 DEF Choose, Matches
  <2>2. PICK a, b : a = query[t].start /\ b = query[t].end OBVIOUS
  <2>3. a \in Nat /\ b \in Nat BY <1>5, <2>1, <2>2 DEF QueryTyped
  <2>4. PICK item : item = Inserted[t][list[t][k]] OBVIOUS
  <2>5. item \in Seq(Char) BY <1>5, <2>1, <2>4 DEF Completes
  <2>6. PICK blank : blank = " " OBVIOUS
  <2>7. blank \in Char
    <3>1. blank \in ToolbarChars BY <2>6, Zenon DEF ToolbarChars, Blank
    <3> QED BY <1>4, <3>1
  <2>8. PICK word : word = item \o <<blank>> OBVIOUS
  <2>9. word \in Seq(Char) /\ Len(word) \in Nat BY <1>6, <2>5, <2>7, <2>8
  <2>10. PICK text : text = Slice(value, 0, a) \o word \o Rest(value, b) OBVIOUS
  <2>11. text \in Seq(Char) BY <1>2, <2>3, <2>9, <2>10, SplicedTyped
  <2>12. Replace(text, Selection(a + Len(word), a + Len(word)))
    BY <1>13, <2>2, <2>4, <2>6, <2>8, <2>10, Zenon DEF Choose
  <2>13. query' = [query EXCEPT ![t] = NoQuery] /\ UNCHANGED list BY <1>13 DEF Choose
  <2>14. DOMAIN query' = Triggers /\ \A u \in Triggers : QueryTyped(query'[u]) BY <2>13, CloseTyped
  <2>15. a + Len(word) \in Nat /\ a + Len(word) <= a + Len(word) BY <2>3, <2>9
  <2> QED BY <2>11, <2>12, <2>13, <2>14, <2>15, ReplaceTyped
<1>14. ASSUME NEW t \in Triggers, Dismiss(t) PROVE TypeInv'
  <2>1. query' = [query EXCEPT ![t] = NoQuery] /\ UNCHANGED <<value, cursor, active, list, frame, unread>>
    BY <1>14 DEF Dismiss
  <2>2. DOMAIN query' = Triggers /\ \A u \in Triggers : QueryTyped(query'[u]) BY <2>1, CloseTyped
  <2> QED BY <2>1, <2>2 DEF TypeInv
<1>15. ASSUME NEW t \in Triggers, ListChange(t) PROVE TypeInv'
  <2>1. UNCHANGED <<value, cursor, query, active, frame, unread>> BY <1>15 DEF ListChange
  <2>2. PICK offers : offers = Offers[t] OBVIOUS
  <2>3. offers \in Seq(Seq(Char)) /\ offers # <<>> /\ Completes(offers, t)
    <3>1. Offers \in [Triggers -> Seq(Seq(Char))] BY EditorAssumption
    <3>2. \A k \in DOMAIN Offers[t] : Inserted[t][Offers[t][k]] \in Seq(Char) BY EditorAssumption
    <3>3. Offers[t] # <<>> BY <1>15 DEF ListChange
    <3> QED BY <2>2, <3>1, <3>2, <3>3 DEF Completes
  <2>4. PICK shorter : shorter = Cut(offers, 0, Len(offers) - 1) OBVIOUS
  <2>5. Completes(shorter, t)
    <3>1. \A k \in DOMAIN shorter : k \in DOMAIN offers /\ shorter[k] = offers[k]
      BY <2>3, <2>4 DEF Cut
    <3> QED BY <2>3, <3>1 DEF Completes
  <2>6. list' = [list EXCEPT ![t] = shorter] \/ list' = [list EXCEPT ![t] = offers]
    <3>1. CASE list[t] = offers
      <4>1. list' = [list EXCEPT ![t] = Cut(list[t], 0, Len(list[t]) - 1)]
        BY <1>5, <1>15, <2>2, <3>1 DEF ListChange
      <4> QED BY <2>4, <3>1, <4>1
    <3>2. CASE list[t] # offers
      BY <1>5, <1>15, <2>2, <3>2 DEF ListChange
    <3> QED BY <3>1, <3>2
  <2>7. DOMAIN list' = Triggers /\ \A u \in Triggers : Completes(list'[u], u)
    BY <1>5, <2>3, <2>5, <2>6
  <2> QED BY <2>1, <2>7 DEF TypeInv
<1>16. ASSUME NEW a \in Actions, Format(a) PROVE TypeInv'
  <2>1. PICK r : r = ApplyFormat(State(value, s, e), a) OBVIOUS
  <2>2. s \in 0 .. Len(value) /\ e \in s .. Len(value) BY <1>2, <1>3
  <2>3. Formed(Char, r) BY <1>2, <1>4, <2>1, <2>2, FormatFormed
  <2>4. Replace(r.value, Selection(r.start, r.end)) /\ UNCHANGED <<query, list>>
    BY <1>1, <1>16, <2>1 DEF Format, ReplaceBy
  <2>5. DOMAIN query' = Triggers /\ \A u \in Triggers : QueryTyped(query'[u]) BY <1>5, <2>4
  <2>6. r.value \in Seq(Char) /\ r.start \in Nat /\ r.end \in Nat /\ r.start <= r.end
    BY <2>3 DEF Formed
  <2> QED BY <2>4, <2>5, <2>6, ReplaceTyped
<1>17. ASSUME NEW g \in Emoji, InsertEmoji(g) PROVE TypeInv'
  <2>1. PICK w : w = <<g>> OBVIOUS
  <2>2. w \in Seq(Char) BY <1>4, <1>6, <2>1
  <2>3. PICK text : text = Slice(value, 0, s) \o w \o Rest(value, e) OBVIOUS
  <2>4. text \in Seq(Char) BY <1>2, <1>3, <2>2, <2>3, SplicedTyped
  <2>5. Replace(text, Selection(s + 1, s + 1)) /\ UNCHANGED <<query, list>>
    BY <1>1, <1>17, <2>1, <2>3 DEF InsertEmoji
  <2>6. DOMAIN query' = Triggers /\ \A u \in Triggers : QueryTyped(query'[u]) BY <1>5, <2>5
  <2>7. s + 1 \in Nat /\ s + 1 <= s + 1 BY <1>3
  <2> QED BY <2>4, <2>5, <2>6, <2>7, ReplaceTyped
<1>18. ASSUME Send PROVE TypeInv'
  <2>1. value' = <<>> /\ cursor' = Selection(0, 0) /\ query' = Closed /\ UNCHANGED <<active, list, frame, unread>>
    BY <1>18 DEF Send
  <2>2. Selection(0, 0) \in Selections(0) BY SelectionIn
  <2>3. DOMAIN query' = Triggers /\ \A t \in Triggers : QueryTyped(query'[t])
    BY <2>1 DEF Closed, QueryTyped
  <2> QED BY <1>4, <2>1, <2>2, <2>3 DEF TypeInv
<1>19. ASSUME UNCHANGED vars PROVE TypeInv'
  BY <1>19 DEF vars, TypeInv
<1> QED
  BY <1>7, <1>8, <1>9, <1>10, <1>11, <1>12, <1>13, <1>14, <1>15, <1>16, <1>17, <1>18, <1>19 DEF Next

\* The composer begins typed.
LEMMA InitTyped == Init => TypeInv
<1> SUFFICES ASSUME Init PROVE TypeInv OBVIOUS
<1>1. Selection(0, 0) \in Selections(0) BY SelectionIn
<1>2. DOMAIN query = Triggers /\ \A t \in Triggers : QueryTyped(query[t])
  BY DEF Init, Closed, QueryTyped
<1>3. DOMAIN list = Triggers /\ \A t \in Triggers : Completes(list[t], t)
  <2>1. Offers \in [Triggers -> Seq(Seq(Char))] BY EditorAssumption
  <2>2. \A t \in Triggers : \A k \in DOMAIN Offers[t] : Inserted[t][Offers[t][k]] \in Seq(Char)
    BY EditorAssumption
  <2> QED BY <2>1, <2>2 DEF Init, Completes
<1>4. MaxText \in Nat BY EditorAssumption
<1>5. value \in Seq(Char) /\ Len(value) = 0 BY DEF Init
<1>6. cursor = Selection(0, 0) /\ frame = NoFrame /\ unread = FALSE BY DEF Init
<1>7. FrameTyped(frame) BY <1>6 DEF FrameTyped
<1>8. Len(value) <= MaxText /\ cursor \in Selections(Len(value)) BY <1>1, <1>4, <1>5, <1>6
<1>9. unread \in BOOLEAN BY <1>6
<1> QED BY <1>2, <1>3, <1>5, <1>7, <1>8, <1>9, Zenon DEF TypeInv

\* Whatever is typed, completed, formatted or sent, the selection lies in the
\* text and the text within its bound.
THEOREM EditorTypes == Spec => []TypeOK
<1>1. Init => TypeInv BY InitTyped
<1>2. TypeInv /\ [Next]_vars => TypeInv' BY StepTyped
<1>3. TypeInv => TypeOK BY DEF TypeInv, TypeOK, QueryTyped, FrameTyped
<1> QED BY <1>1, <1>2, <1>3, PTL DEF Spec

\* "applying twice restores the original": in every state of the composer, an
\* inline marker put around a selection comes off again, whatever marker
\* characters stand next to it.
THEOREM InlineTwiceRestores == Spec => []InlineMarksToggle
BY EditorTypes, InlineTwice, PTL

\* In every state, a button that marked lines without a mark restores the text
\* when it is pressed again.
THEOREM LinesTwiceRestore == Spec => []LineMarksToggle
BY EditorTypes, LinesTwice, PTL

(***************************************************************************)
(* Editor: what is code in a line                                          *)
(***************************************************************************)

\* n is the place of the first tick, 0 for none.
FirstTickAt(v, n) ==
  /\ n \in 0 .. Len(v)
  /\ n > 0 => v[n] = Tick
  /\ \A i \in 1 .. Len(v) : v[i] = Tick => n > 0 /\ n <= i

\* FirstTick finds it.
LEMMA FirstTickLaw ==
  ASSUME NEW S, NEW v \in Seq(S)
  PROVE FirstTickAt(v, FirstTick(v))
<1> DEFINE I == {i \in 1 .. Len(v) : v[i] = Tick}
<1>0. Len(v) \in Nat OBVIOUS
<1>1. FirstTick(v) = IF I # {} THEN Min(I) ELSE 0
  BY DEF FirstTick, SelectInSeq
<1>2. CASE I = {} BY <1>0, <1>1, <1>2 DEF FirstTickAt
<1>3. CASE I # {}
  <2>1. I \in SUBSET Nat OBVIOUS
  <2>2. PICK x \in I : \A y \in I : x <= y
    <3> HIDE DEF I
    <3> QED BY <1>3, <2>1, Smallest
  <2>3. Min(I) \in I /\ \A y \in I : Min(I) <= y
    <3> HIDE DEF I
    <3> QED BY <2>2 DEF Min
  <2>4. PICK k : k = Min(I) OBVIOUS
  <2>5. k \in 1 .. Len(v) /\ v[k] = Tick BY <2>3, <2>4
  <2>6. \A y \in I : k <= y BY <2>3, <2>4
  <2>7. FirstTick(v) = k BY <1>1, <1>3, <2>4
  <2> QED BY <1>0, <2>5, <2>6, <2>7 DEF FirstTickAt
<1> QED BY <1>2, <1>3

\* Texts without a tick, with one, beginning with one.
TickFree(v) == \A k \in 1 .. Len(v) : v[k] # Tick
OneTick(v) == \E k \in 1 .. Len(v) : v[k] = Tick /\ \A j \in 1 .. Len(v) : v[j] = Tick => j = k
Ticked(v) == Len(v) > 0 /\ v[1] = Tick
Light(v) == TickFree(v) \/ OneTick(v)

\* A text begins with a code span of n characters that a ticks open and those
\* from b on close; with one that is nothing but ticks.
Closes(v, a, b, n) ==
  /\ a \in 1 .. Len(v) /\ b \in (a + 2) .. n /\ n \in 1 .. Len(v)
  /\ \A k \in 1 .. a : v[k] = Tick
  /\ \A k \in (a + 1) .. (b - 1) : v[k] # Tick
  /\ \A k \in b .. n : v[k] = Tick
  /\ n < Len(v) => v[n + 1] # Tick
Bares(v, n) ==
  /\ n \in 2 .. Len(v)
  /\ \A k \in 1 .. n : v[k] = Tick
  /\ \A k \in (n + 1) .. Len(v) : v[k] # Tick

\* There are no others.
LEMMA SpanCases ==
  ASSUME NEW S, NEW v \in Seq(S)
  PROVE \/ SpanLength(v) = 0 /\ (Ticked(v) => OneTick(v))
        \/ \E a, b : Closes(v, a, b, SpanLength(v))
        \/ Bares(v, SpanLength(v))
<1>1. PICK a : a = Lead(v, {Tick}) OBVIOUS
<1>2. PICK r : r = Rest(v, a) OBVIOUS
<1>3. PICK c : c = FirstTick(r) OBVIOUS
<1>4. PICK t : t = Rest(r, c - 1) OBVIOUS
<1>5. PICK d : d = Lead(t, {Tick}) OBVIOUS
<1>6. SpanLength(v) = CASE a > 0 /\ c > 0 -> a + c - 1 + d [] a > 1 /\ c = 0 -> a [] OTHER -> 0
  BY <1>1, <1>2, <1>3, <1>4, <1>5, Zenon DEF SpanLength
<1>7. Leads(v, {Tick}, a) BY <1>1, LeadLaw
<1>8. /\ a \in 0 .. Len(v) /\ (\A i \in 1 .. a : v[i] = Tick) /\ (a < Len(v) => v[a + 1] # Tick)
  BY <1>7 DEF Leads
<1>9. Len(v) \in Nat OBVIOUS
<1>10. r \in Seq(S) /\ Len(r) = Len(v) - a /\ \A k \in 1 .. (Len(v) - a) : r[k] = v[a + k]
  BY <1>2, <1>8, RestLaw
<1>11. c \in 0 .. Len(r) /\ (c > 0 => r[c] = Tick) /\ \A i \in 1 .. Len(r) : r[i] = Tick => c > 0 /\ c <= i
  BY <1>3, <1>10, FirstTickLaw DEF FirstTickAt
<1>12. CASE a = 0
  <2>1. ~Ticked(v) BY <1>8, <1>9, <1>12 DEF Ticked
  <2>2. SpanLength(v) = 0 BY <1>6, <1>11, <1>12
  <2> QED BY <2>1, <2>2
<1>13. CASE a > 0 /\ c = 0
  <2>1. \A k \in (a + 1) .. Len(v) : v[k] # Tick
    <3>1. ASSUME NEW k \in (a + 1) .. Len(v) PROVE v[k] # Tick
      <4>1. k - a \in 1 .. (Len(v) - a) /\ a + (k - a) = k BY <1>8, <1>9
      <4>2. r[k - a] = v[k] BY <1>10, <4>1
      <4>3. r[k - a] # Tick BY <1>10, <1>11, <1>13, <4>1
      <4> QED BY <4>2, <4>3
    <3> QED BY <3>1
  <2>2. CASE a = 1
    <3>1. SpanLength(v) = 0 BY <1>6, <1>13, <2>2
    <3>2. OneTick(v) BY <1>8, <1>9, <2>1, <2>2 DEF OneTick
    <3> QED BY <3>1, <3>2
  <2>3. CASE a > 1
    <3>1. SpanLength(v) = a BY <1>6, <1>13, <2>3
    <3>2. Bares(v, a) BY <1>8, <1>9, <2>1, <2>3 DEF Bares
    <3> QED BY <3>1, <3>2
  <2> QED BY <1>8, <1>13, <2>2, <2>3
<1>14. CASE a > 0 /\ c > 0
  <2>1. c > 1
    <3>1. c = 1 => r[1] = v[a + 1] BY <1>8, <1>9, <1>10, <1>11
    <3> QED BY <1>8, <1>9, <1>10, <1>11, <1>14, <3>1
  <2>2. c - 1 \in 0 .. Len(r) BY <1>9, <1>8, <1>10, <1>11, <2>1
  <2>3. t \in Seq(S) /\ Len(t) = Len(r) - (c - 1) /\ \A k \in 1 .. (Len(r) - (c - 1)) : t[k] = r[c - 1 + k]
    BY <1>4, <1>10, <2>2, RestLaw
  <2>4. Leads(t, {Tick}, d) BY <1>5, <2>3, LeadLaw
  <2>5. /\ d \in 0 .. Len(t) /\ (\A i \in 1 .. d : t[i] = Tick) /\ (d < Len(t) => t[d + 1] # Tick)
    BY <2>4 DEF Leads
  <2>6. d > 0
    <3>1. t[1] = r[c] BY <1>8, <1>9, <1>10, <1>11, <2>1, <2>3
    <3> QED BY <1>8, <1>9, <1>10, <1>11, <2>1, <2>3, <2>5, <3>1
  <2>7. PICK n : n = a + c - 1 + d OBVIOUS
  <2>8. n \in 1 .. Len(v) /\ a + c \in (a + 2) .. n /\ a \in 1 .. Len(v)
    BY <1>8, <1>9, <1>10, <1>11, <1>14, <2>1, <2>3, <2>5, <2>6, <2>7
  <2>9. ASSUME NEW k \in 1 .. (Len(v) - a - (c - 1)) PROVE t[k] = v[a + c - 1 + k]
    <3>1. c - 1 + k \in 1 .. (Len(v) - a) /\ k \in 1 .. (Len(r) - (c - 1)) BY <1>8, <1>9, <1>10, <1>11, <2>1
    <3>2. t[k] = r[c - 1 + k] BY <2>3, <3>1
    <3>3. r[c - 1 + k] = v[a + (c - 1 + k)] BY <1>10, <3>1
    <3>4. a + (c - 1 + k) = a + c - 1 + k BY <1>8, <1>11, <1>10, <1>9
    <3> QED BY <3>2, <3>3, <3>4
  <2>10. \A k \in (a + 1) .. (a + c - 1) : v[k] # Tick
    <3>1. ASSUME NEW k \in (a + 1) .. (a + c - 1) PROVE v[k] # Tick
      <4>1. k - a \in 1 .. (Len(v) - a) /\ a + (k - a) = k /\ k - a < c BY <1>8, <1>9, <1>10, <1>11
      <4>2. r[k - a] = v[k] BY <1>10, <4>1
      <4>3. r[k - a] # Tick BY <1>9, <1>8, <1>10, <1>11, <4>1
      <4> QED BY <4>2, <4>3
    <3> QED BY <3>1
  <2>11. \A k \in (a + c) .. n : v[k] = Tick
    <3>1. ASSUME NEW k \in (a + c) .. n PROVE v[k] = Tick
      <4>1. PICK i : i = k - (a + c - 1) OBVIOUS
      <4>2. i \in 1 .. d /\ i \in 1 .. (Len(v) - a - (c - 1)) /\ a + c - 1 + i = k
        BY <1>8, <1>9, <1>10, <1>11, <2>3, <2>5, <2>7, <4>1
      <4>3. t[i] = Tick BY <2>5, <4>2
      <4> QED BY <2>9, <4>2, <4>3
    <3> QED BY <3>1
  <2>12. n < Len(v) => v[n + 1] # Tick
    <3>1. ASSUME n < Len(v) PROVE v[n + 1] # Tick
      <4>1. d + 1 \in 1 .. (Len(v) - a - (c - 1)) /\ a + c - 1 + (d + 1) = n + 1 /\ d < Len(t)
        BY <1>8, <1>9, <1>10, <1>11, <2>3, <2>5, <2>7, <3>1
      <4>2. t[d + 1] # Tick BY <2>5, <4>1
      <4>3. t[d + 1] = v[a + c - 1 + (d + 1)] BY <2>9, <4>1
      <4> QED BY <4>1, <4>2, <4>3
    <3> QED BY <3>1
  <2>13. SpanLength(v) = n BY <1>6, <1>14, <2>7
  <2>14. Closes(v, a, a + c, n)
    <3>1. \A k \in (a + 1) .. ((a + c) - 1) : v[k] # Tick BY <1>8, <1>9, <1>10, <1>11, <2>10
    <3> QED BY <2>8, <2>11, <2>12, <1>8, <3>1 DEF Closes
  <2> QED BY <2>13, <2>14
<1> QED BY <1>8, <1>11, <1>9, <1>10, <1>12, <1>13, <1>14

\* A text begins with one span at most.
LEMMA SpanUnique ==
  ASSUME NEW S, NEW v \in Seq(S), NEW n, Bares(v, n) \/ \E a, b : Closes(v, a, b, n)
  PROVE SpanLength(v) = n
<1>1. PICK m : m = SpanLength(v) OBVIOUS
<1>2. Len(v) \in Nat OBVIOUS
<1>3. Ticked(v) /\ ~OneTick(v)
  <2>1. CASE Bares(v, n)
    <3>1. v[1] = Tick /\ v[2] = Tick /\ Len(v) >= 2 BY <1>2, <2>1 DEF Bares
    <3> QED BY <1>2, <3>1 DEF Ticked, OneTick
  <2>2. CASE \E a, b : Closes(v, a, b, n)
    <3>1. PICK a, b : Closes(v, a, b, n) BY <2>2
    <3>2. v[1] = Tick /\ v[b] = Tick /\ b \in 2 .. Len(v) BY <1>2, <3>1 DEF Closes
    <3> QED BY <1>2, <3>2 DEF Ticked, OneTick
  <2> QED BY <2>1, <2>2
<1>4. Bares(v, m) \/ \E a, b : Closes(v, a, b, m) BY <1>1, <1>3, SpanCases
<1>5. ASSUME NEW i, NEW j, NEW a, NEW b, Bares(v, i), Closes(v, a, b, j) PROVE FALSE
  <2>1. i \in 2 .. Len(v) /\ a \in 1 .. Len(v) /\ b \in (a + 2) .. Len(v)
    BY <1>2, <1>5 DEF Bares, Closes
  <2>2. v[a + 1] # Tick /\ v[b] = Tick BY <1>2, <1>5, <2>1 DEF Closes
  <2> QED BY <1>2, <1>5, <2>1, <2>2 DEF Bares
<1>6. ASSUME NEW i, NEW j, Bares(v, i), Bares(v, j), i < j PROVE FALSE
  BY <1>2, <1>6 DEF Bares
<1>7. ASSUME NEW i, NEW j, NEW a, NEW b, NEW c, NEW d, Closes(v, a, b, i), Closes(v, c, d, j), i < j PROVE FALSE
  <2>1. /\ a \in 1 .. Len(v) /\ b \in (a + 2) .. i /\ c \in 1 .. Len(v) /\ d \in (c + 2) .. j
        /\ i \in 1 .. Len(v) /\ j \in 1 .. Len(v) /\ i < Len(v)
    BY <1>2, <1>7 DEF Closes
  <2>2. v[a + 1] # Tick /\ v[c + 1] # Tick BY <1>2, <1>7, <2>1 DEF Closes
  <2>3. a = c
    <3>1. ~(a < c) BY <1>2, <1>7, <2>1, <2>2 DEF Closes
    <3>2. ~(c < a) BY <1>2, <1>7, <2>1, <2>2 DEF Closes
    <3> QED BY <2>1, <3>1, <3>2
  <2>4. v[b] = Tick /\ v[d] = Tick BY <1>2, <1>7, <2>1 DEF Closes
  <2>5. b = d
    <3>1. ~(b < d) BY <1>2, <1>7, <2>1, <2>3, <2>4 DEF Closes
    <3>2. ~(d < b) BY <1>2, <1>7, <2>1, <2>3, <2>4 DEF Closes
    <3> QED BY <2>1, <3>1, <3>2
  <2>6. v[i + 1] # Tick BY <1>2, <1>7, <2>1 DEF Closes
  <2> QED BY <1>2, <1>7, <2>1, <2>5, <2>6 DEF Closes
<1>8. m \in Nat /\ n \in Nat BY <1>2, <1>4 DEF Bares, Closes
<1>9. ~(m < n) /\ ~(n < m)
  <2>1. CASE Bares(v, n) /\ Bares(v, m) BY <1>6, <2>1
  <2>2. CASE Bares(v, n) /\ ~Bares(v, m) BY <1>4, <1>5, <2>2
  <2>3. CASE ~Bares(v, n) /\ Bares(v, m) BY <1>5, <2>3
  <2>4. CASE ~Bares(v, n) /\ ~Bares(v, m) BY <1>4, <1>7, <2>4
  <2> QED BY <2>1, <2>2, <2>3, <2>4
<1> QED BY <1>1, <1>8, <1>9

\* A line cut at its first span s: no tick before it, none right after it, and
\* where nothing closed it none after it at all.
IsSpan(s) == (\E i, j : Closes(s, i, j, Len(s))) \/ Bares(s, Len(s))
Spanned(a, s, b) ==
  /\ TickFree(a) /\ ~Ticked(b) /\ IsSpan(s)
  /\ TickFree(b) \/ \E i, j : Closes(s, i, j, Len(s))

\* A span begins and ends with a tick.
LEMMA SpanTicks ==
  ASSUME NEW S, NEW s \in Seq(S), IsSpan(s)
  PROVE Len(s) >= 2 /\ s[1] = Tick /\ s[Len(s)] = Tick /\ Ticked(s) /\ s # <<>>
<1>1. Len(s) \in Nat OBVIOUS
<1>2. CASE Bares(s, Len(s))
  BY <1>1, <1>2 DEF Bares, Ticked
<1>3. CASE \E i, j : Closes(s, i, j, Len(s))
  <2>1. PICK i, j : Closes(s, i, j, Len(s)) BY <1>3
  <2>2. i \in 1 .. Len(s) /\ j \in (i + 2) .. Len(s) BY <2>1 DEF Closes
  <2>3. s[1] = Tick /\ s[Len(s)] = Tick BY <1>1, <2>1, <2>2 DEF Closes
  <2> QED BY <1>1, <2>2, <2>3 DEF Ticked
<1> QED BY <1>2, <1>3 DEF IsSpan

\* What SpanLength finds.
LEMMA SpanFound ==
  ASSUME NEW S, NEW v \in Seq(S), NEW n, n = SpanLength(v), n # 0
  PROVE /\ n \in 2 .. Len(v) /\ v[1] = Tick /\ v[n] = Tick
        /\ IsSpan(Cut(v, 0, n)) /\ ~Ticked(Rest(v, n))
        /\ TickFree(Rest(v, n)) \/ \E i, j : Closes(Cut(v, 0, n), i, j, n)
<1>1. Len(v) \in Nat OBVIOUS
<1>2. Bares(v, n) \/ \E a, b : Closes(v, a, b, n) BY SpanCases
<1>3. n \in 1 .. Len(v) BY <1>1, <1>2 DEF Bares, Closes
<1>4. PICK s, r : s = Cut(v, 0, n) /\ r = Rest(v, n) OBVIOUS
<1>5. s \in Seq(S) /\ Len(s) = n /\ \A k \in 1 .. n : s[k] = v[k]
  <2>1. 0 \in 0 .. Len(v) /\ n \in 0 .. Len(v) BY <1>1, <1>3
  <2>2. Len(s) = n - 0 /\ s \in Seq(S) /\ \A k \in 1 .. (n - 0) : s[k] = v[0 + k] BY <1>4, <2>1, CutLaw
  <2> QED BY <1>1, <1>3, <2>2
<1>6. r \in Seq(S) /\ Len(r) = Len(v) - n /\ \A k \in 1 .. (Len(v) - n) : r[k] = v[n + k]
  <2>1. n \in 0 .. Len(v) BY <1>1, <1>3
  <2> QED BY <1>4, <2>1, RestLaw
<1>7. CASE Bares(v, n)
  <2>1. n \in 2 .. Len(v) /\ (\A k \in 1 .. n : v[k] = Tick) /\ \A k \in (n + 1) .. Len(v) : v[k] # Tick
    BY <1>7 DEF Bares
  <2>2. Bares(s, Len(s)) BY <1>1, <1>5, <2>1 DEF Bares
  <2>3. TickFree(r) BY <1>1, <1>6, <2>1 DEF TickFree
  <2>4. ~Ticked(r) BY <1>1, <1>6, <2>3 DEF TickFree, Ticked
  <2>5. v[1] = Tick /\ v[n] = Tick BY <1>1, <2>1
  <2> QED BY <1>4, <2>1, <2>2, <2>3, <2>4, <2>5 DEF IsSpan
<1>8. CASE \E a, b : Closes(v, a, b, n)
  <2>1. PICK a, b : Closes(v, a, b, n) BY <1>8
  <2>2. /\ a \in 1 .. Len(v) /\ b \in (a + 2) .. n /\ (\A k \in 1 .. a : v[k] = Tick)
        /\ (\A k \in (a + 1) .. (b - 1) : v[k] # Tick) /\ (\A k \in b .. n : v[k] = Tick)
        /\ (n < Len(v) => v[n + 1] # Tick)
    BY <2>1 DEF Closes
  <2>3. Closes(s, a, b, n)
    <3>1. a \in 1 .. n /\ n \in 1 .. Len(s) /\ ~(n < Len(s)) BY <1>1, <1>3, <1>5, <2>2
    <3>2. /\ (\A k \in 1 .. a : s[k] = Tick) /\ (\A k \in (a + 1) .. (b - 1) : s[k] # Tick)
          /\ (\A k \in b .. n : s[k] = Tick)
      BY <1>1, <1>3, <1>5, <2>2, <3>1
    <3> QED BY <1>5, <2>2, <3>1, <3>2 DEF Closes
  <2>4. ~Ticked(r) BY <1>1, <1>3, <1>6, <2>2 DEF Ticked
  <2>5. v[1] = Tick /\ v[n] = Tick /\ n \in 2 .. Len(v) BY <1>1, <1>3, <2>2
  <2>6. IsSpan(s) BY <1>5, <2>3 DEF IsSpan
  <2> QED BY <1>4, <2>3, <2>4, <2>5, <2>6
<1> QED BY <1>2, <1>7, <1>8

\* A text that begins with a span.
LEMMA SpanBegins ==
  ASSUME NEW S, NEW s \in Seq(S), NEW b \in Seq(S), NEW a, Spanned(a, s, b)
  PROVE SpanLength(s \o b) = Len(s)
<1>1. PICK v, n : v = s \o b /\ n = Len(s) OBVIOUS
<1>2. /\ v \in Seq(S) /\ Len(v) = n + Len(b) /\ n \in Nat /\ Len(b) \in Nat
      /\ (\A k \in 1 .. n : v[k] = s[k]) /\ (\A k \in 1 .. Len(b) : v[n + k] = b[k])
  BY <1>1, JoinLaw
<1>3. n < Len(v) => v[n + 1] # Tick BY <1>2 DEF Spanned, Ticked
<1>4. ASSUME NEW i, NEW j, Closes(s, i, j, n) PROVE Closes(v, i, j, n)
  <2>1. /\ i \in 1 .. n /\ j \in (i + 2) .. n /\ n \in 1 .. n /\ (\A k \in 1 .. i : s[k] = Tick)
        /\ (\A k \in (i + 1) .. (j - 1) : s[k] # Tick) /\ (\A k \in j .. n : s[k] = Tick)
    BY <1>1, <1>4 DEF Closes
  <2>2. /\ (\A k \in 1 .. i : v[k] = Tick) /\ (\A k \in (i + 1) .. (j - 1) : v[k] # Tick)
        /\ (\A k \in j .. n : v[k] = Tick)
    BY <1>2, <2>1
  <2>3. i \in 1 .. Len(v) /\ n \in 1 .. Len(v) BY <1>2, <2>1
  <2> QED BY <1>3, <2>1, <2>2, <2>3 DEF Closes
<1>5. ASSUME Bares(s, n), TickFree(b) PROVE Bares(v, n)
  <2>1. n \in 2 .. n /\ \A k \in 1 .. n : s[k] = Tick BY <1>1, <1>5 DEF Bares
  <2>2. \A k \in (n + 1) .. Len(v) : v[k] # Tick
    <3>1. ASSUME NEW k \in (n + 1) .. Len(v) PROVE v[k] # Tick
      <4>1. k - n \in 1 .. Len(b) /\ n + (k - n) = k BY <1>2
      <4>2. v[n + (k - n)] = b[k - n] BY <1>2, <4>1
      <4>3. b[k - n] # Tick BY <1>5, <4>1 DEF TickFree
      <4> QED BY <4>1, <4>2, <4>3
    <3> QED BY <3>1
  <2> QED BY <1>2, <2>1, <2>2 DEF Bares
<1>6. Bares(v, n) \/ \E i, j : Closes(v, i, j, n)
  <2>1. CASE \E i, j : Closes(s, i, j, n) BY <1>4, <2>1
  <2>2. CASE ~\E i, j : Closes(s, i, j, n) BY <1>1, <1>5, <2>2 DEF Spanned, IsSpan
  <2> QED BY <2>1, <2>2
<1> QED BY <1>1, <1>2, <1>6, SpanUnique

\* k is where the first span starts, 0 for none.
FirstSpanAt(v, k) ==
  /\ k \in 0 .. Len(v)
  /\ k > 0 => SpanLength(Rest(v, k - 1)) # 0
  /\ \A i \in 1 .. Len(v) : SpanLength(Rest(v, i - 1)) # 0 => k > 0 /\ k <= i

\* FirstSpan finds it.
LEMMA FirstSpanLaw ==
  ASSUME NEW S, NEW v \in Seq(S)
  PROVE FirstSpanAt(v, FirstSpan(v))
<1> DEFINE I == {i \in 1 .. Len(v) : SpanLength(Rest(v, i - 1)) > 0}
<1>1. FirstSpan(v) = IF I # {} THEN Min(I) ELSE 0
  <2>1. PICK f : f = [k \in DOMAIN v |-> SpanLength(Rest(v, k - 1))] OBVIOUS
  <2>2. DOMAIN v = 1 .. Len(v) /\ Len(f) = Len(v)
    <3>1. DOMAIN v = 1 .. Len(v) /\ Len(v) \in Nat OBVIOUS
    <3>2. f = [k \in 1 .. Len(v) |-> SpanLength(Rest(v, k - 1))] BY <2>1, <3>1
    <3>3. f \in Seq({SpanLength(Rest(v, k - 1)) : k \in 1 .. Len(v)}) BY <3>1, <3>2
    <3>4. DOMAIN f = 1 .. Len(v) BY <3>2
    <3>5. DOMAIN f = 1 .. Len(f) /\ Len(f) \in Nat BY <3>3
    <3> QED BY <3>1, <3>4, <3>5
  <2>3. \A i \in 1 .. Len(v) : f[i] = SpanLength(Rest(v, i - 1)) BY <2>1, <2>2
  <2>4. {i \in 1 .. Len(f) : f[i] > 0} = I BY <2>2, <2>3
  <2>5. FirstSpan(v) = IF {i \in 1 .. Len(f) : f[i] > 0} # {} THEN Min({i \in 1 .. Len(f) : f[i] > 0}) ELSE 0
    BY <2>1, Zenon DEF FirstSpan, SelectInSeq
  <2> HIDE DEF I
  <2> QED BY <2>4, <2>5
<1>2. ASSUME NEW i \in 1 .. Len(v) PROVE SpanLength(Rest(v, i - 1)) \in Nat
  <2>1. Len(v) \in Nat /\ i - 1 \in 0 .. Len(v) OBVIOUS
  <2>2. PICK r : r = Rest(v, i - 1) OBVIOUS
  <2>3. r \in Seq(S) BY <2>1, <2>2, RestLaw
  <2>4. SpanLength(r) = 0 \/ SpanLength(r) \in 2 .. Len(r) BY <2>3, SpanFound
  <2> QED BY <2>2, <2>3, <2>4
<1>3. Len(v) \in Nat OBVIOUS
<1>4. CASE I = {}
  <2>1. \A i \in 1 .. Len(v) : SpanLength(Rest(v, i - 1)) = 0 BY <1>2, <1>4
  <2> QED BY <1>1, <1>3, <1>4, <2>1 DEF FirstSpanAt
<1>5. CASE I # {}
  <2>1. I \in SUBSET Nat OBVIOUS
  <2>2. PICK x \in I : \A y \in I : x <= y
    <3> HIDE DEF I
    <3> QED BY <1>5, <2>1, Smallest
  <2>3. Min(I) \in I /\ \A y \in I : Min(I) <= y
    <3> HIDE DEF I
    <3> QED BY <2>2 DEF Min
  <2>4. PICK k : k = Min(I) OBVIOUS
  <2>5. k \in 1 .. Len(v) /\ SpanLength(Rest(v, k - 1)) > 0 BY <2>3, <2>4
  <2>6. \A y \in I : k <= y BY <2>3, <2>4
  <2>7. FirstSpan(v) = k BY <1>1, <1>5, <2>4
  <2>8. \A i \in 1 .. Len(v) : SpanLength(Rest(v, i - 1)) # 0 => i \in I BY <1>2
  <2>9. SpanLength(Rest(v, k - 1)) # 0 BY <2>5
  <2>10. \A i \in 1 .. Len(v) : SpanLength(Rest(v, i - 1)) # 0 => k <= i
    <3> HIDE DEF I
    <3> QED BY <2>6, <2>8
  <2>11. k \in 0 .. Len(v) /\ k > 0 BY <1>3, <2>5
  <2> HIDE DEF I
  <2> QED BY <2>7, <2>9, <2>10, <2>11, Zenon DEF FirstSpanAt
<1> QED BY <1>4, <1>5

\* The text from k on begins with a tick where the text has one at k.
LEMMA RestTicked ==
  ASSUME NEW S, NEW v \in Seq(S), NEW k \in 1 .. Len(v)
  PROVE /\ Rest(v, k - 1) \in Seq(S) /\ Len(Rest(v, k - 1)) = Len(v) - k + 1
        /\ Ticked(Rest(v, k - 1)) <=> v[k] = Tick
        /\ \A i \in k .. Len(v) : Rest(v, k - 1)[i - k + 1] = v[i]
<1>1. Len(v) \in Nat /\ k - 1 \in 0 .. Len(v) OBVIOUS
<1>2. PICK r : r = Rest(v, k - 1) OBVIOUS
<1>3. r \in Seq(S) /\ Len(r) = Len(v) - (k - 1) /\ \A i \in 1 .. (Len(v) - (k - 1)) : r[i] = v[k - 1 + i]
  BY <1>1, <1>2, RestLaw
<1>4. Len(r) = Len(v) - k + 1 BY <1>1, <1>3
<1>5. \A i \in k .. Len(v) : r[i - k + 1] = v[i]
  <2>1. ASSUME NEW i \in k .. Len(v) PROVE r[i - k + 1] = v[i]
    <3>1. i - k + 1 \in 1 .. (Len(v) - (k - 1)) /\ k - 1 + (i - k + 1) = i BY <1>1
    <3> QED BY <1>3, <3>1
  <2> QED BY <2>1
<1>6. r[1] = v[k]
  <2>1. k \in k .. Len(v) /\ k - k + 1 = 1 BY <1>1
  <2> QED BY <1>5, <2>1
<1>7. Ticked(r) <=> v[k] = Tick BY <1>1, <1>4, <1>6 DEF Ticked
<1> QED BY <1>2, <1>3, <1>4, <1>5, <1>7

\* Only where a tick is can a span start, and there is a second tick.
LEMMA SpanNeedsTicks ==
  ASSUME NEW S, NEW v \in Seq(S), NEW k \in 1 .. Len(v), SpanLength(Rest(v, k - 1)) # 0
  PROVE v[k] = Tick /\ \E j \in (k + 1) .. Len(v) : v[j] = Tick
<1>1. PICK r : r = Rest(v, k - 1) OBVIOUS
<1>2. r \in Seq(S) /\ Len(r) = Len(v) - k + 1 /\ \A i \in k .. Len(v) : r[i - k + 1] = v[i]
  BY <1>1, RestTicked
<1>3. PICK n : n = SpanLength(r) OBVIOUS
<1>4. n \in 2 .. Len(r) /\ r[1] = Tick /\ r[n] = Tick BY <1>1, <1>2, <1>3, SpanFound
<1>5. Len(v) \in Nat OBVIOUS
<1>6. k \in k .. Len(v) /\ k - k + 1 = 1 BY <1>5
<1>7. v[k] = Tick BY <1>2, <1>4, <1>6
<1>8. n + k - 1 \in (k + 1) .. Len(v) /\ (n + k - 1) - k + 1 = n BY <1>2, <1>4, <1>5
<1>9. v[n + k - 1] = Tick
  <2>1. n + k - 1 \in k .. Len(v) BY <1>5, <1>8
  <2> QED BY <1>2, <1>4, <1>8, <2>1
<1> QED BY <1>7, <1>8, <1>9

\* A line without a tick or with one has no span.
LEMMA LightWhole ==
  ASSUME NEW S, NEW v \in Seq(S), Light(v)
  PROVE FirstSpan(v) = 0
<1>1. PICK k : k = FirstSpan(v) OBVIOUS
<1>2. k \in 0 .. Len(v) /\ (k > 0 => SpanLength(Rest(v, k - 1)) # 0)
  BY <1>1, FirstSpanLaw DEF FirstSpanAt
<1>3. Len(v) \in Nat OBVIOUS
<1>4. ASSUME k > 0 PROVE FALSE
  <2>1. k \in 1 .. Len(v) BY <1>2, <1>3, <1>4
  <2>2. v[k] = Tick /\ \E j \in (k + 1) .. Len(v) : v[j] = Tick BY <1>2, <1>4, <2>1, SpanNeedsTicks
  <2> QED BY <1>3, <2>1, <2>2 DEF Light, TickFree, OneTick
<1> QED BY <1>1, <1>2, <1>3, <1>4

\* The three pieces of a line at its first span.
Divides(v, k, n, a, s, b) ==
  /\ k = FirstSpan(v) /\ n = SpanLength(Rest(v, k - 1))
  /\ a = Cut(v, 0, k - 1) /\ s = Cut(v, k - 1, k - 1 + n) /\ b = Rest(v, k - 1 + n)

\* A line has no span, or is divided by its first.
LEMMA Divide ==
  ASSUME NEW S, NEW v \in Seq(S), NEW k, NEW n, NEW a, NEW s, NEW b, Divides(v, k, n, a, s, b)
  PROVE /\ k = 0 => Light(v)
        /\ k # 0 => /\ k \in 1 .. Len(v) /\ n \in 2 .. (Len(v) - k + 1)
                    /\ a \in Seq(S) /\ s \in Seq(S) /\ b \in Seq(S) /\ v = a \o s \o b
                    /\ Len(a) = k - 1 /\ Len(s) = n /\ Len(b) = Len(v) - (k - 1 + n)
                    /\ Spanned(a, s, b)
<1>1. Len(v) \in Nat OBVIOUS
<1>2. /\ k \in 0 .. Len(v) /\ (k > 0 => SpanLength(Rest(v, k - 1)) # 0)
      /\ \A i \in 1 .. Len(v) : SpanLength(Rest(v, i - 1)) # 0 => k > 0 /\ k <= i
  BY FirstSpanLaw DEF FirstSpanAt, Divides
<1>3. \A i \in 1 .. Len(v) : v[i] = Tick /\ (k = 0 \/ i < k) => \A j \in (i + 1) .. Len(v) : v[j] # Tick
  <2>1. ASSUME NEW i \in 1 .. Len(v), v[i] = Tick, k = 0 \/ i < k, NEW j \in (i + 1) .. Len(v), v[j] = Tick
        PROVE FALSE
    <3>1. PICK r : r = Rest(v, i - 1) OBVIOUS
    <3>2. /\ r \in Seq(S) /\ Len(r) = Len(v) - i + 1 /\ Ticked(r)
          /\ \A x \in i .. Len(v) : r[x - i + 1] = v[x]
      BY <2>1, <3>1, RestTicked
    <3>3. SpanLength(r) = 0 BY <1>1, <1>2, <2>1, <3>1
    <3>4. OneTick(r)
      <4>1. ~Bares(r, 0) /\ ~\E c, d : Closes(r, c, d, 0) BY DEF Bares, Closes
      <4> QED BY <3>2, <3>3, <4>1, SpanCases
    <3>5. r[1] = Tick /\ r[j - i + 1] = Tick /\ j - i + 1 \in 2 .. Len(r) /\ 1 \in 1 .. Len(r)
      <4>1. i \in i .. Len(v) /\ j \in i .. Len(v) /\ i - i + 1 = 1 BY <1>1, <2>1
      <4>2. r[i - i + 1] = v[i] /\ r[j - i + 1] = v[j] BY <3>2, <4>1
      <4> QED BY <1>1, <2>1, <3>2, <4>1, <4>2
    <3>6. PICK x : x = j - i + 1 OBVIOUS
    <3>7. PICK y \in 1 .. Len(r) : r[y] = Tick /\ \A z \in 1 .. Len(r) : r[z] = Tick => z = y
      BY <3>4 DEF OneTick
    <3>8. x \in 2 .. Len(r) /\ x \in 1 .. Len(r) /\ r[x] = Tick /\ 1 \in 1 .. Len(r) /\ r[1] = Tick
      BY <1>1, <3>2, <3>5, <3>6
    <3>9. x = y /\ 1 = y BY <3>7, <3>8
    <3> QED BY <3>8, <3>9
  <2> QED BY <2>1
<1>4. ASSUME k = 0 PROVE Light(v)
  <2>1. CASE TickFree(v) BY <2>1 DEF Light
  <2>2. CASE ~TickFree(v)
    <3>1. PICK i \in 1 .. Len(v) : v[i] = Tick BY <2>2 DEF TickFree
    <3>2. ASSUME NEW j \in 1 .. Len(v), v[j] = Tick PROVE j = i
      <4>1. ~(j < i) BY <1>1, <1>3, <1>4, <3>1, <3>2
      <4>2. ~(i < j) BY <1>1, <1>3, <1>4, <3>1, <3>2
      <4> QED BY <1>1, <4>1, <4>2
    <3> QED BY <3>1, <3>2 DEF OneTick, Light
  <2> QED BY <2>1, <2>2
<1>5. ASSUME k # 0
      PROVE /\ k \in 1 .. Len(v) /\ n \in 2 .. (Len(v) - k + 1)
            /\ a \in Seq(S) /\ s \in Seq(S) /\ b \in Seq(S) /\ v = a \o s \o b
            /\ Len(a) = k - 1 /\ Len(s) = n /\ Len(b) = Len(v) - (k - 1 + n)
            /\ Spanned(a, s, b)
  <2>1. k \in 1 .. Len(v) /\ SpanLength(Rest(v, k - 1)) # 0 BY <1>1, <1>2, <1>5
  <2>2. PICK r : r = Rest(v, k - 1) OBVIOUS
  <2>3. PICK h : h = k - 1 OBVIOUS
  <2>4. h \in 0 .. Len(v) /\ r = Rest(v, h) BY <1>1, <2>1, <2>2, <2>3
  <2>5. r \in Seq(S) /\ Len(r) = Len(v) - h BY <2>4, RestLaw
  <2>6. n = SpanLength(r) /\ n # 0 BY <2>1, <2>2 DEF Divides
  <2>7. /\ n \in 2 .. Len(r) /\ IsSpan(Cut(r, 0, n)) /\ ~Ticked(Rest(r, n))
        /\ TickFree(Rest(r, n)) \/ \E i, j : Closes(Cut(r, 0, n), i, j, n)
    BY <2>5, <2>6, SpanFound
  <2>20. PICK m : m = h + n OBVIOUS
  <2>8. n \in 0 .. Len(r) /\ n \in 0 .. (Len(v) - h) /\ m \in h .. Len(v) /\ m \in 0 .. Len(v) /\ m = h + n
        /\ m - h = n
        /\ 0 \in 0 .. Len(v) /\ h \in 0 .. Len(v)
    BY <1>1, <2>4, <2>5, <2>7, <2>20
  <2>9. Rest(r, n) = Rest(v, m)
    <3>1. Rest(r, n) = Rest(v, h + n) BY <2>4, <2>8, RestOfRest
    <3> QED BY <2>8, <3>1
  <2>10. Cut(r, 0, n) = Cut(v, h, m)
    <3>1. PICK x, y : x = Cut(r, 0, n) /\ y = Cut(v, h, m) OBVIOUS
    <3>2. y \in Seq(S) /\ Len(y) = m - h /\ \A i \in 1 .. (m - h) : y[i] = v[h + i]
      BY <2>8, <3>1, CutLaw
    <3>3. 0 \in 0 .. Len(r) /\ n \in 0 .. Len(r) BY <2>5, <2>7, <2>8
    <3>4. x \in Seq(S) /\ Len(x) = n - 0 /\ \A i \in 1 .. (n - 0) : x[i] = r[0 + i]
      BY <2>5, <3>1, <3>3, CutLaw
    <3>5. \A i \in 1 .. (Len(v) - h) : r[i] = v[h + i] BY <2>4, RestLaw
    <3>6. Len(x) = n /\ Len(y) = n BY <2>8, <3>2, <3>4
    <3>7. \A i \in 1 .. n : x[i] = y[i] BY <1>1, <2>4, <2>5, <2>8, <3>2, <3>4, <3>5
    <3> QED BY <3>1, <3>2, <3>4, <3>6, <3>7
  <2>11. a = Cut(v, 0, h) /\ s = Cut(v, h, m) /\ b = Rest(v, m) BY <2>3, <2>8 DEF Divides
  <2>12. a \in Seq(S) /\ Len(a) = h - 0 /\ \A i \in 1 .. (h - 0) : a[i] = v[0 + i]
    BY <2>4, <2>8, <2>11, CutLaw
  <2>13. s \in Seq(S) /\ Len(s) = m - h /\ \A i \in 1 .. (m - h) : s[i] = v[h + i]
    BY <2>4, <2>8, <2>11, CutLaw
  <2>14. b \in Seq(S) /\ Len(b) = Len(v) - m /\ \A i \in 1 .. (Len(v) - m) : b[i] = v[m + i]
    BY <2>4, <2>8, <2>11, RestLaw
  <2>15. Len(a) = h /\ Len(s) = n BY <2>4, <2>8, <2>12, <2>13
  <2>16. v = a \o s \o b
    <3>1. PICK w : w = a \o s \o b OBVIOUS
    <3>2. InRow(w, h, m, a, s, b) BY <2>8, <2>15, <3>1 DEF InRow
    <3>3. /\ w \in Seq(S) /\ Len(w) = m + Len(b)
          /\ \A i \in 1 .. h : w[i] = a[i]
          /\ \A i \in 1 .. Len(s) : w[h + i] = s[i]
          /\ \A i \in 1 .. Len(b) : w[m + i] = b[i]
      BY <2>12, <2>13, <2>14, <3>2, ThreeParts
    <3>4. Len(w) = Len(v) BY <1>1, <2>4, <2>8, <2>14, <3>3
    <3>5. ASSUME NEW i \in 1 .. Len(v) PROVE w[i] = v[i]
      <4>1. CASE i <= h BY <2>4, <2>12, <3>3, <4>1
      <4>2. CASE i > h /\ i <= m
        <5>1. i - h \in 1 .. n /\ h + (i - h) = i /\ m - h = n BY <2>4, <2>8, <4>2
        <5>2. w[h + (i - h)] = s[i - h] BY <2>15, <3>3, <5>1
        <5>3. s[i - h] = v[h + (i - h)] BY <2>13, <5>1
        <5> QED BY <5>1, <5>2, <5>3
      <4>3. CASE i > m
        <5>1. i - m \in 1 .. Len(b) /\ m + (i - m) = i BY <1>1, <2>4, <2>8, <2>14, <4>3
        <5>2. w[m + (i - m)] = b[i - m] BY <3>3, <5>1
        <5>3. b[i - m] = v[m + (i - m)] BY <2>14, <5>1
        <5> QED BY <5>1, <5>2, <5>3
      <4> QED BY <2>4, <2>8, <4>1, <4>2, <4>3
    <3>6. w = v BY ONLY v \in Seq(S), <3>3, <3>4, <3>5
    <3> QED BY <3>1, <3>6
  <2>17. TickFree(a)
    <3>1. ASSUME NEW i \in 1 .. Len(a), a[i] = Tick PROVE FALSE
      <4>1. i \in 1 .. Len(v) /\ i < k /\ v[i] = Tick /\ k \in (i + 1) .. Len(v)
        <5>1. i \in 1 .. (h - 0) /\ 0 + i = i BY <2>4, <2>15
        <5>2. a[i] = v[i] BY <2>12, <5>1
        <5> QED BY <1>1, <2>1, <2>3, <2>4, <2>15, <3>1, <5>2
      <4>2. v[k] = Tick BY <2>1, SpanNeedsTicks
      <4> QED BY <1>3, <4>1, <4>2
    <3> QED BY <3>1 DEF TickFree
  <2>18. Spanned(a, s, b)
    <3>1. IsSpan(s) /\ ~Ticked(b) BY <2>7, <2>9, <2>10, <2>11
    <3>2. TickFree(b) \/ \E i, j : Closes(s, i, j, Len(s)) BY <2>7, <2>9, <2>10, <2>11, <2>15
    <3> QED BY <2>17, <3>1, <3>2 DEF Spanned
  <2>19. n \in 2 .. (Len(v) - k + 1) /\ Len(a) = k - 1 /\ Len(b) = Len(v) - (k - 1 + n)
    BY <1>1, <2>1, <2>3, <2>4, <2>5, <2>7, <2>8, <2>14, <2>15
  <2> QED BY <2>1, <2>12, <2>13, <2>14, <2>15, <2>16, <2>18, <2>19
<1> QED BY <1>4, <1>5

\* Three such pieces are the division of what they make up.
LEMMA DivideUnique ==
  ASSUME NEW S, NEW a \in Seq(S), NEW s \in Seq(S), NEW b \in Seq(S), Spanned(a, s, b),
         NEW v, v = a \o s \o b
  PROVE Divides(v, Len(a) + 1, Len(s), a, s, b)
<1>1. PICK i, n : i = Len(a) /\ n = Len(s) OBVIOUS
<1>2. i \in Nat /\ n \in Nat /\ Len(b) \in Nat BY <1>1
<1>14. PICK m : m = i + n OBVIOUS
<1>15. a \in Seq(S) /\ s \in Seq(S) /\ b \in Seq(S) OBVIOUS
<1>3. InRow(v, i, m, a, s, b) BY <1>1, <1>14 DEF InRow
<1>4. /\ v \in Seq(S) /\ Len(v) = i + n + Len(b)
      /\ \A k \in 1 .. i : v[k] = a[k]
      /\ Cut(v, 0, i) = a /\ Cut(v, i, i + n) = s /\ Rest(v, i + n) = b
  <2>1. /\ v \in Seq(S) /\ Len(v) = m + Len(b)
        /\ (\A k \in 1 .. i : v[k] = a[k])
        /\ Cut(v, 0, i) = a /\ Cut(v, i, m) = s /\ Rest(v, m) = b
    BY ONLY <1>3, <1>15, ThreeParts
  <2> QED BY <1>14, <2>1
<1>5. n >= 2 BY <1>1, SpanTicks DEF Spanned
<1>6. Rest(v, i) = s \o b
  <2>1. s \o b \in Seq(S) /\ <<>> \in Seq(S) BY JoinLaw
  <2>2. PICK t, e : t = s \o b /\ e = <<>> OBVIOUS
  <2>3. t \in Seq(S) /\ e \in Seq(S) /\ Len(e) = 0 /\ Len(t) \in Nat BY <2>1, <2>2
  <2>4. v = a \o t BY <2>2
  <2>5. a \o t \o e = a \o t BY <2>2, <2>3
  <2>9. PICK j : j = i + Len(t) OBVIOUS
  <2>6. InRow(v, i, j, a, t, e) BY <1>1, <2>4, <2>5, <2>9 DEF InRow
  <2>10. t \in Seq(S) /\ e \in Seq(S) BY <2>3
  <2>11. /\ v \in Seq(S) /\ Len(v) = j + Len(e)
         /\ Cut(v, 0, i) = a /\ Cut(v, i, j) = t /\ Rest(v, j) = e
    BY ONLY <1>15, <2>6, <2>10, ThreeParts
  <2>7. Cut(v, i, j) = t /\ Len(v) = j + Len(e) BY <2>11
  <2>8. Len(v) = j BY <1>2, <2>3, <2>7, <2>9
  <2> QED BY <2>2, <2>7, <2>8 DEF Rest
<1>7. SpanLength(Rest(v, i)) = n BY <1>1, <1>6, SpanBegins
<1>8. PICK k : k = FirstSpan(v) OBVIOUS
<1>9. /\ k \in 0 .. Len(v) /\ (k > 0 => SpanLength(Rest(v, k - 1)) # 0)
      /\ \A j \in 1 .. Len(v) : SpanLength(Rest(v, j - 1)) # 0 => k > 0 /\ k <= j
  BY <1>4, <1>8, FirstSpanLaw DEF FirstSpanAt
<1>10. i + 1 \in 1 .. Len(v) /\ (i + 1) - 1 = i BY <1>2, <1>4, <1>5
<1>11. k > 0 /\ k <= i + 1 BY <1>5, <1>7, <1>9, <1>10
<1>12. ~(k <= i)
  <2>1. ASSUME k <= i PROVE FALSE
    <3>1. k \in 1 .. Len(v) /\ k \in 1 .. i BY <1>2, <1>4, <1>9, <1>11, <2>1
    <3>2. v[k] = Tick BY <1>4, <1>9, <1>11, <3>1, SpanNeedsTicks
    <3>3. a[k] = Tick BY <1>4, <3>1, <3>2
    <3> QED BY <1>1, <3>1, <3>3 DEF Spanned, TickFree
  <2> QED BY <2>1
<1>13. k = i + 1 /\ k - 1 = i BY <1>2, <1>4, <1>9, <1>11, <1>12
<1> QED BY <1>1, <1>4, <1>7, <1>8, <1>13 DEF Divides

\* Where the first span of a line ends, and the line up to there.
SpanEnd(v) == FirstSpan(v) - 1 + SpanLength(Rest(v, FirstSpan(v) - 1))
UpToSpan(v) == <<Cut(v, 0, FirstSpan(v) - 1), Cut(v, FirstSpan(v) - 1, SpanEnd(v))>>

\* f is what Parts computes, from each place in the line on.
PartsFrom(v, f) ==
  f = [i \in 0 .. Len(v) |->
         IF FirstSpan(Rest(v, i)) = 0 THEN <<Rest(v, i)>>
         ELSE UpToSpan(Rest(v, i)) \o f[i + SpanEnd(Rest(v, i))]]

\* The first span ends in the line.
LEMMA SpanEndLaw ==
  ASSUME NEW S, NEW v \in Seq(S), FirstSpan(v) # 0
  PROVE SpanEnd(v) \in 2 .. Len(v)
<1>1. PICK k : k = FirstSpan(v) OBVIOUS
<1>2. PICK n : n = SpanLength(Rest(v, k - 1)) OBVIOUS
<1>3. PICK a, s, b : a = Cut(v, 0, k - 1) /\ s = Cut(v, k - 1, k - 1 + n) /\ b = Rest(v, k - 1 + n)
  OBVIOUS
<1>4. Divides(v, k, n, a, s, b) BY <1>1, <1>2, <1>3 DEF Divides
<1>5. k \in 1 .. Len(v) /\ n \in 2 .. (Len(v) - k + 1) BY <1>1, <1>4, Divide
<1>6. Len(v) \in Nat OBVIOUS
<1>7. SpanEnd(v) = k - 1 + n BY <1>1, <1>2 DEF SpanEnd
<1> QED BY <1>5, <1>6, <1>7

\* There is such an f, and Parts takes its first value.
LEMMA PartsDef ==
  ASSUME NEW S, NEW v \in Seq(S)
  PROVE \E f : PartsFrom(v, f) /\ Parts(v) = f[0]
<1> DEFINE n == Len(v)
           at == [i \in 0 .. n |-> IF FirstSpan(Rest(v, i)) = 0 THEN 0 ELSE SpanEnd(Rest(v, i))]
           next == [i \in 0 .. n |-> IF at[i] = 0 THEN 0 ELSE i + at[i]]
           base == [i \in 0 .. n |-> <<Rest(v, i)>>]
           head == [i \in 0 .. n |-> UpToSpan(Rest(v, i))]
           from == CHOOSE f : PartsFrom(v, f)
<1>1. n \in Nat /\ 0 \in Nat /\ 0 <= n + 1 OBVIOUS
<1>2. \A i \in 0 .. n : /\ at[i] \in 0 .. (n - i)
                        /\ at[i] = 0 <=> FirstSpan(Rest(v, i)) = 0
                        /\ at[i] # 0 => at[i] = SpanEnd(Rest(v, i))
  <2>1. ASSUME NEW i \in 0 .. n, FirstSpan(Rest(v, i)) # 0
        PROVE SpanEnd(Rest(v, i)) \in 2 .. (n - i)
    <3>1. Rest(v, i) \in Seq(S) /\ Len(Rest(v, i)) = n - i BY RestLaw
    <3> QED BY <2>1, <3>1, SpanEndLaw
  <2> QED BY <1>1, <2>1
<1>3. \A i \in 0 .. n : next[i] = 0 \/ next[i] \in (i + 1) .. n
  <2> HIDE DEF at
  <2> QED BY <1>1, <1>2
<1>4. \E f : Follows(f, 0, n, next, base, head)
  <2> HIDE DEF n, next, base, head
  <2> QED BY <1>1, <1>3, Recursion, Zenon
<1>5. \E f : PartsFrom(v, f)
  <2>1. PICK f : f = [i \in 0 .. n |-> IF next[i] = 0 THEN base[i] ELSE head[i] \o f[next[i]]]
    BY <1>4 DEF Follows
  <2>2. \A i \in 0 .. n : (next[i] = 0) <=> (at[i] = 0)
    <3> HIDE DEF at
    <3> QED BY <1>1, <1>2
  <2>3. \A i \in 0 .. n : at[i] # 0 => next[i] = i + at[i] OBVIOUS
  <2>4. ASSUME NEW i \in 0 .. n
        PROVE (IF next[i] = 0 THEN base[i] ELSE head[i] \o f[next[i]])
                = IF FirstSpan(Rest(v, i)) = 0 THEN <<Rest(v, i)>>
                  ELSE UpToSpan(Rest(v, i)) \o f[i + SpanEnd(Rest(v, i))]
    <3>1. base[i] = <<Rest(v, i)>> /\ head[i] = UpToSpan(Rest(v, i)) OBVIOUS
    <3> HIDE DEF next, base, head, at, n
    <3>2. CASE at[i] = 0 BY <1>2, <2>2, <3>1, <3>2
    <3>3. CASE at[i] # 0
      <4>1. next[i] = i + SpanEnd(Rest(v, i)) /\ next[i] # 0 /\ FirstSpan(Rest(v, i)) # 0
        BY <1>2, <2>2, <2>3, <3>3
      <4> QED BY <3>1, <4>1
    <3> QED BY <3>2, <3>3
  <2>5. f = [i \in 0 .. n |->
               IF FirstSpan(Rest(v, i)) = 0 THEN <<Rest(v, i)>>
               ELSE UpToSpan(Rest(v, i)) \o f[i + SpanEnd(Rest(v, i))]]
    <3> HIDE DEF next, base, head, at
    <3> QED BY <2>1, <2>4
  <2> QED BY <2>5 DEF PartsFrom
<1>6. Parts(v) = from[0] BY DEF Parts, PartsFrom, SpanEnd, UpToSpan
<1>7. PartsFrom(v, from)
  <2> HIDE DEF PartsFrom
  <2> QED BY <1>5, Zenon
<1> HIDE DEF from
<1> QED BY <1>6, <1>7

\* What it makes of the rest of a line does not depend on where the rest is.
LEMMA PartsShift ==
  ASSUME NEW S, NEW v \in Seq(S), NEW i \in 0 .. Len(v), NEW f, PartsFrom(v, f),
         NEW g, PartsFrom(Rest(v, i), g)
  PROVE \A k \in 0 .. (Len(v) - i) : g[k] = f[i + k]
<1> DEFINE w == Rest(v, i)
           n == Len(v) - i
           T == {d \in Nat : \E k \in 0 .. n : d = n - k /\ g[k] # f[i + k]}
<1>1. w \in Seq(S) /\ Len(w) = n /\ n \in Nat BY RestLaw
<1>2. T = {}
  <2> SUFFICES ASSUME T # {} PROVE FALSE
    OBVIOUS
  <2>1. T \in SUBSET Nat OBVIOUS
  <2>2. PICK d \in T : \A y \in T : d <= y
    <3> HIDE DEF T
    <3> QED BY <2>1, Smallest
  <2>3. PICK k \in 0 .. n : d = n - k /\ g[k] # f[i + k] BY <2>2
  <2>4. Rest(w, k) = Rest(v, i + k) BY RestOfRest
  <2>5. PICK r, m : r = Rest(w, k) /\ m = SpanEnd(r) OBVIOUS
  <2>6. k \in 0 .. Len(w) /\ i + k \in 0 .. Len(v) /\ Len(w) = n /\ n = Len(v) - i BY <1>1
  <2>7. r \in Seq(S) /\ Len(r) = n - k BY <1>1, <2>5, <2>6, RestLaw
  <2>8. FirstSpan(r) # 0 => m \in 2 .. (n - k) BY <2>5, <2>7, SpanEndLaw
  <2>9. g[k] = IF FirstSpan(r) = 0 THEN <<r>> ELSE UpToSpan(r) \o g[k + m]
    <3> HIDE DEF n, T
    <3> QED BY <2>5, <2>6 DEF PartsFrom
  <2>10. f[i + k] = IF FirstSpan(r) = 0 THEN <<r>> ELSE UpToSpan(r) \o f[i + k + m]
    <3>1. f = [j \in 0 .. Len(v) |-> IF FirstSpan(Rest(v, j)) = 0 THEN <<Rest(v, j)>>
                                     ELSE UpToSpan(Rest(v, j)) \o f[j + SpanEnd(Rest(v, j))]]
      BY DEF PartsFrom
    <3> HIDE DEF w, n, T
    <3> QED BY <2>4, <2>5, <2>6, <3>1
  <2>11. CASE FirstSpan(r) = 0 BY <2>3, <2>9, <2>10, <2>11
  <2>12. CASE FirstSpan(r) # 0
    <3>1. k + m \in 0 .. n /\ n - (k + m) \in Nat /\ n - (k + m) < d
      <4>1. m \in 2 .. (n - k) BY <2>8, <2>12
      <4>2. n \in Nat BY <1>1
      <4>3. k \in 0 .. n /\ d = n - k BY <2>3
      <4> HIDE DEF n, T, w
      <4> QED BY ONLY <4>1, <4>2, <4>3
    <3>2. n - (k + m) \notin T
      <4> HIDE DEF T
      <4> QED BY <2>1, <2>2, <3>1
    <3>3. g[k + m] = f[i + (k + m)] BY <3>1, <3>2
    <3>4. i + (k + m) = i + k + m BY <2>8, <2>6, <2>12
    <3> QED BY <2>3, <2>9, <2>10, <2>12, <3>3, <3>4
  <2> QED BY <2>11, <2>12
<1>3. \A k \in 0 .. n : n - k \in Nat BY <1>1
<1>4. ASSUME NEW k \in 0 .. n PROVE g[k] = f[i + k]
  <2>1. n - k \notin T
    <3> HIDE DEF T
    <3> QED BY <1>2
  <2> QED BY <1>3, <2>1
<1> QED BY <1>4

\* Parts, one span at a time.
LEMMA PartsStep ==
  ASSUME NEW S, NEW v \in Seq(S)
  PROVE /\ FirstSpan(v) = 0 => Parts(v) = <<v>>
        /\ FirstSpan(v) # 0 => Parts(v) = UpToSpan(v) \o Parts(Rest(v, SpanEnd(v)))
<1>1. PICK k : k = SpanEnd(v) OBVIOUS
<1>2. FirstSpan(v) # 0 => k \in 2 .. Len(v) BY <1>1, SpanEndLaw
<1>3. PICK f : PartsFrom(v, f) /\ Parts(v) = f[0] BY PartsDef
<1>4. Rest(v, 0) = v BY RestAll
<1>5. 0 \in 0 .. Len(v) OBVIOUS
<1>6. f[0] = IF FirstSpan(v) = 0 THEN <<v>> ELSE UpToSpan(v) \o f[0 + k]
  <2>1. f[0] = IF FirstSpan(Rest(v, 0)) = 0 THEN <<Rest(v, 0)>>
               ELSE UpToSpan(Rest(v, 0)) \o f[0 + SpanEnd(Rest(v, 0))]
    BY <1>3, <1>5 DEF PartsFrom
  <2> QED BY <1>1, <1>4, <2>1
<1>7. ASSUME FirstSpan(v) # 0 PROVE Parts(v) = UpToSpan(v) \o Parts(Rest(v, k))
  <2>1. k \in 2 .. Len(v) /\ k \in 0 .. Len(v) BY <1>2, <1>7
  <2>2. Rest(v, k) \in Seq(S) BY <2>1, RestLaw
  <2>3. PICK g : PartsFrom(Rest(v, k), g) /\ Parts(Rest(v, k)) = g[0] BY <2>2, PartsDef
  <2>4. g[0] = f[k + 0]
    <3>1. 0 \in 0 .. (Len(v) - k) BY <2>1
    <3>2. \A j \in 0 .. (Len(v) - k) : g[j] = f[k + j] BY <1>3, <2>1, <2>3, PartsShift
    <3> QED BY <3>1, <3>2
  <2>5. k + 0 = k /\ 0 + k = k BY <2>1
  <2> QED BY <1>3, <1>6, <1>7, <2>3, <2>4, <2>5
<1> QED BY <1>1, <1>3, <1>6, <1>7

\* Of a line without a span, and of one divided by a span.
LEMMA PartsLaw ==
  ASSUME NEW S
  PROVE /\ \A v \in Seq(S) : Light(v) => Parts(v) = <<v>>
        /\ \A a \in Seq(S), s \in Seq(S), b \in Seq(S) :
             Spanned(a, s, b) => Parts(a \o s \o b) = <<a, s>> \o Parts(b)
        /\ \A v \in Seq(S) : Light(v) \/ \E a \in Seq(S), s \in Seq(S), b \in Seq(S) :
             Spanned(a, s, b) /\ v = a \o s \o b /\ Len(b) < Len(v)
<1>1. ASSUME NEW v \in Seq(S), Light(v) PROVE Parts(v) = <<v>>
  BY <1>1, LightWhole, PartsStep
<1>2. ASSUME NEW a \in Seq(S), NEW s \in Seq(S), NEW b \in Seq(S), Spanned(a, s, b)
      PROVE Parts(a \o s \o b) = <<a, s>> \o Parts(b)
  <2>1. PICK v : v = a \o s \o b OBVIOUS
  <2>2. PICK k, n : k = Len(a) + 1 /\ n = Len(s) OBVIOUS
  <2>3. Divides(v, k, n, a, s, b) BY <1>2, <2>1, <2>2, DivideUnique
  <2>4. k # 0
    <3>1. Len(a) \in Nat OBVIOUS
    <3> QED BY <2>2, <3>1
  <2>5. /\ k = FirstSpan(v) /\ n = SpanLength(Rest(v, k - 1))
        /\ a = Cut(v, 0, k - 1) /\ s = Cut(v, k - 1, k - 1 + n) /\ b = Rest(v, k - 1 + n)
    BY <2>3 DEF Divides
  <2>6. SpanEnd(v) = k - 1 + n BY <2>5, Zenon DEF SpanEnd
  <2>7. UpToSpan(v) = <<a, s>> BY <2>5, <2>6, Zenon DEF UpToSpan
  <2>8. v \in Seq(S) BY <2>1, Rows
  <2>9. Parts(v) = UpToSpan(v) \o Parts(Rest(v, SpanEnd(v))) BY <2>4, <2>5, <2>8, PartsStep
  <2>10. Rest(v, SpanEnd(v)) = b BY <2>5, <2>6, Zenon
  <2> QED BY <2>1, <2>7, <2>9, <2>10, Zenon
<1>3. ASSUME NEW v \in Seq(S), ~Light(v)
      PROVE \E a \in Seq(S), s \in Seq(S), b \in Seq(S) :
              Spanned(a, s, b) /\ v = a \o s \o b /\ Len(b) < Len(v)
  <2>1. PICK k : k = FirstSpan(v) OBVIOUS
  <2>2. PICK n : n = SpanLength(Rest(v, k - 1)) OBVIOUS
  <2>3. PICK a, s, b : a = Cut(v, 0, k - 1) /\ s = Cut(v, k - 1, k - 1 + n) /\ b = Rest(v, k - 1 + n)
    OBVIOUS
  <2>4. Divides(v, k, n, a, s, b) BY <2>1, <2>2, <2>3 DEF Divides
  <2>5. k # 0 BY <1>3, <2>4, Divide
  <2>6. /\ k \in 1 .. Len(v) /\ n \in 2 .. (Len(v) - k + 1)
        /\ a \in Seq(S) /\ s \in Seq(S) /\ b \in Seq(S) /\ v = a \o s \o b
        /\ Len(b) = Len(v) - (k - 1 + n) /\ Spanned(a, s, b)
    BY <2>4, <2>5, Divide
  <2>7. Len(b) < Len(v)
    <3>1. Len(v) \in Nat OBVIOUS
    <3> QED BY <2>6, <3>1
  <2> QED BY <2>6, <2>7
<1> QED BY <1>1, <1>2, <1>3

(***************************************************************************)
(* Editor: what the passes leave of a line                                 *)
(***************************************************************************)

\* f is what FlattenSeq computes, up to each of the sequences.
FlatFrom(qs, f) == f = [i \in 1 .. Len(qs) |-> IF i = 1 THEN qs[i] ELSE f[i - 1] \o qs[i]]

\* There is such an f, and FlattenSeq takes its last value.
LEMMA FlatDef ==
  ASSUME NEW S, NEW qs \in Seq(S), Len(qs) > 0
  PROVE \E f : FlatFrom(qs, f) /\ FlattenSeq(qs) = f[Len(qs)]
<1> DEFINE Up(f, m) == f = [i \in 1 .. m |-> IF i = 1 THEN qs[i] ELSE f[i - 1] \o qs[i]]
           T == {m \in Nat : m > 0 /\ ~\E f : Up(f, m)}
<1>1. T = {}
  <2> SUFFICES ASSUME T # {} PROVE FALSE
    OBVIOUS
  <2>1. T \in SUBSET Nat OBVIOUS
  <2>2. PICK m \in T : \A y \in T : m <= y
    <3> HIDE DEF T
    <3> QED BY <2>1, Smallest
  <2>3. m \in Nat /\ m > 0 /\ ~\E f : Up(f, m) BY <2>2
  <2>4. CASE m = 1
    <3>1. PICK f : f = [i \in 1 .. 1 |-> qs[i]] OBVIOUS
    <3>2. 1 .. 1 = {1} OBVIOUS
    <3>3. f = [i \in 1 .. 1 |-> IF i = 1 THEN qs[i] ELSE f[i - 1] \o qs[i]] BY <3>1, <3>2
    <3> QED BY <2>3, <2>4, <3>3
  <2>5. CASE m # 1
    <3>1. m - 1 \in Nat /\ m - 1 > 0 /\ ~(m <= m - 1) /\ m >= 1 BY <2>3, <2>5
    <3>2. m - 1 \notin T
      <4> HIDE DEF T
      <4> QED BY <2>2, <3>1
    <3>3. PICK g : Up(g, m - 1) BY <3>1, <3>2
    <3>4. PICK f : f = [i \in 1 .. m |-> IF i < m THEN g[i] ELSE g[m - 1] \o qs[m]] OBVIOUS
    <3>5. ASSUME NEW i \in 1 .. m
          PROVE (IF i < m THEN g[i] ELSE g[m - 1] \o qs[m]) = IF i = 1 THEN qs[i] ELSE f[i - 1] \o qs[i]
      <4>1. ASSUME NEW j \in 1 .. (m - 1) PROVE f[j] = g[j]
        <5>1. j \in 1 .. m /\ j < m BY <3>1, <2>3
        <5> QED BY <3>4, <5>1
      <4>2. CASE i = 1
        <5>1. i < m /\ i \in 1 .. (m - 1) BY <2>3, <2>5, <4>2
        <5>2. g[i] = qs[i] BY <3>3, <4>2, <5>1
        <5> QED BY <4>2, <5>1, <5>2
      <4>3. CASE i # 1 /\ i < m
        <5>1. i \in 1 .. (m - 1) /\ i - 1 \in 1 .. (m - 1) BY <2>3, <4>3
        <5>2. g[i] = g[i - 1] \o qs[i] BY <3>3, <4>3, <5>1
        <5> QED BY <4>1, <4>3, <5>1, <5>2
      <4>4. CASE i # 1 /\ ~(i < m)
        <5>1. i = m /\ i - 1 \in 1 .. (m - 1) BY <2>3, <4>4
        <5> QED BY <4>1, <4>4, <5>1
      <4> QED BY <4>2, <4>3, <4>4
    <3>6. f = [i \in 1 .. m |-> IF i = 1 THEN qs[i] ELSE f[i - 1] \o qs[i]] BY <3>4, <3>5
    <3> QED BY <2>3, <3>6
  <2> QED BY <2>4, <2>5
<1>2. Len(qs) \in Nat OBVIOUS
<1>3. \E f : FlatFrom(qs, f)
  <2>1. Len(qs) \notin T
    <3> HIDE DEF T
    <3> QED BY <1>1
  <2>2. \E f : Up(f, Len(qs)) BY <1>2, <2>1
  <2> QED BY <2>2 DEF FlatFrom
<1>4. FlattenSeq(qs) = (CHOOSE f : FlatFrom(qs, f))[Len(qs)]
  <2>1. Len(qs) # 0 BY <1>2
  <2> QED BY <2>1 DEF FlattenSeq, FlatFrom
<1> QED BY <1>3, <1>4

\* A sequence on its own, and one before others.
LEMMA FlatLaw ==
  ASSUME NEW S, NEW x \in Seq(S), NEW qs \in Seq(Seq(S)), Len(qs) > 0
  PROVE /\ FlattenSeq(qs) \in Seq(S)
        /\ FlattenSeq(<<x>>) = x
        /\ FlattenSeq(<<x>> \o qs) = x \o FlattenSeq(qs)
<1>1. PICK n : n = Len(qs) OBVIOUS
<1>2. n \in Nat /\ n >= 1 BY <1>1
<1>3. PICK f : FlatFrom(qs, f) /\ FlattenSeq(qs) = f[n] BY <1>1, FlatDef
<1>4. PICK ps : ps = <<x>> \o qs OBVIOUS
<1>5. /\ ps \in Seq(Seq(S)) /\ Len(ps) = n + 1 /\ ps[1] = x
      /\ \A i \in 2 .. (n + 1) : ps[i] = qs[i - 1]
  <2>1. /\ ps \in Seq(Seq(S)) /\ Len(ps) = 1 + n /\ ps[1] = x
        /\ \A i \in 2 .. (1 + n) : ps[i] = qs[i - 1]
    BY <1>1, <1>4, FirstAndRest
  <2>2. 1 + n = n + 1 BY <1>2
  <2> QED BY <2>1, <2>2
<1>6. PICK g : FlatFrom(ps, g) /\ FlattenSeq(ps) = g[n + 1]
  <2>1. Len(ps) > 0 BY <1>2, <1>5
  <2> QED BY <1>5, <2>1, FlatDef
<1>7. /\ f[1] = qs[1] /\ \A i \in 2 .. n : f[i] = f[i - 1] \o qs[i]
      /\ g[1] = x /\ \A i \in 2 .. (n + 1) : g[i] = g[i - 1] \o qs[i - 1]
  <2>1. f = [i \in 1 .. n |-> IF i = 1 THEN qs[i] ELSE f[i - 1] \o qs[i]] BY <1>1, <1>3 DEF FlatFrom
  <2>2. g = [i \in 1 .. (n + 1) |-> IF i = 1 THEN ps[i] ELSE g[i - 1] \o ps[i]]
    BY <1>5, <1>6 DEF FlatFrom
  <2>3. 1 \in 1 .. n /\ 1 \in 1 .. (n + 1) BY <1>2
  <2>4. \A i \in 2 .. n : i \in 1 .. n /\ i # 1 BY <1>2
  <2>5. \A i \in 2 .. (n + 1) : i \in 1 .. (n + 1) /\ i # 1 BY <1>2
  <2> QED BY <1>5, <2>1, <2>2, <2>3, <2>4, <2>5
<1>8. \A i \in 1 .. n : qs[i] \in Seq(S) BY <1>1
<1> DEFINE T == {i \in Nat : i \in 1 .. n /\ ~(f[i] \in Seq(S) /\ g[i + 1] = x \o f[i])}
<1>9. T = {}
  <2> SUFFICES ASSUME T # {} PROVE FALSE
    OBVIOUS
  <2>1. T \in SUBSET Nat OBVIOUS
  <2>2. PICK i \in T : \A y \in T : i <= y
    <3> HIDE DEF T
    <3> QED BY <2>1, Smallest
  <2>3. i \in 1 .. n /\ ~(f[i] \in Seq(S) /\ g[i + 1] = x \o f[i]) BY <2>2
  <2>4. i + 1 \in 2 .. (n + 1) /\ (i + 1) - 1 = i BY <1>2, <2>3
  <2>5. g[i + 1] = g[i] \o qs[i] BY <1>7, <2>4
  <2>6. CASE i = 1 BY <1>7, <1>8, <2>3, <2>5, <2>6
  <2>7. CASE i # 1
    <3>1. i - 1 \in 1 .. n /\ i - 1 \in Nat /\ ~(i <= i - 1) /\ (i - 1) + 1 = i /\ i \in 2 .. n
      BY <1>2, <2>3, <2>7
    <3>2. i - 1 \notin T
      <4> HIDE DEF T
      <4> QED BY <2>2, <3>1
    <3>3. f[i - 1] \in Seq(S) /\ g[i] = x \o f[i - 1] BY <3>1, <3>2
    <3>4. f[i] = f[i - 1] \o qs[i] BY <1>7, <3>1
    <3>5. qs[i] \in Seq(S) BY <1>8, <2>3
    <3>6. (x \o f[i - 1]) \o qs[i] = x \o (f[i - 1] \o qs[i])
      <4>1. PICK a, b : a = f[i - 1] /\ b = qs[i] OBVIOUS
      <4>2. a \in Seq(S) /\ b \in Seq(S) /\ x \in Seq(S) BY <3>3, <3>5, <4>1
      <4>3. (x \o a) \o b = x \o (a \o b) BY ONLY <4>2, ConcatAssociative
      <4> QED BY <4>1, <4>3, Zenon
    <3>7. f[i] \in Seq(S) BY <3>3, <3>4, <3>5
    <3> QED BY <2>3, <2>5, <3>3, <3>4, <3>6, <3>7
  <2> QED BY <2>6, <2>7
<1>10. f[n] \in Seq(S) /\ g[n + 1] = x \o f[n]
  <2>1. n \notin T
    <3> HIDE DEF T
    <3> QED BY <1>9
  <2>2. n \in 1 .. n BY <1>2
  <2> QED BY <1>2, <2>1, <2>2
<1>11. FlattenSeq(<<x>>) = x
  <2>1. <<x>> \in Seq(Seq(S)) /\ Len(<<x>>) = 1 /\ <<x>>[1] = x OBVIOUS
  <2>2. PICK h : FlatFrom(<<x>>, h) /\ FlattenSeq(<<x>>) = h[1]
    <3>1. PICK w, R : w = <<x>> /\ R = Seq(S) OBVIOUS
    <3>2. w \in Seq(R) /\ Len(w) = 1 /\ Len(w) > 0 BY <2>1, <3>1
    <3>3. \E h : FlatFrom(w, h) /\ FlattenSeq(w) = h[Len(w)] BY ONLY <3>2, FlatDef
    <3> QED BY <3>1, <3>2, <3>3
  <2>3. h[1] = x
    <3>1. h = [i \in 1 .. 1 |-> IF i = 1 THEN <<x>>[i] ELSE h[i - 1] \o <<x>>[i]]
      BY <2>1, <2>2 DEF FlatFrom
    <3>2. 1 \in 1 .. 1 OBVIOUS
    <3> QED BY <2>1, <3>1, <3>2
  <2> QED BY <2>2, <2>3
<1> QED BY <1>3, <1>4, <1>6, <1>10, <1>11

\* A text of nothing but blanks.
AllBlank(v) == \A k \in 1 .. Len(v) : v[k] \in Blank

\* q may stand for p outside code: it has no more ticks, and begins with none
\* where p does not; it is blank, and empty, only where p is, and has no line
\* break where p has none.
Tame(S, p, q) ==
  /\ q \in Seq(S)
  /\ TickFree(p) => TickFree(q)
  /\ Light(p) => Light(q)
  /\ Ticked(q) => Ticked(p)
  /\ AllBlank(p) <=> AllBlank(q)
  /\ q = <<>> => p = <<>>
  /\ OneLine(p) => OneLine(q)

\* The texts x and y in a row make up w.
Row(w, x, y) == w = x \o y

\* What holds of two texts in a row.
LEMMA RowSays ==
  ASSUME NEW S, NEW x \in Seq(S), NEW y \in Seq(S), NEW w, Row(w, x, y)
  PROVE /\ TickFree(w) <=> TickFree(x) /\ TickFree(y)
        /\ AllBlank(w) <=> AllBlank(x) /\ AllBlank(y)
        /\ OneLine(w) <=> OneLine(x) /\ OneLine(y)
        /\ Light(w) <=> (TickFree(x) /\ Light(y)) \/ (Light(x) /\ TickFree(y))
        /\ Ticked(w) <=> Ticked(x) \/ (x = <<>> /\ Ticked(y))
        /\ w = <<>> <=> x = <<>> /\ y = <<>>
<1>1. PICK n, m : n = Len(x) /\ m = Len(y) OBVIOUS
<1>2. n \in Nat /\ m \in Nat BY <1>1
<1>3. /\ w \in Seq(S) /\ Len(w) = n + m
      /\ \A k \in 1 .. n : w[k] = x[k]
      /\ \A k \in 1 .. m : w[n + k] = y[k]
  <2>1. /\ x \o y \in Seq(S) /\ Len(x \o y) = Len(x) + Len(y)
        /\ \A k \in 1 .. Len(x) : (x \o y)[k] = x[k]
        /\ \A k \in 1 .. Len(y) : (x \o y)[Len(x) + k] = y[k]
    BY JoinLaw
  <2> QED BY <1>1, <2>1 DEF Row
<1>4. \A k \in 1 .. (n + m) : k \in 1 .. n \/ (k - n \in 1 .. m /\ k = n + (k - n)) BY <1>2
<1>5. \A k \in 1 .. n : k \in 1 .. (n + m) BY <1>2
<1>6. \A k \in 1 .. m : n + k \in 1 .. (n + m) BY <1>2
<1>7. \A k \in 1 .. (n + m) : k \in 1 .. n \/ \E j \in 1 .. m : k = n + j BY <1>4
<1>18. ASSUME NEW C
       PROVE (\A k \in 1 .. (n + m) : w[k] \in C)
               <=> (\A k \in 1 .. n : x[k] \in C) /\ (\A k \in 1 .. m : y[k] \in C)
  <2>1. ASSUME \A k \in 1 .. (n + m) : w[k] \in C
        PROVE (\A k \in 1 .. n : x[k] \in C) /\ (\A k \in 1 .. m : y[k] \in C)
    BY <1>3, <1>5, <1>6, <2>1
  <2>2. ASSUME \A k \in 1 .. n : x[k] \in C, \A k \in 1 .. m : y[k] \in C
        PROVE \A k \in 1 .. (n + m) : w[k] \in C
    <3>1. ASSUME NEW k \in 1 .. (n + m) PROVE w[k] \in C
      <4>1. CASE k \in 1 .. n BY <1>3, <2>2, <4>1
      <4>2. CASE k \notin 1 .. n
        <5>1. PICK j \in 1 .. m : k = n + j BY <1>7, <4>2
        <5> QED BY <1>3, <2>2, <5>1
      <4> QED BY <4>1, <4>2
    <3> QED BY <3>1
  <2> QED BY <2>1, <2>2
<1>19. /\ \A k \in 1 .. n : x[k] \in S
       /\ \A k \in 1 .. m : y[k] \in S
       /\ \A k \in 1 .. (n + m) : w[k] \in S
  BY <1>1, <1>3
<1>8. TickFree(w) <=> TickFree(x) /\ TickFree(y)
  <2>1. TickFree(w) <=> \A k \in 1 .. (n + m) : w[k] \in S \ {Tick} BY <1>3, <1>19 DEF TickFree
  <2>2. TickFree(x) <=> \A k \in 1 .. n : x[k] \in S \ {Tick} BY <1>1, <1>19 DEF TickFree
  <2>3. TickFree(y) <=> \A k \in 1 .. m : y[k] \in S \ {Tick} BY <1>1, <1>19 DEF TickFree
  <2> QED BY <1>18, <2>1, <2>2, <2>3
<1>9. AllBlank(w) <=> AllBlank(x) /\ AllBlank(y)
  <2>1. AllBlank(w) <=> \A k \in 1 .. (n + m) : w[k] \in Blank BY <1>3 DEF AllBlank
  <2>2. AllBlank(x) <=> \A k \in 1 .. n : x[k] \in Blank BY <1>1 DEF AllBlank
  <2>3. AllBlank(y) <=> \A k \in 1 .. m : y[k] \in Blank BY <1>1 DEF AllBlank
  <2> QED BY <1>18, <2>1, <2>2, <2>3
<1>10. OneLine(w) <=> OneLine(x) /\ OneLine(y)
  <2>1. OneLine(w) <=> \A k \in 1 .. (n + m) : w[k] \in S \ {Newline} BY <1>3, <1>19 DEF OneLine
  <2>2. OneLine(x) <=> \A k \in 1 .. n : x[k] \in S \ {Newline} BY <1>1, <1>19 DEF OneLine
  <2>3. OneLine(y) <=> \A k \in 1 .. m : y[k] \in S \ {Newline} BY <1>1, <1>19 DEF OneLine
  <2> QED BY <1>18, <2>1, <2>2, <2>3
<1>11. ASSUME OneTick(x), TickFree(y) PROVE OneTick(w)
  <2>1. PICK k \in 1 .. n : x[k] = Tick /\ \A j \in 1 .. n : x[j] = Tick => j = k
    BY <1>1, <1>11 DEF OneTick
  <2>2. \A j \in 1 .. m : y[j] # Tick BY <1>1, <1>11 DEF TickFree
  <2>3. k \in 1 .. (n + m) /\ w[k] = Tick BY <1>3, <1>5, <2>1
  <2>4. \A j \in 1 .. (n + m) : w[j] = Tick => j = k BY <1>3, <1>7, <2>1, <2>2
  <2> QED BY <1>3, <2>3, <2>4 DEF OneTick
<1>12. ASSUME TickFree(x), OneTick(y) PROVE OneTick(w)
  <2>1. PICK k \in 1 .. m : y[k] = Tick /\ \A j \in 1 .. m : y[j] = Tick => j = k
    BY <1>1, <1>12 DEF OneTick
  <2>2. \A j \in 1 .. n : x[j] # Tick BY <1>1, <1>12 DEF TickFree
  <2>3. n + k \in 1 .. (n + m) /\ w[n + k] = Tick BY <1>3, <1>6, <2>1
  <2>4. ASSUME NEW j \in 1 .. (n + m), w[j] = Tick PROVE j = n + k
    <3>1. j \notin 1 .. n BY <1>3, <2>2, <2>4
    <3>2. PICK i \in 1 .. m : j = n + i BY <1>7, <3>1
    <3>3. y[i] = Tick BY <1>3, <2>4, <3>2
    <3> QED BY <2>1, <3>2, <3>3
  <2> QED BY <1>3, <2>3, <2>4 DEF OneTick
<1>13. ASSUME OneTick(w) PROVE (TickFree(x) /\ OneTick(y)) \/ (OneTick(x) /\ TickFree(y))
  <2>1. PICK k \in 1 .. (n + m) : w[k] = Tick /\ \A j \in 1 .. (n + m) : w[j] = Tick => j = k
    BY <1>3, <1>13 DEF OneTick
  <2>2. CASE k \in 1 .. n
    <3>1. TickFree(y)
      <4>1. \A j \in 1 .. m : n + j # k BY <1>2, <2>2
      <4> QED BY <1>1, <1>3, <1>6, <2>1, <4>1 DEF TickFree
    <3>2. OneTick(x)
      <4>1. x[k] = Tick /\ \A j \in 1 .. n : x[j] = Tick => j = k BY <1>3, <1>5, <2>1, <2>2
      <4> QED BY <1>1, <2>2, <4>1 DEF OneTick
    <3> QED BY <3>1, <3>2
  <2>3. CASE k \notin 1 .. n
    <3>1. PICK i \in 1 .. m : k = n + i BY <1>7, <2>3
    <3>2. TickFree(x) BY <1>1, <1>3, <1>5, <2>1, <2>3 DEF TickFree
    <3>3. OneTick(y)
      <4>1. \A j \in 1 .. m : n + j = n + i => j = i BY <1>2
      <4>2. y[i] = Tick /\ \A j \in 1 .. m : y[j] = Tick => j = i BY <1>3, <1>6, <2>1, <3>1, <4>1
      <4> QED BY <1>1, <4>2 DEF OneTick
    <3> QED BY <3>2, <3>3
  <2> QED BY <2>2, <2>3
<1>14. Light(w) <=> (TickFree(x) /\ Light(y)) \/ (Light(x) /\ TickFree(y))
  BY <1>8, <1>11, <1>12, <1>13 DEF Light
<1>15. x = <<>> <=> n = 0 BY <1>1
<1>16. Ticked(w) <=> Ticked(x) \/ (x = <<>> /\ Ticked(y))
  <2>1. CASE n = 0
    <3>1. ~Ticked(x) BY <1>1, <2>1 DEF Ticked
    <3>2. m > 0 => w[1] = y[1]
      <4>1. m > 0 => 1 \in 1 .. m /\ n + 1 = 1 BY <1>2, <2>1
      <4> QED BY <1>3, <4>1
    <3>3. Len(w) = m BY <1>2, <1>3, <2>1
    <3> QED BY <1>1, <1>15, <2>1, <3>1, <3>2, <3>3 DEF Ticked
  <2>2. CASE n # 0
    <3>1. 1 \in 1 .. n /\ Len(w) > 0 /\ n > 0 BY <1>2, <1>3, <2>2
    <3>2. w[1] = x[1] BY <1>3, <3>1
    <3> QED BY <1>1, <1>15, <2>2, <3>1, <3>2 DEF Ticked
  <2> QED BY <2>1, <2>2
<1>17. w = <<>> <=> x = <<>> /\ y = <<>> BY ConcatEqualIffEmpty DEF Row
<1> QED BY <1>8, <1>9, <1>10, <1>14, <1>16, <1>17

\* A text may stand for itself.
LEMMA TameSelf == ASSUME NEW S, NEW p \in Seq(S) PROVE Tame(S, p, p)
BY DEF Tame

\* A text that may stand for one that may stand for a third.
LEMMA TameTwice ==
  ASSUME NEW S, NEW p, NEW q, NEW r, Tame(S, p, q), Tame(S, q, r)
  PROVE Tame(S, p, r)
BY DEF Tame

\* Two in a row may stand for two in a row.
LEMMA TameRow ==
  ASSUME NEW S, NEW x \in Seq(S), NEW y \in Seq(S), NEW p, NEW q, Tame(S, x, p), Tame(S, y, q)
  PROVE Tame(S, x \o y, p \o q)
<1>1. PICK v, w : v = x \o y /\ w = p \o q OBVIOUS
<1>8. Row(v, x, y) /\ Row(w, p, q) BY <1>1 DEF Row
<1>2. p \in Seq(S) /\ q \in Seq(S) BY DEF Tame
<1>3. /\ TickFree(v) <=> TickFree(x) /\ TickFree(y)
      /\ AllBlank(v) <=> AllBlank(x) /\ AllBlank(y)
      /\ OneLine(v) <=> OneLine(x) /\ OneLine(y)
      /\ Light(v) <=> (TickFree(x) /\ Light(y)) \/ (Light(x) /\ TickFree(y))
      /\ Ticked(v) <=> Ticked(x) \/ (x = <<>> /\ Ticked(y))
      /\ v = <<>> <=> x = <<>> /\ y = <<>>
  BY <1>8, RowSays
<1>4. /\ TickFree(w) <=> TickFree(p) /\ TickFree(q)
      /\ AllBlank(w) <=> AllBlank(p) /\ AllBlank(q)
      /\ OneLine(w) <=> OneLine(p) /\ OneLine(q)
      /\ Light(w) <=> (TickFree(p) /\ Light(q)) \/ (Light(p) /\ TickFree(q))
      /\ Ticked(w) <=> Ticked(p) \/ (p = <<>> /\ Ticked(q))
      /\ w = <<>> <=> p = <<>> /\ q = <<>>
  BY <1>2, <1>8, RowSays
<1>5. w \in Seq(S) BY <1>1, <1>2
<1>6. /\ TickFree(x) => TickFree(p)
      /\ Light(x) => Light(p)
      /\ Ticked(p) => Ticked(x)
      /\ AllBlank(x) <=> AllBlank(p)
      /\ p = <<>> => x = <<>>
      /\ OneLine(x) => OneLine(p)
  BY DEF Tame
<1>7. /\ TickFree(y) => TickFree(q)
      /\ Light(y) => Light(q)
      /\ Ticked(q) => Ticked(y)
      /\ AllBlank(y) <=> AllBlank(q)
      /\ q = <<>> => y = <<>>
      /\ OneLine(y) => OneLine(q)
  BY DEF Tame
<1>9. Tame(S, v, w) BY <1>3, <1>4, <1>5, <1>6, <1>7, Zenon DEF Tame
<1> QED BY <1>1, <1>9

\* A text that begins with anything but a blank and a tick, and has no tick.
LEMMA TamePlain ==
  ASSUME NEW S, NEW p \in Seq(S), NEW q \in Seq(S), Len(q) > 0, q[1] \notin Blank,
         TickFree(q) \/ (Light(q) /\ ~TickFree(p)), ~Ticked(q), OneLine(p) => OneLine(q), ~AllBlank(p)
  PROVE Tame(S, p, q)
<1>1. 1 \in 1 .. Len(q) OBVIOUS
<1>2. ~AllBlank(q) BY <1>1 DEF AllBlank
<1>3. q # <<>> OBVIOUS
<1>4. Light(q) BY DEF Light
<1> QED BY <1>2, <1>3, <1>4 DEF Tame

\* The spans of a line; its parts with those outside the spans converted by c.
Spans(v) == [k \in 1 .. (Len(Parts(v)) \div 2) |-> Parts(v)[2 * k]]
Converted(ps, c) == [k \in DOMAIN ps |-> IF k % 2 = 1 THEN c[ps[k]] ELSE ps[k]]
Mapped(ps, c) == FlattenSeq(Converted(ps, c))

\* The parts of a line are texts, at least one.
LEMMA PartsTyped ==
  ASSUME NEW S, NEW v \in Seq(S)
  PROVE Parts(v) \in Seq(Seq(S)) /\ Len(Parts(v)) > 0
<1> DEFINE Good(w) == Parts(w) \in Seq(Seq(S)) /\ Len(Parts(w)) > 0
           T == {n \in Nat : \E w \in Seq(S) : n = Len(w) /\ ~Good(w)}
<1>1. T = {}
  <2> SUFFICES ASSUME T # {} PROVE FALSE
    OBVIOUS
  <2>1. T \in SUBSET Nat OBVIOUS
  <2>2. PICK n \in T : \A y \in T : n <= y
    <3> HIDE DEF T
    <3> QED BY <2>1, Smallest
  <2>3. PICK w \in Seq(S) : n = Len(w) /\ ~Good(w) BY <2>2
  <2>4. CASE Light(w)
    <3>1. Parts(w) = <<w>> BY <2>4, PartsLaw
    <3> QED BY <2>3, <3>1
  <2>5. CASE ~Light(w)
    <3>1. PICK a \in Seq(S), s \in Seq(S), b \in Seq(S) :
            Spanned(a, s, b) /\ w = a \o s \o b /\ Len(b) < Len(w)
      BY <2>5, PartsLaw
    <3>2. Parts(a \o s \o b) = <<a, s>> \o Parts(b) BY <3>1, PartsLaw
    <3>3. Len(b) \notin T
      <4>1. Len(b) \in Nat /\ Len(w) \in Nat OBVIOUS
      <4>2. ~(n <= Len(b)) BY <2>3, <3>1, <4>1
      <4> HIDE DEF T
      <4> QED BY <2>2, <4>2
    <3>4. Good(b) BY <3>3
    <3>5. <<a, s>> \in Seq(Seq(S)) /\ Len(<<a, s>>) = 2 OBVIOUS
    <3>6. <<a, s>> \o Parts(b) \in Seq(Seq(S)) /\ Len(<<a, s>> \o Parts(b)) > 0 BY <3>4, <3>5
    <3>7. Good(w) BY <3>1, <3>2, <3>6
    <3> QED BY <2>3, <3>7
  <2> QED BY <2>4, <2>5
<1>2. Len(v) \in Nat OBVIOUS
<1>3. Len(v) \notin T
  <2> HIDE DEF T
  <2> QED BY <1>1
<1> QED BY <1>2, <1>3

\* A sequence with two elements before it.
LEMMA TwoBefore ==
  ASSUME NEW S, NEW a \in S, NEW s \in S, NEW ps \in Seq(S)
  PROVE /\ <<a, s>> \o ps \in Seq(S) /\ Len(<<a, s>> \o ps) = Len(ps) + 2
        /\ (<<a, s>> \o ps)[1] = a /\ (<<a, s>> \o ps)[2] = s
        /\ \A k \in 1 .. Len(ps) : (<<a, s>> \o ps)[k + 2] = ps[k]
<1>1. PICK n : n = Len(ps) OBVIOUS
<1>2. n \in Nat BY <1>1
<1>3. PICK t : t = <<a, s>> OBVIOUS
<1>4. t \in Seq(S) /\ Len(t) = 2 /\ t[1] = a /\ t[2] = s BY <1>3
<1>5. /\ t \o ps \in Seq(S) /\ Len(t \o ps) = Len(t) + Len(ps)
      /\ \A k \in 1 .. Len(t) : (t \o ps)[k] = t[k]
      /\ \A k \in 1 .. Len(ps) : (t \o ps)[Len(t) + k] = ps[k]
  <2>1. t \in Seq(S) /\ ps \in Seq(S) BY <1>4
  <2> QED BY ONLY <2>1, JoinLaw
<1>6. /\ Len(t \o ps) = n + 2 /\ (t \o ps)[1] = a /\ (t \o ps)[2] = s
      /\ \A k \in 1 .. n : (t \o ps)[k + 2] = ps[k]
  <2>1. \A k \in 1 .. n : k + 2 = 2 + k BY <1>2
  <2>2. 1 \in 1 .. 2 /\ 2 \in 1 .. 2 /\ 2 + n = n + 2 BY <1>2
  <2> QED BY <1>1, <1>4, <1>5, <2>1, <2>2
<1> QED BY <1>1, <1>3, <1>5, <1>6

\* They may be put before it one by one.
LEMMA OneByOne ==
  ASSUME NEW S, NEW a \in S, NEW s \in S, NEW ps \in Seq(S)
  PROVE <<a, s>> \o ps = <<a>> \o (<<s>> \o ps)
<1>3. PICK t : t = <<a, s>> OBVIOUS
<1>4. t \in Seq(S) /\ Len(t) = 2 /\ t[1] = a /\ t[2] = s BY <1>3
<1>7. <<a>> \o (<<s>> \o ps) = t \o ps
  <2>1. PICK x, y : x = <<a>> /\ y = <<s>> OBVIOUS
  <2>2. x \in Seq(S) /\ y \in Seq(S) /\ ps \in Seq(S) BY <2>1
  <2>3. (x \o y) \o ps = x \o (y \o ps) BY ONLY <2>2, ConcatAssociative
  <2>4. x \o y = t
    <3>1. Len(x) = 1 /\ Len(y) = 1 /\ x[1] = a /\ y[1] = s BY <2>1
    <3>2. /\ x \o y \in Seq(S) /\ Len(x \o y) = Len(x) + Len(y)
          /\ \A k \in 1 .. Len(x) : (x \o y)[k] = x[k]
          /\ \A k \in 1 .. Len(y) : (x \o y)[Len(x) + k] = y[k]
      BY ONLY <2>2, JoinLaw
    <3>3. Len(x \o y) = 2 /\ (x \o y)[1] = a /\ (x \o y)[2] = s
      <4>1. 1 \in 1 .. 1 /\ 1 + 1 = 2 OBVIOUS
      <4> QED BY <3>1, <3>2, <4>1
    <3>4. \A k \in 1 .. 2 : k = 1 \/ k = 2 OBVIOUS
    <3>5. \A k \in 1 .. 2 : (x \o y)[k] = t[k] BY <1>4, <3>3, <3>4
    <3> QED BY <1>4, <3>2, <3>3, <3>5, SeqEqual
  <2> QED BY <2>1, <2>3, <2>4
<1> QED BY <1>3, <1>7

\* The spans of a line without any, and of one divided by a span.
LEMMA SpansLaw ==
  ASSUME NEW S
  PROVE /\ \A v \in Seq(S) : Light(v) => Spans(v) = <<>>
        /\ \A a \in Seq(S), s \in Seq(S), b \in Seq(S) :
             Spanned(a, s, b) => Spans(a \o s \o b) = <<s>> \o Spans(b)
        /\ \A v \in Seq(S) : Spans(v) \in Seq(Seq(S))
<1>1. ASSUME NEW v \in Seq(S), Light(v) PROVE Spans(v) = <<>>
  <2>1. Parts(v) = <<v>> BY <1>1, PartsLaw
  <2>2. Len(Parts(v)) = 1 BY <2>1
  <2>3. 1 .. (1 \div 2) = {} OBVIOUS
  <2>4. Spans(v) = [k \in {} |-> Parts(v)[2 * k]] BY <2>2, <2>3 DEF Spans
  <2> QED BY <2>4
<1>2. ASSUME NEW v \in Seq(S)
      PROVE /\ Spans(v) \in Seq(Seq(S)) /\ Len(Spans(v)) = Len(Parts(v)) \div 2
            /\ \A k \in 1 .. (Len(Parts(v)) \div 2) : Spans(v)[k] = Parts(v)[2 * k]
  <2>1. PICK ps : ps = Parts(v) OBVIOUS
  <2>2. ps \in Seq(Seq(S)) /\ Len(ps) \in Nat BY <2>1, PartsTyped
  <2>3. PICK n : n = Len(ps) \div 2 OBVIOUS
  <2>4. n \in Nat /\ 2 * n <= Len(ps) BY <2>2, <2>3
  <2>5. \A k \in 1 .. n : 2 * k \in 1 .. Len(ps) BY <2>2, <2>4
  <2>6. \A k \in 1 .. n : ps[2 * k] \in Seq(S) BY <2>2, <2>5
  <2>7. Spans(v) = [k \in 1 .. n |-> ps[2 * k]] BY <2>1, <2>3 DEF Spans
  <2>8. Spans(v) \in Seq(Seq(S)) /\ Len(Spans(v)) = n BY <2>4, <2>6, <2>7
  <2> QED BY <2>1, <2>3, <2>7, <2>8
<1>3. ASSUME NEW a \in Seq(S), NEW s \in Seq(S), NEW b \in Seq(S), Spanned(a, s, b)
      PROVE Spans(a \o s \o b) = <<s>> \o Spans(b)
  <2>1. PICK v : v = a \o s \o b OBVIOUS
  <2>2. v \in Seq(S) BY <2>1, Rows
  <2>3. PICK ps, n, m : ps = Parts(b) /\ n = Len(ps) /\ m = n \div 2 OBVIOUS
  <2>4. ps \in Seq(Seq(S)) /\ n \in Nat /\ m \in Nat /\ 2 * m <= n BY <2>3, PartsTyped
  <2>5. Parts(v) = <<a, s>> \o ps BY <1>3, <2>1, <2>3, PartsLaw
  <2>6. /\ Len(Parts(v)) = n + 2 /\ Parts(v)[2] = s
        /\ \A k \in 1 .. n : Parts(v)[k + 2] = ps[k]
    BY <2>3, <2>4, <2>5, TwoBefore
  <2>7. (n + 2) \div 2 = m + 1 BY <2>3, <2>4
  <2>8. /\ Spans(v) \in Seq(Seq(S)) /\ Len(Spans(v)) = m + 1
        /\ \A k \in 1 .. (m + 1) : Spans(v)[k] = Parts(v)[2 * k]
    BY <1>2, <2>2, <2>6, <2>7
  <2>9. /\ Spans(b) \in Seq(Seq(S)) /\ Len(Spans(b)) = m
        /\ \A k \in 1 .. m : Spans(b)[k] = ps[2 * k]
    BY <1>2, <2>3
  <2>10. PICK w : w = <<s>> \o Spans(b) OBVIOUS
  <2>11. /\ w \in Seq(Seq(S)) /\ Len(w) = 1 + m /\ w[1] = s
         /\ \A k \in 2 .. (1 + m) : w[k] = Spans(b)[k - 1]
    BY <2>9, <2>10, FirstAndRest
  <2>12. 1 + m = m + 1 /\ Len(w) = m + 1 BY <2>4, <2>11
  <2>13. ASSUME NEW k \in 1 .. (m + 1) PROVE Spans(v)[k] = w[k]
    <3>1. CASE k = 1
      <4>1. 2 * k = 2 BY <3>1
      <4> QED BY <2>6, <2>8, <2>11, <3>1, <4>1
    <3>2. CASE k # 1
      <4>1. k - 1 \in 1 .. m /\ k \in 2 .. (1 + m) /\ 2 * k = 2 * (k - 1) + 2 BY <2>4, <3>2
      <4>2. 2 * (k - 1) \in 1 .. n BY <2>4, <4>1
      <4>3. Parts(v)[2 * (k - 1) + 2] = ps[2 * (k - 1)] BY <2>6, <4>2
      <4>4. w[k] = Spans(b)[k - 1] /\ Spans(b)[k - 1] = ps[2 * (k - 1)] BY <2>9, <2>11, <4>1
      <4>5. Spans(v)[k] = Parts(v)[2 * k] BY <2>8
      <4> QED BY <4>1, <4>3, <4>4, <4>5
    <3> QED BY <3>1, <3>2
  <2>14. Spans(v) = w BY <2>8, <2>11, <2>12, <2>13, SeqEqual
  <2> QED BY <2>1, <2>10, <2>14
<1> QED BY <1>1, <1>2, <1>3

\* What a part outside the spans and a span add to what is made of the rest.
AddsTo(a, s, ps, c) == Mapped(<<a, s>> \o ps, c) = c[a] \o s \o Mapped(ps, c)

\* What is made of a line converted part by part.
LEMMA MappedLaw ==
  ASSUME NEW S, NEW c, \A p \in Seq(S) : c[p] \in Seq(S)
  PROVE /\ \A v \in Seq(S) : Mapped(<<v>>, c) = c[v]
        /\ \A a \in Seq(S), s \in Seq(S), ps \in Seq(Seq(S)) : Len(ps) > 0 => AddsTo(a, s, ps, c)
<1>1. ASSUME NEW v \in Seq(S) PROVE Mapped(<<v>>, c) = c[v]
  <2>1. Converted(<<v>>, c) = <<c[v]>>
    <3>1. DOMAIN <<v>> = {1} /\ <<v>>[1] = v /\ 1 % 2 = 1 OBVIOUS
    <3>2. Converted(<<v>>, c) = [k \in {1} |-> c[v]]
      <4>1. \A k \in {1} : (IF k % 2 = 1 THEN c[<<v>>[k]] ELSE <<v>>[k]) = c[v] BY <3>1
      <4> QED BY <3>1, <4>1 DEF Converted
    <3>3. 1 .. 1 = {1} OBVIOUS
    <3> QED BY <3>2, <3>3
  <2>2. PICK x, y : x = c[v] /\ y = <<x>> OBVIOUS
  <2>3. x \in Seq(S) BY <2>2
  <2>4. y \in Seq(Seq(S)) /\ Len(y) > 0 BY <2>2, <2>3
  <2>5. FlattenSeq(<<x>>) = x BY <2>3, <2>4, FlatLaw
  <2> QED BY <2>1, <2>2, <2>5 DEF Mapped
<1>2. ASSUME NEW a \in Seq(S), NEW s \in Seq(S), NEW ps \in Seq(Seq(S)), Len(ps) > 0
      PROVE Mapped(<<a, s>> \o ps, c) = c[a] \o s \o Mapped(ps, c)
  <2>1. PICK rs, n, x : rs = <<a, s>> \o ps /\ n = Len(ps) /\ x = c[a] OBVIOUS
  <2>2. n \in Nat /\ x \in Seq(S) BY <2>1
  <2>3. /\ rs \in Seq(Seq(S)) /\ Len(rs) = n + 2 /\ rs[1] = a /\ rs[2] = s
        /\ \A k \in 1 .. n : rs[k + 2] = ps[k]
    BY <2>1, TwoBefore
  <2>4. PICK qs, q : qs = Converted(ps, c) /\ q = Converted(rs, c) OBVIOUS
  <2>5. /\ qs \in Seq(Seq(S)) /\ Len(qs) = n
        /\ \A k \in 1 .. n : qs[k] = IF k % 2 = 1 THEN c[ps[k]] ELSE ps[k]
    <3>1. \A k \in 1 .. n : (IF k % 2 = 1 THEN c[ps[k]] ELSE ps[k]) \in Seq(S) BY <2>1
    <3>2. qs = [k \in 1 .. n |-> IF k % 2 = 1 THEN c[ps[k]] ELSE ps[k]]
      BY <2>1, <2>4 DEF Converted
    <3> QED BY <2>2, <3>1, <3>2
  <2>6. /\ q \in Seq(Seq(S)) /\ Len(q) = n + 2
        /\ \A k \in 1 .. (n + 2) : q[k] = IF k % 2 = 1 THEN c[rs[k]] ELSE rs[k]
    <3>1. \A k \in 1 .. (n + 2) : (IF k % 2 = 1 THEN c[rs[k]] ELSE rs[k]) \in Seq(S) BY <2>3
    <3>2. q = [k \in 1 .. (n + 2) |-> IF k % 2 = 1 THEN c[rs[k]] ELSE rs[k]]
      BY <2>3, <2>4 DEF Converted
    <3>3. PICK m : m = n + 2 OBVIOUS
    <3>4. m \in Nat BY <2>2, <3>3
    <3>5. q \in Seq(Seq(S)) /\ Len(q) = m
      <4>1. PICK d : d = [k \in 1 .. m |-> IF k % 2 = 1 THEN c[rs[k]] ELSE rs[k]] OBVIOUS
      <4>2. \A k \in 1 .. m : d[k] \in Seq(S) BY <3>1, <3>3, <4>1
      <4>3. d = [k \in 1 .. m |-> d[k]] BY <4>1
      <4>4. PICK R : R = Seq(S) OBVIOUS
      <4>5. \A k \in 1 .. m : d[k] \in R BY <4>2, <4>4
      <4>6. d \in [1 .. m -> R] /\ DOMAIN d = 1 .. m BY ONLY <4>3, <4>5
      <4>7. d \in Seq(R) /\ Len(d) = m BY ONLY <3>4, <4>6
      <4> QED BY <3>2, <3>3, <4>1, <4>4, <4>7
    <3> QED BY <3>2, <3>3, <3>5
  <2>7. q = <<x, s>> \o qs
    <3>1. PICK w : w = <<x, s>> \o qs OBVIOUS
    <3>2. /\ w \in Seq(Seq(S)) /\ Len(w) = n + 2 /\ w[1] = x /\ w[2] = s
          /\ \A k \in 1 .. n : w[k + 2] = qs[k]
      <4>1. PICK R : R = Seq(S) OBVIOUS
      <4>2. x \in R /\ s \in R /\ qs \in Seq(R) BY <2>2, <2>5, <4>1
      <4>3. /\ <<x, s>> \o qs \in Seq(R) /\ Len(<<x, s>> \o qs) = Len(qs) + 2
            /\ (<<x, s>> \o qs)[1] = x /\ (<<x, s>> \o qs)[2] = s
            /\ \A k \in 1 .. Len(qs) : (<<x, s>> \o qs)[k + 2] = qs[k]
        BY ONLY <4>2, TwoBefore
      <4> QED BY <2>5, <3>1, <4>1, <4>3
    <3>3. ASSUME NEW k \in 1 .. (n + 2) PROVE q[k] = w[k]
      <4>1. CASE k = 1
        <5>1. k % 2 = 1 BY <4>1
        <5> QED BY <2>1, <2>3, <2>6, <3>2, <4>1, <5>1
      <4>2. CASE k = 2
        <5>1. k % 2 # 1 BY <4>2
        <5> QED BY <2>3, <2>6, <3>2, <4>2, <5>1
      <4>3. CASE k # 1 /\ k # 2
        <5>1. PICK i : i = k - 2 OBVIOUS
        <5>2. i \in 1 .. n /\ k = i + 2 BY <2>2, <4>3, <5>1
        <5>3. k % 2 = i % 2 BY <5>2
        <5>4. rs[k] = ps[i] /\ w[k] = qs[i] BY <2>3, <3>2, <5>2
        <5> QED BY <2>5, <2>6, <5>2, <5>3, <5>4
      <4> QED BY <4>1, <4>2, <4>3
    <3>4. q = w BY <2>6, <3>2, <3>3, SeqEqual
    <3> QED BY <3>1, <3>4
  <2>8. q = <<x>> \o (<<s>> \o qs)
    <3>1. PICK R : R = Seq(S) OBVIOUS
    <3>2. x \in R /\ s \in R /\ qs \in Seq(R) BY <2>2, <2>5, <3>1
    <3>3. <<x, s>> \o qs = <<x>> \o (<<s>> \o qs) BY ONLY <3>2, OneByOne
    <3> QED BY <2>7, <3>3
  <2>9. PICK u : u = <<s>> \o qs OBVIOUS
  <2>10. Len(qs) > 0 /\ u \in Seq(Seq(S)) /\ Len(u) > 0
    <3>1. <<s>> \o qs \in Seq(Seq(S)) /\ Len(<<s>> \o qs) = 1 + Len(qs) BY <2>5, FirstAndRest
    <3>2. 1 + n > 0 /\ n > 0 BY <1>2, <2>1, <2>2
    <3> QED BY <2>5, <2>9, <3>1, <3>2
  <2>11. FlattenSeq(<<s>> \o qs) = s \o FlattenSeq(qs) /\ FlattenSeq(qs) \in Seq(S)
    BY <2>5, <2>10, FlatLaw
  <2>12. FlattenSeq(<<x>> \o u) = x \o FlattenSeq(u) BY <2>2, <2>10, FlatLaw
  <2>13. PICK z : z = FlattenSeq(qs) OBVIOUS
  <2>14. (x \o s) \o z = x \o (s \o z)
    <3>1. x \in Seq(S) /\ s \in Seq(S) /\ z \in Seq(S) BY <2>2, <2>11, <2>13
    <3> QED BY ONLY <3>1, ConcatAssociative
  <2> QED BY <2>1, <2>4, <2>8, <2>9, <2>11, <2>12, <2>13, <2>14 DEF Mapped
<1> QED BY <1>1, <1>2 DEF AddsTo

\* A tick is no blank.
LEMMA TickNoBlank == Tick \notin Blank
BY DEF Tick, Blank, Newline

\* A line is the fence that begins after n blanks.
FenceAt(v, n) ==
  /\ n \in Nat /\ n + 3 <= Len(v)
  /\ \A k \in 1 .. n : v[k] \in Blank
  /\ v[n + 1] = Tick /\ v[n + 2] = Tick /\ v[n + 3] = Tick

\* IsFence says so.
LEMMA FenceLaw ==
  ASSUME NEW S, NEW v \in Seq(S)
  PROVE IsFence(v) <=> \E n : FenceAt(v, n)
<1>1. PICK n, l : n = Lead(v, Blank) /\ l = Len(v) OBVIOUS
<1>2. Leads(v, Blank, n) /\ \A m : Leads(v, Blank, m) => m = n BY <1>1, LeadLaw
<1>3. l \in Nat /\ n \in 0 .. l BY <1>1, <1>2 DEF Leads
<1>4. PICK j : j = IF n + 3 < l THEN n + 3 ELSE l OBVIOUS
<1>5. PICK w : w = Cut(v, n, j) OBVIOUS
<1>6. IsFence(v) <=> w = Times(Tick, 3)
  <2>1. w = Slice(v, n, n + 3) BY <1>1, <1>4, <1>5 DEF Slice, Cut
  <2> QED BY <1>1, <2>1 DEF IsFence
<1>7. j \in n .. l /\ j - n \in 0 .. 3 BY <1>3, <1>4
<1>8. w \in Seq(S) /\ Len(w) = j - n /\ \A k \in 1 .. (j - n) : w[k] = v[n + k]
  <2>1. n \in 0 .. Len(v) /\ j \in n .. Len(v) BY <1>1, <1>3, <1>7
  <2> QED BY <1>5, <2>1, CutLaw
<1>9. PICK t : t = Times(Tick, 3) OBVIOUS
<1>10. Len(t) = 3 /\ DOMAIN t = 1 .. 3 /\ t[1] = Tick /\ t[2] = Tick /\ t[3] = Tick
       /\ t = [i \in 1 .. 3 |-> Tick]
  BY <1>9 DEF Times
<1>11. 1 \in 1 .. 3 /\ 2 \in 1 .. 3 /\ 3 \in 1 .. 3 OBVIOUS
<1>12. ASSUME IsFence(v) PROVE FenceAt(v, n)
  <2>1. w = t BY <1>6, <1>9, <1>12
  <2>2. j - n = 3 BY <1>8, <1>10, <2>1
  <2>3. n + 3 <= l BY <1>3, <1>7, <2>2
  <2>4. v[n + 1] = Tick /\ v[n + 2] = Tick /\ v[n + 3] = Tick BY <1>8, <1>10, <1>11, <2>1, <2>2
  <2>5. \A k \in 1 .. n : v[k] \in Blank BY <1>2 DEF Leads
  <2> QED BY <1>1, <1>3, <2>3, <2>4, <2>5 DEF FenceAt
<1>13. ASSUME NEW m, FenceAt(v, m) PROVE IsFence(v)
  <2>1. /\ m \in Nat /\ m + 3 <= l /\ \A k \in 1 .. m : v[k] \in Blank
        /\ v[m + 1] = Tick /\ v[m + 2] = Tick /\ v[m + 3] = Tick
    BY <1>1, <1>13 DEF FenceAt
  <2>2. Leads(v, Blank, m)
    <3>1. m \in 0 .. Len(v) /\ v[m + 1] \notin Blank BY <1>1, <1>3, <2>1, TickNoBlank
    <3> QED BY <2>1, <3>1 DEF Leads
  <2>3. m = n BY <1>2, <2>2
  <2>4. j = n + 3 /\ j - n = 3 BY <1>3, <1>4, <2>1, <2>3
  <2>5. \A k \in 1 .. 3 : k = 1 \/ k = 2 \/ k = 3 OBVIOUS
  <2>6. \A k \in 1 .. 3 : w[k] = t[k] BY <1>8, <1>10, <1>11, <2>1, <2>3, <2>4, <2>5
  <2>7. DOMAIN w = 1 .. 3 /\ w = [i \in 1 .. 3 |-> w[i]] BY <1>8, <2>4
  <2>8. w = t
    <3>1. \A k \in 1 .. 3 : w[k] = Tick BY <1>10, <1>11, <2>5, <2>6
    <3> QED BY <1>10, <2>7, <3>1
  <2> QED BY <1>6, <1>9, <2>8
<1> QED BY <1>12, <1>13

\* A line without a span is no fence.
LEMMA FenceLight ==
  ASSUME NEW S, NEW v \in Seq(S), Light(v)
  PROVE ~IsFence(v)
<1> SUFFICES ASSUME IsFence(v) PROVE FALSE
  OBVIOUS
<1>1. PICK n : FenceAt(v, n) BY FenceLaw
<1>2. PICK i, j : i = n + 1 /\ j = n + 2 OBVIOUS
<1>3. n \in Nat /\ n + 3 <= Len(v) /\ Len(v) \in Nat BY <1>1 DEF FenceAt
<1>4. i \in 1 .. Len(v) /\ j \in 1 .. Len(v) /\ i # j BY <1>2, <1>3
<1>5. v[i] = Tick /\ v[j] = Tick BY <1>1, <1>2 DEF FenceAt
<1>6. ~TickFree(v) BY <1>4, <1>5 DEF TickFree
<1>7. ~OneTick(v) BY <1>4, <1>5 DEF OneTick
<1> QED BY <1>6, <1>7 DEF Light

\* A span of three ticks or more at its beginning.
ThreeTicks(s) == Len(s) >= 3 /\ s[1] = Tick /\ s[2] = Tick /\ s[3] = Tick

\* A line divided by a span is a fence where the span begins with three ticks
\* and stands after blanks only.
LEMMA FenceSpanned ==
  ASSUME NEW S, NEW a \in Seq(S), NEW s \in Seq(S), NEW b \in Seq(S), Spanned(a, s, b)
  PROVE IsFence(a \o s \o b) <=> AllBlank(a) /\ ThreeTicks(s)
<1>1. PICK w, i, j : w = a \o s \o b /\ i = Len(a) /\ j = Len(a) + Len(s) OBVIOUS
<1>2. InRow(w, i, j, a, s, b) BY <1>1 DEF InRow
<1>3. /\ w \in Seq(S) /\ Len(w) = j + Len(b) /\ i \in Nat /\ j \in i .. Len(w)
      /\ \A k \in 1 .. i : w[k] = a[k]
      /\ \A k \in 1 .. Len(s) : w[i + k] = s[k]
      /\ \A k \in 1 .. Len(b) : w[j + k] = b[k]
  BY <1>2, ThreeParts
<1>4. Len(s) \in Nat /\ Len(b) \in Nat /\ j = i + Len(s) /\ i = Len(a) BY <1>1
<1>5. Len(s) >= 2 /\ s[1] = Tick
  <2>1. IsSpan(s) BY DEF Spanned
  <2> QED BY <2>1, SpanTicks
<1>6. \A k \in 1 .. i : a[k] # Tick BY <1>1 DEF Spanned, TickFree
<1>7. Len(b) > 0 => b[1] # Tick BY DEF Spanned, Ticked
<1>8. ASSUME NEW n, FenceAt(w, n) PROVE AllBlank(a) /\ ThreeTicks(s)
  <2>1. /\ n \in Nat /\ n + 3 <= Len(w)
        /\ \A k \in 1 .. n : w[k] \in Blank
        /\ w[n + 1] = Tick /\ w[n + 2] = Tick /\ w[n + 3] = Tick
    BY <1>8 DEF FenceAt
  <2>2. ~(n < i)
    <3>1. n < i => n + 1 \in 1 .. i BY <1>3, <2>1
    <3> QED BY <1>3, <1>6, <2>1, <3>1
  <2>3. w[i + 1] = Tick
    <3>1. 1 \in 1 .. Len(s) BY <1>4, <1>5
    <3> QED BY <1>3, <1>5, <3>1
  <2>4. ~(i < n)
    <3>1. i < n => i + 1 \in 1 .. n BY <1>3, <2>1
    <3> QED BY <2>1, <2>3, <3>1, TickNoBlank
  <2>5. n = i BY <1>3, <2>1, <2>2, <2>4
  <2>6. AllBlank(a) BY <1>3, <1>4, <2>1, <2>5 DEF AllBlank
  <2>7. Len(s) >= 3
    <3> SUFFICES ASSUME ~(Len(s) >= 3) PROVE FALSE
      OBVIOUS
    <3>1. Len(s) = 2
      <4>1. PICK l : l = Len(s) OBVIOUS
      <4>2. l \in Nat /\ l >= 2 /\ ~(l >= 3) BY <1>4, <1>5, <4>1
      <4>3. l = 2 BY ONLY <4>2
      <4> QED BY <4>1, <4>3
    <3>2. Len(b) > 0 /\ i + 3 = j + 1 /\ 1 \in 1 .. Len(b) BY <1>3, <1>4, <2>1, <2>5, <3>1
    <3>3. w[j + 1] = b[1] BY <1>3, <3>2
    <3> QED BY <1>7, <2>1, <2>5, <3>2, <3>3
  <2>8. 2 \in 1 .. Len(s) /\ 3 \in 1 .. Len(s) BY <1>4, <2>7
  <2>9. w[i + 2] = s[2] /\ w[i + 3] = s[3] BY <1>3, <2>8
  <2> QED BY <1>5, <2>1, <2>5, <2>6, <2>7, <2>9 DEF ThreeTicks
<1>9. ASSUME AllBlank(a), ThreeTicks(s) PROVE FenceAt(w, i)
  <2>1. Len(s) >= 3 /\ s[1] = Tick /\ s[2] = Tick /\ s[3] = Tick BY <1>9 DEF ThreeTicks
  <2>2. i + 3 <= Len(w) BY <1>3, <1>4, <2>1
  <2>3. 1 \in 1 .. Len(s) /\ 2 \in 1 .. Len(s) /\ 3 \in 1 .. Len(s) BY <1>4, <2>1
  <2>4. w[i + 1] = Tick /\ w[i + 2] = Tick /\ w[i + 3] = Tick BY <1>3, <2>1, <2>3
  <2>5. \A k \in 1 .. i : w[k] \in Blank BY <1>3, <1>4, <1>9 DEF AllBlank
  <2> QED BY <1>3, <2>2, <2>4, <2>5 DEF FenceAt
<1>10. IsFence(w) <=> \E n : FenceAt(w, n) BY <1>3, FenceLaw
<1> QED BY <1>1, <1>8, <1>9, <1>10

\* A line w shows the same code as the line v: the same spans, and it is a
\* fence where v is.
SameCode(v, w) == Spans(w) = Spans(v) /\ (IsFence(w) <=> IsFence(v))

\* What a conversion makes of a part may stand for it.
Converts(S, c) == \A p \in Seq(S) : Tame(S, p, c[p])

\* A line converted outside its spans shows the same code.
LEMMA ConvertedLine ==
  ASSUME NEW S, NEW c, Converts(S, c), NEW v \in Seq(S)
  PROVE Tame(S, v, Mapped(Parts(v), c)) /\ SameCode(v, Mapped(Parts(v), c))
<1>1. \A p \in Seq(S) : Tame(S, p, c[p]) /\ c[p] \in Seq(S) BY DEF Converts, Tame
<1>5. \A d \in Seq(S), r \in Seq(S), rs \in Seq(Seq(S)) :
        Len(rs) > 0 => AddsTo(d, r, rs, c)
  <2>1. \A p \in Seq(S) : c[p] \in Seq(S) BY <1>1
  <2> QED BY ONLY <2>1, MappedLaw
<1> DEFINE To(w) == Mapped(Parts(w), c)
           Good(w) == Tame(S, w, To(w)) /\ SameCode(w, To(w))
           T == {n \in Nat : \E w \in Seq(S) : n = Len(w) /\ ~Good(w)}
<1>2. T = {}
  <2> SUFFICES ASSUME T # {} PROVE FALSE
    OBVIOUS
  <2>1. T \in SUBSET Nat OBVIOUS
  <2>2. PICK n \in T : \A y \in T : n <= y
    <3> HIDE DEF T
    <3> QED BY <2>1, Smallest
  <2>3. PICK w \in Seq(S) : n = Len(w) /\ ~Good(w) BY <2>2
  <2>4. CASE Light(w)
    <3>1. To(w) = c[w]
      <4>1. Parts(w) = <<w>> BY <2>4, PartsLaw
      <4>2. Mapped(<<w>>, c) = c[w] BY <1>1, MappedLaw
      <4> QED BY <4>1, <4>2
    <3>2. Tame(S, w, c[w]) /\ c[w] \in Seq(S) BY <1>1
    <3>3. Light(c[w]) BY <2>4, <3>2 DEF Tame
    <3>4. Spans(w) = <<>> /\ Spans(c[w]) = <<>> BY <2>4, <3>2, <3>3, SpansLaw
    <3>5. ~IsFence(w) /\ ~IsFence(c[w]) BY <2>4, <3>2, <3>3, FenceLight
    <3>6. SameCode(w, c[w]) BY <3>4, <3>5 DEF SameCode
    <3> QED BY <2>3, <3>1, <3>2, <3>6
  <2>5. CASE ~Light(w)
    <3>1. PICK a \in Seq(S), s \in Seq(S), b \in Seq(S) :
            Spanned(a, s, b) /\ w = a \o s \o b /\ Len(b) < Len(w)
      BY <2>5, PartsLaw
    <3>2. Len(b) \notin T
      <4>1. Len(b) \in Nat /\ Len(w) \in Nat OBVIOUS
      <4>2. ~(n <= Len(b)) BY <2>3, <3>1, <4>1
      <4> HIDE DEF T
      <4> QED BY <2>2, <4>2
    <3>3. Good(b) BY <3>2
    <3>4. PICK x, y : x = c[a] /\ y = To(b) OBVIOUS
    <3>5. To(w) = x \o s \o y
      <4>1. Parts(a \o s \o b) = <<a, s>> \o Parts(b) BY <3>1, PartsLaw
      <4>2. Parts(b) \in Seq(Seq(S)) /\ Len(Parts(b)) > 0 BY PartsTyped
      <4>3. PICK ps : ps = Parts(b) OBVIOUS
      <4>5. ps \in Seq(Seq(S)) /\ Len(ps) > 0 BY <4>2, <4>3
      <4>6. Mapped(<<a, s>> \o ps, c) = c[a] \o s \o Mapped(ps, c)
        <5>1. AddsTo(a, s, ps, c) BY <1>5, <4>5
        <5> QED BY <5>1, Zenon DEF AddsTo
      <4> QED BY <3>1, <3>4, <4>1, <4>3, <4>6
    <3>6. Tame(S, a, x) /\ Tame(S, b, y) /\ SameCode(b, y) BY <1>1, <3>3, <3>4
    <3>7. x \in Seq(S) /\ y \in Seq(S) BY <3>6 DEF Tame
    <3>8. Tame(S, w, x \o s \o y)
      <4>1. Tame(S, s, s) BY TameSelf
      <4>2. Tame(S, a \o s, x \o s) BY <3>6, <4>1, TameRow
      <4>3. a \o s \in Seq(S) OBVIOUS
      <4>4. Tame(S, (a \o s) \o b, (x \o s) \o y) BY <3>6, <4>2, <4>3, TameRow
      <4> QED BY <3>1, <4>4
    <3>9. Spanned(x, s, y)
      <4>1. TickFree(a) /\ ~Ticked(b) /\ IsSpan(s) /\ (TickFree(b) \/ \E k, l : Closes(s, k, l, Len(s)))
        BY <3>1 DEF Spanned
      <4>2. TickFree(x) /\ ~Ticked(y) /\ (TickFree(b) => TickFree(y)) BY <3>6, <4>1 DEF Tame
      <4> QED BY <4>1, <4>2 DEF Spanned
    <3>10. Spans(w) = <<s>> \o Spans(b) /\ Spans(x \o s \o y) = <<s>> \o Spans(y)
      <4>1. \A d \in Seq(S), r \in Seq(S), e \in Seq(S) :
              Spanned(d, r, e) => Spans(d \o r \o e) = <<r>> \o Spans(e)
        BY SpansLaw
      <4>2. Spans(a \o s \o b) = <<s>> \o Spans(b) BY <3>1, <4>1, Zenon
      <4>4. s \in Seq(S) OBVIOUS
      <4>3. Spans(x \o s \o y) = <<s>> \o Spans(y) BY ONLY <3>7, <3>9, <4>1, <4>4
      <4> QED BY <3>1, <4>2, <4>3
    <3>11. Spans(b) = Spans(y) BY <3>6 DEF SameCode
    <3>12. IsFence(w) <=> AllBlank(a) /\ ThreeTicks(s) BY <3>1, FenceSpanned
    <3>13. IsFence(x \o s \o y) <=> AllBlank(x) /\ ThreeTicks(s) BY <3>7, <3>9, FenceSpanned
    <3>14. AllBlank(a) <=> AllBlank(x) BY <3>6 DEF Tame
    <3>15. SameCode(w, x \o s \o y) BY <3>10, <3>11, <3>12, <3>13, <3>14 DEF SameCode
    <3> QED BY <2>3, <3>5, <3>8, <3>15
  <2> QED BY <2>4, <2>5
<1>3. Len(v) \in Nat OBVIOUS
<1>4. Len(v) \notin T
  <2> HIDE DEF T
  <2> QED BY <1>2
<1> QED BY <1>3, <1>4

\* Four texts in a row, the last two put together first.
Regrouped(x, y, z, t) == x \o y \o z \o t = x \o y \o (z \o t)

\* It makes no difference.
LEMMA FourInRow ==
  ASSUME NEW S, NEW x \in Seq(S), NEW y \in Seq(S), NEW z \in Seq(S), NEW t \in Seq(S)
  PROVE Regrouped(x, y, z, t)
<1>1. PICK h : h = x \o y OBVIOUS
<1>2. h \in Seq(S) BY <1>1
<1>3. (h \o z) \o t = h \o (z \o t) BY <1>2, ConcatAssociative
<1> QED BY <1>1, <1>3 DEF Regrouped

\* A line with text behind it that has no tick shows the same code.
LEMMA LongerLine ==
  ASSUME NEW S, NEW v \in Seq(S), NEW t \in Seq(S), TickFree(t)
  PROVE SameCode(v, v \o t)
<1> DEFINE T == {n \in Nat : \E w \in Seq(S) : n = Len(w) /\ ~SameCode(w, w \o t)}
<1>1. T = {}
  <2> SUFFICES ASSUME T # {} PROVE FALSE
    OBVIOUS
  <2>1. T \in SUBSET Nat OBVIOUS
  <2>2. PICK n \in T : \A y \in T : n <= y
    <3> HIDE DEF T
    <3> QED BY <2>1, Smallest
  <2>3. PICK w \in Seq(S) : n = Len(w) /\ ~SameCode(w, w \o t) BY <2>2
  <2>4. PICK u : u = w \o t OBVIOUS
  <2>5. u \in Seq(S) /\ Row(u, w, t) BY <2>4 DEF Row
  <2>6. CASE Light(w)
    <3>1. Light(u) BY <2>5, <2>6, RowSays
    <3>2. Spans(w) = <<>> /\ Spans(u) = <<>> BY <2>5, <2>6, <3>1, SpansLaw
    <3>3. ~IsFence(w) /\ ~IsFence(u) BY <2>5, <2>6, <3>1, FenceLight
    <3> QED BY <2>3, <2>4, <3>2, <3>3 DEF SameCode
  <2>7. CASE ~Light(w)
    <3>1. PICK a \in Seq(S), s \in Seq(S), b \in Seq(S) :
            Spanned(a, s, b) /\ w = a \o s \o b /\ Len(b) < Len(w)
      BY <2>7, PartsLaw
    <3>2. Len(b) \notin T
      <4>1. Len(b) \in Nat /\ Len(w) \in Nat OBVIOUS
      <4>2. ~(n <= Len(b)) BY <2>3, <3>1, <4>1
      <4> HIDE DEF T
      <4> QED BY <2>2, <4>2
    <3>3. PICK y : y = b \o t OBVIOUS
    <3>4. SameCode(b, y)
      <4>1. Len(b) \in Nat OBVIOUS
      <4> QED BY <3>2, <3>3, <4>1
    <3>5. y \in Seq(S) /\ Row(y, b, t) BY <3>3 DEF Row
    <3>6. u = a \o s \o y
      <4>1. Regrouped(a, s, b, t)
        <5>1. a \in Seq(S) /\ s \in Seq(S) /\ b \in Seq(S) /\ t \in Seq(S) OBVIOUS
        <5> QED BY ONLY <5>1, FourInRow
      <4>2. a \o s \o b \o t = a \o s \o (b \o t) BY <4>1, Zenon DEF Regrouped
      <4> QED BY <2>4, <3>1, <3>3, <4>2
    <3>7. Spanned(a, s, y)
      <4>1. TickFree(a) /\ ~Ticked(b) /\ IsSpan(s) /\ (TickFree(b) \/ \E k, l : Closes(s, k, l, Len(s)))
        BY <3>1 DEF Spanned
      <4>2. ~Ticked(t)
        <5>1. Len(t) > 0 => 1 \in 1 .. Len(t) OBVIOUS
        <5> QED BY <5>1 DEF TickFree, Ticked
      <4>3. ~Ticked(y) /\ (TickFree(b) => TickFree(y)) BY <3>5, <4>1, <4>2, RowSays
      <4> QED BY <4>1, <4>3 DEF Spanned
    <3>8. Spans(w) = <<s>> \o Spans(b) /\ Spans(u) = <<s>> \o Spans(y)
      <4>1. \A d \in Seq(S), r \in Seq(S), e \in Seq(S) :
              Spanned(d, r, e) => Spans(d \o r \o e) = <<r>> \o Spans(e)
        BY SpansLaw
      <4>2. Spans(a \o s \o b) = <<s>> \o Spans(b) BY <3>1, <4>1, Zenon
      <4>3. Spans(a \o s \o y) = <<s>> \o Spans(y) BY <3>5, <3>7, <4>1, Zenon
      <4> QED BY <3>1, <3>6, <4>2, <4>3
    <3>9. Spans(b) = Spans(y) BY <3>4 DEF SameCode
    <3>10. IsFence(w) <=> AllBlank(a) /\ ThreeTicks(s) BY <3>1, FenceSpanned
    <3>11. IsFence(u) <=> AllBlank(a) /\ ThreeTicks(s) BY <3>5, <3>6, <3>7, FenceSpanned
    <3> QED BY <2>3, <2>4, <3>8, <3>9, <3>10, <3>11 DEF SameCode
  <2> QED BY <2>6, <2>7
<1>2. Len(v) \in Nat OBVIOUS
<1>3. Len(v) \notin T
  <2> HIDE DEF T
  <2> QED BY <1>1
<1> QED BY <1>2, <1>3

\* What CodeOf says of the lines of a text.
CodeIn(ls, i) ==
  CASE IsFence(ls[i]) -> <<>>
    [] ~IsFence(ls[i]) /\ Fenced(ls, i) -> <<ls[i]>>
    [] OTHER -> Spans(ls[i])
CodeOfLines(ls) == FlattenSeq([i \in DOMAIN ls |-> CodeIn(ls, i)])

\* The lines ms may stand for ls: they have the same fences, what stands
\* within them, and the same spans in the lines outside.
Passed(S, ls, ms) ==
  /\ AllLines(S, ms) /\ Len(ms) = Len(ls)
  /\ \A i \in 1 .. Len(ls) :
       /\ IsFence(ms[i]) <=> IsFence(ls[i])
       /\ ~IsFence(ls[i]) /\ Fenced(ls, i) => ms[i] = ls[i]
       /\ ~Fenced(ls, i) => Spans(ms[i]) = Spans(ls[i])

\* The same lines are within fences.
LEMMA FencesKept ==
  ASSUME NEW ls, NEW ms, NEW n \in Nat,
         \A i \in 1 .. n : IsFence(ms[i]) <=> IsFence(ls[i]), NEW i \in 1 .. n
  PROVE Fenced(ms, i) <=> Fenced(ls, i)
<1>1. {j \in 1 .. (i - 1) : IsFence(ms[j])} = {j \in 1 .. (i - 1) : IsFence(ls[j])}
  <2>1. \A j \in 1 .. (i - 1) : j \in 1 .. n OBVIOUS
  <2> QED BY <2>1
<1> QED BY <1>1 DEF Fenced

\* The code of lines that may stand for others is theirs.
LEMMA CodeKept ==
  ASSUME NEW S, NEW ls, AllLines(S, ls), NEW ms, Passed(S, ls, ms)
  PROVE CodeOfLines(ms) = CodeOfLines(ls)
<1>1. PICK n : n = Len(ls) OBVIOUS
<1>2. n \in Nat /\ DOMAIN ls = 1 .. n
  <2>1. ls \in Seq(Seq(S)) BY DEF AllLines
  <2> QED BY <1>1, <2>1
<1>3. DOMAIN ms = 1 .. n
  <2>1. ms \in Seq(Seq(S)) /\ Len(ms) = n BY <1>1 DEF Passed, AllLines
  <2> QED BY <2>1
<1>4. \A i \in 1 .. n : /\ IsFence(ms[i]) <=> IsFence(ls[i])
                        /\ ~IsFence(ls[i]) /\ Fenced(ls, i) => ms[i] = ls[i]
                        /\ ~Fenced(ls, i) => Spans(ms[i]) = Spans(ls[i])
  BY <1>1 DEF Passed
<1>5. ASSUME NEW i \in 1 .. n PROVE CodeIn(ms, i) = CodeIn(ls, i)
  <2>1. Fenced(ms, i) <=> Fenced(ls, i) BY <1>2, <1>4, FencesKept
  <2>2. IsFence(ls[i]) => Fenced(ls, i) BY DEF Fenced
  <2>3. CASE IsFence(ls[i])
    <3>1. IsFence(ms[i]) BY <1>4, <2>3
    <3> QED BY <2>3, <3>1, Zenon DEF CodeIn
  <2>4. CASE ~IsFence(ls[i]) /\ Fenced(ls, i)
    <3>1. ~IsFence(ms[i]) /\ Fenced(ms, i) /\ ms[i] = ls[i] BY <1>4, <2>1, <2>4
    <3>2. CodeIn(ls, i) = <<ls[i]>> BY <2>4, Zenon DEF CodeIn
    <3>3. CodeIn(ms, i) = <<ms[i]>> BY <3>1, Zenon DEF CodeIn
    <3> QED BY <3>1, <3>2, <3>3
  <2>5. CASE ~Fenced(ls, i)
    <3>1. ~IsFence(ls[i]) /\ ~IsFence(ms[i]) /\ ~Fenced(ms, i) BY <1>4, <2>1, <2>2, <2>5
    <3>2. Spans(ms[i]) = Spans(ls[i]) BY <1>4, <2>5
    <3>3. CodeIn(ls, i) = Spans(ls[i]) BY <2>5, <3>1, Zenon DEF CodeIn
    <3>4. CodeIn(ms, i) = Spans(ms[i]) BY <3>1, Zenon DEF CodeIn
    <3> QED BY <3>2, <3>3, <3>4
  <2> QED BY <2>3, <2>4, <2>5
<1>6. [i \in DOMAIN ms |-> CodeIn(ms, i)] = [i \in DOMAIN ls |-> CodeIn(ls, i)]
  BY <1>2, <1>3, <1>5
<1> QED BY <1>6 DEF CodeOfLines

\* A pass leaves the code of a text as it is.
LEMMA PassKeeps ==
  ASSUME NEW S, Newline \in S, NEW v \in Seq(S), NEW ms, Passed(S, SplitLines(v), ms)
  PROVE JoinLines(ms) \in Seq(S) /\ CodeOf(JoinLines(ms)) = CodeOf(v)
<1>1. AllLines(S, SplitLines(v)) BY SplitLaw
<1>2. AllLines(S, ms) BY DEF Passed
<1>3. JoinLines(ms) \in Seq(S) /\ SplitLines(JoinLines(ms)) = ms BY <1>2, JoinedLaw
<1>4. ASSUME NEW w PROVE CodeOf(w) = CodeOfLines(SplitLines(w))
  BY Zenon DEF CodeOf, CodeOfLines, CodeIn, Spans
<1>5. CodeOfLines(ms) = CodeOfLines(SplitLines(v)) BY <1>1, CodeKept
<1> QED BY <1>3, <1>4, <1>5

\* d makes of a line one that shows the same code.
LineWise(S, d) ==
  \A l \in Seq(S) : d[l] \in Seq(S) /\ SameCode(l, d[l]) /\ (OneLine(l) => OneLine(d[l]))

\* The lines a pass makes that leaves alone what is fenced.
ByLine(ls, d) == [i \in DOMAIN ls |-> IF Fenced(ls, i) THEN ls[i] ELSE d[ls[i]]]

\* They may stand for the lines it was given.
LEMMA LinesPass ==
  ASSUME NEW S, NEW ls, AllLines(S, ls), NEW d, LineWise(S, d)
  PROVE Passed(S, ls, ByLine(ls, d))
<1>1. PICK n, ms : n = Len(ls) /\ ms = ByLine(ls, d) OBVIOUS
<1>2. /\ ls \in Seq(Seq(S)) /\ n \in Nat /\ n > 0 /\ DOMAIN ls = 1 .. n
      /\ \A i \in 1 .. n : ls[i] \in Seq(S) /\ OneLine(ls[i])
  BY <1>1 DEF AllLines
<1>3. \A i \in 1 .. n : ms[i] = IF Fenced(ls, i) THEN ls[i] ELSE d[ls[i]] BY <1>1, <1>2 DEF ByLine
<1>4. DOMAIN ms = 1 .. n /\ ms = [i \in 1 .. n |-> ms[i]] BY <1>1, <1>2 DEF ByLine
<1>5. ASSUME NEW i \in 1 .. n
      PROVE /\ ms[i] \in Seq(S) /\ OneLine(ms[i])
            /\ IsFence(ms[i]) <=> IsFence(ls[i])
            /\ ~IsFence(ls[i]) /\ Fenced(ls, i) => ms[i] = ls[i]
            /\ ~Fenced(ls, i) => Spans(ms[i]) = Spans(ls[i])
  <2>1. CASE Fenced(ls, i) BY <1>2, <1>3, <2>1
  <2>2. CASE ~Fenced(ls, i)
    <3>1. ms[i] = d[ls[i]] BY <1>3, <2>2
    <3>2. ls[i] \in Seq(S) /\ OneLine(ls[i]) BY <1>2
    <3>3. d[ls[i]] \in Seq(S) /\ SameCode(ls[i], d[ls[i]]) /\ OneLine(d[ls[i]])
      BY <3>2 DEF LineWise
    <3> QED BY <2>2, <3>1, <3>3 DEF SameCode
  <2> QED BY <2>1, <2>2
<1>6. ms \in Seq(Seq(S)) /\ Len(ms) = n
  <2>1. PICK R : R = Seq(S) OBVIOUS
  <2>2. \A i \in 1 .. n : ms[i] \in R BY <1>5, <2>1
  <2>3. ms \in [1 .. n -> R] BY <1>4, <2>2
  <2>4. ms \in Seq(R) /\ Len(ms) = n BY <1>2, <1>4, <2>3
  <2> QED BY <2>1, <2>4
<1>7. AllLines(S, ms) BY <1>2, <1>5, <1>6 DEF AllLines
<1>8. Passed(S, ls, ms) BY <1>1, <1>5, <1>6, <1>7 DEF Passed
<1> QED BY <1>1, <1>8

\* Two blanks are no tick and no line break.
LEMMA TwoBlanks ==
  ASSUME NEW S, Space \in S, NEW t, t = <<Space, Space>>
  PROVE t \in Seq(S) /\ TickFree(t) /\ OneLine(t)
<1>1. Len(t) = 2 /\ t[1] = Space /\ t[2] = Space /\ t \in Seq(S) OBVIOUS
<1>2. Space # Tick /\ Space # Newline BY DEF Space, Tick, Newline
<1>3. \A k \in 1 .. 2 : k = 1 \/ k = 2 OBVIOUS
<1> QED BY <1>1, <1>2, <1>3 DEF TickFree, OneLine

\* A pass that puts two blanks behind lines that are not within a fence.
LEMMA BreaksPass ==
  ASSUME NEW S, Newline \in S, Space \in S, NEW v \in Seq(S)
  PROVE PreserveLineBreaks(v) \in Seq(S) /\ CodeOf(PreserveLineBreaks(v)) = CodeOf(v)
<1> DEFINE ls == SplitLines(v)
           Within(i) == Cardinality({j \in 1 .. i : IsFence(ls[j])}) % 2 = 1
           Kept(i) == Within(i) \/ i = Len(ls) \/ ls[i] = <<>> \/ ls[i + 1] = <<>>
           ms == [i \in DOMAIN ls |-> IF Kept(i) THEN ls[i] ELSE ls[i] \o <<" ", " ">>]
<1>1. PICK n : n = Len(ls) OBVIOUS
<1>15. PICK t : t = <<Space, Space>> OBVIOUS
<1>16. t = <<" ", " ">> BY <1>15, Zenon DEF Space
<1>2. AllLines(S, ls) BY SplitLaw
<1>3. /\ ls \in Seq(Seq(S)) /\ n \in Nat /\ n > 0 /\ DOMAIN ls = 1 .. n
      /\ \A i \in 1 .. n : ls[i] \in Seq(S) /\ OneLine(ls[i])
  <2>1. PICK k : k = ls OBVIOUS
  <2>2. k \in Seq(Seq(S)) /\ Len(k) > 0 /\ \A i \in 1 .. Len(k) : OneLine(k[i])
    <3> HIDE DEF ls
    <3> QED BY <1>2, <2>1 DEF AllLines
  <2>3. DOMAIN k = 1 .. Len(k) /\ Len(k) \in Nat
    <3> HIDE DEF ls
    <3> QED BY <2>2
  <2>4. \A i \in 1 .. Len(k) : k[i] \in Seq(S)
    <3> HIDE DEF ls
    <3> QED BY <2>2
  <2> HIDE DEF ls
  <2> QED BY <1>1, <2>1, <2>2, <2>3, <2>4
<1>4. t \in Seq(S) /\ TickFree(t) /\ OneLine(t)
  <2> HIDE DEF ls
  <2> QED BY <1>15, TwoBlanks
<1>5. \A i \in 1 .. n : ms[i] = IF Kept(i) THEN ls[i] ELSE ls[i] \o t
  <2> HIDE DEF ls, Kept
  <2> QED BY <1>3, <1>16
<1>6. DOMAIN ms = 1 .. n /\ ms = [i \in 1 .. n |-> ms[i]]
  <2> HIDE DEF ls, Kept
  <2> QED BY <1>3
<1>7. ASSUME NEW i \in 1 .. n, ~IsFence(ls[i]), Fenced(ls, i) PROVE Kept(i)
  <2>1. Cardinality({j \in 1 .. (i - 1) : IsFence(ls[j])}) % 2 = 1 BY <1>7 DEF Fenced
  <2>2. {j \in 1 .. (i - 1) : IsFence(ls[j])} = {j \in 1 .. i : IsFence(ls[j])}
    <3> HIDE DEF ls, ms, Kept, Within
    <3>1. \A j \in 1 .. i : j \in 1 .. (i - 1) \/ j = i BY <1>3
    <3>2. \A j \in 1 .. (i - 1) : j \in 1 .. i BY <1>3
    <3> QED BY <1>7, <3>1, <3>2
  <2>3. Within(i) BY <2>1, <2>2
  <2> QED BY <2>3
<1>8. ASSUME NEW i \in 1 .. n
      PROVE /\ ms[i] \in Seq(S) /\ OneLine(ms[i])
            /\ IsFence(ms[i]) <=> IsFence(ls[i])
            /\ ~IsFence(ls[i]) /\ Fenced(ls, i) => ms[i] = ls[i]
            /\ ~Fenced(ls, i) => Spans(ms[i]) = Spans(ls[i])
  <2>1. ls[i] \in Seq(S) /\ OneLine(ls[i]) BY <1>3
  <2>2. CASE Kept(i)
    <3>1. ms[i] = ls[i] BY <1>5, <2>2
    <3> HIDE DEF ls, ms
    <3> QED BY <2>1, <3>1
  <2>3. CASE ~Kept(i)
    <3>1. ms[i] = ls[i] \o t BY <1>5, <2>3
    <3>2. IsFence(ls[i]) \/ ~Fenced(ls, i) BY <1>7, <2>3
    <3>3. PICK l, m : l = ls[i] /\ m = l \o t OBVIOUS
    <3>4. l \in Seq(S) /\ OneLine(l) /\ m \in Seq(S) /\ Row(m, l, t)
      <4> HIDE DEF ls, ms, Kept
      <4>1. l \in Seq(S) /\ OneLine(l) BY <2>1, <3>3
      <4>2. m \in Seq(S) BY <1>4, <3>3, <4>1
      <4> QED BY <3>3, <4>1, <4>2 DEF Row
    <3>5. OneLine(m) BY <1>4, <3>4, RowSays
    <3>6. SameCode(l, m) BY <1>4, <3>3, <3>4, LongerLine
    <3>7. (IsFence(m) <=> IsFence(l)) /\ Spans(m) = Spans(l) BY <3>6 DEF SameCode
    <3> HIDE DEF ls, ms
    <3> QED BY <3>1, <3>2, <3>3, <3>4, <3>5, <3>7
  <2> QED BY <2>2, <2>3
<1>9. ms \in Seq(Seq(S)) /\ Len(ms) = n
  <2>1. PICK R : R = Seq(S) OBVIOUS
  <2> HIDE DEF ms
  <2>2. \A i \in 1 .. n : ms[i] \in R BY <1>8, <2>1
  <2>3. ms \in [1 .. n -> R] BY <1>6, <2>2
  <2>4. PICK k : k = ms OBVIOUS
  <2>5. k \in [1 .. n -> R] /\ n \in Nat BY <1>3, <2>3, <2>4
  <2>6. k \in Seq(R) /\ Len(k) = n BY ONLY <2>5
  <2> QED BY <2>1, <2>4, <2>6
<1>10. Passed(S, ls, ms)
  <2> HIDE DEF ls, ms
  <2>1. AllLines(S, ms) BY <1>3, <1>8, <1>9 DEF AllLines
  <2> QED BY <1>1, <1>8, <1>9, <2>1 DEF Passed
<1>11. PreserveLineBreaks(v) = JoinLines(ms) BY Zenon DEF PreserveLineBreaks
<1>12. JoinLines(ms) \in Seq(S) /\ CodeOf(JoinLines(ms)) = CodeOf(v)
  <2> HIDE DEF ms
  <2> QED BY <1>10, PassKeeps
<1> HIDE DEF ms
<1> QED BY <1>11, <1>12

\* The rest of a text is a part of it and the rest after that.
LEMMA RestSplit ==
  ASSUME NEW S, NEW v \in Seq(S), NEW i \in 0 .. Len(v), NEW j \in i .. Len(v)
  PROVE Rest(v, i) = Cut(v, i, j) \o Rest(v, j)
<1>1. i + 1 \in 1 .. (Len(v) + 1) /\ j \in i .. Len(v) /\ Len(v) \in Nat OBVIOUS
<1>2. PICK x, y : x = Cut(v, i, j) /\ y = Rest(v, j) OBVIOUS
<1>3. x \in Seq(S) /\ Len(x) = j - i /\ \A k \in 1 .. (j - i) : x[k] = v[i + k] BY <1>2, CutLaw
<1>4. j \in 0 .. Len(v) BY <1>1
<1>5. y \in Seq(S) /\ Len(y) = Len(v) - j /\ \A k \in 1 .. (Len(v) - j) : y[k] = v[j + k]
  BY <1>2, <1>4, RestLaw
<1>6. PICK r, w : r = Rest(v, i) /\ w = x \o y OBVIOUS
<1>7. r \in Seq(S) /\ Len(r) = Len(v) - i /\ \A k \in 1 .. (Len(v) - i) : r[k] = v[i + k]
  BY <1>6, RestLaw
<1>8. /\ w \in Seq(S) /\ Len(w) = Len(x) + Len(y)
      /\ \A k \in 1 .. Len(x) : w[k] = x[k]
      /\ \A k \in 1 .. Len(y) : w[Len(x) + k] = y[k]
  <2>1. x \in Seq(S) /\ y \in Seq(S) BY <1>3, <1>5
  <2>2. /\ x \o y \in Seq(S) /\ Len(x \o y) = Len(x) + Len(y)
        /\ \A k \in 1 .. Len(x) : (x \o y)[k] = x[k]
        /\ \A k \in 1 .. Len(y) : (x \o y)[Len(x) + k] = y[k]
    BY ONLY <2>1, JoinLaw
  <2> QED BY <1>6, <2>2
<1>9. Len(w) = Len(v) - i BY <1>1, <1>3, <1>5, <1>8
<1>10. ASSUME NEW k \in 1 .. (Len(v) - i) PROVE r[k] = w[k]
  <2>1. CASE k <= j - i
    <3>1. k \in 1 .. (j - i) BY <1>1, <2>1
    <3> QED BY <1>3, <1>7, <1>8, <3>1
  <2>2. CASE ~(k <= j - i)
    <3>1. PICK m : m = k - (j - i) OBVIOUS
    <3>2. m \in 1 .. (Len(v) - j) /\ (j - i) + m = k /\ j + m = i + k BY <1>1, <2>2, <3>1
    <3>3. w[(j - i) + m] = y[m] BY <1>3, <1>5, <1>8, <3>2
    <3> QED BY <1>5, <1>7, <3>2, <3>3
  <2> QED BY <2>1, <2>2
<1>11. r = w BY <1>7, <1>8, <1>9, <1>10, SeqEqual
<1> QED BY <1>2, <1>6, <1>11

\* How many characters the match at a place takes, one where there is none;
\* which ones.
Taking(match, i) == IF match[i] = 0 THEN 1 ELSE match[i]
Piece(v, i, n) == Cut(v, i - 1, i - 1 + n)

\* f is what Replaced computes, from each place on.
ReplacedFrom(v, match, put, f) ==
  f = [i \in 1 .. (Len(v) + 1) |->
         IF i > Len(v) THEN <<>> ELSE put[i] \o f[IF match[i] = 0 THEN i + 1 ELSE i + match[i]]]

\* Every match ends in the text, and what is put for it may stand for it.
Fitting(S, v, match, put) ==
  \A i \in 1 .. Len(v) : /\ match[i] \in 0 .. (Len(v) - i + 1)
                         /\ Tame(S, Piece(v, i, Taking(match, i)), put[i])

\* There is such an f, and Replaced takes its first value.
LEMMA ReplacedDef ==
  ASSUME NEW S, NEW v \in Seq(S), NEW match, NEW put, Fitting(S, v, match, put)
  PROVE \E f : ReplacedFrom(v, match, put, f) /\ Replaced(v, match, put) = f[1]
<1> DEFINE n == Len(v) + 1
           next == [i \in 1 .. n |-> IF i > Len(v) THEN 0 ELSE i + Taking(match, i)]
           base == [i \in 1 .. n |-> <<>>]
           from == CHOOSE f : ReplacedFrom(v, match, put, f)
<1>1. n \in Nat /\ 1 \in Nat /\ 1 <= n + 1 /\ Len(v) \in Nat OBVIOUS
<1>2. ASSUME NEW i \in 1 .. Len(v) PROVE Taking(match, i) \in 1 .. (Len(v) - i + 1)
  <2>1. match[i] \in 0 .. (Len(v) - i + 1) BY DEF Fitting
  <2>2. 1 \in 1 .. (Len(v) - i + 1) BY <1>1
  <2> HIDE DEF n, next, base, from
  <2>3. CASE match[i] = 0 BY <2>2, <2>3 DEF Taking
  <2>4. CASE match[i] # 0
    <3>1. PICK m : m = match[i] OBVIOUS
    <3>2. m \in 1 .. (Len(v) - i + 1) BY <1>1, <2>1, <2>4, <3>1
    <3> QED BY <2>4, <3>1, <3>2 DEF Taking
  <2> QED BY <2>3, <2>4
<1>3. \A i \in 1 .. n : next[i] = 0 \/ next[i] \in (i + 1) .. n
  <2>1. ASSUME NEW i \in 1 .. n, ~(i > Len(v)) PROVE next[i] \in (i + 1) .. n
    <3>1. i \in 1 .. Len(v) BY <1>1, <2>1
    <3>2. PICK m : m = Taking(match, i) OBVIOUS
    <3>3. m \in 1 .. (Len(v) - i + 1) BY <1>2, <3>1, <3>2
    <3>4. next[i] = i + m BY <2>1, <3>2
    <3>5. i + m \in (i + 1) .. (Len(v) + 1)
      <4> HIDE DEF n, next, base, from
      <4> QED BY <1>1, <3>1, <3>3
    <3> QED BY <3>4, <3>5
  <2>2. ASSUME NEW i \in 1 .. n, i > Len(v) PROVE next[i] = 0 BY <2>2
  <2> QED BY <2>1, <2>2
<1>4. \E f : Follows(f, 1, n, next, base, put)
  <2> HIDE DEF n, next, base
  <2> QED BY <1>1, <1>3, Recursion, Zenon
<1>5. \E f : ReplacedFrom(v, match, put, f)
  <2>1. PICK f : f = [i \in 1 .. n |-> IF next[i] = 0 THEN base[i] ELSE put[i] \o f[next[i]]]
    BY <1>4 DEF Follows
  <2>2. ASSUME NEW i \in 1 .. n
        PROVE (IF next[i] = 0 THEN base[i] ELSE put[i] \o f[next[i]])
                = IF i > Len(v) THEN <<>> ELSE put[i] \o f[IF match[i] = 0 THEN i + 1 ELSE i + match[i]]
    <3>1. CASE i > Len(v)
      <4>1. next[i] = 0 /\ base[i] = <<>> BY <3>1
      <4> HIDE DEF next, base, n
      <4> QED BY <3>1, <4>1
    <3>2. CASE ~(i > Len(v))
      <4>1. next[i] = i + Taking(match, i) BY <3>2
      <4>2. i + Taking(match, i) = IF match[i] = 0 THEN i + 1 ELSE i + match[i] BY DEF Taking
      <4>3. next[i] # 0
        <5>1. i \in 1 .. Len(v) BY <1>1, <3>2
        <5>2. Taking(match, i) \in 1 .. (Len(v) - i + 1) BY <1>2, <5>1
        <5> HIDE DEF next
        <5> QED BY <4>1, <5>1, <5>2
      <4> HIDE DEF next, base, n
      <4> QED BY <3>2, <4>1, <4>2, <4>3
    <3> QED BY <3>1, <3>2
  <2>3. f = [i \in 1 .. n |->
               IF i > Len(v) THEN <<>> ELSE put[i] \o f[IF match[i] = 0 THEN i + 1 ELSE i + match[i]]]
    <3> HIDE DEF next, base
    <3> QED BY <2>1, <2>2
  <2> QED BY <2>3 DEF ReplacedFrom
<1>6. Replaced(v, match, put) = from[1] BY DEF Replaced, ReplacedFrom
<1>7. ReplacedFrom(v, match, put, from)
  <2> HIDE DEF ReplacedFrom
  <2> QED BY <1>5, Zenon
<1> HIDE DEF from
<1> QED BY <1>6, <1>7

\* A text whose matches are replaced by what may stand for them may stand for it.
LEMMA ReplacedLaw ==
  ASSUME NEW S, NEW v \in Seq(S), NEW match, NEW put, Fitting(S, v, match, put)
  PROVE Tame(S, v, Replaced(v, match, put))
<1>1. PICK n : n = Len(v) OBVIOUS
<1>2. n \in Nat BY <1>1
<1>3. PICK f : ReplacedFrom(v, match, put, f) /\ Replaced(v, match, put) = f[1] BY ReplacedDef
<1>4. \A i \in 1 .. n : match[i] \in 0 .. (n - i + 1) /\ Tame(S, Piece(v, i, Taking(match, i)), put[i])
  BY <1>1 DEF Fitting
<1> DEFINE T == {d \in Nat : \E i \in 0 .. n : d = n - i /\ ~Tame(S, Rest(v, i), f[i + 1])}
<1>5. T = {}
  <2> SUFFICES ASSUME T # {} PROVE FALSE
    OBVIOUS
  <2>1. T \in SUBSET Nat OBVIOUS
  <2>2. PICK d \in T : \A y \in T : d <= y
    <3> HIDE DEF T
    <3> QED BY <2>1, Smallest
  <2>3. PICK i \in 0 .. n : d = n - i /\ ~Tame(S, Rest(v, i), f[i + 1]) BY <2>2
  <2>4. i + 1 \in 1 .. (n + 1)
    <3> HIDE DEF T
    <3> QED BY <1>2
  <2>5. f[i + 1] = IF i + 1 > n THEN <<>>
                   ELSE put[i + 1] \o f[IF match[i + 1] = 0 THEN (i + 1) + 1 ELSE (i + 1) + match[i + 1]]
    <3> HIDE DEF T
    <3> QED BY <1>1, <1>3, <2>4 DEF ReplacedFrom
  <2>6. CASE i = n
    <3>1. f[i + 1] = <<>> BY <1>2, <2>5, <2>6
    <3>2. PICK r : r = Rest(v, i) OBVIOUS
    <3>3. r \in Seq(S) /\ Len(r) = 0
      <4>1. i \in 0 .. Len(v) /\ Len(v) - i = 0 BY <1>1, <1>2, <2>6
      <4> HIDE DEF T
      <4> QED BY <3>2, <4>1, RestLaw
    <3>4. r = <<>> BY <3>3
    <3>5. Tame(S, r, r) BY <3>3, TameSelf
    <3> QED BY <2>3, <3>1, <3>2, <3>4, <3>5
  <2>7. CASE i # n
    <3>1. PICK p, m, j : p = i + 1 /\ m = Taking(match, p) /\ j = i + m OBVIOUS
    <3>2. p \in 1 .. n
      <4> HIDE DEF T
      <4> QED BY <1>2, <2>7, <3>1
    <3>3. match[p] \in 0 .. (n - p + 1) /\ Tame(S, Piece(v, p, m), put[p]) BY <1>4, <3>1, <3>2
    <3>4. m \in 1 .. (n - i)
      <4> HIDE DEF T
      <4>1. PICK k : k = match[p] OBVIOUS
      <4>2. k \in 0 .. (n - i) /\ 1 \in 1 .. (n - i) BY <1>2, <2>7, <3>1, <3>2, <3>3, <4>1
      <4>3. m = IF k = 0 THEN 1 ELSE k BY <3>1, <4>1 DEF Taking
      <4> QED BY <1>2, <4>2, <4>3
    <3>5. (IF match[p] = 0 THEN p + 1 ELSE p + match[p]) = p + m BY <3>1 DEF Taking
    <3>6. j \in i .. n /\ j \in 0 .. n /\ p + m = j + 1 /\ n - j \in Nat /\ n - j < n - i /\ ~(p > n)
      <4>1. i \in 0 .. n OBVIOUS
      <4> HIDE DEF T
      <4> QED BY <1>2, <3>1, <3>2, <3>4, <4>1
    <3>7. f[i + 1] = put[p] \o f[j + 1] BY <2>5, <3>1, <3>5, <3>6
    <3>8. Tame(S, Rest(v, j), f[j + 1])
      <4>1. n - j \notin T
        <5> HIDE DEF T
        <5>1. ~(d <= n - j) BY <1>2, <2>3, <3>6
        <5> QED BY <2>2, <5>1
      <4> QED BY <3>6, <4>1
    <3>9. Piece(v, p, m) = Cut(v, i, j)
      <4>1. p - 1 = i
        <5> HIDE DEF T
        <5> QED BY <1>2, <3>1
      <4> QED BY <3>1, <4>1 DEF Piece
    <3>10. i \in 0 .. Len(v) /\ j \in i .. Len(v) /\ j \in 0 .. Len(v) BY <1>1, <3>6
    <3>11. PICK x, y : x = Cut(v, i, j) /\ y = Rest(v, j) OBVIOUS
    <3>12. x \in Seq(S) /\ y \in Seq(S)
      <4> HIDE DEF T
      <4> QED BY <3>10, <3>11, CutLaw, RestLaw
    <3>13. Rest(v, i) = x \o y
      <4> HIDE DEF T
      <4> QED BY <3>10, <3>11, RestSplit
    <3>14. Tame(S, x, put[p]) /\ Tame(S, y, f[j + 1]) BY <3>3, <3>8, <3>9, <3>11
    <3>15. Tame(S, x \o y, put[p] \o f[j + 1]) BY <3>12, <3>14, TameRow
    <3> QED BY <2>3, <3>7, <3>13, <3>15
  <2> QED BY <2>6, <2>7
<1>6. n \notin T
  <2> HIDE DEF T
  <2> QED BY <1>5
<1>7. 0 \in 0 .. n /\ n - 0 = n /\ 0 + 1 = 1 BY <1>2
<1>8. Tame(S, Rest(v, 0), f[1]) BY <1>2, <1>6, <1>7
<1>9. Rest(v, 0) = v BY RestAll
<1> QED BY <1>3, <1>8, <1>9

\* The characters of a text that is shown; those that are no tick and no blank.
LinkParts == {"[", "]", "(", ":", ")", "mention", "room", "emoji", "glyph", "sub", "sup"}
Starts == {"@", "#", ":", "~", "^"}
Shown == Char \cup LinkParts
Plain == Shown \ ({Tick} \cup Blank)

\* The parts of a link, the names and what is put for them are plain.
LEMMA PlainLaw ==
  /\ LinkParts \subseteq Plain
  /\ MentionSafe \cup EmojiSafe \cup Glyphs \cup {BuiltIn[n] : n \in DOMAIN BuiltIn} \subseteq Plain
  /\ Triggers \subseteq Plain
  /\ Starts \cap ({Tick} \cup Blank) = {}
<1>1. ASSUME NEW x \in LinkParts PROVE x \notin {Tick} \cup Blank
  BY Zenon DEF LinkParts, Tick, Blank, Newline
<1>2. ASSUME NEW x \in Starts PROVE x \notin {Tick} \cup Blank
  BY Zenon DEF Starts, Tick, Blank, Newline
<1>3. LinkParts \subseteq Plain
  <2> HIDE DEF LinkParts
  <2> QED BY <1>1 DEF Plain, Shown
<1>4. Triggers \subseteq Starts BY Zenon DEF Triggers, Starts
<1>5. MentionSafe \cup EmojiSafe \subseteq Char /\ Triggers \subseteq Char
  BY CompletionAssumption, Zenon DEF Triggers
<1>6. PICK B : B = {BuiltIn[n] : n \in DOMAIN BuiltIn} OBVIOUS
<1>7. Glyphs \cup B \subseteq Char /\ (MentionSafe \cup EmojiSafe \cup Glyphs \cup B) \cap ({Tick} \cup Blank) = {}
  BY <1>6, RenderingAssumption
<1>8. MentionSafe \cup EmojiSafe \cup Glyphs \cup B \subseteq Plain
  BY <1>5, <1>7 DEF Plain, Shown
<1>9. Triggers \subseteq Plain BY <1>2, <1>4, <1>5 DEF Plain, Shown
<1> QED BY <1>2, <1>3, <1>6, <1>8, <1>9

\* A plain text.
LEMMA PlainText ==
  ASSUME NEW q \in Seq(Plain)
  PROVE /\ q \in Seq(Shown) /\ TickFree(q) /\ Light(q) /\ OneLine(q)
        /\ Len(q) > 0 => ~AllBlank(q) /\ ~Ticked(q)
<1>1. \A k \in 1 .. Len(q) : q[k] \in Plain OBVIOUS
<1>2. Newline \in Blank BY Zenon DEF Blank
<1>3. \A k \in 1 .. Len(q) : q[k] # Tick /\ q[k] # Newline /\ q[k] \notin Blank
  BY <1>1, <1>2 DEF Plain
<1>4. Len(q) > 0 => 1 \in 1 .. Len(q) OBVIOUS
<1>5. q \in Seq(Shown)
  <2>1. Plain \subseteq Shown BY DEF Plain
  <2> QED BY <2>1
<1>6. TickFree(q) /\ OneLine(q) BY <1>3 DEF TickFree, OneLine
<1>7. Len(q) > 0 => ~AllBlank(q) /\ ~Ticked(q) BY <1>3, <1>4 DEF AllBlank, Ticked
<1> QED BY <1>5, <1>6, <1>7 DEF Light

\* One plain text may stand for another.
LEMMA PlainTame ==
  ASSUME NEW p \in Seq(Plain), NEW q \in Seq(Plain), Len(p) > 0, Len(q) > 0
  PROVE Tame(Shown, p, q)
<1>1. /\ p \in Seq(Shown) /\ ~AllBlank(p)
      /\ q \in Seq(Shown) /\ TickFree(q) /\ Light(q) /\ OneLine(q) /\ ~AllBlank(q) /\ ~Ticked(q)
  BY PlainText
<1>2. q # <<>> OBVIOUS
<1> QED BY <1>1, <1>2 DEF Tame

\* What a link has before its label, between it and the address, and at its end.
LinkHead == <<"[">>
LinkMid(kind) == <<"]", "(", kind, ":">>
LinkEnd == <<")">>

\* They are plain.
LEMMA LinkLaw ==
  ASSUME NEW kind \in LinkParts, NEW label, NEW rest
  PROVE /\ LinkHead \in Seq(Plain) /\ Len(LinkHead) = 1
        /\ LinkMid(kind) \in Seq(Plain) /\ LinkEnd \in Seq(Plain)
        /\ Link(label, kind, rest) = LinkHead \o label \o LinkMid(kind) \o rest \o LinkEnd
<1>1. PICK a, b, c, d, e : a = "[" /\ b = "]" /\ c = "(" /\ d = ":" /\ e = ")" OBVIOUS
<1>2. a \in LinkParts /\ b \in LinkParts /\ c \in LinkParts /\ d \in LinkParts /\ e \in LinkParts
  BY <1>1, Zenon DEF LinkParts
<1>3. a \in Plain /\ b \in Plain /\ c \in Plain /\ d \in Plain /\ e \in Plain /\ kind \in Plain
  <2> HIDE DEF LinkParts
  <2> QED BY <1>2, PlainLaw
<1>4. LinkHead = <<a>> /\ LinkMid(kind) = <<b, c, kind, d>> /\ LinkEnd = <<e>>
  BY <1>1, Zenon DEF LinkHead, LinkMid, LinkEnd
<1>5. <<a>> \in Seq(Plain) /\ Len(<<a>>) = 1 BY <1>3
<1>6. <<b, c, kind, d>> \in Seq(Plain) BY <1>3
<1>7. <<e>> \in Seq(Plain) BY <1>3
<1>8. Link(label, kind, rest) = LinkHead \o label \o LinkMid(kind) \o rest \o LinkEnd
  BY Zenon DEF Link, LinkHead, LinkMid, LinkEnd
<1> QED BY <1>4, <1>5, <1>6, <1>7, <1>8

\* A link with a plain label and a plain address is plain.
LEMMA LinkPlain ==
  ASSUME NEW kind \in LinkParts, NEW label \in Seq(Plain), NEW rest \in Seq(Plain)
  PROVE Link(label, kind, rest) \in Seq(Plain) /\ Len(Link(label, kind, rest)) > 0
<1>1. PICK a, b, c : a = LinkHead /\ b = LinkMid(kind) /\ c = LinkEnd OBVIOUS
<1>2. a \in Seq(Plain) /\ b \in Seq(Plain) /\ c \in Seq(Plain) /\ Len(a) = 1 BY <1>1, LinkLaw
<1>3. PICK l : l = Link(label, kind, rest) OBVIOUS
<1>4. l = a \o label \o b \o rest \o c BY <1>1, <1>3, LinkLaw
<1>5. PICK r : r = a \o label OBVIOUS
<1>6. r \in Seq(Plain) /\ Len(r) >= 1
  <2>1. Len(a \o label) = Len(a) + Len(label) /\ a \o label \in Seq(Plain) BY <1>2, JoinLaw
  <2>2. Len(label) \in Nat OBVIOUS
  <2> QED BY <1>2, <1>5, <2>1, <2>2
<1>7. PICK t : t = r \o b OBVIOUS
<1>8. t \in Seq(Plain) /\ Len(t) >= 1
  <2>1. Len(r \o b) = Len(r) + Len(b) /\ r \o b \in Seq(Plain) BY <1>2, <1>6, JoinLaw
  <2>2. Len(b) \in Nat /\ Len(r) \in Nat BY <1>2, <1>6
  <2> QED BY <1>6, <1>7, <2>1, <2>2
<1>9. PICK u : u = t \o rest OBVIOUS
<1>10. u \in Seq(Plain) /\ Len(u) >= 1
  <2>1. Len(t \o rest) = Len(t) + Len(rest) /\ t \o rest \in Seq(Plain) BY <1>8, JoinLaw
  <2>2. Len(rest) \in Nat /\ Len(t) \in Nat BY <1>8
  <2> QED BY <1>8, <1>9, <2>1, <2>2
<1>11. Len(u \o c) = Len(u) + Len(c) /\ u \o c \in Seq(Plain) BY <1>2, <1>10, JoinLaw
<1>12. Len(c) \in Nat /\ Len(u) \in Nat BY <1>2, <1>10
<1>13. l = u \o c BY <1>4, <1>5, <1>7, <1>9
<1> QED BY <1>3, <1>10, <1>11, <1>12, <1>13


\* A part with answers that may stand for the matches.
LEMMA AnswersLaw ==
  ASSUME NEW p \in Seq(Shown), NEW match, NEW put,
         \A i \in 1 .. Len(p) :
           /\ match[i] \in 0 .. (Len(p) - i + 1)
           /\ match[i] = 0 => put[i] = <<p[i]>>
           /\ match[i] > 0 => Tame(Shown, SubSeq(p, i, i + match[i] - 1), put[i])
  PROVE Tame(Shown, p, Replaced(p, match, put))
<1>1. ASSUME NEW i \in 1 .. Len(p) PROVE Tame(Shown, Piece(p, i, Taking(match, i)), put[i])
  <2>1. Len(p) \in Nat /\ i - 1 + 1 = i /\ p[i] \in Shown OBVIOUS
  <2>2. CASE match[i] = 0
    <3>1. Taking(match, i) = 1 BY <2>2 DEF Taking
    <3>2. PICK q, r : q = Piece(p, i, 1) /\ r = <<p[i]>> OBVIOUS
    <3>3. q = r
      <4>1. q = Cut(p, i - 1, i) BY <2>1, <3>2 DEF Piece
      <4>2. PICK a : a = i - 1 OBVIOUS
      <4>3. a \in 0 .. Len(p) /\ i \in a .. Len(p) /\ i - a = 1 /\ a + 1 = i
        <5>1. PICK n : n = Len(p) OBVIOUS
        <5>2. n \in Nat /\ i \in 1 .. n BY <2>1, <5>1
        <5>3. a \in 0 .. n /\ i \in a .. n /\ i - a = 1 /\ a + 1 = i BY ONLY <4>2, <5>2
        <5> QED BY <5>1, <5>3
      <4>4. Len(Cut(p, a, i)) = 1 /\ Cut(p, a, i) \in Seq(Shown) /\ Cut(p, a, i)[1] = p[i]
        <5>1. /\ Cut(p, a, i) \in Seq(Shown) /\ Len(Cut(p, a, i)) = i - a
              /\ \A k \in 1 .. (i - a) : Cut(p, a, i)[k] = p[a + k]
          BY <4>3, CutLaw
        <5>2. 1 \in 1 .. 1 OBVIOUS
        <5> QED BY <4>3, <5>1, <5>2
      <4>5. q \in Seq(Shown) /\ Len(q) = 1 /\ q[1] = p[i] BY <4>1, <4>2, <4>4
      <4>6. q = <<q[1]>> BY <4>5, Single
      <4> QED BY <3>2, <4>5, <4>6
    <3>4. r \in Seq(Shown) BY <2>1, <3>2
    <3>5. Tame(Shown, r, r) BY <3>4, TameSelf
    <3>6. put[i] = r BY <2>2, <3>2
    <3> QED BY <3>1, <3>2, <3>3, <3>5, <3>6
  <2>3. CASE match[i] # 0
    <3>1. PICK m : m = match[i] OBVIOUS
    <3>2. m \in 0 .. (Len(p) - i + 1) /\ m # 0 BY <2>3, <3>1
    <3>3. m > 0 /\ (i - 1) + m = i + m - 1 BY <2>1, <3>2
    <3>4. Taking(match, i) = m BY <2>3, <3>1 DEF Taking
    <3>5. Piece(p, i, m) = SubSeq(p, i, i + m - 1) BY <2>1, <3>3 DEF Piece, Cut
    <3>6. Tame(Shown, SubSeq(p, i, i + m - 1), put[i]) BY <3>1, <3>3
    <3> QED BY <3>4, <3>5, <3>6
  <2> QED BY <2>2, <2>3
<1>2. Fitting(Shown, p, match, put) BY <1>1 DEF Fitting
<1> QED BY <1>2, ReplacedLaw

\* The n characters of a text from i on.
LEMMA PieceLaw ==
  ASSUME NEW S, NEW p \in Seq(S), NEW i \in 1 .. Len(p), NEW n \in 1 .. (Len(p) - i + 1),
         NEW m, m = SubSeq(p, i, i + n - 1)
  PROVE /\ m \in Seq(S) /\ Len(m) = n
        /\ \A k \in 1 .. n : m[k] = p[i - 1 + k]
<1>1. PICK a, b, l : a = i - 1 /\ b = i - 1 + n /\ l = Len(p) OBVIOUS
<1>2. l \in Nat /\ i \in 1 .. l /\ n \in 1 .. (l - i + 1) BY <1>1
<1>3. a \in 0 .. l /\ b \in a .. l /\ b - a = n /\ a + 1 = i /\ b = i + n - 1 BY ONLY <1>1, <1>2
<1>4. m = Cut(p, a, b) BY <1>3 DEF Cut
<1>5. m \in Seq(S) /\ Len(m) = b - a /\ \A k \in 1 .. (b - a) : m[k] = p[a + k]
  <2>1. a \in 0 .. Len(p) /\ b \in a .. Len(p) BY <1>1, <1>3
  <2> QED BY <1>4, <2>1, CutLaw
<1>6. m \in Seq(S) /\ Len(m) = n /\ \A k \in 1 .. n : m[k] = p[a + k] BY <1>3, <1>5
<1> QED BY <1>1, <1>6

\* Each of them is of P.
Each(p, i, n, P) == \A k \in 1 .. n : p[i - 1 + k] \in P

\* They are a text of P then.
LEMMA PieceOf ==
  ASSUME NEW S, NEW p \in Seq(S), NEW i \in 1 .. Len(p), NEW n \in 1 .. (Len(p) - i + 1),
         NEW P, Each(p, i, n, P)
  PROVE SubSeq(p, i, i + n - 1) \in Seq(P) /\ Len(SubSeq(p, i, i + n - 1)) = n
<1>1. PICK m : m = SubSeq(p, i, i + n - 1) OBVIOUS
<1>2. m \in Seq(S) /\ Len(m) = n /\ \A k \in 1 .. n : m[k] = p[i - 1 + k] BY <1>1, PieceLaw
<1>3. \A k \in 1 .. n : m[k] \in P BY <1>2 DEF Each
<1>4. DOMAIN m = 1 .. n /\ m = [k \in 1 .. n |-> m[k]] BY <1>2
<1>5. m \in [1 .. n -> P] BY <1>3, <1>4
<1>6. n \in Nat OBVIOUS
<1>7. m \in Seq(P) BY ONLY <1>5, <1>6
<1> QED BY <1>1, <1>2, <1>7

\* A match of n characters at i, all plain.
PlainAt(p, i, n) ==
  /\ n \in 0 .. (Len(p) - i + 1)
  /\ n > 0 => SubSeq(p, i, i + n - 1) \in Seq(Plain) /\ Len(SubSeq(p, i, i + n - 1)) = n

\* The name that starts after i, of characters of C.
LEMMA NameLaw ==
  ASSUME NEW S, NEW p \in Seq(S), NEW i \in 1 .. Len(p), NEW C, NEW name, name = Lead(Rest(p, i), C)
  PROVE name \in 0 .. (Len(p) - i) /\ \A k \in 1 .. name : p[i + k] \in C
<1>1. PICK r, l : r = Rest(p, i) /\ l = Len(p) OBVIOUS
<1>2. l \in Nat /\ i \in 0 .. Len(p) /\ i \in 1 .. l BY <1>1
<1>3. r \in Seq(S) /\ Len(r) = l - i /\ \A k \in 1 .. (l - i) : r[k] = p[i + k]
  BY <1>1, <1>2, RestLaw
<1>4. Leads(r, C, name) BY <1>1, <1>3, LeadLaw
<1>5. name \in 0 .. (l - i) /\ \A k \in 1 .. name : r[k] \in C BY <1>3, <1>4 DEF Leads
<1>6. \A k \in 1 .. name : k \in 1 .. (l - i) BY <1>2, <1>5
<1> QED BY <1>1, <1>3, <1>5, <1>6

\* "@name" and "#name" are plain.
LEMMA TokenLaw ==
  ASSUME NEW p \in Seq(Shown), NEW i \in 1 .. Len(p), NEW t \in Triggers
  PROVE PlainAt(p, i, TokenAt(p, i, t))
<1>1. PICK name, n, l : name = Lead(Rest(p, i), MentionSafe) /\ n = TokenAt(p, i, t) /\ l = Len(p)
  OBVIOUS
<1>2. name \in 0 .. (l - i) /\ \A k \in 1 .. name : p[i + k] \in MentionSafe BY <1>1, NameLaw
<1>3. l \in Nat /\ i \in 1 .. l BY <1>1
<1>4. n = IF i <= l /\ p[i] = t /\ name > 0 THEN 1 + name ELSE 0 BY <1>1 DEF TokenAt
<1>5. n \in 0 .. (l - i + 1) BY ONLY <1>2, <1>3, <1>4
<1>6. CASE n > 0
  <2>1. p[i] = t /\ n = 1 + name BY <1>4, <1>6
  <2>2. ASSUME NEW k \in 1 .. n PROVE p[i - 1 + k] \in Plain
    <3>1. CASE k = 1
      <4>1. i - 1 + k = i BY <1>3, <3>1
      <4> QED BY <2>1, <4>1, PlainLaw
    <3>2. CASE k # 1
      <4>1. PICK j : j = k - 1 OBVIOUS
      <4>2. j \in 1 .. name /\ i - 1 + k = i + j BY <1>2, <1>3, <2>1, <3>2, <4>1
      <4> QED BY <1>2, <4>2, PlainLaw
    <3> QED BY <3>1, <3>2
  <2>3. n \in 1 .. (Len(p) - i + 1) BY <1>1, <1>3, <1>5, <1>6
  <2>4. SubSeq(p, i, i + n - 1) \in Seq(Plain) /\ Len(SubSeq(p, i, i + n - 1)) = n
    <3>1. Each(p, i, n, Plain) BY <2>2 DEF Each
    <3> QED BY <2>3, <3>1, PieceOf
  <2> QED BY <1>1, <1>5, <2>4 DEF PlainAt
<1>7. CASE ~(n > 0) BY <1>1, <1>5, <1>7 DEF PlainAt
<1> QED BY <1>6, <1>7

\* ":name:" is plain.
LEMMA ShortcodeLaw ==
  ASSUME NEW p \in Seq(Shown), NEW i \in 1 .. Len(p), NEW safe, safe \subseteq Plain
  PROVE PlainAt(p, i, ShortcodeAt(p, i, safe)) /\ ShortcodeAt(p, i, safe) # 1
<1>1. PICK name, n, l, c : /\ name = Lead(Rest(p, i), safe) /\ n = ShortcodeAt(p, i, safe)
                           /\ l = Len(p) /\ c = ":"
  OBVIOUS
<1>2. name \in 0 .. (l - i) /\ \A k \in 1 .. name : p[i + k] \in safe BY <1>1, NameLaw
<1>3. l \in Nat /\ i \in 1 .. l BY <1>1
<1>4. PICK s : s = Slice(p, i + name, i + name + 1) OBVIOUS
<1>5. n = IF i <= l /\ p[i] = c /\ name > 0 /\ s = <<c>> THEN name + 2 ELSE 0
  BY <1>1, <1>4, Zenon DEF ShortcodeAt
<1>6. c \in Plain
  <2>1. c \in Triggers BY <1>1, Zenon DEF Triggers
  <2> QED BY <2>1, PlainLaw
<1>7. CASE n # 0
  <2>1. p[i] = c /\ name > 0 /\ s = <<c>> /\ n = name + 2 BY <1>5, <1>7
  <2>2. PICK a : a = i + name OBVIOUS
  <2>3. a \in 1 .. l /\ a \in Nat BY ONLY <1>2, <1>3, <2>2
  <2>4. a + 1 <= l /\ p[a + 1] = c
    <3>1. PICK b : b = IF a + 1 < l THEN a + 1 ELSE l OBVIOUS
    <3>2. b \in a .. l /\ (b - a = 1 \/ (b = a /\ a = l)) BY ONLY <1>3, <2>3, <3>1
    <3>3. s = Cut(p, a, b) BY <1>1, <1>4, <2>2, <3>1 DEF Slice, Cut
    <3>4. Len(s) = b - a /\ \A k \in 1 .. (b - a) : s[k] = p[a + k]
      <4>1. a \in 0 .. Len(p) /\ b \in a .. Len(p) BY <1>1, <2>3, <3>2
      <4> QED BY <3>3, <4>1, CutLaw
    <3>5. Len(s) = 1 /\ s[1] = c BY <2>1
    <3>6. b - a = 1 /\ a + 1 <= l
      <4>1. b - a = 1 BY <3>4, <3>5
      <4> QED BY ONLY <1>3, <2>3, <3>2, <4>1
    <3>7. 1 \in 1 .. 1 OBVIOUS
    <3> QED BY <3>4, <3>5, <3>6, <3>7
  <2>5. n \in 1 .. (l - i + 1) /\ n # 1 BY ONLY <1>2, <1>3, <2>1, <2>2, <2>4
  <2>6. ASSUME NEW k \in 1 .. n PROVE p[i - 1 + k] \in Plain
    <3>1. CASE k = 1
      <4>1. i - 1 + k = i BY <1>3, <3>1
      <4> QED BY <1>6, <2>1, <4>1
    <3>2. CASE k = n
      <4>1. i - 1 + k = a + 1 BY <1>2, <1>3, <2>1, <2>2, <3>2
      <4> QED BY <1>6, <2>4, <4>1
    <3>3. CASE k # 1 /\ k # n
      <4>1. PICK j : j = k - 1 OBVIOUS
      <4>2. j \in 1 .. name /\ i - 1 + k = i + j BY <1>2, <1>3, <2>1, <3>3, <4>1
      <4> QED BY <1>2, <4>2
    <3> QED BY <3>1, <3>2, <3>3
  <2>7. n \in 1 .. (Len(p) - i + 1) BY <1>1, <2>5
  <2>8. SubSeq(p, i, i + n - 1) \in Seq(Plain) /\ Len(SubSeq(p, i, i + n - 1)) = n
    <3>1. Each(p, i, n, Plain) BY <2>6 DEF Each
    <3> QED BY <2>7, <3>1, PieceOf
  <2>9. n \in 0 .. (Len(p) - i + 1) BY <2>7
  <2> QED BY <1>1, <2>5, <2>8, <2>9 DEF PlainAt
<1>8. CASE n = 0
  <2>1. 0 \in 0 .. (Len(p) - i + 1) BY <1>1, <1>3
  <2> QED BY <1>1, <1>8, <2>1 DEF PlainAt
<1> QED BY <1>7, <1>8

\* A text is its first character, inner and its last.
Around(m, inner) == m = <<m[1]>> \o inner \o <<m[Len(m)]>>

\* What is between the first and the last character of a text.
LEMMA InnerLaw ==
  ASSUME NEW S, NEW m \in Seq(S), Len(m) >= 2
  PROVE /\ Tail(Front(m)) \in Seq(S)
        /\ Around(m, Tail(Front(m)))
        /\ Tail(m) \in Seq(S) /\ Len(Tail(m)) > 0
<1>1. PICK n, f : n = Len(m) /\ f = Front(m) OBVIOUS
<1>2. n \in Nat /\ n >= 2 BY <1>1
<1>3. PICK a : a = n - 1 OBVIOUS
<1>4. a \in 1 .. n /\ a \in 0 .. n /\ n - a = 1 /\ a + 1 = n /\ a >= 1 BY ONLY <1>2, <1>3
<1>5. f = Cut(m, 0, a)
  <2>1. 0 + 1 = 1 OBVIOUS
  <2> QED BY <1>1, <1>3, <2>1 DEF Front, Cut
<1>6. f \in Seq(S) /\ Len(f) = a
  <2>1. 0 \in 0 .. Len(m) /\ a \in 0 .. Len(m) BY <1>1, <1>4
  <2>2. a - 0 = a BY <1>4
  <2> QED BY <1>5, <2>1, <2>2, CutLaw
<1>7. Tail(f) \in Seq(S) /\ f = <<f[1]>> \o Tail(f)
  <2>1. Tail(f) = Rest(f, 1) /\ Len(f) > 0
    <3>1. 1 + 1 = 2 OBVIOUS
    <3> QED BY <1>4, <1>6, <3>1 DEF Rest, Cut
  <2> QED BY <1>6, <2>1, Peel
<1>8. f[1] = m[1]
  <2>1. 0 \in 0 .. Len(m) /\ a \in 0 .. Len(m) /\ 1 \in 1 .. (a - 0) /\ 0 + 1 = 1 BY <1>1, <1>4
  <2>2. \A k \in 1 .. (a - 0) : Cut(m, 0, a)[k] = m[0 + k] BY <2>1, CutLaw
  <2> QED BY <1>5, <2>1, <2>2
<1>9. PICK r : r = Rest(m, a) OBVIOUS
<1>10. r = <<m[n]>>
  <2>1. a \in 0 .. Len(m) /\ Len(m) - a = 1 /\ 1 \in 1 .. 1 BY <1>1, <1>4
  <2>2. r \in Seq(S) /\ Len(r) = 1 /\ \A k \in 1 .. 1 : r[k] = m[a + k] BY <1>9, <2>1, RestLaw
  <2>3. r[1] = m[n] BY <1>4, <2>1, <2>2
  <2>4. r = <<r[1]>> BY <2>2, Single
  <2> QED BY <2>3, <2>4
<1>11. m = f \o r
  <2>1. 0 \in 0 .. Len(m) /\ a \in 0 .. Len(m) BY <1>1, <1>4
  <2>2. Rest(m, 0) = Cut(m, 0, a) \o Rest(m, a) BY <2>1, RestSplit
  <2>3. Rest(m, 0) = m BY RestAll
  <2> QED BY <1>5, <1>9, <2>2, <2>3
<1>12. Tail(m) \in Seq(S) /\ Len(Tail(m)) > 0
  <2>1. Len(m) > 0 /\ Len(m) - 1 > 0 BY <1>1, <1>2
  <2>2. Tail(m) = Rest(m, 1)
    <3>1. 1 + 1 = 2 OBVIOUS
    <3> QED BY <2>1, <3>1 DEF Rest, Cut
  <2> QED BY <2>1, <2>2, Peel
<1>13. Around(m, Tail(f)) BY <1>1, <1>7, <1>8, <1>10, <1>11, Zenon DEF Around
<1> QED BY <1>1, <1>7, <1>12, <1>13

\* A text between plain texts may stand for it between others.
LEMMA WrapTame ==
  ASSUME NEW inner \in Seq(Shown), NEW x \in Seq(Plain), NEW y \in Seq(Plain), NEW a \in Seq(Plain),
         NEW b \in Seq(Plain), Len(x) > 0, Len(a) > 0,
         NEW r, Row(r, x, inner), NEW m, Row(m, r, y), NEW s, Row(s, a, inner), NEW q, Row(q, s, b)
  PROVE Tame(Shown, m, q)
<1>1. /\ x \in Seq(Shown) /\ TickFree(x) /\ Light(x) /\ OneLine(x) /\ ~AllBlank(x) /\ ~Ticked(x)
      /\ a \in Seq(Shown) /\ TickFree(a) /\ Light(a) /\ OneLine(a) /\ ~AllBlank(a) /\ ~Ticked(a)
      /\ y \in Seq(Shown) /\ TickFree(y) /\ Light(y) /\ OneLine(y)
      /\ b \in Seq(Shown) /\ TickFree(b) /\ Light(b) /\ OneLine(b)
  BY PlainText
<1>2. x # <<>> /\ a # <<>> OBVIOUS
<1>3. r \in Seq(Shown) /\ s \in Seq(Shown) BY <1>1 DEF Row
<1>4. q \in Seq(Shown) BY <1>1, <1>3 DEF Row
<1>5. /\ TickFree(r) <=> TickFree(inner) /\ ~AllBlank(r)
      /\ OneLine(r) <=> OneLine(inner)
      /\ Light(r) <=> Light(inner) \/ TickFree(inner)
      /\ r # <<>> /\ ~AllBlank(r)
  BY <1>1, <1>2, RowSays
<1>6. /\ TickFree(m) <=> TickFree(r)
      /\ OneLine(m) <=> OneLine(r)
      /\ Light(m) <=> Light(r) \/ TickFree(r)
      /\ ~AllBlank(m)
  BY <1>1, <1>3, <1>5, RowSays
<1>7. /\ TickFree(s) <=> TickFree(inner)
      /\ OneLine(s) <=> OneLine(inner)
      /\ Light(s) <=> Light(inner) \/ TickFree(inner)
      /\ s # <<>> /\ ~AllBlank(s) /\ ~Ticked(s)
  BY <1>1, <1>2, RowSays
<1>8. /\ TickFree(q) <=> TickFree(s)
      /\ OneLine(q) <=> OneLine(s)
      /\ Light(q) <=> Light(s) \/ TickFree(s)
      /\ ~AllBlank(q) /\ ~Ticked(q) /\ q # <<>>
  BY <1>1, <1>3, <1>7, RowSays
<1> QED BY <1>4, <1>5, <1>6, <1>7, <1>8 DEF Tame

\* The first character of C in a text, 0 for none.
FirstOf(v, C) == SelectInSeq(v, LAMBDA x : x \in C)

\* It is in the text.
LEMMA FirstOfLaw ==
  ASSUME NEW S, NEW v \in Seq(S), NEW C
  PROVE FirstOf(v, C) \in 0 .. Len(v)
<1> DEFINE I == {i \in 1 .. Len(v) : v[i] \in C}
<1>0. Len(v) \in Nat OBVIOUS
<1>1. FirstOf(v, C) = IF I # {} THEN Min(I) ELSE 0 BY DEF FirstOf, SelectInSeq
<1>2. CASE I = {}
  <2> HIDE DEF I
  <2> QED BY <1>0, <1>1, <1>2
<1>3. CASE I # {}
  <2>1. I \in SUBSET Nat OBVIOUS
  <2>2. PICK x \in I : \A y \in I : x <= y
    <3> HIDE DEF I
    <3> QED BY <1>3, <2>1, Smallest
  <2>3. Min(I) \in I
    <3> HIDE DEF I
    <3> QED BY <2>2 DEF Min
  <2>4. PICK k : k = Min(I) OBVIOUS
  <2>5. k \in 1 .. Len(v) BY <2>3, <2>4
  <2>6. FirstOf(v, C) = k BY <1>1, <1>3, <2>4
  <2> HIDE DEF I
  <2> QED BY <1>0, <2>5, <2>6
<1> QED BY <1>2, <1>3

\* A match of n characters at i that begins and ends with c.
Bracketed(p, i, n, c) ==
  /\ n \in 0 .. (Len(p) - i + 1)
  /\ n > 0 => n >= 3 /\ p[i] = c /\ p[i - 1 + n] = c

\* "~...~" and "^...^" are such.
LEMMA ScriptLaw ==
  ASSUME NEW S, NEW p \in Seq(S), NEW i \in 1 .. Len(p), NEW c
  PROVE Bracketed(p, i, ScriptAt(p, i, c), c)
<1>1. PICK r, stop, n, l : /\ r = Rest(p, i) /\ stop = FirstOf(r, Blank \cup {c})
                           /\ n = ScriptAt(p, i, c) /\ l = Len(p)
  OBVIOUS
<1>2. l \in Nat /\ i \in 1 .. l /\ i \in 0 .. Len(p) BY <1>1
<1>3. r \in Seq(S) /\ Len(r) = l - i /\ \A k \in 1 .. (l - i) : r[k] = p[i + k]
  BY <1>1, <1>2, RestLaw
<1>4. stop \in 0 .. (l - i) BY <1>1, <1>3, FirstOfLaw
<1>5. n # 0 => n = stop + 1 /\ p[i] = c /\ stop > 1 /\ r[stop] = c
  BY <1>1, Zenon DEF ScriptAt, FirstOf
<1>6. CASE n # 0
  <2>1. stop \in 1 .. (l - i) BY ONLY <1>4, <1>5, <1>6
  <2>2. p[i + stop] = c BY <1>3, <1>5, <1>6, <2>1
  <2>3. i - 1 + n = i + stop /\ n \in 0 .. (l - i + 1) /\ n >= 3 BY ONLY <1>2, <1>4, <1>5, <1>6
  <2> QED BY <1>1, <1>5, <1>6, <2>2, <2>3 DEF Bracketed
<1>7. CASE n = 0
  <2>1. n \in 0 .. (l - i + 1) BY <1>2, <1>7
  <2> QED BY <1>1, <1>7, <2>1 DEF Bracketed
<1> QED BY <1>6, <1>7

\* What is put in their place may stand for them.
LEMMA ScriptTame ==
  ASSUME NEW p \in Seq(Shown), NEW i \in 1 .. Len(p), NEW c \in Starts, NEW n, n > 0,
         Bracketed(p, i, n, c), NEW kind \in LinkParts,
         NEW m, m = SubSeq(p, i, i + n - 1)
  PROVE Tame(Shown, m, Link(Tail(Front(m)), kind, <<>>))
<1>1. n \in 0 .. (Len(p) - i + 1) /\ n >= 3 /\ p[i] = c /\ p[i - 1 + n] = c BY DEF Bracketed
<1>2. n \in 1 .. (Len(p) - i + 1) BY <1>1
<1>3. m \in Seq(Shown) /\ Len(m) = n /\ \A k \in 1 .. n : m[k] = p[i - 1 + k] BY <1>2, PieceLaw
<1>4. 1 \in 1 .. n /\ n \in 1 .. n /\ i - 1 + 1 = i BY <1>1
<1>5. m[1] = c /\ m[n] = c BY <1>1, <1>3, <1>4
<1>6. PICK inner : inner = Tail(Front(m)) OBVIOUS
<1>7. inner \in Seq(Shown) /\ m = <<c>> \o inner \o <<c>>
  <2>1. Len(m) >= 2 BY <1>1, <1>3
  <2>2. inner \in Seq(Shown) /\ Around(m, inner) BY <1>3, <1>6, <2>1, InnerLaw
  <2>3. m[1] = c /\ m[Len(m)] = c BY <1>3, <1>5
  <2>4. m = <<c>> \o inner \o <<c>> BY <2>2, <2>3, Zenon DEF Around
  <2> QED BY <2>2, <2>4
<1>8. p[i] \in Shown OBVIOUS
<1>9. c \in Plain BY <1>1, <1>8, PlainLaw DEF Plain
<1>10. PICK x : x = <<c>> OBVIOUS
<1>11. x \in Seq(Plain) /\ Len(x) > 0 BY <1>9, <1>10
<1>12. PICK a, d, e, q : /\ a = LinkHead /\ d = LinkMid(kind) /\ e = LinkEnd
                         /\ q = Link(inner, kind, <<>>)
  OBVIOUS
<1>13. a \in Seq(Plain) /\ Len(a) > 0 /\ d \in Seq(Plain) /\ e \in Seq(Plain)
  <2>1. LinkHead \in Seq(Plain) /\ Len(LinkHead) = 1 /\ LinkMid(kind) \in Seq(Plain) /\ LinkEnd \in Seq(Plain)
    BY LinkLaw, Zenon
  <2>2. Len(a) = 1 BY <1>12, <2>1
  <2> QED BY <1>12, <2>1, <2>2
<1>14. q = a \o inner \o d \o <<>> \o e BY <1>12, LinkLaw
<1>15. PICK s, t, b, r : s = a \o inner /\ t = s \o d /\ b = d \o e /\ r = x \o inner OBVIOUS
<1>16. a \in Seq(Shown) /\ d \in Seq(Shown) /\ e \in Seq(Shown) BY <1>13, PlainText
<1>17. s \in Seq(Shown) BY <1>7, <1>15, <1>16
<1>18. t \in Seq(Shown) BY <1>15, <1>16, <1>17
<1>19. t \o <<>> = t BY <1>18
<1>20. q = t \o e BY <1>14, <1>15, <1>19
<1>21. (s \o d) \o e = s \o (d \o e) BY ONLY <1>16, <1>17
<1>22. q = s \o b BY <1>15, <1>20, <1>21
<1>23. b \in Seq(Plain) BY <1>13, <1>15
<1>24. Row(r, x, inner) /\ Row(m, r, x) /\ Row(s, a, inner) /\ Row(q, s, b)
  BY <1>7, <1>10, <1>15, <1>22 DEF Row
<1>25. Tame(Shown, m, q) BY <1>7, <1>11, <1>13, <1>23, <1>24, WrapTame
<1> QED BY <1>6, <1>12, <1>25

\* What the passes put for a plain match may stand for it.
LEMMA WithLaw ==
  ASSUME NEW m \in Seq(Plain), Len(m) > 0
  PROVE /\ Tame(Shown, m, MentionLink(m)) /\ Tame(Shown, m, ReferenceLink(m))
        /\ Tame(Shown, m, GlyphLink(m))
        /\ Len(m) # 1 => Tame(Shown, m, EmojiGlyph(m)) /\ Tame(Shown, m, CustomLink(m))
<1>1. PICK k1, k2, k3, k4 : k1 = "mention" /\ k2 = "room" /\ k3 = "glyph" /\ k4 = "emoji" OBVIOUS
<1>2. k1 \in LinkParts /\ k2 \in LinkParts /\ k3 \in LinkParts /\ k4 \in LinkParts
  BY <1>1, Zenon DEF LinkParts
<1>3. Tame(Shown, m, m) BY PlainText, TameSelf
<1>4. ASSUME NEW k \in LinkParts, NEW rest \in Seq(Plain) PROVE Tame(Shown, m, Link(m, k, rest))
  <2>1. PICK q : q = Link(m, k, rest) OBVIOUS
  <2>2. q \in Seq(Plain) /\ Len(q) > 0 BY <1>4, <2>1, LinkPlain
  <2>3. Tame(Shown, m, q) BY <2>2, PlainTame
  <2> QED BY <2>1, <2>3
<1>5. Tail(m) \in Seq(Plain) BY m # <<>>
<1>6. Tame(Shown, m, MentionLink(m))
  <2>1. Tame(Shown, m, Link(m, k1, Tail(m))) BY <1>2, <1>4, <1>5
  <2>2. MentionLink(m) = m \/ MentionLink(m) = Link(m, k1, Tail(m)) BY <1>1, Zenon DEF MentionLink
  <2> QED BY <1>3, <2>1, <2>2, Zenon
<1>7. Tame(Shown, m, ReferenceLink(m))
  <2>1. CASE Tail(m) \in DOMAIN RoomId
    <3>1. PICK r : r = RoomId[Tail(m)] OBVIOUS
    <3>2. r \in Seq(MentionSafe) BY <2>1, <3>1, RenderingAssumption
    <3>3. MentionSafe \subseteq Plain BY PlainLaw
    <3>4. r \in Seq(Plain) BY ONLY <3>2, <3>3
    <3>5. Tame(Shown, m, Link(m, k2, r)) BY <1>2, <1>4, <3>4
    <3>6. ReferenceLink(m) = Link(m, k2, r) BY <1>1, <2>1, <3>1, Zenon DEF ReferenceLink
    <3> QED BY <3>5, <3>6, Zenon
  <2>2. CASE Tail(m) \notin DOMAIN RoomId
    <3>1. ReferenceLink(m) = m BY <2>2, Zenon DEF ReferenceLink
    <3> QED BY <1>3, <3>1, Zenon
  <2> QED BY <2>1, <2>2
<1>8. Tame(Shown, m, GlyphLink(m))
  <2>1. <<>> \in Seq(Plain) OBVIOUS
  <2>2. Tame(Shown, m, Link(m, k3, <<>>)) BY <1>2, <1>4, <2>1
  <2>3. GlyphLink(m) = Link(m, k3, <<>>) BY <1>1, Zenon DEF GlyphLink
  <2> QED BY <2>2, <2>3, Zenon
<1>9. CASE Len(m) # 1
  <2>1. PICK name : name = Tail(Front(m)) OBVIOUS
  <2>2. Len(m) >= 2
    <3>1. PICK l : l = Len(m) OBVIOUS
    <3>2. l \in Nat /\ l > 0 BY <3>1
    <3>3. l # 1 BY <1>9, <3>1
    <3>4. l >= 2 BY ONLY <3>2, <3>3
    <3> QED BY <3>1, <3>4
  <2>3. name \in Seq(Plain) BY <2>1, <2>2, InnerLaw
  <2>4. Tame(Shown, m, CustomLink(m))
    <3>1. Tame(Shown, m, Link(m, k4, name)) BY <1>2, <1>4, <2>3
    <3>2. CustomLink(m) = m \/ CustomLink(m) = Link(m, k4, name) BY <1>1, <2>1, Zenon DEF CustomLink
    <3> QED BY <1>3, <3>1, <3>2, Zenon
  <2>5. Tame(Shown, m, EmojiGlyph(m))
    <3>1. CASE name \in DOMAIN BuiltIn
      <4>1. PICK g, q : g = BuiltIn[name] /\ q = <<g>> OBVIOUS
      <4>2. g \in {BuiltIn[n] : n \in DOMAIN BuiltIn} BY <3>1, <4>1
      <4>3. {BuiltIn[n] : n \in DOMAIN BuiltIn} \subseteq Plain BY PlainLaw
      <4>4. q \in Seq(Plain) /\ Len(q) > 0 BY <4>1, <4>2, <4>3
      <4>5. Tame(Shown, m, q) BY <4>4, PlainTame
      <4>6. EmojiGlyph(m) = q BY <2>1, <3>1, <4>1, Zenon DEF EmojiGlyph
      <4> QED BY <4>5, <4>6, Zenon
    <3>2. CASE name \notin DOMAIN BuiltIn
      <4>1. EmojiGlyph(m) = m BY <2>1, <3>2, Zenon DEF EmojiGlyph
      <4> QED BY <1>3, <4>1, Zenon
    <3> QED BY <3>1, <3>2
  <2> QED BY <1>6, <1>7, <1>8, <2>4, <2>5
<1> QED BY <1>6, <1>7, <1>8, <1>9

\* The matches of the first five passes are plain.
LEMMA PlainMatches ==
  ASSUME NEW p \in Seq(Shown), NEW i \in 1 .. Len(p)
  PROVE /\ PlainAt(p, i, MentionAt(p, i)) /\ PlainAt(p, i, ReferenceAt(p, i))
        /\ PlainAt(p, i, EmojiAt(p, i)) /\ EmojiAt(p, i) # 1
        /\ PlainAt(p, i, CustomAt(p, i)) /\ CustomAt(p, i) # 1
        /\ PlainAt(p, i, GlyphAt(p, i))
<1>1. PICK a, h, u : a = "@" /\ h = "#" /\ u = "+" OBVIOUS
<1>2. a \in Triggers /\ h \in Triggers BY <1>1, Zenon DEF Triggers
<1>3. MentionAt(p, i) = TokenAt(p, i, a) /\ ReferenceAt(p, i) = TokenAt(p, i, h)
  BY <1>1, Zenon DEF MentionAt, ReferenceAt
<1>4. PlainAt(p, i, TokenAt(p, i, a)) /\ PlainAt(p, i, TokenAt(p, i, h)) BY <1>2, TokenLaw
<1>5. EmojiSafe \subseteq Plain /\ EmojiSafe \ {u} \subseteq Plain /\ Glyphs \subseteq Plain BY PlainLaw
<1>6. EmojiAt(p, i) = ShortcodeAt(p, i, EmojiSafe) /\ CustomAt(p, i) = ShortcodeAt(p, i, EmojiSafe \ {u})
  BY <1>1, Zenon DEF EmojiAt, CustomAt
<1>7. /\ PlainAt(p, i, ShortcodeAt(p, i, EmojiSafe)) /\ ShortcodeAt(p, i, EmojiSafe) # 1
      /\ PlainAt(p, i, ShortcodeAt(p, i, EmojiSafe \ {u})) /\ ShortcodeAt(p, i, EmojiSafe \ {u}) # 1
  BY <1>5, ShortcodeLaw
<1>8. PlainAt(p, i, GlyphAt(p, i))
  <2>1. PICK n, l : n = GlyphAt(p, i) /\ l = Len(p) OBVIOUS
  <2>2. l \in Nat /\ i \in 1 .. l BY <2>1
  <2>3. CASE p[i] \in Glyphs
    <3>1. n = 1 BY <2>1, <2>2, <2>3 DEF GlyphAt
    <3>2. n \in 1 .. (l - i + 1) /\ n \in 0 .. (l - i + 1) BY ONLY <2>2, <3>1
    <3>3. Each(p, i, n, Plain)
      <4>1. ASSUME NEW k \in 1 .. n PROVE p[i - 1 + k] \in Plain
        <5>1. i - 1 + k = i BY <2>2, <3>1
        <5> QED BY <1>5, <2>3, <5>1
      <4> QED BY <4>1 DEF Each
    <3>4. n \in 1 .. (Len(p) - i + 1) BY <2>1, <3>2
    <3>5. SubSeq(p, i, i + n - 1) \in Seq(Plain) /\ Len(SubSeq(p, i, i + n - 1)) = n
      BY <3>3, <3>4, PieceOf
    <3> QED BY <2>1, <3>2, <3>5 DEF PlainAt
  <2>4. CASE p[i] \notin Glyphs
    <3>1. n = 0 BY <2>1, <2>4 DEF GlyphAt
    <3>2. n \in 0 .. (l - i + 1) BY ONLY <2>2, <3>1
    <3> QED BY <2>1, <3>1, <3>2 DEF PlainAt
  <2> QED BY <2>3, <2>4
<1> QED BY <1>3, <1>4, <1>6, <1>7, <1>8

\* What stands at i afterwards, where the match has n characters.
Answered(p, i, n, q) ==
  /\ n \in 0 .. (Len(p) - i + 1)
  /\ n = 0 => q = <<p[i]>>
  /\ n > 0 => Tame(Shown, SubSeq(p, i, i + n - 1), q)

\* A text with its mentions put as links may stand for the text.
LEMMA MentionConvert ==
  ASSUME NEW p \in Seq(Shown)
  PROVE Tame(Shown, p, Substitute(p, MentionAt, MentionLink))
<1>1. PICK match : match = [i \in DOMAIN p |-> MentionAt(p, i)] OBVIOUS
<1>2. PICK put : put = [i \in DOMAIN p |->
                          IF match[i] = 0 THEN <<p[i]>> ELSE MentionLink(SubSeq(p, i, i + match[i] - 1))]
  OBVIOUS
<1>3. Substitute(p, MentionAt, MentionLink) = Replaced(p, match, put)
  BY <1>1, <1>2, Zenon DEF Substitute
<1>4. ASSUME NEW i \in 1 .. Len(p) PROVE Answered(p, i, match[i], put[i])
  <2>1. PICK n, q, m : n = match[i] /\ q = put[i] /\ m = SubSeq(p, i, i + n - 1) OBVIOUS
  <2>2. i \in DOMAIN p OBVIOUS
  <2>3. n = MentionAt(p, i) BY <1>1, <2>1, <2>2
  <2>4. q = IF n = 0 THEN <<p[i]>> ELSE MentionLink(m) BY <1>2, <2>1, <2>2
  <2>5. n \in 0 .. (Len(p) - i + 1) /\ (n > 0 => m \in Seq(Plain) /\ Len(m) = n)
    BY <2>1, <2>3, PlainMatches DEF PlainAt
  <2>6. n > 0 => Tame(Shown, m, MentionLink(m)) BY <2>5, WithLaw
  <2> QED BY <2>1, <2>4, <2>5, <2>6 DEF Answered
<1>5. \A i \in 1 .. Len(p) :
        /\ match[i] \in 0 .. (Len(p) - i + 1)
        /\ match[i] = 0 => put[i] = <<p[i]>>
        /\ match[i] > 0 => Tame(Shown, SubSeq(p, i, i + match[i] - 1), put[i])
  BY <1>4 DEF Answered
<1> HIDE DEF Answered
<1>6. Tame(Shown, p, Replaced(p, match, put)) BY ONLY p \in Seq(Shown), <1>5, AnswersLaw
<1> QED BY <1>3, <1>6

\* A text with its room references put as links may stand for the text.
LEMMA ReferenceConvert ==
  ASSUME NEW p \in Seq(Shown)
  PROVE Tame(Shown, p, Substitute(p, ReferenceAt, ReferenceLink))
<1>1. PICK match : match = [i \in DOMAIN p |-> ReferenceAt(p, i)] OBVIOUS
<1>2. PICK put : put = [i \in DOMAIN p |->
                          IF match[i] = 0 THEN <<p[i]>> ELSE ReferenceLink(SubSeq(p, i, i + match[i] - 1))]
  OBVIOUS
<1>3. Substitute(p, ReferenceAt, ReferenceLink) = Replaced(p, match, put)
  BY <1>1, <1>2, Zenon DEF Substitute
<1>4. ASSUME NEW i \in 1 .. Len(p) PROVE Answered(p, i, match[i], put[i])
  <2>1. PICK n, q, m : n = match[i] /\ q = put[i] /\ m = SubSeq(p, i, i + n - 1) OBVIOUS
  <2>2. i \in DOMAIN p OBVIOUS
  <2>3. n = ReferenceAt(p, i) BY <1>1, <2>1, <2>2
  <2>4. q = IF n = 0 THEN <<p[i]>> ELSE ReferenceLink(m) BY <1>2, <2>1, <2>2
  <2>5. n \in 0 .. (Len(p) - i + 1) /\ (n > 0 => m \in Seq(Plain) /\ Len(m) = n)
    BY <2>1, <2>3, PlainMatches DEF PlainAt
  <2>6. n > 0 => Tame(Shown, m, ReferenceLink(m)) BY <2>5, WithLaw
  <2> QED BY <2>1, <2>4, <2>5, <2>6 DEF Answered
<1>5. \A i \in 1 .. Len(p) :
        /\ match[i] \in 0 .. (Len(p) - i + 1)
        /\ match[i] = 0 => put[i] = <<p[i]>>
        /\ match[i] > 0 => Tame(Shown, SubSeq(p, i, i + match[i] - 1), put[i])
  BY <1>4 DEF Answered
<1> HIDE DEF Answered
<1>6. Tame(Shown, p, Replaced(p, match, put)) BY ONLY p \in Seq(Shown), <1>5, AnswersLaw
<1> QED BY <1>3, <1>6

\* A text with glyphs for emoji names may stand for the text.
LEMMA EmojiConvert ==
  ASSUME NEW p \in Seq(Shown)
  PROVE Tame(Shown, p, Substitute(p, EmojiAt, EmojiGlyph))
<1>1. PICK match : match = [i \in DOMAIN p |-> EmojiAt(p, i)] OBVIOUS
<1>2. PICK put : put = [i \in DOMAIN p |->
                          IF match[i] = 0 THEN <<p[i]>> ELSE EmojiGlyph(SubSeq(p, i, i + match[i] - 1))]
  OBVIOUS
<1>3. Substitute(p, EmojiAt, EmojiGlyph) = Replaced(p, match, put)
  BY <1>1, <1>2, Zenon DEF Substitute
<1>4. ASSUME NEW i \in 1 .. Len(p) PROVE Answered(p, i, match[i], put[i])
  <2>1. PICK n, q, m : n = match[i] /\ q = put[i] /\ m = SubSeq(p, i, i + n - 1) OBVIOUS
  <2>2. i \in DOMAIN p OBVIOUS
  <2>3. n = EmojiAt(p, i) BY <1>1, <2>1, <2>2
  <2>4. q = IF n = 0 THEN <<p[i]>> ELSE EmojiGlyph(m) BY <1>2, <2>1, <2>2
  <2>5. n \in 0 .. (Len(p) - i + 1) /\ (n > 0 => m \in Seq(Plain) /\ Len(m) = n) /\ n # 1
    BY <2>1, <2>3, PlainMatches DEF PlainAt
  <2>6. n > 0 => Tame(Shown, m, EmojiGlyph(m)) BY <2>5, WithLaw
  <2> QED BY <2>1, <2>4, <2>5, <2>6 DEF Answered
<1>5. \A i \in 1 .. Len(p) :
        /\ match[i] \in 0 .. (Len(p) - i + 1)
        /\ match[i] = 0 => put[i] = <<p[i]>>
        /\ match[i] > 0 => Tame(Shown, SubSeq(p, i, i + match[i] - 1), put[i])
  BY <1>4 DEF Answered
<1> HIDE DEF Answered
<1>6. Tame(Shown, p, Replaced(p, match, put)) BY ONLY p \in Seq(Shown), <1>5, AnswersLaw
<1> QED BY <1>3, <1>6

\* A text with the installation's emoji put as links may stand for the text.
LEMMA CustomConvert ==
  ASSUME NEW p \in Seq(Shown)
  PROVE Tame(Shown, p, Substitute(p, CustomAt, CustomLink))
<1>1. PICK match : match = [i \in DOMAIN p |-> CustomAt(p, i)] OBVIOUS
<1>2. PICK put : put = [i \in DOMAIN p |->
                          IF match[i] = 0 THEN <<p[i]>> ELSE CustomLink(SubSeq(p, i, i + match[i] - 1))]
  OBVIOUS
<1>3. Substitute(p, CustomAt, CustomLink) = Replaced(p, match, put)
  BY <1>1, <1>2, Zenon DEF Substitute
<1>4. ASSUME NEW i \in 1 .. Len(p) PROVE Answered(p, i, match[i], put[i])
  <2>1. PICK n, q, m : n = match[i] /\ q = put[i] /\ m = SubSeq(p, i, i + n - 1) OBVIOUS
  <2>2. i \in DOMAIN p OBVIOUS
  <2>3. n = CustomAt(p, i) BY <1>1, <2>1, <2>2
  <2>4. q = IF n = 0 THEN <<p[i]>> ELSE CustomLink(m) BY <1>2, <2>1, <2>2
  <2>5. n \in 0 .. (Len(p) - i + 1) /\ (n > 0 => m \in Seq(Plain) /\ Len(m) = n) /\ n # 1
    BY <2>1, <2>3, PlainMatches DEF PlainAt
  <2>6. n > 0 => Tame(Shown, m, CustomLink(m)) BY <2>5, WithLaw
  <2> QED BY <2>1, <2>4, <2>5, <2>6 DEF Answered
<1>5. \A i \in 1 .. Len(p) :
        /\ match[i] \in 0 .. (Len(p) - i + 1)
        /\ match[i] = 0 => put[i] = <<p[i]>>
        /\ match[i] > 0 => Tame(Shown, SubSeq(p, i, i + match[i] - 1), put[i])
  BY <1>4 DEF Answered
<1> HIDE DEF Answered
<1>6. Tame(Shown, p, Replaced(p, match, put)) BY ONLY p \in Seq(Shown), <1>5, AnswersLaw
<1> QED BY <1>3, <1>6

\* A text with its pictographs put as links may stand for the text.
LEMMA GlyphConvert ==
  ASSUME NEW p \in Seq(Shown)
  PROVE Tame(Shown, p, Substitute(p, GlyphAt, GlyphLink))
<1>1. PICK match : match = [i \in DOMAIN p |-> GlyphAt(p, i)] OBVIOUS
<1>2. PICK put : put = [i \in DOMAIN p |->
                          IF match[i] = 0 THEN <<p[i]>> ELSE GlyphLink(SubSeq(p, i, i + match[i] - 1))]
  OBVIOUS
<1>3. Substitute(p, GlyphAt, GlyphLink) = Replaced(p, match, put)
  BY <1>1, <1>2, Zenon DEF Substitute
<1>4. ASSUME NEW i \in 1 .. Len(p) PROVE Answered(p, i, match[i], put[i])
  <2>1. PICK n, q, m : n = match[i] /\ q = put[i] /\ m = SubSeq(p, i, i + n - 1) OBVIOUS
  <2>2. i \in DOMAIN p OBVIOUS
  <2>3. n = GlyphAt(p, i) BY <1>1, <2>1, <2>2
  <2>4. q = IF n = 0 THEN <<p[i]>> ELSE GlyphLink(m) BY <1>2, <2>1, <2>2
  <2>5. n \in 0 .. (Len(p) - i + 1) /\ (n > 0 => m \in Seq(Plain) /\ Len(m) = n)
    BY <2>1, <2>3, PlainMatches DEF PlainAt
  <2>6. n > 0 => Tame(Shown, m, GlyphLink(m)) BY <2>5, WithLaw
  <2> QED BY <2>1, <2>4, <2>5, <2>6 DEF Answered
<1>5. \A i \in 1 .. Len(p) :
        /\ match[i] \in 0 .. (Len(p) - i + 1)
        /\ match[i] = 0 => put[i] = <<p[i]>>
        /\ match[i] > 0 => Tame(Shown, SubSeq(p, i, i + match[i] - 1), put[i])
  BY <1>4 DEF Answered
<1> HIDE DEF Answered
<1>6. Tame(Shown, p, Replaced(p, match, put)) BY ONLY p \in Seq(Shown), <1>5, AnswersLaw
<1> QED BY <1>3, <1>6

\* A text with its subscripts put as links may stand for the text.
LEMMA SubConvert ==
  ASSUME NEW p \in Seq(Shown)
  PROVE Tame(Shown, p, Substitute(p, SubAt, SubLink))
<1>1. PICK match : match = [i \in DOMAIN p |-> SubAt(p, i)] OBVIOUS
<1>2. PICK put : put = [i \in DOMAIN p |->
                          IF match[i] = 0 THEN <<p[i]>> ELSE SubLink(SubSeq(p, i, i + match[i] - 1))]
  OBVIOUS
<1>3. Substitute(p, SubAt, SubLink) = Replaced(p, match, put)
  BY <1>1, <1>2, Zenon DEF Substitute
<1>4. ASSUME NEW i \in 1 .. Len(p) PROVE Answered(p, i, match[i], put[i])
  <2>1. PICK n, q, m : n = match[i] /\ q = put[i] /\ m = SubSeq(p, i, i + n - 1) OBVIOUS
  <2>2. i \in DOMAIN p OBVIOUS
  <2>3. n = SubAt(p, i) BY <1>1, <2>1, <2>2
  <2>4. q = IF n = 0 THEN <<p[i]>> ELSE SubLink(m) BY <1>2, <2>1, <2>2
  <2>5. n \in 0 .. (Len(p) - i + 1) /\ (n > 0 => Tame(Shown, m, SubLink(m)))
    <3>1. PICK c, k : c = "~" /\ k = "sub" OBVIOUS
    <3>2. c \in Starts /\ k \in LinkParts BY <3>1, Zenon DEF Starts, LinkParts
    <3>3. n = ScriptAt(p, i, c) BY <2>3, <3>1, Zenon DEF SubAt
    <3>4. Bracketed(p, i, n, c) BY <3>3, ScriptLaw
    <3>5. n > 0 => Tame(Shown, m, Link(Tail(Front(m)), k, <<>>)) BY <2>1, <3>2, <3>4, ScriptTame
    <3>6. SubLink(m) = Link(Tail(Front(m)), k, <<>>) BY <3>1, Zenon DEF SubLink
    <3>7. n \in 0 .. (Len(p) - i + 1) BY <3>4 DEF Bracketed
    <3> QED BY <3>5, <3>6, <3>7
  <2>6. n > 0 => Tame(Shown, m, SubLink(m)) BY <2>5
  <2> QED BY <2>1, <2>4, <2>5, <2>6 DEF Answered
<1>5. \A i \in 1 .. Len(p) :
        /\ match[i] \in 0 .. (Len(p) - i + 1)
        /\ match[i] = 0 => put[i] = <<p[i]>>
        /\ match[i] > 0 => Tame(Shown, SubSeq(p, i, i + match[i] - 1), put[i])
  BY <1>4 DEF Answered
<1> HIDE DEF Answered
<1>6. Tame(Shown, p, Replaced(p, match, put)) BY ONLY p \in Seq(Shown), <1>5, AnswersLaw
<1> QED BY <1>3, <1>6

\* A text with its superscripts put as links may stand for the text.
LEMMA SupConvert ==
  ASSUME NEW p \in Seq(Shown)
  PROVE Tame(Shown, p, Substitute(p, SupAt, SupLink))
<1>1. PICK match : match = [i \in DOMAIN p |-> SupAt(p, i)] OBVIOUS
<1>2. PICK put : put = [i \in DOMAIN p |->
                          IF match[i] = 0 THEN <<p[i]>> ELSE SupLink(SubSeq(p, i, i + match[i] - 1))]
  OBVIOUS
<1>3. Substitute(p, SupAt, SupLink) = Replaced(p, match, put)
  BY <1>1, <1>2, Zenon DEF Substitute
<1>4. ASSUME NEW i \in 1 .. Len(p) PROVE Answered(p, i, match[i], put[i])
  <2>1. PICK n, q, m : n = match[i] /\ q = put[i] /\ m = SubSeq(p, i, i + n - 1) OBVIOUS
  <2>2. i \in DOMAIN p OBVIOUS
  <2>3. n = SupAt(p, i) BY <1>1, <2>1, <2>2
  <2>4. q = IF n = 0 THEN <<p[i]>> ELSE SupLink(m) BY <1>2, <2>1, <2>2
  <2>5. n \in 0 .. (Len(p) - i + 1) /\ (n > 0 => Tame(Shown, m, SupLink(m)))
    <3>1. PICK c, k : c = "^" /\ k = "sup" OBVIOUS
    <3>2. c \in Starts /\ k \in LinkParts BY <3>1, Zenon DEF Starts, LinkParts
    <3>3. n = ScriptAt(p, i, c) BY <2>3, <3>1, Zenon DEF SupAt
    <3>4. Bracketed(p, i, n, c) BY <3>3, ScriptLaw
    <3>5. n > 0 => Tame(Shown, m, Link(Tail(Front(m)), k, <<>>)) BY <2>1, <3>2, <3>4, ScriptTame
    <3>6. SupLink(m) = Link(Tail(Front(m)), k, <<>>) BY <3>1, Zenon DEF SupLink
    <3>7. n \in 0 .. (Len(p) - i + 1) BY <3>4 DEF Bracketed
    <3> QED BY <3>5, <3>6, <3>7
  <2>6. n > 0 => Tame(Shown, m, SupLink(m)) BY <2>5
  <2> QED BY <2>1, <2>4, <2>5, <2>6 DEF Answered
<1>5. \A i \in 1 .. Len(p) :
        /\ match[i] \in 0 .. (Len(p) - i + 1)
        /\ match[i] = 0 => put[i] = <<p[i]>>
        /\ match[i] > 0 => Tame(Shown, SubSeq(p, i, i + match[i] - 1), put[i])
  BY <1>4 DEF Answered
<1> HIDE DEF Answered
<1>6. Tame(Shown, p, Replaced(p, match, put)) BY ONLY p \in Seq(Shown), <1>5, AnswersLaw
<1> QED BY <1>3, <1>6

\* A line break and a blank are characters that are shown.
LEMMA ShownBlanks == Newline \in Shown /\ Space \in Shown
<1>1. Blank \subseteq Char
  <2>1. Blank \subseteq ToolbarChars BY Zenon DEF ToolbarChars
  <2> QED BY <2>1, EditorAssumption
<1>2. Newline \in Blank /\ Space \in Blank BY Zenon DEF Blank, Newline, Space
<1> QED BY <1>1, <1>2 DEF Shown

\* The pass that converts by c what is outside code.
Line(c) == [l \in Seq(Shown) |-> Mapped(Parts(l), c)]
PassText(v, c) == JoinLines(ByLine(SplitLines(v), Line(c)))

\* It leaves the code of a text as it is.
LEMMA PassLaw ==
  ASSUME NEW v \in Seq(Shown), NEW c, Converts(Shown, c)
  PROVE PassText(v, c) \in Seq(Shown) /\ CodeOf(PassText(v, c)) = CodeOf(v)
<1>1. PICK d, ls, ms : d = Line(c) /\ ls = SplitLines(v) /\ ms = ByLine(ls, d) OBVIOUS
<1>2. ASSUME NEW l \in Seq(Shown)
      PROVE d[l] \in Seq(Shown) /\ SameCode(l, d[l]) /\ (OneLine(l) => OneLine(d[l]))
  <2>1. d[l] = Mapped(Parts(l), c) BY <1>1 DEF Line
  <2>2. Tame(Shown, l, d[l]) /\ SameCode(l, d[l]) BY <2>1, ConvertedLine
  <2> QED BY <2>2 DEF Tame
<1>3. LineWise(Shown, d) BY <1>2 DEF LineWise
<1>4. AllLines(Shown, ls) BY <1>1, SplitLaw
<1>5. Passed(Shown, ls, ms) BY <1>1, <1>3, <1>4, LinesPass
<1>6. Passed(Shown, SplitLines(v), ms) BY <1>1, <1>5
<1>7. JoinLines(ms) \in Seq(Shown) /\ CodeOf(JoinLines(ms)) = CodeOf(v)
  BY <1>6, ShownBlanks, PassKeeps
<1> QED BY <1>1, <1>7 DEF PassText

\* HighlightMentions leaves it as it is.
LEMMA MentionPass ==
  ASSUME NEW v \in Seq(Shown)
  PROVE HighlightMentions(v) \in Seq(Shown) /\ CodeOf(HighlightMentions(v)) = CodeOf(v)
<1> DEFINE Put(p) == Substitute(p, MentionAt, MentionLink)
<1>1. \A p \in Seq(Shown) : Tame(Shown, p, Put(p)) BY MentionConvert
<1>2. PICK ls : ls = SplitLines(v) OBVIOUS
<1>3. HighlightMentions(v) = JoinLines([i \in DOMAIN ls |->
        IF Fenced(ls, i) THEN ls[i] ELSE Odd(Parts(ls[i]), Put)])
  BY <1>2, Zenon DEF HighlightMentions, OutsideCode, Unfenced, Odd
<1> HIDE DEF Put
<1>4. PICK c : c = [p \in Seq(Shown) |-> Put(p)] OBVIOUS
<1>5. Converts(Shown, c) BY <1>1, <1>4 DEF Converts
<1>6. ASSUME NEW l \in Seq(Shown) PROVE Odd(Parts(l), Put) = Line(c)[l]
  <2>1. PICK ps : ps = Parts(l) OBVIOUS
  <2>2. ps \in Seq(Seq(Shown)) BY <2>1, PartsTyped
  <2>3. \A k \in DOMAIN ps : ps[k] \in Seq(Shown)
    <3>1. PICK R : R = Seq(Shown) OBVIOUS
    <3>2. ps \in Seq(R) BY <2>2, <3>1
    <3>3. \A k \in DOMAIN ps : ps[k] \in R BY ONLY <3>2
    <3> QED BY <3>1, <3>3
  <2>4. \A k \in DOMAIN ps : Put(ps[k]) = c[ps[k]] BY <1>4, <2>3
  <2>5. [k \in DOMAIN ps |-> IF k % 2 = 1 THEN Put(ps[k]) ELSE ps[k]] = Converted(ps, c)
    BY ONLY <2>4 DEF Converted
  <2>6. Odd(ps, Put) = Mapped(ps, c) BY <2>5, Zenon DEF Odd, Mapped
  <2>7. Line(c)[l] = Mapped(Parts(l), c) BY DEF Line
  <2> QED BY <2>1, <2>6, <2>7
<1>7. \A i \in DOMAIN ls : ls[i] \in Seq(Shown)
  <2>1. PICK R : R = Seq(Shown) OBVIOUS
  <2>2. AllLines(Shown, ls) BY <1>2, SplitLaw
  <2>3. ls \in Seq(R) BY <2>1, <2>2 DEF AllLines
  <2>4. \A i \in DOMAIN ls : ls[i] \in R BY ONLY <2>3
  <2> QED BY <2>1, <2>4
<1>8. \A i \in DOMAIN ls : Odd(Parts(ls[i]), Put) = Line(c)[ls[i]] BY <1>6, <1>7, Zenon
<1>9. [i \in DOMAIN ls |-> IF Fenced(ls, i) THEN ls[i] ELSE Odd(Parts(ls[i]), Put)]
        = ByLine(ls, Line(c))
  BY ONLY <1>8, Zenon DEF ByLine
<1>10. HighlightMentions(v) = PassText(v, c) BY <1>2, <1>3, <1>9, Zenon DEF PassText
<1> QED BY <1>5, <1>10, PassLaw

\* HighlightRoomReferences leaves it as it is.
LEMMA ReferencePass ==
  ASSUME NEW v \in Seq(Shown)
  PROVE HighlightRoomReferences(v) \in Seq(Shown) /\ CodeOf(HighlightRoomReferences(v)) = CodeOf(v)
<1> DEFINE Put(p) == Substitute(p, ReferenceAt, ReferenceLink)
<1>1. \A p \in Seq(Shown) : Tame(Shown, p, Put(p)) BY ReferenceConvert
<1>2. PICK ls : ls = SplitLines(v) OBVIOUS
<1>3. HighlightRoomReferences(v) = JoinLines([i \in DOMAIN ls |->
        IF Fenced(ls, i) THEN ls[i] ELSE Odd(Parts(ls[i]), Put)])
  BY <1>2, Zenon DEF HighlightRoomReferences, OutsideCode, Unfenced, Odd
<1> HIDE DEF Put
<1>4. PICK c : c = [p \in Seq(Shown) |-> Put(p)] OBVIOUS
<1>5. Converts(Shown, c) BY <1>1, <1>4 DEF Converts
<1>6. ASSUME NEW l \in Seq(Shown) PROVE Odd(Parts(l), Put) = Line(c)[l]
  <2>1. PICK ps : ps = Parts(l) OBVIOUS
  <2>2. ps \in Seq(Seq(Shown)) BY <2>1, PartsTyped
  <2>3. \A k \in DOMAIN ps : ps[k] \in Seq(Shown)
    <3>1. PICK R : R = Seq(Shown) OBVIOUS
    <3>2. ps \in Seq(R) BY <2>2, <3>1
    <3>3. \A k \in DOMAIN ps : ps[k] \in R BY ONLY <3>2
    <3> QED BY <3>1, <3>3
  <2>4. \A k \in DOMAIN ps : Put(ps[k]) = c[ps[k]] BY <1>4, <2>3
  <2>5. [k \in DOMAIN ps |-> IF k % 2 = 1 THEN Put(ps[k]) ELSE ps[k]] = Converted(ps, c)
    BY ONLY <2>4 DEF Converted
  <2>6. Odd(ps, Put) = Mapped(ps, c) BY <2>5, Zenon DEF Odd, Mapped
  <2>7. Line(c)[l] = Mapped(Parts(l), c) BY DEF Line
  <2> QED BY <2>1, <2>6, <2>7
<1>7. \A i \in DOMAIN ls : ls[i] \in Seq(Shown)
  <2>1. PICK R : R = Seq(Shown) OBVIOUS
  <2>2. AllLines(Shown, ls) BY <1>2, SplitLaw
  <2>3. ls \in Seq(R) BY <2>1, <2>2 DEF AllLines
  <2>4. \A i \in DOMAIN ls : ls[i] \in R BY ONLY <2>3
  <2> QED BY <2>1, <2>4
<1>8. \A i \in DOMAIN ls : Odd(Parts(ls[i]), Put) = Line(c)[ls[i]] BY <1>6, <1>7, Zenon
<1>9. [i \in DOMAIN ls |-> IF Fenced(ls, i) THEN ls[i] ELSE Odd(Parts(ls[i]), Put)]
        = ByLine(ls, Line(c))
  BY ONLY <1>8, Zenon DEF ByLine
<1>10. HighlightRoomReferences(v) = PassText(v, c) BY <1>2, <1>3, <1>9, Zenon DEF PassText
<1> QED BY <1>5, <1>10, PassLaw

\* ConvertShortcodes leaves it as it is.
LEMMA EmojiPass ==
  ASSUME NEW v \in Seq(Shown)
  PROVE ConvertShortcodes(v) \in Seq(Shown) /\ CodeOf(ConvertShortcodes(v)) = CodeOf(v)
<1> DEFINE Put(p) == Substitute(p, EmojiAt, EmojiGlyph)
<1>1. \A p \in Seq(Shown) : Tame(Shown, p, Put(p)) BY EmojiConvert
<1>2. PICK ls : ls = SplitLines(v) OBVIOUS
<1>3. ConvertShortcodes(v) = JoinLines([i \in DOMAIN ls |->
        IF Fenced(ls, i) THEN ls[i] ELSE Odd(Parts(ls[i]), Put)])
  BY <1>2, Zenon DEF ConvertShortcodes, OutsideCode, Unfenced, Odd
<1> HIDE DEF Put
<1>4. PICK c : c = [p \in Seq(Shown) |-> Put(p)] OBVIOUS
<1>5. Converts(Shown, c) BY <1>1, <1>4 DEF Converts
<1>6. ASSUME NEW l \in Seq(Shown) PROVE Odd(Parts(l), Put) = Line(c)[l]
  <2>1. PICK ps : ps = Parts(l) OBVIOUS
  <2>2. ps \in Seq(Seq(Shown)) BY <2>1, PartsTyped
  <2>3. \A k \in DOMAIN ps : ps[k] \in Seq(Shown)
    <3>1. PICK R : R = Seq(Shown) OBVIOUS
    <3>2. ps \in Seq(R) BY <2>2, <3>1
    <3>3. \A k \in DOMAIN ps : ps[k] \in R BY ONLY <3>2
    <3> QED BY <3>1, <3>3
  <2>4. \A k \in DOMAIN ps : Put(ps[k]) = c[ps[k]] BY <1>4, <2>3
  <2>5. [k \in DOMAIN ps |-> IF k % 2 = 1 THEN Put(ps[k]) ELSE ps[k]] = Converted(ps, c)
    BY ONLY <2>4 DEF Converted
  <2>6. Odd(ps, Put) = Mapped(ps, c) BY <2>5, Zenon DEF Odd, Mapped
  <2>7. Line(c)[l] = Mapped(Parts(l), c) BY DEF Line
  <2> QED BY <2>1, <2>6, <2>7
<1>7. \A i \in DOMAIN ls : ls[i] \in Seq(Shown)
  <2>1. PICK R : R = Seq(Shown) OBVIOUS
  <2>2. AllLines(Shown, ls) BY <1>2, SplitLaw
  <2>3. ls \in Seq(R) BY <2>1, <2>2 DEF AllLines
  <2>4. \A i \in DOMAIN ls : ls[i] \in R BY ONLY <2>3
  <2> QED BY <2>1, <2>4
<1>8. \A i \in DOMAIN ls : Odd(Parts(ls[i]), Put) = Line(c)[ls[i]] BY <1>6, <1>7, Zenon
<1>9. [i \in DOMAIN ls |-> IF Fenced(ls, i) THEN ls[i] ELSE Odd(Parts(ls[i]), Put)]
        = ByLine(ls, Line(c))
  BY ONLY <1>8, Zenon DEF ByLine
<1>10. ConvertShortcodes(v) = PassText(v, c) BY <1>2, <1>3, <1>9, Zenon DEF PassText
<1> QED BY <1>5, <1>10, PassLaw

\* ConvertCustomEmoji leaves it as it is.
LEMMA CustomPass ==
  ASSUME NEW v \in Seq(Shown)
  PROVE ConvertCustomEmoji(v) \in Seq(Shown) /\ CodeOf(ConvertCustomEmoji(v)) = CodeOf(v)
<1> DEFINE Put(p) == Substitute(p, CustomAt, CustomLink)
<1>1. \A p \in Seq(Shown) : Tame(Shown, p, Put(p)) BY CustomConvert
<1>2. PICK ls : ls = SplitLines(v) OBVIOUS
<1>3. ConvertCustomEmoji(v) = JoinLines([i \in DOMAIN ls |->
        IF Fenced(ls, i) THEN ls[i] ELSE Odd(Parts(ls[i]), Put)])
  BY <1>2, Zenon DEF ConvertCustomEmoji, OutsideCode, Unfenced, Odd
<1> HIDE DEF Put
<1>4. PICK c : c = [p \in Seq(Shown) |-> Put(p)] OBVIOUS
<1>5. Converts(Shown, c) BY <1>1, <1>4 DEF Converts
<1>6. ASSUME NEW l \in Seq(Shown) PROVE Odd(Parts(l), Put) = Line(c)[l]
  <2>1. PICK ps : ps = Parts(l) OBVIOUS
  <2>2. ps \in Seq(Seq(Shown)) BY <2>1, PartsTyped
  <2>3. \A k \in DOMAIN ps : ps[k] \in Seq(Shown)
    <3>1. PICK R : R = Seq(Shown) OBVIOUS
    <3>2. ps \in Seq(R) BY <2>2, <3>1
    <3>3. \A k \in DOMAIN ps : ps[k] \in R BY ONLY <3>2
    <3> QED BY <3>1, <3>3
  <2>4. \A k \in DOMAIN ps : Put(ps[k]) = c[ps[k]] BY <1>4, <2>3
  <2>5. [k \in DOMAIN ps |-> IF k % 2 = 1 THEN Put(ps[k]) ELSE ps[k]] = Converted(ps, c)
    BY ONLY <2>4 DEF Converted
  <2>6. Odd(ps, Put) = Mapped(ps, c) BY <2>5, Zenon DEF Odd, Mapped
  <2>7. Line(c)[l] = Mapped(Parts(l), c) BY DEF Line
  <2> QED BY <2>1, <2>6, <2>7
<1>7. \A i \in DOMAIN ls : ls[i] \in Seq(Shown)
  <2>1. PICK R : R = Seq(Shown) OBVIOUS
  <2>2. AllLines(Shown, ls) BY <1>2, SplitLaw
  <2>3. ls \in Seq(R) BY <2>1, <2>2 DEF AllLines
  <2>4. \A i \in DOMAIN ls : ls[i] \in R BY ONLY <2>3
  <2> QED BY <2>1, <2>4
<1>8. \A i \in DOMAIN ls : Odd(Parts(ls[i]), Put) = Line(c)[ls[i]] BY <1>6, <1>7, Zenon
<1>9. [i \in DOMAIN ls |-> IF Fenced(ls, i) THEN ls[i] ELSE Odd(Parts(ls[i]), Put)]
        = ByLine(ls, Line(c))
  BY ONLY <1>8, Zenon DEF ByLine
<1>10. ConvertCustomEmoji(v) = PassText(v, c) BY <1>2, <1>3, <1>9, Zenon DEF PassText
<1> QED BY <1>5, <1>10, PassLaw

\* WrapEmojiGlyphs leaves it as it is.
LEMMA GlyphPass ==
  ASSUME NEW v \in Seq(Shown)
  PROVE WrapEmojiGlyphs(v) \in Seq(Shown) /\ CodeOf(WrapEmojiGlyphs(v)) = CodeOf(v)
<1> DEFINE Put(p) == Substitute(p, GlyphAt, GlyphLink)
<1>1. \A p \in Seq(Shown) : Tame(Shown, p, Put(p)) BY GlyphConvert
<1>2. PICK ls : ls = SplitLines(v) OBVIOUS
<1>3. WrapEmojiGlyphs(v) = JoinLines([i \in DOMAIN ls |->
        IF Fenced(ls, i) THEN ls[i] ELSE Odd(Parts(ls[i]), Put)])
  BY <1>2, Zenon DEF WrapEmojiGlyphs, OutsideCode, Unfenced, Odd
<1> HIDE DEF Put
<1>4. PICK c : c = [p \in Seq(Shown) |-> Put(p)] OBVIOUS
<1>5. Converts(Shown, c) BY <1>1, <1>4 DEF Converts
<1>6. ASSUME NEW l \in Seq(Shown) PROVE Odd(Parts(l), Put) = Line(c)[l]
  <2>1. PICK ps : ps = Parts(l) OBVIOUS
  <2>2. ps \in Seq(Seq(Shown)) BY <2>1, PartsTyped
  <2>3. \A k \in DOMAIN ps : ps[k] \in Seq(Shown)
    <3>1. PICK R : R = Seq(Shown) OBVIOUS
    <3>2. ps \in Seq(R) BY <2>2, <3>1
    <3>3. \A k \in DOMAIN ps : ps[k] \in R BY ONLY <3>2
    <3> QED BY <3>1, <3>3
  <2>4. \A k \in DOMAIN ps : Put(ps[k]) = c[ps[k]] BY <1>4, <2>3
  <2>5. [k \in DOMAIN ps |-> IF k % 2 = 1 THEN Put(ps[k]) ELSE ps[k]] = Converted(ps, c)
    BY ONLY <2>4 DEF Converted
  <2>6. Odd(ps, Put) = Mapped(ps, c) BY <2>5, Zenon DEF Odd, Mapped
  <2>7. Line(c)[l] = Mapped(Parts(l), c) BY DEF Line
  <2> QED BY <2>1, <2>6, <2>7
<1>7. \A i \in DOMAIN ls : ls[i] \in Seq(Shown)
  <2>1. PICK R : R = Seq(Shown) OBVIOUS
  <2>2. AllLines(Shown, ls) BY <1>2, SplitLaw
  <2>3. ls \in Seq(R) BY <2>1, <2>2 DEF AllLines
  <2>4. \A i \in DOMAIN ls : ls[i] \in R BY ONLY <2>3
  <2> QED BY <2>1, <2>4
<1>8. \A i \in DOMAIN ls : Odd(Parts(ls[i]), Put) = Line(c)[ls[i]] BY <1>6, <1>7, Zenon
<1>9. [i \in DOMAIN ls |-> IF Fenced(ls, i) THEN ls[i] ELSE Odd(Parts(ls[i]), Put)]
        = ByLine(ls, Line(c))
  BY ONLY <1>8, Zenon DEF ByLine
<1>10. WrapEmojiGlyphs(v) = PassText(v, c) BY <1>2, <1>3, <1>9, Zenon DEF PassText
<1> QED BY <1>5, <1>10, PassLaw

\* ConvertSubSuperscript leaves it as it is.
LEMMA ScriptPass ==
  ASSUME NEW v \in Seq(Shown)
  PROVE ConvertSubSuperscript(v) \in Seq(Shown) /\ CodeOf(ConvertSubSuperscript(v)) = CodeOf(v)
<1> DEFINE Put(p) == Substitute(Substitute(p, SubAt, SubLink), SupAt, SupLink)
<1>1. \A p \in Seq(Shown) : Tame(Shown, p, Put(p))
  <2>1. ASSUME NEW p \in Seq(Shown) PROVE Tame(Shown, p, Put(p))
    <3>1. PICK q : q = Substitute(p, SubAt, SubLink) OBVIOUS
    <3>2. Tame(Shown, p, q) BY <3>1, SubConvert
    <3>3. q \in Seq(Shown) BY <3>2 DEF Tame
    <3>4. Tame(Shown, q, Substitute(q, SupAt, SupLink)) BY <3>3, SupConvert
    <3>5. Tame(Shown, p, Substitute(q, SupAt, SupLink)) BY <3>2, <3>4, TameTwice
    <3> QED BY <3>1, <3>5
  <2> QED BY <2>1
<1>2. PICK ls : ls = SplitLines(v) OBVIOUS
<1>3. ConvertSubSuperscript(v) = JoinLines([i \in DOMAIN ls |->
        IF Fenced(ls, i) THEN ls[i] ELSE Odd(Parts(ls[i]), Put)])
  BY <1>2, Zenon DEF ConvertSubSuperscript, OutsideCode, Unfenced, Odd
<1> HIDE DEF Put
<1>4. PICK c : c = [p \in Seq(Shown) |-> Put(p)] OBVIOUS
<1>5. Converts(Shown, c) BY <1>1, <1>4 DEF Converts
<1>6. ASSUME NEW l \in Seq(Shown) PROVE Odd(Parts(l), Put) = Line(c)[l]
  <2>1. PICK ps : ps = Parts(l) OBVIOUS
  <2>2. ps \in Seq(Seq(Shown)) BY <2>1, PartsTyped
  <2>3. \A k \in DOMAIN ps : ps[k] \in Seq(Shown)
    <3>1. PICK R : R = Seq(Shown) OBVIOUS
    <3>2. ps \in Seq(R) BY <2>2, <3>1
    <3>3. \A k \in DOMAIN ps : ps[k] \in R BY ONLY <3>2
    <3> QED BY <3>1, <3>3
  <2>4. \A k \in DOMAIN ps : Put(ps[k]) = c[ps[k]] BY <1>4, <2>3
  <2>5. [k \in DOMAIN ps |-> IF k % 2 = 1 THEN Put(ps[k]) ELSE ps[k]] = Converted(ps, c)
    BY ONLY <2>4 DEF Converted
  <2>6. Odd(ps, Put) = Mapped(ps, c) BY <2>5, Zenon DEF Odd, Mapped
  <2>7. Line(c)[l] = Mapped(Parts(l), c) BY DEF Line
  <2> QED BY <2>1, <2>6, <2>7
<1>7. \A i \in DOMAIN ls : ls[i] \in Seq(Shown)
  <2>1. PICK R : R = Seq(Shown) OBVIOUS
  <2>2. AllLines(Shown, ls) BY <1>2, SplitLaw
  <2>3. ls \in Seq(R) BY <2>1, <2>2 DEF AllLines
  <2>4. \A i \in DOMAIN ls : ls[i] \in R BY ONLY <2>3
  <2> QED BY <2>1, <2>4
<1>8. \A i \in DOMAIN ls : Odd(Parts(ls[i]), Put) = Line(c)[ls[i]] BY <1>6, <1>7, Zenon
<1>9. [i \in DOMAIN ls |-> IF Fenced(ls, i) THEN ls[i] ELSE Odd(Parts(ls[i]), Put)]
        = ByLine(ls, Line(c))
  BY ONLY <1>8, Zenon DEF ByLine
<1>10. ConvertSubSuperscript(v) = PassText(v, c) BY <1>2, <1>3, <1>9, Zenon DEF PassText
<1> QED BY <1>5, <1>10, PassLaw

\* The last c in a text, 0 for none.
LastOf(v, c) == SelectLastInSeq(v, LAMBDA x : x = c)

\* It is in the text.
LEMMA LastOfLaw ==
  ASSUME NEW S, NEW v \in Seq(S), NEW c
  PROVE LastOf(v, c) \in 0 .. Len(v) /\ (LastOf(v, c) > 0 => v[LastOf(v, c)] = c)
<1> DEFINE I == {i \in 1 .. Len(v) : v[i] = c}
<1>0. Len(v) \in Nat OBVIOUS
<1>1. LastOf(v, c) = IF I # {} THEN Max(I) ELSE 0 BY DEF LastOf, SelectLastInSeq
<1>2. CASE I = {}
  <2> HIDE DEF I
  <2> QED BY <1>0, <1>1, <1>2
<1>3. CASE I # {}
  <2>1. I \in SUBSET (1 .. Len(v)) OBVIOUS
  <2>2. \E x \in I : \A y \in I : x >= y
    <3> HIDE DEF I
    <3> QED BY <1>0, <1>3, <2>1, Greatest
  <2>3. Max(I) \in I BY <2>2 DEF Max
  <2>4. PICK k : k = Max(I) OBVIOUS
  <2>5. k \in 1 .. Len(v) /\ v[k] = c BY <2>3, <2>4
  <2>6. LastOf(v, c) = k BY <1>1, <1>3, <2>4
  <2> HIDE DEF I
  <2> QED BY <1>0, <2>5, <2>6
<1> QED BY <1>2, <1>3

\* A text cut from its beginning to b.
Prefix(v, w, b) == b \in 0 .. Len(v) /\ w = Cut(v, 0, b)

\* Its length and characters.
LEMMA PrefixLaw ==
  ASSUME NEW S, NEW v \in Seq(S), NEW w, NEW b, Prefix(v, w, b)
  PROVE /\ b \in 0 .. Len(v) /\ w \in Seq(S) /\ Len(w) = b
        /\ \A k \in 1 .. b : w[k] = v[k]
<1>1. b \in 0 .. Len(v) /\ 0 \in 0 .. Len(v) /\ b - 0 = b /\ w = Cut(v, 0, b) BY DEF Prefix
<1>2. w \in Seq(S) /\ Len(w) = b - 0 /\ \A k \in 1 .. (b - 0) : w[k] = v[0 + k] BY <1>1, CutLaw
<1>3. \A k \in 1 .. b : 0 + k = k BY <1>1
<1> QED BY <1>1, <1>2, <1>3

\* A prefix of a prefix is one.
LEMMA PrefixTwice ==
  ASSUME NEW S, NEW v \in Seq(S), NEW w, NEW b, Prefix(v, w, b), NEW x, NEW d, Prefix(w, x, d)
  PROVE Prefix(v, x, d)
<1>1. b \in 0 .. Len(v) /\ w \in Seq(S) /\ Len(w) = b /\ \A k \in 1 .. b : w[k] = v[k]
  BY PrefixLaw
<1>2. d \in 0 .. Len(w) /\ x \in Seq(S) /\ Len(x) = d /\ \A k \in 1 .. d : x[k] = w[k]
  BY <1>1, PrefixLaw
<1>3. d \in 0 .. b /\ d \in 0 .. Len(v) BY <1>1, <1>2
<1>4. PICK y : y = Cut(v, 0, d) OBVIOUS
<1>5. Prefix(v, y, d) BY <1>3, <1>4 DEF Prefix
<1>6. y \in Seq(S) /\ Len(y) = d /\ \A k \in 1 .. d : y[k] = v[k] BY <1>5, PrefixLaw
<1>7. \A k \in 1 .. d : k \in 1 .. b
  <2>1. b \in Int BY <1>1
  <2> QED BY ONLY <1>3, <2>1
<1>8. \A k \in 1 .. d : x[k] = y[k] BY <1>1, <1>2, <1>6, <1>7
<1>9. x = y BY <1>2, <1>6, <1>8, SeqEqual
<1> QED BY <1>5, <1>9

\* No tick stands behind the place b of a text.
Clear(v, b) == \A j \in (b + 1) .. Len(v) : v[j] # Tick

\* A text without the blanks it ends with.
Stripped(v) == Cut(v, 0, Len(v) - Trail(v, Blank))

\* It is a part at its beginning, with no tick behind it.
LEMMA StrippedLaw ==
  ASSUME NEW S, NEW v \in Seq(S)
  PROVE \E b : Prefix(v, Stripped(v), b) /\ Clear(v, b)
<1>1. Trails(v, Blank, Trail(v, Blank)) BY TrailLaw
<1>2. PICK n, t : n = Len(v) /\ t = Trail(v, Blank) OBVIOUS
<1>3. n \in Nat /\ t \in 0 .. n /\ \A i \in (n - t + 1) .. n : v[i] \in Blank
  BY <1>1, <1>2 DEF Trails
<1>4. PICK b : b = n - t OBVIOUS
<1>5. b \in 0 .. n BY ONLY <1>3, <1>4
<1>6. Prefix(v, Stripped(v), b) BY <1>2, <1>4, <1>5 DEF Prefix, Stripped
<1>7. \A i \in (b + 1) .. n : v[i] # Tick BY <1>3, <1>4, TickNoBlank
<1>8. Clear(v, b) BY <1>2, <1>7 DEF Clear
<1> QED BY <1>6, <1>8

\* The characters of "{#id}" are no ticks.
LEMMA IdLaw == \A c \in MentionSafe \cup {"{", "#", "}"} : c # Tick
<1>1. MentionSafe \cap {Tick} = {} BY RenderingAssumption
<1>2. PICK M : M = MentionSafe OBVIOUS
<1>3. \A c \in M : c # Tick BY <1>1, <1>2
<1>4. "{" # Tick /\ "#" # Tick /\ "}" # Tick BY Zenon DEF Tick
<1> QED BY <1>2, <1>3, <1>4, Zenon

\* A text that ends with "{#id}" has no tick from the brace on.
LEMMA IdClear ==
  ASSUME NEW S, NEW v \in Seq(S), NEW x, NEW y, NEW z, x # Tick, y # Tick, z # Tick,
         NEW o, o \in 1 .. Len(v), v[o] = x, v[Len(v)] = z, Slice(v, o, o + 1) = <<y>>,
         ToSet(Slice(v, o + 1, Len(v) - 1)) \subseteq MentionSafe
  PROVE Clear(v, o - 1)
<1>1. PICK n : n = Len(v) OBVIOUS
<1>2. \A c \in MentionSafe : c # Tick BY IdLaw, Zenon
<1>3. n \in Nat /\ o \in 1 .. n BY <1>1
<1>4. v[o] = x /\ v[n] = z /\ Slice(v, o, o + 1) = <<y>>
      /\ ToSet(Slice(v, o + 1, n - 1)) \subseteq MentionSafe
  BY <1>1
<1>5. o < n => v[o + 1] = y
  <2>1. CASE o < n
    <3>1. PICK s, b : s = Slice(v, o, o + 1) /\ b = o + 1 OBVIOUS
    <3>2. b \in o .. n /\ b - o = 1 /\ 1 \in 1 .. 1 BY ONLY <1>3, <2>1, <3>1
    <3>3. (IF b < n THEN b ELSE n) = b BY ONLY <1>3, <3>2
    <3>4. s = Cut(v, o, b) BY <1>1, <3>1, <3>3 DEF Slice, Cut
    <3>5. o \in 0 .. Len(v) /\ b \in o .. Len(v) BY <1>1, <1>3, <3>2
    <3>6. \A k \in 1 .. (b - o) : s[k] = v[o + k] BY <3>4, <3>5, CutLaw
    <3>7. s[1] = v[o + 1] BY <3>2, <3>6
    <3>8. s = <<y>> BY <1>4, <3>1
    <3>9. s[1] = y BY ONLY <3>8
    <3> QED BY <3>7, <3>9
  <2> QED BY <2>1
<1>6. ASSUME NEW j \in (o + 2) .. (n - 1) PROVE v[j] \in MentionSafe
  <2>1. PICK a, b, s, k : a = o + 1 /\ b = n - 1 /\ s = Slice(v, a, b) /\ k = j - a OBVIOUS
  <2>2. a \in 0 .. n /\ b \in a .. n /\ k \in 1 .. (b - a) /\ a + k = j /\ b < n BY ONLY <1>3, <1>6, <2>1
  <2>3. (IF b < n THEN b ELSE n) = b BY ONLY <2>2
  <2>4. s = Cut(v, a, b) BY <1>1, <2>1, <2>3 DEF Slice, Cut
  <2>5. a \in 0 .. Len(v) /\ b \in a .. Len(v) BY <1>1, <2>2
  <2>6. s \in Seq(S) /\ Len(s) = b - a /\ \A i \in 1 .. (b - a) : s[i] = v[a + i] BY <2>4, <2>5, CutLaw
  <2>7. s[k] = v[j] BY <2>2, <2>6
  <2>8. k \in DOMAIN s BY <2>2, <2>6
  <2>9. s[k] \in ToSet(s) BY <2>8, Zenon DEF ToSet
  <2>10. ToSet(s) \subseteq MentionSafe BY <1>4, <2>1
  <2> QED BY <2>7, <2>9, <2>10
<1>7. ASSUME NEW j \in o .. n PROVE v[j] # Tick
  <2>1. j = o \/ j = n \/ (o < n /\ j = o + 1) \/ j \in (o + 2) .. (n - 1) BY ONLY <1>3, <1>7
  <2> QED BY <1>2, <1>4, <1>5, <1>6, <2>1
<1>8. (o - 1) + 1 = o BY <1>3
<1> QED BY <1>1, <1>7, <1>8 DEF Clear

\* What is before a place with no tick behind it, and what is behind it, make up
\* the line.
LEMMA PrefixCode ==
  ASSUME NEW S, NEW v \in Seq(S), NEW w, NEW b, Prefix(v, w, b), Clear(v, b)
  PROVE w \in Seq(S) /\ SameCode(v, w) /\ (OneLine(v) => OneLine(w))
<1>1. b \in 0 .. Len(v) /\ w \in Seq(S) /\ Len(w) = b /\ \A k \in 1 .. b : w[k] = v[k]
  BY PrefixLaw
<1>2. PICK r, n : r = Rest(v, b) /\ n = Len(v) OBVIOUS
<1>3. r \in Seq(S) /\ Len(r) = Len(v) - b /\ \A k \in 1 .. (Len(v) - b) : r[k] = v[b + k]
  BY <1>1, <1>2, RestLaw
<1>4. n \in Nat /\ b \in 0 .. n BY <1>1, <1>2
<1>5. \A j \in (b + 1) .. n : v[j] # Tick BY <1>2 DEF Clear
<1>6. TickFree(r)
  <2>1. ASSUME NEW k \in 1 .. Len(r) PROVE r[k] # Tick
    <3>1. k \in 1 .. (n - b) BY <1>2, <1>3, <2>1
    <3>2. b + k \in (b + 1) .. n BY ONLY <1>4, <3>1
    <3>3. r[k] = v[b + k] BY <1>2, <1>3, <3>1
    <3> QED BY <1>5, <3>2, <3>3
  <2> QED BY <2>1 DEF TickFree
<1>7. v = w \o r
  <2>1. 0 \in 0 .. Len(v) /\ b \in 0 .. Len(v) BY <1>1
  <2>2. Rest(v, 0) = Cut(v, 0, b) \o Rest(v, b) BY <2>1, RestSplit
  <2>3. Rest(v, 0) = v BY RestAll
  <2>4. w = Cut(v, 0, b) BY DEF Prefix
  <2> QED BY <1>2, <2>2, <2>3, <2>4
<1>8. SameCode(w, w \o r) BY <1>1, <1>3, <1>6, LongerLine
<1>9. SameCode(v, w) BY <1>7, <1>8 DEF SameCode
<1>10. OneLine(v) => OneLine(w)
  <2>1. Row(v, w, r) BY <1>7 DEF Row
  <2> QED BY <1>1, <1>3, <2>1, RowSays
<1> QED BY <1>1, <1>9, <1>10

\* Two places one after the other with no tick behind them.
LEMMA ClearTwice ==
  ASSUME NEW S, NEW v \in Seq(S), NEW w, NEW b, Prefix(v, w, b), Clear(v, b), NEW d \in Nat, Clear(w, d)
  PROVE Clear(v, d)
<1>1. b \in 0 .. Len(v) /\ Len(w) = b /\ \A k \in 1 .. b : w[k] = v[k] BY PrefixLaw
<1>2. Clear(v, d)
  <2>1. ASSUME NEW j \in (d + 1) .. Len(v) PROVE v[j] # Tick
    <3>1. CASE j <= b
      <4>1. j \in (d + 1) .. Len(w) /\ j \in 1 .. b BY <1>1, <3>1
      <4>2. w[j] # Tick BY <4>1 DEF Clear
      <4> QED BY <1>1, <4>1, <4>2
    <3>2. CASE ~(j <= b)
      <4>1. j \in (b + 1) .. Len(v) BY <1>1, <3>2
      <4> QED BY <4>1 DEF Clear
    <3> QED BY <3>1, <3>2
  <2> QED BY <2>1 DEF Clear
<1> QED BY <1>2

\* The characters around an id, and one that is in none.
OpenBrace == "{"
CloseBrace == "}"

\* What is left of a heading is a part at its beginning, with no tick behind it.
LEMMA HeadingLaw ==
  ASSUME NEW S, NEW v \in Seq(S)
  PROVE \E b : Prefix(v, WithoutHeadingId(v), b) /\ Clear(v, b)
<1>1. PICK x, y, z, u : x = OpenBrace /\ y = Hash /\ z = CloseBrace /\ u = Dot OBVIOUS
<1>2. x # Tick /\ y # Tick /\ z # Tick BY <1>1, IdLaw, Zenon DEF OpenBrace, Hash, CloseBrace
<1>3. PICK level : level = Lead(v, {y}) OBVIOUS
<1>4. PICK text : text = Stripped(v) OBVIOUS
<1>5. PICK o : o = LastOf(text, x) OBVIOUS
<1>6. PICK id : id = Slice(text, o + 1, Len(text) - 1) OBVIOUS
<1>7. PICK head : head = Cut(text, 0, o - 1) OBVIOUS
<1>8. PICK bare : bare = Stripped(head) OBVIOUS
<1>9. PICK w : w = WithoutHeadingId(v) OBVIOUS
<1>13. w = IF /\ level \in 1 .. 6 /\ Len(v) > level /\ v[level + 1] \in Blank
              /\ o > level + 1 /\ text[Len(text)] = z
              /\ Len(id) > 0 /\ Slice(text, o, o + 1) = <<y>> /\ ToSet(id) \subseteq MentionSafe \ {u}
           THEN IF Len(bare) = level THEN head ELSE bare
           ELSE v
  <2> DEFINE t == Stripped(v)
             l == Lead(v, {Hash})
             p == LastOf(t, OpenBrace)
             i == Slice(t, p + 1, Len(t) - 1)
             h == Cut(t, 0, p - 1)
             b == Stripped(h)
  <2>1. WithoutHeadingId(v) =
          IF /\ l \in 1 .. 6 /\ Len(v) > l /\ v[l + 1] \in Blank
             /\ p > l + 1 /\ t[Len(t)] = CloseBrace
             /\ Len(i) > 0 /\ Slice(t, p, p + 1) = <<Hash>> /\ ToSet(i) \subseteq MentionSafe \ {Dot}
          THEN IF Len(b) = l THEN h ELSE b
          ELSE v
    BY Zenon DEF WithoutHeadingId, LastOf, Last, Stripped, Hash, Dot, OpenBrace, CloseBrace
  <2>2. l = level /\ t = text BY <1>1, <1>3, <1>4
  <2> HIDE DEF l, t
  <2>3. p = o BY <1>1, <1>5, <2>2
  <2> HIDE DEF p
  <2>4. i = id /\ h = head BY <1>6, <1>7, <2>2, <2>3
  <2> HIDE DEF i, h
  <2>5. b = bare BY <1>8, <2>4
  <2> HIDE DEF b
  <2> QED BY <1>1, <1>9, <2>1, <2>2, <2>3, <2>4, <2>5
<1>10. \/ w = v
       \/ /\ w = head \/ w = bare
          /\ o > level + 1 /\ level \in 1 .. 6 /\ text[Len(text)] = z
          /\ Slice(text, o, o + 1) = <<y>> /\ ToSet(id) \subseteq MentionSafe \ {u}
  BY <1>13, Zenon
<1>11. CASE w = v
  <2>1. PICK n : n = Len(v) OBVIOUS
  <2>2. n \in Nat /\ n \in 0 .. n BY <2>1
  <2>3. Cut(v, 0, n) = v
    <3>1. Rest(v, 0) = v BY RestAll
    <3> QED BY <2>1, <3>1 DEF Rest
  <2>4. Prefix(v, w, n) BY <1>11, <2>1, <2>2, <2>3 DEF Prefix
  <2>5. Clear(v, n) BY <2>1, <2>2 DEF Clear
  <2> QED BY <1>9, <2>4, <2>5
<1>12. CASE w # v
  <2>1. /\ w = head \/ w = bare
        /\ o > level + 1 /\ level \in 1 .. 6 /\ text[Len(text)] = z
        /\ Slice(text, o, o + 1) = <<y>> /\ ToSet(id) \subseteq MentionSafe
    BY <1>10, <1>12, Zenon
  <2>2. PICK e : Prefix(v, text, e) /\ Clear(v, e) BY <1>4, StrippedLaw
  <2>3. text \in Seq(S) /\ e \in 0 .. Len(v) BY <2>2, PrefixLaw
  <2>4. o \in 0 .. Len(text) /\ (o > 0 => text[o] = x) BY <1>5, <2>3, LastOfLaw
  <2>5. o \in 1 .. Len(text) /\ text[o] = x BY <2>1, <2>4
  <2>6. Clear(text, o - 1)
    <3>1. ToSet(Slice(text, o + 1, Len(text) - 1)) \subseteq MentionSafe BY <1>6, <2>1
    <3>2. Slice(text, o, o + 1) = <<y>> /\ text[Len(text)] = z BY <2>1
    <3> QED BY ONLY <1>2, <2>3, <2>5, <3>1, <3>2, IdClear
  <2>7. PICK h : h = o - 1 OBVIOUS
  <2>8. h \in 0 .. Len(text) /\ h \in Nat BY <2>5, <2>7
  <2>9. Prefix(text, head, h) /\ Clear(text, h) BY <1>7, <2>6, <2>7, <2>8 DEF Prefix
  <2>10. Prefix(v, head, h) /\ Clear(v, h)
    <3>1. Prefix(v, head, h) BY <2>2, <2>9, PrefixTwice
    <3>2. Clear(v, h) BY <2>2, <2>8, <2>9, ClearTwice
    <3> QED BY <3>1, <3>2
  <2>11. CASE w = head BY <1>9, <2>10, <2>11
  <2>12. CASE w = bare
    <3>1. head \in Seq(S) BY <2>10, PrefixLaw
    <3>2. PICK d : Prefix(head, bare, d) /\ Clear(head, d) BY <1>8, <3>1, StrippedLaw
    <3>3. d \in 0 .. Len(head) /\ d \in Nat BY <3>1, <3>2, PrefixLaw
    <3>4. Prefix(v, bare, d) BY <2>10, <3>2, PrefixTwice
    <3>5. Clear(v, d) BY <2>10, <3>2, <3>3, ClearTwice
    <3> QED BY <1>9, <2>12, <3>4, <3>5
  <2> QED BY <2>1, <2>11, <2>12
<1> QED BY <1>11, <1>12

\* Taking the headings' ids off leaves the code of a text as it is.
LEMMA HeadingPass ==
  ASSUME NEW v \in Seq(Shown)
  PROVE ExtractHeadingIds(v) \in Seq(Shown) /\ CodeOf(ExtractHeadingIds(v)) = CodeOf(v)
<1>1. PICK d, ls, ms : /\ d = [l \in Seq(Shown) |-> WithoutHeadingId(l)] /\ ls = SplitLines(v)
                       /\ ms = ByLine(ls, d)
  OBVIOUS
<1>2. ASSUME NEW l \in Seq(Shown)
      PROVE d[l] \in Seq(Shown) /\ SameCode(l, d[l]) /\ (OneLine(l) => OneLine(d[l]))
  <2>1. d[l] = WithoutHeadingId(l) BY <1>1
  <2>2. PICK b : Prefix(l, d[l], b) /\ Clear(l, b) BY <2>1, HeadingLaw
  <2> QED BY <2>2, PrefixCode
<1>3. LineWise(Shown, d) BY <1>2 DEF LineWise
<1>4. AllLines(Shown, ls) BY <1>1, SplitLaw
<1>5. Passed(Shown, ls, ms) BY <1>1, <1>3, <1>4, LinesPass
<1>6. Passed(Shown, SplitLines(v), ms) BY <1>1, <1>5
<1>7. JoinLines(ms) \in Seq(Shown) /\ CodeOf(JoinLines(ms)) = CodeOf(v)
  BY <1>6, ShownBlanks, PassKeeps
<1>8. \A i \in DOMAIN ls : ls[i] \in Seq(Shown)
  <2>1. PICK R : R = Seq(Shown) OBVIOUS
  <2>2. ls \in Seq(R) BY <1>4, <2>1 DEF AllLines
  <2>3. \A i \in DOMAIN ls : ls[i] \in R BY ONLY <2>2
  <2> QED BY <2>1, <2>3
<1>9. \A i \in DOMAIN ls : WithoutHeadingId(ls[i]) = d[ls[i]] BY <1>1, <1>8
<1>10. [i \in DOMAIN ls |-> IF Fenced(ls, i) THEN ls[i] ELSE WithoutHeadingId(ls[i])] = ms
  <2>1. ms = ByLine(ls, d) BY <1>1
  <2> QED BY ONLY <1>9, <2>1, Zenon DEF ByLine
<1>11. ExtractHeadingIds(v) = JoinLines(ms) BY <1>1, <1>10, Zenon DEF ExtractHeadingIds
<1> QED BY <1>7, <1>11

\* What is shown of a text has its code.
LEMMA RenderLaw ==
  ASSUME NEW v \in Seq(Char)
  PROVE CodeOf(Render(v)) = CodeOf(v)
<1>1. PICK a, b, c, d, e, f, g : /\ a = HighlightMentions(v) /\ b = HighlightRoomReferences(a)
                                 /\ c = ConvertShortcodes(b) /\ d = ConvertCustomEmoji(c)
                                 /\ e = WrapEmojiGlyphs(d) /\ f = ConvertSubSuperscript(e)
                                 /\ g = ExtractHeadingIds(f)
  OBVIOUS
<1>2. v \in Seq(Shown)
  <2>1. Char \subseteq Shown BY DEF Shown
  <2> QED BY <2>1
<1>3. a \in Seq(Shown) /\ CodeOf(a) = CodeOf(v) BY <1>1, <1>2, MentionPass
<1>4. b \in Seq(Shown) /\ CodeOf(b) = CodeOf(v) BY <1>1, <1>3, ReferencePass
<1>5. c \in Seq(Shown) /\ CodeOf(c) = CodeOf(v) BY <1>1, <1>4, EmojiPass
<1>6. d \in Seq(Shown) /\ CodeOf(d) = CodeOf(v) BY <1>1, <1>5, CustomPass
<1>7. e \in Seq(Shown) /\ CodeOf(e) = CodeOf(v) BY <1>1, <1>6, GlyphPass
<1>8. f \in Seq(Shown) /\ CodeOf(f) = CodeOf(v) BY <1>1, <1>7, ScriptPass
<1>9. g \in Seq(Shown) /\ CodeOf(g) = CodeOf(v) BY <1>1, <1>8, HeadingPass
<1>10. CodeOf(PreserveLineBreaks(g)) = CodeOf(v) BY <1>9, ShownBlanks, BreaksPass
<1>11. Render(v) = PreserveLineBreaks(g) BY <1>1, Zenon DEF Render
<1> QED BY <1>10, <1>11

\* What a button makes of a text is shown with its code, whatever the text.
LEMMA CodeShown == TypeOK => CodeIsShownAsWritten
<1> SUFFICES ASSUME TypeOK, NEW v \in Formatted(Code) PROVE CodeOf(Render(v)) = CodeOf(v)
  BY Zenon DEF CodeIsShownAsWritten
<1>1. PICK s, e : s = cursor.start /\ e = cursor.end OBVIOUS
<1>2. value \in Seq(Char) /\ s \in 0 .. Len(value) /\ e \in s .. Len(value)
  <2>1. value \in Seq(Char) /\ cursor \in Selections(Len(value)) BY DEF TypeOK
  <2> QED BY <1>1, <2>1 DEF Selections, Selection
<1>3. PICK t : t = State(value, s, e) OBVIOUS
<1>4. PICK a \in Code : v = ApplyFormat(t, a).value BY <1>1, <1>3, Zenon DEF Formatted
<1>5. a \in Actions BY <1>4, Zenon DEF Code
<1>6. ToolbarChars \subseteq Char BY EditorAssumption
<1>7. Formed(Char, ApplyFormat(t, a)) BY <1>2, <1>3, <1>5, <1>6, FormatFormed
<1>8. v \in Seq(Char) BY <1>4, <1>7, Zenon DEF Formed
<1> QED BY <1>8, RenderLaw

\* "Someone pasting code shouldn't get it silently turned into an emoji": in
\* every state of the composer, what a button marked as code, in a span or a
\* block, is shown as it was written, through all seven passes.
THEOREM CodeStays == Spec => []CodeIsShownAsWritten
BY EditorTypes, CodeShown, PTL
=============================================================================
