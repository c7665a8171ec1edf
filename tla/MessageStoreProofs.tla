------------------------- MODULE MessageStoreProofs -------------------------
(***************************************************************************)
(* Proofs about the module MessageStore, for every set of connections and  *)
(* messages, whoever opened and wrote them; and about UnreadDots, the dots *)
(* those messages leave, for every set of rooms and every bound.           *)
(***************************************************************************)
EXTENDS MessageStore, UnreadDots, SequenceTheorems, FiniteSetTheorems, TLAPS

Copies == [Messages -> Row \cup {None}]

\* What is in a table is told from what is not.
LEMMA RowIsThere == \A r \in Row : r # None
<1>1. "absent" \in DOMAIN None BY DEF None
<1>2. \A r \in Row : DOMAIN r = {"content", "deleted", "file"} BY DEF Row
<1> QED BY <1>1, <1>2

\* A handler at a stage of an operation is about a message.
LEMMA DoingOp ==
  ASSUME TypeOK, NEW c \in Conns, NEW op, NEW stage, Doing(c, op, stage)
  PROVE /\ work[c] \in Op /\ work[c].msg \in Messages
        /\ work[c].op = op /\ work[c].stage = stage /\ work[c].found \in BOOLEAN
BY DEF TypeOK, Doing, Op

\* db.get gives a row or nothing.
LEMMA LoadedType ==
  ASSUME TypeOK, NEW c \in Conns, NEW m \in Messages
  PROVE Loaded(c, m) \in Row \cup {None}
BY DEF TypeOK, Loaded

\* The next stage of an operation is one of the same operation.
LEMMA StageOp ==
  ASSUME NEW o \in Op, NEW stage \in {"commit", "file", "refresh", "unlink", "read"},
         NEW found \in BOOLEAN
  PROVE /\ [o EXCEPT !.stage = stage, !.found = found] \in Op
        /\ [o EXCEPT !.stage = stage, !.found = found].msg = o.msg
BY DEF Op

\* The end of an operation leaves a well-typed session that holds what its
\* variables refer to.
SessionOK ==
  /\ held \in [Conns -> Copies]
  /\ msgVar \in [Conns -> Messages \cup {NoMessage}]
  /\ tgtVar \in [Conns -> Messages \cup {NoMessage}]
  /\ work \in [Conns -> Op \cup {Idle}]
  /\ \A c \in Conns, m \in Messages :
        held[c][m] # None =>
            m \in {msgVar[c], tgtVar[c]} \/ (work[c] # Idle /\ work[c].msg = m)

\* It keeps of the session's map what the two variables still refer to.
LEMMA KeptType ==
  ASSUME TypeOK, NEW c \in Conns, NEW map \in Copies, NEW o \in Op \cup {Idle},
         NEW mv \in Messages \cup {NoMessage}, NEW tv \in Messages \cup {NoMessage},
         held' = [held EXCEPT ![c] = Kept(map, {mv, tv})],
         msgVar' = [msgVar EXCEPT ![c] = mv], tgtVar' = [tgtVar EXCEPT ![c] = tv],
         work' = [work EXCEPT ![c] = o]
  PROVE SessionOK'
<1> DEFINE kept == Kept(map, {mv, tv})
<1>1. kept \in Copies BY DEF Kept, Copies
<1>2. \A m \in Messages : kept[m] # None => m \in {mv, tv} BY DEF Kept
<1>a. held' = [held EXCEPT ![c] = kept] OBVIOUS
<1> HIDE DEF kept
<1>3. held' \in [Conns -> Copies] BY <1>1, <1>a DEF TypeOK, Copies
<1>4. /\ work' \in [Conns -> Op \cup {Idle}]
      /\ msgVar' \in [Conns -> Messages \cup {NoMessage}]
      /\ tgtVar' \in [Conns -> Messages \cup {NoMessage}]
  BY DEF TypeOK
<1>5. ASSUME NEW d \in Conns, NEW m \in Messages, held'[d][m] # None
      PROVE m \in {msgVar'[d], tgtVar'[d]} \/ (work'[d] # Idle /\ work'[d].msg = m)
  <2>1. CASE d = c
    <3>1. held'[c] = kept /\ msgVar'[c] = mv /\ tgtVar'[c] = tv BY <1>a DEF TypeOK
    <3> QED BY <1>2, <1>5, <2>1, <3>1
  <2>2. CASE d # c
    <3>1. /\ held'[d] = held[d] /\ msgVar'[d] = msgVar[d]
          /\ tgtVar'[d] = tgtVar[d] /\ work'[d] = work[d]
      BY <2>2 DEF TypeOK
    <3> QED BY <1>5, <3>1 DEF TypeOK
  <2> QED BY <2>1, <2>2
<1> QED BY <1>3, <1>4, <1>5 DEF SessionOK

\* So does the answer, after which the handler waits for the next frame.
LEMMA FinishType ==
  ASSUME TypeOK, NEW c \in Conns, NEW map \in Copies,
         NEW mv \in Messages \cup {NoMessage}, NEW tv \in Messages \cup {NoMessage},
         Finish(c, map, mv, tv)
  PROVE SessionOK'
BY KeptType DEF Finish

\* So does an error that closes the connection.
LEMMA HangUpType ==
  ASSUME TypeOK, NEW c \in Conns, HangUp(c)
  PROVE SessionOK'
<1>1. held[c] \in Copies BY DEF TypeOK, Copies
<1> QED BY <1>1, FinishType DEF HangUp

\* So does a step within an operation, or its beginning.
LEMMA StageType ==
  ASSUME TypeOK, NEW c \in Conns, NEW o \in Op,
         work' = [work EXCEPT ![c] = o], work[c] = Idle \/ work[c].msg = o.msg,
         UNCHANGED <<msgVar, tgtVar>>,
         \/ UNCHANGED held
         \/ \E r \in Row \cup {None} : held' = [held EXCEPT ![c][o.msg] = r]
  PROVE SessionOK'
<1>1. o.msg \in Messages /\ o # Idle
  <2>1. o.op # "idle" /\ Idle.op = "idle" BY DEF Op, Idle
  <2> QED BY <2>1 DEF Op
<1>2. held' \in [Conns -> Copies]
  <2>1. CASE UNCHANGED held BY <2>1 DEF TypeOK, Copies
  <2>2. ASSUME NEW r \in Row \cup {None}, held' = [held EXCEPT ![c][o.msg] = r]
        PROVE held' \in [Conns -> Copies]
    <3>1. [held[c] EXCEPT ![o.msg] = r] \in Copies BY DEF TypeOK, Copies
    <3> QED BY <2>2, <3>1 DEF TypeOK, Copies
  <2> QED BY <2>1, <2>2
<1>3. work' \in [Conns -> Op \cup {Idle}] BY DEF TypeOK
<1>4. ASSUME NEW d \in Conns, NEW m \in Messages, held'[d][m] # None
      PROVE m \in {msgVar[d], tgtVar[d]} \/ (work'[d] # Idle /\ work'[d].msg = m)
  <2>1. CASE d = c
    <3>1. work'[c] = o BY DEF TypeOK
    <3>2. CASE m = o.msg
      BY <1>1, <2>1, <3>1, <3>2
    <3>3. CASE m # o.msg
      <4>1. held'[c][m] = held[c][m] BY <1>1, <3>3 DEF TypeOK
      <4>2. m \in {msgVar[c], tgtVar[c]} BY <1>4, <2>1, <3>3, <4>1 DEF TypeOK
      <4> QED BY <2>1, <4>2
    <3> QED BY <3>2, <3>3
  <2>2. CASE d # c
    <3>1. held'[d] = held[d] /\ work'[d] = work[d] BY <1>1, <2>2 DEF TypeOK
    <3> QED BY <1>4, <3>1 DEF TypeOK
  <2> QED BY <2>1, <2>2
<1> QED BY <1>2, <1>3, <1>4 DEF SessionOK, TypeOK

\* Every step keeps the types.
LEMMA TypeStep == TypeOK /\ [Next]_vars => TypeOK'
<1> SUFFICES ASSUME TypeOK, [Next]_vars PROVE TypeOK'
  OBVIOUS
<1> DEFINE TablesOK ==
      /\ row \in Copies
      /\ files \subseteq Attached /\ disk \subseteq Attached /\ saved \subseteq Attached
      /\ listed \subseteq Attached /\ lost \subseteq Messages
      /\ reactions \in [Messages -> SUBSET {User[c] : c \in Conns}]
      /\ room \in {"there", "deleting", "gone"}
<1>a. SUFFICES TablesOK' /\ SessionOK'
  BY DEF TypeOK, SessionOK, Copies
<1> USE StoreAssumption
<1>0. TablesOK /\ SessionOK BY DEF TypeOK, SessionOK, Copies
<1>b. ASSUME UNCHANGED session PROVE SessionOK'
  BY <1>0, <1>b DEF session, SessionOK
<1>1. ASSUME NEW m \in Messages, UploadSave(m) PROVE TablesOK' /\ SessionOK'
  BY <1>0, <1>1, <1>b DEF UploadSave, tables, deletion
<1>2. ASSUME NEW m \in Messages, UploadInsert(m) PROVE TablesOK' /\ SessionOK'
  BY <1>0, <1>2, <1>b DEF UploadInsert, deletion
<1>3. ASSUME NEW m \in Messages, UploadCut(m) PROVE TablesOK' /\ SessionOK'
  BY <1>0, <1>3, <1>b DEF UploadCut, tables, deletion
<1>4. ASSUME NEW c \in Conns, NEW m \in Messages, Post(c, m) PROVE TablesOK' /\ SessionOK'
  <2>1. PICK r \in Row : row' = [row EXCEPT ![m] = r]
    <3>1. PICK text \in BOOLEAN :
            row' = [row EXCEPT ![m] = [content |-> text, deleted |-> FALSE,
                                       file |-> m \in Attached]]
      BY <1>4 DEF Post
    <3>2. (m \in Attached) \in BOOLEAN OBVIOUS
    <3>3. [content |-> text, deleted |-> FALSE, file |-> m \in Attached] \in Row
      BY <3>2 DEF Row
    <3> QED BY <3>1, <3>3
  <2>2. row' \in Copies /\ row'[m] = r BY <1>0, <2>1 DEF Copies
  <2>3. [held[c] EXCEPT ![m] = row'[m]] \in Copies BY <1>0, <2>2 DEF SessionOK, Copies
  <2>4. SessionOK' BY <1>0, <1>4, <2>3, FinishType DEF Post, SessionOK
  <2> QED BY <1>0, <1>4, <2>2, <2>4 DEF Post, deletion
<1>5. ASSUME NEW c \in Conns, NEW m \in Messages, NEW op \in {"edit", "delete"},
             NEW stage \in {"commit", "file"}, Start(c, op, m, stage), work[c] = Idle,
             UNCHANGED <<tables, disk, saved, msgVar, tgtVar, deletion, lost>>
      PROVE TablesOK' /\ SessionOK'
  <2> DEFINE o == [op |-> op, msg |-> m, stage |-> stage, found |-> FALSE]
  <2>1. o \in Op /\ o.msg = m BY DEF Op
  <2>2. work' = [work EXCEPT ![c] = o] BY <1>5 DEF Start
  <2>3. \E r \in Row \cup {None} : held' = [held EXCEPT ![c][m] = r]
    BY <1>5, LoadedType DEF Start
  <2> HIDE DEF o
  <2>4. SessionOK' BY <1>5, <2>1, <2>2, <2>3, StageType
  <2> QED BY <1>0, <1>5, <2>4 DEF tables, deletion
<1>6. ASSUME NEW c \in Conns, EditCommit(c) PROVE TablesOK' /\ SessionOK'
  <2> DEFINE m == work[c].msg
             o == [work[c] EXCEPT !.stage = "refresh"]
  <2>1. m \in Messages /\ work[c] \in Op BY <1>6, DoingOp DEF EditCommit
  <2>2. o \in Op /\ o.msg = work[c].msg BY <2>1 DEF Op
  <2>3. row' \in Copies
    <3>1. CASE row[m] = None
      BY <1>0, <1>6, <3>1 DEF EditCommit
    <3>2. CASE row[m] # None
      <4>1. row[m] \in Row BY <1>0, <2>1, <3>2 DEF Copies
      <4>2. [row[m] EXCEPT !.content = TRUE] \in Row BY <4>1 DEF Row
      <4>3. \/ row' = [row EXCEPT ![m] = [row[m] EXCEPT !.content = TRUE]]
            \/ row' = row
        BY <1>6, <3>2 DEF EditCommit
      <4> QED BY <1>0, <2>1, <4>2, <4>3 DEF Copies
    <3> QED BY <3>1, <3>2
  <2>4. SessionOK'
    <3>1. CASE row[m] = None
      BY <1>6, <3>1, HangUpType DEF EditCommit
    <3>2. CASE row[m] # None
      <4>1. work' = [work EXCEPT ![c] = o] /\ UNCHANGED <<held, msgVar, tgtVar>>
        BY <1>6, <3>2 DEF EditCommit
      <4> HIDE DEF o, m
      <4> QED BY <2>2, <4>1, StageType
    <3> QED BY <3>1, <3>2
  <2> QED BY <1>0, <1>6, <2>3, <2>4 DEF EditCommit, deletion
<1>7. ASSUME NEW c \in Conns, EditRefresh(c) PROVE TablesOK' /\ SessionOK'
  <2> DEFINE m == work[c].msg
  <2>1. m \in Messages BY <1>7, DoingOp DEF EditRefresh
  <2>2. [held[c] EXCEPT ![m] = row[m]] \in Copies BY <1>0, <2>1 DEF SessionOK, Copies
  <2>3. tgtVar[c] \in Messages \cup {NoMessage} BY <1>0 DEF SessionOK
  <2>4. HangUp(c) \/ Finish(c, [held[c] EXCEPT ![m] = row[m]], m, tgtVar[c])
    BY <1>7 DEF EditRefresh
  <2>5. SessionOK' BY <2>1, <2>2, <2>3, <2>4, HangUpType, FinishType
  <2> QED BY <1>0, <1>7, <2>5 DEF EditRefresh, tables, deletion
<1>8. ASSUME NEW c \in Conns, DeleteFile(c) PROVE TablesOK' /\ SessionOK'
  <2> DEFINE o == [work[c] EXCEPT !.stage = "commit", !.found = work[c].msg \in files]
  <2>a. (work[c].msg \in files) \in BOOLEAN OBVIOUS
  <2>1. o \in Op /\ o.msg = work[c].msg
    <3>1. work[c] \in Op BY <1>8, DoingOp DEF DeleteFile
    <3> QED BY <2>a, <3>1, StageOp
  <2>2. work' = [work EXCEPT ![c] = o] /\ UNCHANGED <<held, msgVar, tgtVar>>
    BY <1>8 DEF DeleteFile, TypeOK
  <2> HIDE DEF o
  <2>3. SessionOK' BY <2>1, <2>2, StageType
  <2> QED BY <1>0, <1>8, <2>3 DEF DeleteFile, tables, deletion
<1>9. ASSUME NEW c \in Conns, DeleteCommit(c) PROVE TablesOK' /\ SessionOK'
  <2> DEFINE m == work[c].msg
             o == [work[c] EXCEPT !.stage = "refresh"]
  <2>1. m \in Messages /\ work[c] \in Op BY <1>9, DoingOp DEF DeleteCommit
  <2>2. o \in Op /\ o.msg = work[c].msg BY <2>1 DEF Op
  <2>3. CASE row[m] = None
    <3>1. HangUp(c) /\ UNCHANGED <<row, files>> BY <1>9, <2>3 DEF DeleteCommit
    <3> QED BY <1>0, <1>9, <3>1, HangUpType DEF DeleteCommit, deletion
  <2>4. CASE row[m] # None
    <3> DEFINE r == [content |-> row[m].content /\ ~held[c][m].content, deleted |-> TRUE,
                     file |-> row[m].file /\ ~held[c][m].file]
    <3>1. r \in Row
      <4>1. (row[m].content /\ ~held[c][m].content) \in BOOLEAN OBVIOUS
      <4>2. (row[m].file /\ ~held[c][m].file) \in BOOLEAN OBVIOUS
      <4> QED BY <4>1, <4>2 DEF Row
    <3>2. /\ row' = [row EXCEPT ![m] = r] /\ files' \subseteq files
          /\ work' = [work EXCEPT ![c] = o] /\ UNCHANGED <<held, msgVar, tgtVar>>
      BY <1>9, <2>4 DEF DeleteCommit
    <3> HIDE DEF r, o, m
    <3>3. row' \in Copies BY <1>0, <2>1, <3>1, <3>2 DEF Copies
    <3>4. SessionOK' BY <2>2, <3>2, StageType
    <3> QED BY <1>0, <1>9, <3>2, <3>3, <3>4 DEF DeleteCommit, deletion
  <2> QED BY <2>3, <2>4
<1>10. ASSUME NEW c \in Conns, DeleteRefresh(c) PROVE TablesOK' /\ SessionOK'
  <2> DEFINE m == work[c].msg
             o == [work[c] EXCEPT !.stage = "unlink"]
  <2>1. m \in Messages /\ work[c] \in Op BY <1>10, DoingOp DEF DeleteRefresh
  <2>2. o \in Op /\ o.msg = m BY <2>1 DEF Op
  <2>3. row[m] \in Row \cup {None} BY <1>0, <2>1 DEF Copies
  <2>4. CASE row[m] = None
    <3>1. HangUp(c) BY <1>10, <2>4 DEF DeleteRefresh
    <3>2. lost' \subseteq lost \cup {m} BY <1>10, <2>4 DEF DeleteRefresh
    <3>3. lost' \subseteq Messages BY <1>0, <2>1, <3>2
    <3>4. SessionOK' BY <3>1, HangUpType
    <3> QED BY <1>0, <1>10, <3>3, <3>4 DEF DeleteRefresh, tables, deletion
  <2>5. CASE row[m] # None
    <3>1. /\ work' = [work EXCEPT ![c] = o] /\ held' = [held EXCEPT ![c][o.msg] = row[m]]
          /\ UNCHANGED <<msgVar, tgtVar, lost>>
      BY <1>10, <2>2, <2>5 DEF DeleteRefresh
    <3> HIDE DEF o
    <3>2. SessionOK' BY <2>2, <2>3, <3>1, StageType
    <3> QED BY <1>0, <1>10, <3>1, <3>2 DEF DeleteRefresh, tables, deletion
  <2> QED BY <2>4, <2>5
<1>11. ASSUME NEW c \in Conns, DeleteUnlink(c) PROVE TablesOK' /\ SessionOK'
  <2>1. /\ held[c] \in Copies /\ msgVar[c] \in Messages \cup {NoMessage}
        /\ tgtVar[c] \in Messages \cup {NoMessage}
    BY <1>0 DEF SessionOK
  <2>2. SessionOK' BY <1>11, <2>1, FinishType DEF DeleteUnlink
  <2>3. disk' \subseteq Attached BY <1>0, <1>11 DEF DeleteUnlink
  <2> QED BY <1>0, <1>11, <2>2, <2>3 DEF DeleteUnlink, tables, deletion
<1>12. ASSUME NEW c \in Conns, NEW m \in Messages, ReactLoad(c, m)
       PROVE TablesOK' /\ SessionOK'
  <2> DEFINE loaded == [held[c] EXCEPT ![m] = Loaded(c, m)]
  <2>1. /\ held[c] \in Copies /\ msgVar[c] \in Messages \cup {NoMessage}
        /\ NoMessage \in Messages \cup {NoMessage} /\ m \in Messages \cup {NoMessage}
    BY <1>0 DEF SessionOK
  <2>2. loaded \in Copies BY <2>1, LoadedType DEF Copies
  <2>3. TablesOK' BY <1>0, <1>12 DEF ReactLoad, tables, deletion
  <2>4. SessionOK'
    <3>1. CASE Finish(c, held[c], msgVar[c], NoMessage) \/ Finish(c, loaded, msgVar[c], m)
      BY <2>1, <2>2, <3>1, FinishType
    <3>2. CASE ~(Finish(c, held[c], msgVar[c], NoMessage) \/ Finish(c, loaded, msgVar[c], m))
      <4> DEFINE o == [op |-> "react", msg |-> m, stage |-> "read", found |-> FALSE]
      <4>1. /\ held' = [held EXCEPT ![c] = Kept(loaded, {m, msgVar[c]})]
            /\ tgtVar' = [tgtVar EXCEPT ![c] = m] /\ UNCHANGED msgVar
            /\ work' = [work EXCEPT ![c] = o]
        BY <1>12, <3>2 DEF ReactLoad
      <4>2. {m, msgVar[c]} = {msgVar[c], m} /\ o \in Op BY DEF Op
      <4>3. msgVar' = [msgVar EXCEPT ![c] = msgVar[c]] BY <4>1 DEF TypeOK
      <4> HIDE DEF o, loaded
      <4> QED BY <2>1, <2>2, <4>1, <4>2, <4>3, KeptType
    <3> QED BY <3>1, <3>2
  <2> QED BY <2>3, <2>4
<1>13. ASSUME NEW c \in Conns, ReactRead(c) PROVE TablesOK' /\ SessionOK'
  <2> DEFINE o == [work[c] EXCEPT !.stage = "commit",
                                  !.found = User[c] \in reactions[work[c].msg]]
  <2>a. (User[c] \in reactions[work[c].msg]) \in BOOLEAN OBVIOUS
  <2>1. o \in Op /\ o.msg = work[c].msg
    <3>1. work[c] \in Op BY <1>13, DoingOp DEF ReactRead
    <3> QED BY <2>a, <3>1, StageOp
  <2>2. work' = [work EXCEPT ![c] = o] /\ UNCHANGED <<held, msgVar, tgtVar>>
    BY <1>13 DEF ReactRead, TypeOK
  <2> HIDE DEF o
  <2>3. SessionOK' BY <2>1, <2>2, StageType
  <2> QED BY <1>0, <1>13, <2>3 DEF ReactRead, tables, deletion
<1>14. ASSUME NEW c \in Conns, ReactCommit(c) PROVE TablesOK' /\ SessionOK'
  <2> DEFINE m == work[c].msg
  <2>1. m \in Messages BY <1>14, DoingOp DEF ReactCommit
  <2>2. /\ held[c] \in Copies /\ msgVar[c] \in Messages \cup {NoMessage}
        /\ tgtVar[c] \in Messages \cup {NoMessage}
    BY <1>0 DEF SessionOK
  <2>3. HangUp(c) \/ Finish(c, held[c], msgVar[c], tgtVar[c]) BY <1>14 DEF ReactCommit
  <2>4. SessionOK' BY <2>2, <2>3, HangUpType, FinishType
  <2>5. reactions' \in [Messages -> SUBSET {User[d] : d \in Conns}]
    <3>1. User[c] \in {User[d] : d \in Conns} OBVIOUS
    <3> QED BY <1>0, <1>14, <2>1, <3>1 DEF ReactCommit
  <2> QED BY <1>0, <1>14, <2>4, <2>5 DEF ReactCommit, deletion
<1>15. ASSUME NEW c \in Conns, Disconnect(c) PROVE TablesOK' /\ SessionOK'
  <2>1. lost' \subseteq Messages BY <1>0, <1>15, DoingOp DEF Disconnect
  <2> QED BY <1>0, <1>15, <2>1, HangUpType DEF Disconnect, tables, deletion
<1>16. CASE RoomList \/ RoomFail \/ RoomUnlink
  BY <1>0, <1>16, <1>b DEF RoomList, RoomFail, RoomUnlink, tables, deletion
<1>17. CASE RoomCommit
  BY <1>0, <1>17, <1>b DEF RoomCommit, Copies
<1>18. CASE UNCHANGED vars
  BY <1>0, <1>18, <1>b DEF vars, tables, deletion
<1>19. ASSUME NEW c \in Conns, NEW m \in Messages, EditLoad(c, m)
       PROVE TablesOK' /\ SessionOK'
  BY <1>19, <1>5 DEF EditLoad, Mine
<1>20. ASSUME NEW c \in Conns, NEW m \in Messages, DeleteLoad(c, m)
       PROVE TablesOK' /\ SessionOK'
  BY <1>20, <1>5 DEF DeleteLoad, Mine
<1> HIDE DEF TablesOK
<1> QED BY <1>1, <1>2, <1>3, <1>4, <1>6, <1>7, <1>8, <1>9, <1>10, <1>11, <1>12, <1>13,
           <1>14, <1>15, <1>16, <1>17, <1>18, <1>19, <1>20 DEF Next

\* The first state has the types.
LEMMA TypeInit == Init => TypeOK
<1> SUFFICES ASSUME Init PROVE TypeOK
  OBVIOUS
<1>1. row \in [Messages -> Row \cup {None}] BY DEF Init
<1>2. held \in [Conns -> [Messages -> Row \cup {None}]] BY DEF Init
<1>3. work \in [Conns -> Op \cup {Idle}] BY DEF Init
<1>4. /\ msgVar \in [Conns -> Messages \cup {NoMessage}]
      /\ tgtVar \in [Conns -> Messages \cup {NoMessage}]
  BY DEF Init
<1>5. reactions \in [Messages -> SUBSET {User[c] : c \in Conns}] BY DEF Init
<1>6. \A c \in Conns, m \in Messages : held[c][m] = None BY DEF Init
<1> QED BY <1>1, <1>2, <1>3, <1>4, <1>5, <1>6 DEF Init, TypeOK

\* The tables, the disk and the sessions of the handlers are well typed, and a
\* session holds no object that its handler no longer refers to.
THEOREM StoreTypes == Spec => []TypeOK
BY TypeInit, TypeStep, PTL DEF Spec

(***************************************************************************)
(* What a step may do to a message, to its attachment and to the room      *)
(***************************************************************************)

\* A row stays, goes with its room, is posted with the attachment it has, or is
\* changed without undoing its deletion or getting an attachment.
LEMMA RowStep ==
  ASSUME TypeOK, [Next]_vars, NEW m \in Messages
  PROVE \/ row'[m] = row[m]
        \/ row'[m] = None /\ room' = "gone"
        \/ row[m] = None /\ room # "gone" /\ (row'[m].file => m \in files)
           /\ (m \in Attached => m \in files)
        \/ /\ row[m] # None /\ row'[m] # None
           /\ row[m].deleted => row'[m].deleted
           /\ row'[m].file => row[m].file
<1>1. ASSUME NEW c \in Conns, NEW n \in Messages, Post(c, n)
      PROVE \/ row'[m] = row[m]
            \/ row[m] = None /\ room # "gone" /\ (row'[m].file => m \in files)
               /\ (m \in Attached => m \in files)
  <2>1. CASE n = m
    <3>1. PICK text \in BOOLEAN :
            row' = [row EXCEPT ![n] = [content |-> text, deleted |-> FALSE,
                                       file |-> n \in Attached]]
      BY <1>1 DEF Post
    <3>2. row'[m] = [content |-> text, deleted |-> FALSE, file |-> m \in Attached]
      BY <2>1, <3>1 DEF TypeOK
    <3>3. row'[m].file = (m \in Attached) BY <3>2
    <3> QED BY <1>1, <2>1, <3>3 DEF Post
  <2>2. CASE n # m
    BY <1>1, <2>2 DEF Post, TypeOK
  <2> QED BY <2>1, <2>2
<1>2. ASSUME NEW c \in Conns, EditCommit(c) \/ DeleteCommit(c)
      PROVE \/ row'[m] = row[m]
            \/ /\ row[m] # None /\ row'[m] # None
               /\ row[m].deleted => row'[m].deleted
               /\ row'[m].file => row[m].file
  <2> DEFINE n == work[c].msg
  <2>1. n \in Messages BY <1>2, DoingOp DEF EditCommit, DeleteCommit
  <2>2. CASE row[n] = None \/ n # m
    BY <1>2, <2>1, <2>2 DEF EditCommit, DeleteCommit, TypeOK
  <2>3. CASE row[n] # None /\ n = m
    <3>1. row[m] \in Row BY <2>3 DEF TypeOK
    <3>2. row' \in [Messages -> Row \cup {None}] BY TypeStep DEF TypeOK
    <3>3. CASE EditCommit(c)
      <4>1. \/ row' = row
            \/ row' = [row EXCEPT ![m] = [row[m] EXCEPT !.content = TRUE]]
        BY <2>3, <3>1, <3>3 DEF EditCommit
      <4>2. [row[m] EXCEPT !.content = TRUE] \in Row BY <3>1 DEF Row
      <4>3. /\ [row[m] EXCEPT !.content = TRUE].deleted = row[m].deleted
            /\ [row[m] EXCEPT !.content = TRUE].file = row[m].file
        BY <3>1 DEF Row
      <4>4. row' # row => row'[m] = [row[m] EXCEPT !.content = TRUE]
        BY <4>1 DEF TypeOK
      <4> QED BY <2>3, <4>2, <4>3, <4>4, RowIsThere
    <3>4. CASE DeleteCommit(c)
      <4> DEFINE r == [content |-> row[m].content /\ ~held[c][m].content, deleted |-> TRUE,
                       file |-> row[m].file /\ ~held[c][m].file]
      <4>1. row'[m] = r BY <2>3, <3>4 DEF DeleteCommit, TypeOK
      <4>2. r.deleted /\ (r.file => row[m].file) OBVIOUS
      <4>3. r # None
        <5>1. "absent" \notin DOMAIN r /\ "absent" \in DOMAIN None BY DEF None
        <5> QED BY <5>1
      <4> HIDE DEF r
      <4> QED BY <2>3, <4>1, <4>2, <4>3
    <3> QED BY <1>2, <3>3, <3>4
  <2> QED BY <2>2, <2>3
<1>3. CASE RoomCommit
  BY <1>3 DEF RoomCommit
<1>4. CASE UNCHANGED row
  BY <1>4
<1> QED BY <1>1, <1>2, <1>3, <1>4
        DEF Next, UploadSave, UploadInsert, UploadCut, EditLoad, DeleteLoad, ReactLoad,
            EditRefresh, DeleteFile, DeleteRefresh, DeleteUnlink, ReactRead, ReactCommit,
            Disconnect, RoomList, RoomFail, RoomUnlink, vars, tables

\* No step of any handler brings a deleted message back.
THEOREM TombstonesStay == Spec => TombstoneStays
<1>1. TypeOK /\ [Next]_vars =>
        [\A m \in Messages :
            row[m] # None /\ row[m].deleted => row'[m] = None \/ row'[m].deleted]_vars
  <2> SUFFICES ASSUME TypeOK, Next, NEW m \in Messages, row[m] # None, row[m].deleted
               PROVE row'[m] = None \/ row'[m].deleted
    OBVIOUS
  <2> QED BY RowStep
<1> QED BY <1>1, StoreTypes, PTL DEF Spec, TombstoneStays

(***************************************************************************)
(* Attachments                                                             *)
(***************************************************************************)

\* The deletion of message m has been committed, and its file is to be unlinked.
Clearing(c, m) ==
  /\ Doing(c, "delete", "refresh") \/ Doing(c, "delete", "unlink")
  /\ work[c].found /\ work[c].msg = m

\* The deletion of message m will take its attachment's row with it.
Found(c, m) == Doing(c, "delete", "commit") /\ work[c].found /\ work[c].msg = m

\* So it is, or its handler is about to look for the attachment's row.
Foreseen(c, m) == Found(c, m) \/ (Doing(c, "delete", "file") /\ work[c].msg = m)

\* A room that is gone has no messages.
GoneIsEmpty == room = "gone" => \A m \in Messages : row[m] = None

\* An upload that has no row yet has a file, and no message refers to it.
SavedFresh ==
  room # "gone" => \A m \in saved : m \in disk /\ m \notin files /\ row[m] = None

\* An attachment waits on disk for its message.
FilesWait == room # "gone" => \A m \in files : row[m] = None => m \in disk

\* Only a message loaded with an attachment has it looked up for deletion.
FoundWasHeld ==
  \A c \in Conns, m \in Messages : Foreseen(c, m) => held[c][m].file

\* A message whose file is about to be unlinked refers to none.
ClearedFirst ==
  \A c \in Conns, m \in Messages :
     Clearing(c, m) => room = "gone" \/ (row[m] # None /\ ~row[m].file)

StoreInv ==
  /\ TypeOK /\ GoneIsEmpty /\ SavedFresh /\ FilesWait /\ FoundWasHeld /\ ClearedFirst
  /\ AttachmentOnDisk /\ FilesAccounted

\* A room goes with its rows, and does not come back.
LEMMA RoomStep ==
  ASSUME [Next]_vars
  PROVE /\ room = "gone" => room' = "gone"
        /\ room' = "gone" => room = "gone" \/ RoomCommit
BY DEF Next, UploadSave, UploadInsert, UploadCut, Post, EditLoad, DeleteLoad, ReactLoad,
       EditCommit, EditRefresh, DeleteFile, DeleteCommit, DeleteRefresh, DeleteUnlink, ReactRead,
       ReactCommit, Disconnect, RoomList, RoomFail, RoomCommit, RoomUnlink, vars, deletion

\* An attachment gets its row from an upload, and loses it to a deletion.
LEMMA FilesStep ==
  ASSUME [Next]_vars, NEW m
  PROVE /\ m \in files' => m \in files \/ (m \in saved /\ m \notin saved' /\ room # "gone")
        /\ m \in files /\ m \notin files' =>
              \/ room' = "gone"
              \/ \E c \in Conns : DeleteCommit(c) /\ Found(c, m) /\ row[m] # None
<1>1. ASSUME NEW n \in Messages, UploadInsert(n)
      PROVE /\ files \subseteq files'
            /\ m \in files' => m \in files \/ (m \in saved /\ m \notin saved' /\ room # "gone")
  BY <1>1 DEF UploadInsert
<1>2. ASSUME NEW c \in Conns, DeleteCommit(c)
      PROVE /\ files' \subseteq files
            /\ m \in files /\ m \notin files' => Found(c, m) /\ row[m] # None
  BY <1>2 DEF DeleteCommit, Found
<1>3. CASE RoomCommit
  BY <1>3 DEF RoomCommit
<1>4. CASE UNCHANGED files
  BY <1>4
<1> QED BY <1>1, <1>2, <1>3, <1>4
        DEF Next, UploadSave, UploadCut, Post, EditLoad, DeleteLoad, ReactLoad, EditCommit,
            EditRefresh, DeleteFile, DeleteRefresh, DeleteUnlink, ReactRead, ReactCommit,
            Disconnect, RoomList, RoomFail, RoomUnlink, vars, tables

\* A file is written by an upload, and unlinked when its deletion has been
\* committed or its room is gone.
LEMMA DiskStep ==
  ASSUME [Next]_vars, NEW m
  PROVE /\ m \in disk' => m \in disk \/ m \in saved'
        /\ m \in disk /\ m \notin disk' =>
              room = "gone" \/ \E c \in Conns : DeleteUnlink(c) /\ Clearing(c, m)
<1>1. ASSUME NEW n \in Messages, UploadSave(n)
      PROVE disk \subseteq disk' /\ (m \in disk' => m \in disk \/ m \in saved')
  BY <1>1 DEF UploadSave
<1>2. ASSUME NEW c \in Conns, DeleteUnlink(c)
      PROVE disk' \subseteq disk /\ (m \in disk /\ m \notin disk' => Clearing(c, m))
  BY <1>2 DEF DeleteUnlink, Clearing
<1>3. CASE RoomUnlink
  BY <1>3 DEF RoomUnlink
<1>4. CASE UNCHANGED disk
  BY <1>4
<1> QED BY <1>1, <1>2, <1>3, <1>4
        DEF Next, UploadInsert, UploadCut, Post, EditLoad, DeleteLoad, ReactLoad, EditCommit,
            EditRefresh, DeleteFile, DeleteCommit, DeleteRefresh, ReactRead, ReactCommit,
            Disconnect, RoomList, RoomFail, RoomCommit, vars

\* An upload begins for a message that has neither row nor file, and ends with
\* a row or with a file that was cut off.
LEMMA SavedStep ==
  ASSUME [Next]_vars, NEW m
  PROVE /\ m \in saved' => \/ m \in saved
                           \/ /\ room # "gone" /\ m \notin disk /\ row[m] = None /\ m \in disk'
                              /\ UNCHANGED <<row, files>>
        /\ m \in saved /\ m \notin saved' => m \in files' \/ m \in lost'
<1>1. ASSUME NEW n \in Messages, UploadSave(n) \/ UploadInsert(n) \/ UploadCut(n)
      PROVE /\ m \in saved' => \/ m \in saved
                               \/ /\ room # "gone" /\ m \notin disk /\ row[m] = None
                                  /\ m \in disk' /\ UNCHANGED <<row, files>>
            /\ m \in saved /\ m \notin saved' => m \in files' \/ m \in lost'
  BY <1>1 DEF UploadSave, UploadInsert, UploadCut, tables
<1>2. CASE UNCHANGED saved
  BY <1>2
<1> QED BY <1>1, <1>2
        DEF Next, Post, EditLoad, DeleteLoad, ReactLoad, EditCommit, EditRefresh, DeleteFile,
            DeleteCommit, DeleteRefresh, DeleteUnlink, ReactRead, ReactCommit, Disconnect,
            RoomList, RoomFail, RoomCommit, RoomUnlink, vars

\* What was cut off is not forgotten.
LEMMA LostStays == [Next]_vars => lost \subseteq lost'
BY DEF Next, UploadSave, UploadInsert, UploadCut, Post, EditLoad, DeleteLoad, ReactLoad,
       EditCommit, EditRefresh, DeleteFile, DeleteCommit, DeleteRefresh, DeleteUnlink, ReactRead,
       ReactCommit, Disconnect, RoomList, RoomFail, RoomCommit, RoomUnlink, vars

\* What handler c does next.
HandlerStep(c) ==
  \/ \E m \in Messages : Post(c, m) \/ EditLoad(c, m) \/ DeleteLoad(c, m) \/ ReactLoad(c, m)
  \/ EditCommit(c) \/ EditRefresh(c)
  \/ DeleteFile(c) \/ DeleteCommit(c) \/ DeleteRefresh(c) \/ DeleteUnlink(c)
  \/ ReactRead(c) \/ ReactCommit(c) \/ Disconnect(c)

\* Deletions and what their handlers hold are changed by their handlers only.
LEMMA OthersStay ==
  ASSUME TypeOK, [Next]_vars, NEW c \in Conns, ~HandlerStep(c)
  PROVE work'[c] = work[c] /\ held'[c] = held[c]
<1>1. ASSUME NEW d \in Conns, HandlerStep(d) PROVE work'[c] = work[c] /\ held'[c] = held[c]
  <2>1. c # d BY <1>1
  <2>2. ASSUME NEW n \in Messages,
               Post(d, n) \/ EditLoad(d, n) \/ DeleteLoad(d, n) \/ ReactLoad(d, n)
        PROVE work'[c] = work[c] /\ held'[c] = held[c]
    BY <2>1, <2>2 DEF Post, EditLoad, DeleteLoad, ReactLoad, Start, Finish, TypeOK
  <2>3. CASE EditCommit(d) \/ EditRefresh(d) \/ ReactRead(d) \/ ReactCommit(d) \/ Disconnect(d)
    BY <2>1, <2>3
    DEF EditCommit, EditRefresh, ReactRead, ReactCommit, Disconnect, HangUp, Finish, TypeOK
  <2>4. CASE DeleteFile(d) \/ DeleteCommit(d) \/ DeleteRefresh(d) \/ DeleteUnlink(d)
    BY <2>1, <2>4
    DEF DeleteFile, DeleteCommit, DeleteRefresh, DeleteUnlink, HangUp, Finish, TypeOK
  <2> QED BY <1>1, <2>2, <2>3, <2>4 DEF HandlerStep
<1>2. CASE UNCHANGED session
  BY <1>2 DEF session
<1> QED BY <1>1, <1>2
        DEF Next, HandlerStep, UploadSave, UploadInsert, UploadCut, RoomList, RoomFail,
            RoomCommit, RoomUnlink, vars

\* A handler that has finished is in no stage of an operation.
LEMMA IdleStep ==
  ASSUME TypeOK, NEW c \in Conns, NEW map, NEW mv, NEW tv,
         HangUp(c) \/ Finish(c, map, mv, tv), NEW op, NEW stage
  PROVE ~Doing(c, op, stage)'
<1>1. work'[c] = Idle BY DEF HangUp, Finish, TypeOK
<1> QED BY <1>1 DEF Doing

\* The stages of a deletion follow one another.
LEMMA DeletionStep ==
  ASSUME TypeOK, [Next]_vars, NEW c \in Conns, NEW m \in Messages
  PROVE /\ Clearing(c, m)' =>
              Clearing(c, m) \/ (DeleteCommit(c) /\ Found(c, m) /\ row[m] # None)
        /\ Clearing(c, m) /\ ~Clearing(c, m)' => m \in lost' \/ m \notin disk'
        /\ Foreseen(c, m)' =>
              held'[c][m].file \/ (Foreseen(c, m) /\ held'[c][m] = held[c][m])
        /\ DeleteCommit(c) /\ Found(c, m) /\ row[m] # None => Clearing(c, m)'
<1> DEFINE Goal ==
      /\ Clearing(c, m)' =>
            Clearing(c, m) \/ (DeleteCommit(c) /\ Found(c, m) /\ row[m] # None)
      /\ Clearing(c, m) /\ ~Clearing(c, m)' => m \in lost' \/ m \notin disk'
      /\ Foreseen(c, m)' =>
            held'[c][m].file \/ (Foreseen(c, m) /\ held'[c][m] = held[c][m])
      /\ DeleteCommit(c) /\ Found(c, m) /\ row[m] # None => Clearing(c, m)'
<1> USE DEF Clearing, Found, Foreseen
<1>1. CASE ~HandlerStep(c)
  <2>1. work'[c] = work[c] /\ held'[c] = held[c] BY <1>1, OthersStay
  <2> QED BY <1>1, <2>1 DEF Doing, HandlerStep
<1>2. ASSUME \A stage : ~Doing(c, "delete", stage) /\ ~Doing(c, "delete", stage)'
      PROVE Goal
  BY <1>2 DEF DeleteCommit
<1>3. ASSUME NEW n \in Messages, Post(c, n) \/ EditLoad(c, n) \/ ReactLoad(c, n) PROVE Goal
  <2>1. work[c] = Idle
    BY <1>3 DEF Post, EditLoad, Mine, ReactLoad
  <2>2. work'[c] = Idle \/ work'[c].op \in {"edit", "react"}
    BY <1>3 DEF Post, EditLoad, Start, ReactLoad, Finish, TypeOK
  <2> QED BY <1>2, <2>1, <2>2 DEF Doing
<1>4. CASE EditCommit(c) \/ EditRefresh(c) \/ ReactRead(c) \/ ReactCommit(c)
  <2>1. work[c] \in Op /\ work[c].op \in {"edit", "react"}
    BY <1>4, DoingOp DEF EditCommit, EditRefresh, ReactRead, ReactCommit
  <2>2. work'[c] = Idle \/ work'[c].op = work[c].op
    BY <1>4, <2>1
    DEF EditCommit, EditRefresh, ReactRead, ReactCommit, HangUp, Finish, TypeOK, Op
  <2> QED BY <1>2, <2>1, <2>2 DEF Doing
<1>5. ASSUME NEW n \in Messages, DeleteLoad(c, n) PROVE Goal
  <2>1. /\ work[c] = Idle
        /\ work'[c].msg = n /\ ~work'[c].found
        /\ work'[c].stage = IF Loaded(c, n).file THEN "file" ELSE "commit"
    BY <1>5 DEF DeleteLoad, Mine, Start, TypeOK
  <2>2. held'[c][n] = Loaded(c, n) BY <1>5 DEF DeleteLoad, Start, TypeOK
  <2> QED BY <2>1, <2>2 DEF Doing, DeleteCommit
<1>6. CASE DeleteFile(c)
  <2>1. /\ Doing(c, "delete", "file") /\ work[c] \in Op /\ held' = held
        /\ work'[c] = [work[c] EXCEPT !.stage = "commit", !.found = work[c].msg \in files]
    BY <1>6, DoingOp DEF DeleteFile, TypeOK
  <2>2. work'[c].msg = work[c].msg /\ work'[c].stage = "commit"
    BY <2>1 DEF Op
  <2> QED BY <2>1, <2>2 DEF Doing, DeleteCommit
<1>7. CASE DeleteCommit(c)
  <2>1. Doing(c, "delete", "commit") /\ work[c] \in Op BY <1>7, DoingOp DEF DeleteCommit
  <2>2. CASE row[work[c].msg] = None
    <3>1. \A stage : ~Doing(c, "delete", stage)' BY <1>7, <2>2, IdleStep DEF DeleteCommit
    <3> QED BY <2>1, <2>2, <3>1 DEF Doing
  <2>3. CASE row[work[c].msg] # None
    <3>1. work'[c] = [work[c] EXCEPT !.stage = "refresh"]
      BY <1>7, <2>3 DEF DeleteCommit, TypeOK
    <3>2. /\ work'[c].op = work[c].op /\ work'[c].msg = work[c].msg
          /\ work'[c].found = work[c].found /\ work'[c].stage = "refresh"
      BY <2>1, <3>1 DEF Op
    <3>3. work'[c] # Idle BY <2>1, <3>2 DEF Doing, Idle
    <3> QED BY <1>7, <2>1, <2>3, <3>2, <3>3 DEF Doing
  <2> QED BY <2>2, <2>3
<1>8. CASE DeleteRefresh(c)
  <2>1. Doing(c, "delete", "refresh") /\ work[c] \in Op BY <1>8, DoingOp DEF DeleteRefresh
  <2>2. CASE row[work[c].msg] = None
    <3>1. \A stage : ~Doing(c, "delete", stage)' BY <1>8, <2>2, IdleStep DEF DeleteRefresh
    <3>2. work[c].found => work[c].msg \in lost' BY <1>8, <2>2 DEF DeleteRefresh
    <3> QED BY <2>1, <3>1, <3>2 DEF Doing, DeleteCommit
  <2>3. CASE row[work[c].msg] # None
    <3>1. work'[c] = [work[c] EXCEPT !.stage = "unlink"]
      BY <1>8, <2>3 DEF DeleteRefresh, TypeOK
    <3>2. /\ work'[c].op = work[c].op /\ work'[c].msg = work[c].msg
          /\ work'[c].found = work[c].found /\ work'[c].stage = "unlink"
      BY <2>1, <3>1 DEF Op
    <3>3. work'[c] # Idle BY <2>1, <3>2 DEF Doing, Idle
    <3> QED BY <2>1, <3>2, <3>3 DEF Doing, DeleteCommit
  <2> QED BY <2>2, <2>3
<1>9. CASE DeleteUnlink(c)
  <2>1. Doing(c, "delete", "unlink") BY <1>9 DEF DeleteUnlink
  <2>2. \A stage : ~Doing(c, "delete", stage)' BY <1>9, IdleStep DEF DeleteUnlink
  <2>3. work[c].found => work[c].msg \notin disk' BY <1>9 DEF DeleteUnlink
  <2> QED BY <2>1, <2>2, <2>3 DEF Doing, DeleteCommit
<1>10. CASE Disconnect(c) /\ ~DeleteCommit(c)
  <2>1. \A stage : ~Doing(c, "delete", stage)' BY <1>10, IdleStep DEF Disconnect
  <2>2. Clearing(c, m) => m \in lost' BY <1>10 DEF Disconnect
  <2> QED BY <1>10, <2>1, <2>2
<1> QED BY <1>1, <1>3, <1>4, <1>5, <1>6, <1>7, <1>8, <1>9, <1>10 DEF HandlerStep

\* Every step keeps each message's attachment with it.
LEMMA StoreStep == StoreInv /\ [Next]_vars => StoreInv'
<1> SUFFICES ASSUME StoreInv, [Next]_vars PROVE StoreInv'
  OBVIOUS
<1> USE DEF StoreInv
<1> USE StoreAssumption
<1>1. TypeOK' BY TypeStep
<1>2. GoneIsEmpty'
  <2>1. CASE RoomCommit
    BY <2>1 DEF RoomCommit, GoneIsEmpty
  <2>2. CASE ~RoomCommit
    <3>1. SUFFICES ASSUME room = "gone", NEW m \in Messages PROVE row'[m] = None
      BY <2>2, RoomStep DEF GoneIsEmpty
    <3>2. row[m] = None BY <3>1 DEF GoneIsEmpty
    <3> QED BY <3>1, <3>2, RowStep
  <2> QED BY <2>1, <2>2
<1>3. SavedFresh'
  <2>1. SUFFICES ASSUME room' # "gone", NEW m \in saved'
                 PROVE m \in disk' /\ m \notin files' /\ row'[m] = None
    BY DEF SavedFresh
  <2>2. room # "gone" /\ m \in Messages BY <1>1, <2>1, RoomStep DEF TypeOK
  <2>3. CASE m \in saved
    <3>1. m \in disk /\ m \notin files /\ row[m] = None BY <2>2, <2>3 DEF SavedFresh
    <3>2. m \notin files' BY <2>1, <3>1, FilesStep
    <3>3. row'[m] = None
      <4>1. m \in Attached BY <2>3 DEF TypeOK
      <4> QED BY <2>1, <2>2, <3>1, <4>1, RowStep
    <3>4. m \in disk'
      <4>1. ASSUME NEW c \in Conns, Clearing(c, m) PROVE FALSE
        BY <2>2, <3>1, <4>1 DEF ClearedFirst
      <4> QED BY <2>2, <3>1, <4>1, DiskStep
    <3> QED BY <3>2, <3>3, <3>4
  <2>4. CASE m \notin saved
    <3>1. m \notin disk /\ row[m] = None /\ m \in disk' /\ UNCHANGED <<row, files>>
      BY <2>1, <2>4, SavedStep
    <3> QED BY <2>2, <3>1 DEF FilesWait
  <2> QED BY <2>3, <2>4
<1>4. FilesWait'
  <2>1. SUFFICES ASSUME room' # "gone", NEW m \in files', row'[m] = None PROVE m \in disk'
    BY DEF FilesWait
  <2>2. room # "gone" /\ m \in Messages BY <1>1, <2>1, RoomStep DEF TypeOK
  <2>3. row[m] = None BY <2>1, <2>2, RowStep
  <2>4. m \in disk BY <2>1, <2>2, <2>3, FilesStep DEF FilesWait, SavedFresh
  <2>5. ASSUME NEW c \in Conns, Clearing(c, m) PROVE FALSE
    BY <2>2, <2>3, <2>5 DEF ClearedFirst
  <2> QED BY <2>2, <2>4, <2>5, DiskStep
<1>5. FoundWasHeld'
  BY DeletionStep DEF FoundWasHeld
<1>6. ClearedFirst'
  <2>1. SUFFICES ASSUME NEW c \in Conns, NEW m \in Messages, Clearing(c, m)', room' # "gone"
                 PROVE row'[m] # None /\ ~row'[m].file
    BY DEF ClearedFirst
  <2>2. room # "gone" BY <2>1, RoomStep
  <2>3. CASE Clearing(c, m)
    <3>1. row[m] # None /\ ~row[m].file BY <2>2, <2>3 DEF ClearedFirst
    <3> QED BY <2>1, <3>1, RowStep
  <2>4. CASE ~Clearing(c, m)
    <3>1. DeleteCommit(c) /\ Found(c, m) /\ row[m] # None BY <2>1, <2>4, DeletionStep
    <3>2. held[c][m].file BY <3>1 DEF FoundWasHeld, Foreseen
    <3> DEFINE r == [content |-> row[m].content /\ ~held[c][m].content, deleted |-> TRUE,
                     file |-> row[m].file /\ ~held[c][m].file]
    <3>3. row'[m] = r
      <4>1. work[c].msg = m /\ row' = [row EXCEPT ![m] = r]
        BY <3>1 DEF DeleteCommit, Found
      <4> HIDE DEF r
      <4> QED BY <4>1 DEF TypeOK
    <3>4. ~row'[m].file
      <4>1. ~r.file BY <3>2
      <4> HIDE DEF r
      <4> QED BY <3>3, <4>1
    <3>5. row'[m] # None BY <2>1, <3>1, RowStep
    <3> QED BY <3>4, <3>5
  <2> QED BY <2>3, <2>4
<1>7. AttachmentOnDisk'
  <2>1. SUFFICES ASSUME NEW m \in Messages, row'[m] # None, row'[m].file
                 PROVE m \in files' /\ m \in disk'
    BY DEF AttachmentOnDisk
  <2>2. m \in files /\ m \in disk /\ room # "gone" /\ room' # "gone"
    <3>1. room' # "gone" BY <1>2, <2>1 DEF GoneIsEmpty
    <3>2. room # "gone" BY <3>1, RoomStep
    <3>3. CASE row[m] = None
      BY <2>1, <3>1, <3>2, <3>3, RowStep DEF FilesWait
    <3>4. CASE row[m] # None
      BY <2>1, <3>1, <3>2, <3>4, RowStep DEF AttachmentOnDisk
    <3> QED BY <3>1, <3>2, <3>3, <3>4
  <2>3. ASSUME NEW c \in Conns, Clearing(c, m)' PROVE FALSE
    BY <1>6, <2>1, <2>2, <2>3 DEF ClearedFirst
  <2>4. m \in files'
    BY <2>2, <2>3, FilesStep, DeletionStep
  <2>5. m \in disk'
    <3>1. ASSUME NEW c \in Conns, Clearing(c, m) PROVE FALSE
      <4>1. row[m] # None /\ ~row[m].file BY <2>2, <3>1 DEF ClearedFirst
      <4> QED BY <2>1, <2>2, <4>1, RowStep
    <3> QED BY <2>2, <3>1, DiskStep
  <2> QED BY <2>4, <2>5
<1>8. FilesAccounted'
  <2> DEFINE Accounted(m) == m \in files \cup saved \cup lost \/ \E c \in Conns : Clearing(c, m)
  <2>1. FilesAccounted <=> (room # "gone" => \A m \in disk : Accounted(m))
    BY Zenon DEF FilesAccounted, Clearing
  <2>2. FilesAccounted' <=> (room' # "gone" => \A m \in disk' : Accounted(m)')
    BY Zenon DEF FilesAccounted, Clearing
  <2>3. SUFFICES ASSUME room' # "gone", NEW m \in disk', ~(m \in files' \cup saved' \cup lost')
                 PROVE \E c \in Conns : Clearing(c, m)'
    BY <2>2
  <2>4. room # "gone" /\ m \in Messages BY <1>1, <2>3, RoomStep DEF TypeOK
  <2>5. m \in disk /\ m \notin saved /\ m \notin lost
    BY <2>3, DiskStep, SavedStep, LostStays
  <2>6. CASE m \in files
    BY <2>3, <2>4, <2>6, FilesStep, DeletionStep
  <2>7. CASE m \notin files
    <3>1. PICK c \in Conns : Clearing(c, m) BY <2>1, <2>4, <2>5, <2>7
    <3> QED BY <2>3, <2>4, <3>1, DeletionStep
  <2> QED BY <2>6, <2>7
<1> QED BY <1>1, <1>2, <1>3, <1>4, <1>5, <1>6, <1>7, <1>8

\* At first there are no messages and no files.
LEMMA StoreInit == Init => StoreInv
<1> SUFFICES ASSUME Init PROVE StoreInv
  OBVIOUS
<1>1. \A c \in Conns : \A op, stage : ~Doing(c, op, stage) BY DEF Init, Doing
<1>2. \A m \in Messages : row[m] = None BY DEF Init
<1>3. GoneIsEmpty /\ SavedFresh /\ FilesWait /\ AttachmentOnDisk /\ FilesAccounted
  BY <1>2 DEF Init, GoneIsEmpty, SavedFresh, FilesWait, AttachmentOnDisk, FilesAccounted
<1>4. FoundWasHeld /\ ClearedFirst
  BY <1>1 DEF FoundWasHeld, ClearedFirst, Foreseen, Found, Clearing
<1> QED BY <1>3, <1>4, TypeInit DEF StoreInv

\* Whatever deletions interleave, fail or are cut off, a message that refers to
\* an attachment finds its row and its file.
THEOREM AttachmentsKept == Spec => []AttachmentOnDisk
<1>1. StoreInv => AttachmentOnDisk BY DEF StoreInv
<1> QED BY <1>1, StoreInit, StoreStep, PTL DEF Spec

\* And no file is orphaned while the room is there, but by a cut.
THEOREM FilesKept == Spec => []FilesAccounted
<1>1. StoreInv => FilesAccounted BY DEF StoreInv
<1> QED BY <1>1, StoreInit, StoreStep, PTL DEF Spec

(***************************************************************************)
(* Unread dots.  A queue holds a kind of item about a room (Holds), and    *)
(* each of one kind is followed by one of another (Outlasted).  The frames *)
(* on their way bring the server to the room on screen, and out of every   *)
(* other (InStep).                                                         *)
(***************************************************************************)

Holds(q, k, r) == \E i \in 1 .. Len(q) : q[i].kind = k /\ q[i].room = r
Outlasted(q, k, l, r) ==
  \A i \in 1 .. Len(q) : q[i].kind = k /\ q[i].room = r =>
    \E j \in (i + 1) .. Len(q) : q[j].kind = l /\ q[j].room = r

OnScreen(r) == visible /\ at = r

InStep ==
  /\ ~up => joined = {} /\ frames = <<>> /\ inbox = <<>>
  /\ \A r \in Rooms :
       IF OnScreen(r)
       THEN up => /\ r \in joined \/ Holds(frames, "join", r)
                  /\ Outlasted(frames, "leave", "join", r)
       ELSE /\ r \in joined => Holds(frames, "leave", r)
            /\ Outlasted(frames, "join", "leave", r)

\* Of a room with no mark-read overtaken, at most one is under way, and it takes
\* last_read_at no further back.
OneMark ==
  /\ \A r \in Rooms : readAt[r] <= begun[r]
  /\ \A c \in calls : c.kind = "mark" => c.stamp <= begun[c.room]
  /\ \A r \in Rooms \ unsure :
       /\ \A c, d \in Marks(r) : c = d
       /\ \A c \in Marks(r) : c.stage = "begun" => readAt[r] <= c.stamp

(***************************************************************************)
(* A committed message that is not read yet (Waits).  Its dot is there or  *)
(* still to come (DotComes): its author's handler has yet to publish it,   *)
(* or to tell this user, or an envelope is on its way, or the room is      *)
(* about to be marked read.  A dot stands for a message (DotTrue).  Of     *)
(* the room on screen, the mark-read is still to come (ReadComes).         *)
(***************************************************************************)

At(r, n, s) == [room |-> r, n |-> n, stage |-> s] \in posts
Waits(r, n) == n \in readAt[r] + 1 .. begun[r] /\ ~At(r, n, "inserted")
Marked(r, n) == \E c \in Marks(r) : c.stage = "sent" \/ n <= c.stamp

DotComing(r, n) ==
  \/ At(r, n, "committed")
  \/ At(r, n, "published") /\ r \notin joined \cup ghost
  \/ Holds(inbox, "unread_update", r)
  \/ Holds(inbox, "message", r) /\ OnScreen(r)
  \/ Marked(r, n)
  \/ dot[r]
DotComes ==
  \A r \in Rooms \ (astray \cup unsure) : \A n \in readAt[r] + 1 .. begun[r] :
    Waits(r, n) => DotComing(r, n)

DotTrue == \A r \in Rooms \ astray : dot[r] => Unread(r) /\ Marks(r) = {}

ReadComing(r, n) ==
  \/ Holds(frames, "join", r)
  \/ Holds(inbox, "joined", r)
  \/ At(r, n, "committed")
  \/ Holds(inbox, "message", r)
  \/ Marked(r, n)
ReadComes ==
  \A r \in Rooms \ unsure : \A n \in readAt[r] + 1 .. begun[r] :
    up /\ OnScreen(r) /\ Waits(r, n) => ReadComing(r, n)

DotsInv ==
  /\ DotsTypeOK /\ IsFiniteSet(calls)
  /\ InStep /\ OneMark /\ DotComes /\ DotTrue /\ ReadComes

(***************************************************************************)
(* Types                                                                   *)
(***************************************************************************)

\* Queues of some type stay so as items of it come and go.
LEMMA QueueTypes ==
  ASSUME NEW S, NEW q \in Seq(S)
  PROVE  /\ \A x \in S : Append(q, x) \in Seq(S)
         /\ q # <<>> => Head(q) \in S /\ Tail(q) \in Seq(S)
         /\ \A s \in Seq(S) : q \o s \in Seq(S)
         /\ \A i \in 1 .. Len(q) : q[i] \in S
OBVIOUS

\* What the queues of frames and envelopes hold.
LEMMA FrameTypes ==
  ASSUME DotsTypeOK
  PROVE  /\ \A k \in {"join", "leave"} : Desired(k) \in Seq(Frame)
         /\ \A r \in Rooms : <<[kind |-> "join", room |-> r]>> \in Seq(Frame)
         /\ \A k : InboxOf(k) \subseteq Rooms
         /\ Missing \subseteq Rooms
<1>1. ASSUME NEW k \in {"join", "leave"}, NEW r \in Rooms PROVE <<[kind |-> k, room |-> r]>> \in Seq(Frame)
  <2>1. PICK x : x = [kind |-> k, room |-> r] OBVIOUS
  <2>2. x \in Frame BY <2>1 DEF Frame
  <2>3. <<x>> \in Seq(Frame) BY <2>2
  <2> QED BY <2>1, <2>3
<1>2. \A k \in {"join", "leave"} : Desired(k) \in Seq(Frame) BY <1>1 DEF Desired, DotsTypeOK
<1>3. \A i \in 1 .. Len(inbox) : inbox[i].room \in Rooms
  <2>1. inbox \in Seq(Envelope) BY DEF DotsTypeOK
  <2>2. \A i \in 1 .. Len(inbox) : inbox[i] \in Envelope BY ONLY <2>1, QueueTypes
  <2> QED BY <2>2 DEF Envelope
<1>4. \A k : InboxOf(k) \subseteq Rooms BY <1>3 DEF InboxOf
<1> QED BY <1>1, <1>2, <1>4 DEF Missing

\* There is an identifier left for one more call.
LEMMA FreeIdType ==
  ASSUME DotsTypeOK, IsFiniteSet(calls)
  PROVE  FreeId \in Nat
<1> DEFINE N == Cardinality(calls)
           ids == {c.id : c \in calls}
           f == [c \in calls |-> c.id]
<1>1. N \in Nat BY FS_CardinalityType
<1>2. IsFiniteSet(ids) /\ Cardinality(ids) <= N
  <2>1. f \in Surjection(calls, ids) BY DEF Surjection
  <2> HIDE DEF f, ids
  <2> QED BY <2>1, FS_Surjection
<1>3. Cardinality(0 .. N) = N + 1 BY <1>1, FS_Interval
<1>4. ~(0 .. N \subseteq ids)
  <2> SUFFICES ASSUME 0 .. N \subseteq ids PROVE FALSE
    OBVIOUS
  <2>1. Cardinality(0 .. N) <= Cardinality(ids) BY <1>2, FS_Subset
  <2>2. Cardinality(ids) \in Nat BY <1>2, FS_CardinalityType
  <2> QED BY <1>1, <1>2, <1>3, <2>1, <2>2
<1>5. \E n \in 0 .. N : \A c \in calls : c.id # n BY <1>4
<1>6. FreeId \in 0 .. N BY <1>5 DEF FreeId
<1> QED BY <1>1, <1>6

\* A call of the page's is one more.
LEMMA MarkReadType ==
  ASSUME DotsTypeOK, IsFiniteSet(calls), NEW r \in Rooms, MarkRead(r)
  PROVE  /\ calls' \subseteq Calls /\ IsFiniteSet(calls')
         /\ dot' \in [Rooms -> BOOLEAN] /\ unsure' \subseteq Rooms
<1>1. CASE visible
  <2>1. PICK m : m = [id |-> FreeId, kind |-> "mark", room |-> r, stamp |-> 0, stage |-> "sent"]
    OBVIOUS
  <2>2. m \in Calls BY <2>1, FreeIdType DEF Calls
  <2>3. calls' = calls \cup {m} BY <1>1, <2>1 DEF MarkRead
  <2>4. IsFiniteSet(calls') BY <2>3, FS_AddElement
  <2> QED BY <1>1, <2>2, <2>3, <2>4 DEF MarkRead, Cleared, DotsTypeOK
<1>2. CASE ~visible BY <1>2 DEF MarkRead, DotsTypeOK
<1> QED BY <1>1, <1>2

\* Every step keeps the types.
LEMMA DotsTypeStep ==
  DotsTypeOK /\ IsFiniteSet(calls) /\ [DotsNext]_dotsVars => DotsTypeOK' /\ IsFiniteSet(calls)'
<1> SUFFICES ASSUME DotsTypeOK, IsFiniteSet(calls), [DotsNext]_dotsVars
             PROVE  DotsTypeOK' /\ IsFiniteSet(calls')
  OBVIOUS
<1> USE DEF server, link, page, history, counts
<1>1. ASSUME NEW r \in Rooms, Insert(r) PROVE DotsTypeOK' /\ IsFiniteSet(calls')
  BY <1>1 DEF Insert, DotsTypeOK
<1>2. ASSUME NEW p \in posts, Commit(p) \/ Publish(p) \/ Notify(p)
      PROVE DotsTypeOK' /\ IsFiniteSet(calls')
  <2>1. p \in [room : Rooms, n : Nat, stage : {"inserted", "committed", "published"}] BY DEF DotsTypeOK
  <2>2. \A s \in {"committed", "published"} :
          [p EXCEPT !.stage = s] \in [room : Rooms, n : Nat, stage : {"inserted", "committed", "published"}]
    BY <2>1
  <2>3. posts' \subseteq [room : Rooms, n : Nat, stage : {"inserted", "committed", "published"}]
    BY <1>2, <2>2 DEF Commit, Publish, Notify, Moved, DotsTypeOK
  <2>4. \A k \in {"joined", "message", "unread_update"} : [kind |-> k, room |-> p.room] \in Envelope
    BY <2>1 DEF Envelope
  <2>5. inbox \in Seq(Envelope) BY DEF DotsTypeOK
  <2>6. \A x \in Envelope : Append(inbox, x) \in Seq(Envelope) BY ONLY <2>5, QueueTypes
  <2>7. inbox' \in Seq(Envelope)
    BY <1>2, <2>4, <2>5, <2>6 DEF Commit, Publish, Notify
  <2>8. astray' \subseteq Rooms BY <1>2, <2>1 DEF Commit, Publish, Notify, DotsTypeOK
  <2> QED BY <1>2, <2>3, <2>7, <2>8 DEF Commit, Publish, Notify, DotsTypeOK
<1>3. CASE HandleFrame
  <2>0. frames \in Seq(Frame) /\ frames # <<>> /\ inbox \in Seq(Envelope) BY <1>3 DEF HandleFrame, DotsTypeOK
  <2>1. Head(frames) \in Frame /\ Tail(frames) \in Seq(Frame) BY ONLY <2>0, QueueTypes
  <2>2. [kind |-> "joined", room |-> Head(frames).room] \in Envelope BY <2>1 DEF Envelope, Frame
  <2>3. \A x \in Envelope : Append(inbox, x) \in Seq(Envelope) BY ONLY <2>0, QueueTypes
  <2>4. inbox' \in Seq(Envelope) BY <1>3, <2>0, <2>2, <2>3 DEF HandleFrame
  <2>5. joined' \subseteq Rooms BY <1>3, <2>1 DEF HandleFrame, DotsTypeOK, Frame
  <2>6. {p.room : p \in {q \in posts : q.stage = "published" /\ q.room = Head(frames).room}} \subseteq Rooms
    BY DEF DotsTypeOK
  <2>7. astray' \subseteq Rooms BY <1>3, <2>6 DEF HandleFrame, DotsTypeOK
  <2> QED BY <1>3, <2>1, <2>4, <2>5, <2>7 DEF HandleFrame, DotsTypeOK
<1>4. CASE Drop \/ Cleanup
  <2>1. <<>> \in Seq(Frame) /\ <<>> \in Seq(Envelope) OBVIOUS
  <2> QED BY <1>4, <2>1, FrameTypes DEF Drop, Cleanup, DotsTypeOK
<1>5. CASE Reconnect
  <2>1. <<>> \in Seq(Frame) OBVIOUS
  <2> QED BY <1>5, <2>1, FrameTypes DEF Reconnect, DotsTypeOK
<1>6. ASSUME NEW r \in Rooms \cup {NoRoom}, GoTo(r) PROVE DotsTypeOK' /\ IsFiniteSet(calls')
  <2>1. PICK a, b : /\ a = Desired("leave") /\ b = (IF r = NoRoom THEN <<>> ELSE <<[kind |-> "join", room |-> r]>>)
    OBVIOUS
  <2>2. frames \in Seq(Frame) BY DEF DotsTypeOK
  <2>3. a \in Seq(Frame) BY <2>1, FrameTypes
  <2>4. b \in Seq(Frame) BY <2>1, FrameTypes
  <2>5. a \o b \in Seq(Frame) BY ONLY <2>3, <2>4, QueueTypes
  <2>6. frames \o (a \o b) \in Seq(Frame) BY ONLY <2>2, <2>5, QueueTypes
  <2>7. frames' = IF up THEN frames \o (a \o b) ELSE frames BY <1>6, <2>1 DEF GoTo, SendFrames
  <2>8. frames' \in Seq(Frame) BY <2>2, <2>6, <2>7
  <2> QED BY <1>6, <2>8, FrameTypes DEF GoTo, DotsTypeOK
<1>7. CASE Look
  <2>1. PICK a : a = Desired(IF visible THEN "leave" ELSE "join")
    OBVIOUS
  <2>2. frames \in Seq(Frame) BY DEF DotsTypeOK
  <2>3. a \in Seq(Frame) BY <2>1, FrameTypes
  <2>4. frames \o a \in Seq(Frame) BY ONLY <2>2, <2>3, QueueTypes
  <2>5. frames' = IF up THEN frames \o a ELSE frames BY <1>7, <2>1 DEF Look, SendFrames
  <2>6. frames' \in Seq(Frame) BY <2>2, <2>4, <2>5
  <2> QED BY <1>7, <2>6, FrameTypes DEF Look, DotsTypeOK
<1>8. CASE ReceiveMessage \/ ReceiveJoined
  <2>0. inbox \in Seq(Envelope) /\ inbox # <<>> /\ inbox' = Tail(inbox)
    BY <1>8 DEF ReceiveMessage, ReceiveJoined, Arrived, DotsTypeOK
  <2>1. Head(inbox) \in Envelope /\ inbox' \in Seq(Envelope) BY ONLY <2>0, QueueTypes
  <2>2. CASE Head(inbox).room = at
    <3>1. at \in Rooms BY <2>1, <2>2 DEF Envelope
    <3>2. MarkRead(at) BY <1>8, <2>2 DEF ReceiveMessage, ReceiveJoined
    <3> QED BY <1>8, <2>1, <3>1, <3>2, MarkReadType DEF ReceiveMessage, ReceiveJoined, DotsTypeOK
  <2>3. CASE Head(inbox).room # at
    BY <1>8, <2>1, <2>3 DEF ReceiveMessage, ReceiveJoined, DotsTypeOK
  <2> QED BY <2>2, <2>3
<1>9. CASE ReceiveUnread
  <2>0. inbox \in Seq(Envelope) /\ inbox # <<>> /\ inbox' = Tail(inbox)
    BY <1>9 DEF ReceiveUnread, Arrived, DotsTypeOK
  <2>1. Head(inbox) \in Envelope /\ inbox' \in Seq(Envelope) BY ONLY <2>0, QueueTypes
  <2>2. Head(inbox).room \in Rooms BY <2>1 DEF Envelope
  <2> QED BY <1>9, <2>1, <2>2 DEF ReceiveUnread, DotsTypeOK
<1>10. CASE RefreshRooms
  <2>1. [id |-> FreeId, kind |-> "list", stage |-> "sent", dots |-> {}] \in Calls
    BY FreeIdType DEF Calls
  <2>2. calls' \subseteq Calls /\ IsFiniteSet(calls')
    BY <1>10, <2>1, FS_AddElement DEF RefreshRooms, DotsTypeOK
  <2> QED BY <1>10, <2>2 DEF RefreshRooms, DotsTypeOK
<1>11. ASSUME NEW c \in calls, ServeList(c) \/ Copied(c) \/ AnswerList(c) \/ BeginMark(c)
                               \/ CommitMark(c) \/ Break(c)
       PROVE DotsTypeOK' /\ IsFiniteSet(calls')
  <2>1. c \in Calls BY DEF DotsTypeOK
  <2>2. IsFiniteSet(calls \ {c}) BY FS_RemoveElement
  <2>3. \A d : IsFiniteSet((calls \ {c}) \cup {d}) BY <2>2, FS_AddElement
  <2>4. CASE ServeList(c)
    <3>1. [c EXCEPT !.stage = "served", !.dots = {r \in Rooms : Unread(r)}] \in Calls
      BY <2>1, <2>4 DEF ServeList, Loading, Calls
    <3> QED BY <2>3, <2>4, <3>1 DEF ServeList, DotsTypeOK
  <2>9. CASE Copied(c)
    <3>1. PICK dots \in copies :
            calls' = (calls \ {c}) \cup {[c EXCEPT !.stage = "served", !.dots = dots]}
      BY <2>9 DEF Copied
    <3>2. [c EXCEPT !.stage = "served", !.dots = dots] \in Calls
      BY <2>1, <2>9 DEF Copied, Loading, Calls, DotsTypeOK
    <3> QED BY <2>3, <2>9, <3>1, <3>2 DEF Copied, DotsTypeOK
  <2>5. CASE BeginMark(c)
    <3>1. c.room \in Rooms BY <2>1, <2>5 DEF BeginMark, Calls
    <3>2. [c EXCEPT !.stage = "begun", !.stamp = begun[c.room]] \in Calls
      BY <2>1, <2>5, <3>1 DEF BeginMark, Calls, DotsTypeOK
    <3> QED BY <2>3, <2>5, <3>2 DEF BeginMark, DotsTypeOK
  <2>6. CASE AnswerList(c) BY <2>2, <2>6 DEF AnswerList, DotsTypeOK
  <2>7. CASE CommitMark(c)
    <3>1. c.room \in Rooms /\ c.stamp \in Nat BY <2>1, <2>7 DEF CommitMark, Calls
    <3> QED BY <2>2, <2>7, <3>1 DEF CommitMark, DotsTypeOK
  <2>8. CASE Break(c)
    <3>1. c.kind = "mark" => c.room \in Rooms BY <2>1 DEF Calls
    <3> QED BY <2>2, <2>8, <3>1 DEF Break, DotsTypeOK
  <2> QED BY <1>11, <2>4, <2>5, <2>6, <2>7, <2>8, <2>9
<1>12. CASE UNCHANGED dotsVars BY <1>12 DEF dotsVars, DotsTypeOK
<1> QED BY <1>1, <1>2, <1>3, <1>4, <1>5, <1>6, <1>7, <1>8, <1>9, <1>10, <1>11, <1>12 DEF DotsNext

\* At first nothing is under way.
LEMMA DotsTypeInit == DotsInit => DotsTypeOK /\ IsFiniteSet(calls)
<1> SUFFICES ASSUME DotsInit PROVE DotsTypeOK /\ IsFiniteSet(calls)
  OBVIOUS
<1>1. IsFiniteSet(calls) BY FS_EmptySet DEF DotsInit
<1> QED BY <1>1 DEF DotsInit, DotsTypeOK

\* Messages, the socket, the page and its calls are well typed at all times.
THEOREM DotsTypes == DotsSpec => []DotsTypeOK
<1>1. DotsSpec => [](DotsTypeOK /\ IsFiniteSet(calls))
  BY DotsTypeInit, DotsTypeStep, PTL DEF DotsSpec
<1> QED BY <1>1, PTL

(***************************************************************************)
(* Queues                                                                  *)
(***************************************************************************)

\* What is taken off a queue is the first item, and the others stay.
LEMMA HoldsTail ==
  ASSUME NEW S, NEW q \in Seq(S), q # <<>>, NEW z, z = Tail(q), NEW k, NEW r
  PROVE  Holds(q, k, r) <=> (Head(q).kind = k /\ Head(q).room = r) \/ Holds(z, k, r)
<1>1. PICK n : n = Len(q) OBVIOUS
<1>2. /\ n \in Nat /\ n > 0 /\ Len(z) = n - 1 /\ Head(q) = q[1]
      /\ \A i \in 1 .. (n - 1) : z[i] = q[i + 1]
  BY <1>1
<1>3. ASSUME Holds(q, k, r) PROVE (Head(q).kind = k /\ Head(q).room = r) \/ Holds(z, k, r)
  <2>1. PICK i \in 1 .. n : q[i].kind = k /\ q[i].room = r BY <1>1, <1>3 DEF Holds
  <2>2. CASE i = 1 BY <1>2, <2>1, <2>2
  <2>3. CASE i # 1
    <3>1. i - 1 \in 1 .. (n - 1) /\ (i - 1) + 1 = i BY <1>2, <2>3
    <3>2. z[i - 1] = q[i] BY <1>2, <3>1
    <3> QED BY <1>2, <2>1, <3>1, <3>2 DEF Holds
  <2> QED BY <2>2, <2>3
<1>4. ASSUME Head(q).kind = k, Head(q).room = r PROVE Holds(q, k, r)
  BY <1>1, <1>2, <1>4 DEF Holds
<1>5. ASSUME Holds(z, k, r) PROVE Holds(q, k, r)
  <2>1. PICK i \in 1 .. (n - 1) : z[i].kind = k /\ z[i].room = r BY <1>2, <1>5 DEF Holds
  <2>2. i + 1 \in 1 .. n BY <1>2
  <2> QED BY <1>1, <1>2, <2>1, <2>2 DEF Holds
<1> QED BY <1>3, <1>4, <1>5

\* An item added to a queue is in it, with the others.
LEMMA HoldsMore ==
  ASSUME NEW S, NEW q \in Seq(S), NEW x \in S, NEW z, z = Append(q, x), NEW k, NEW r
  PROVE  Holds(z, k, r) <=> Holds(q, k, r) \/ (x.kind = k /\ x.room = r)
<1>1. PICK n : n = Len(q) OBVIOUS
<1>2. n \in Nat /\ Len(z) = n + 1 /\ z[n + 1] = x /\ \A i \in 1 .. n : z[i] = q[i] BY <1>1
<1>3. ASSUME Holds(z, k, r) PROVE Holds(q, k, r) \/ (x.kind = k /\ x.room = r)
  <2>1. PICK i \in 1 .. (n + 1) : z[i].kind = k /\ z[i].room = r BY <1>2, <1>3 DEF Holds
  <2>2. CASE i = n + 1 BY <1>2, <2>1, <2>2
  <2>3. CASE i # n + 1
    <3>1. i \in 1 .. n BY <1>2, <2>3
    <3> QED BY <1>1, <1>2, <2>1, <3>1 DEF Holds
  <2> QED BY <2>2, <2>3
<1>4. ASSUME Holds(q, k, r) PROVE Holds(z, k, r)
  <2>1. PICK i \in 1 .. n : q[i].kind = k /\ q[i].room = r BY <1>1, <1>4 DEF Holds
  <2>2. i \in 1 .. (n + 1) BY <1>2
  <2> QED BY <1>2, <2>1, <2>2 DEF Holds
<1>5. ASSUME x.kind = k, x.room = r PROVE Holds(z, k, r)
  <2>1. n + 1 \in 1 .. (n + 1) BY <1>2
  <2> QED BY <1>2, <1>5, <2>1 DEF Holds
<1> QED BY <1>3, <1>4, <1>5

\* The same of a queue added to another.
LEMMA HoldsBoth ==
  ASSUME NEW S, NEW q \in Seq(S), NEW s \in Seq(S), NEW z, z = q \o s, NEW k, NEW r
  PROVE  Holds(z, k, r) <=> Holds(q, k, r) \/ Holds(s, k, r)
<1>1. PICK n, m : n = Len(q) /\ m = Len(s) OBVIOUS
<1>2. /\ n \in Nat /\ m \in Nat /\ Len(z) = n + m
      /\ \A i \in 1 .. (n + m) : z[i] = IF i <= n THEN q[i] ELSE s[i - n]
  BY <1>1
<1>3. ASSUME Holds(z, k, r) PROVE Holds(q, k, r) \/ Holds(s, k, r)
  <2>1. PICK i \in 1 .. (n + m) : z[i].kind = k /\ z[i].room = r BY <1>2, <1>3 DEF Holds
  <2>2. CASE i <= n
    <3>1. i \in 1 .. n /\ z[i] = q[i] BY <1>2, <2>2
    <3> QED BY <1>1, <2>1, <3>1 DEF Holds
  <2>3. CASE ~(i <= n)
    <3>1. i - n \in 1 .. m /\ z[i] = s[i - n] BY <1>2, <2>3
    <3> QED BY <1>1, <2>1, <3>1 DEF Holds
  <2> QED BY <2>2, <2>3
<1>4. ASSUME Holds(q, k, r) PROVE Holds(z, k, r)
  <2>1. PICK i \in 1 .. n : q[i].kind = k /\ q[i].room = r BY <1>1, <1>4 DEF Holds
  <2>2. i \in 1 .. (n + m) /\ z[i] = q[i] BY <1>2
  <2> QED BY <1>2, <2>1, <2>2 DEF Holds
<1>5. ASSUME Holds(s, k, r) PROVE Holds(z, k, r)
  <2>1. PICK i \in 1 .. m : s[i].kind = k /\ s[i].room = r BY <1>1, <1>5 DEF Holds
  <2>2. n + i \in 1 .. (n + m) /\ ~(n + i <= n) /\ (n + i) - n = i BY <1>2
  <2>3. z[n + i] = s[i] BY <1>2, <2>2
  <2> QED BY <1>2, <2>1, <2>2, <2>3 DEF Holds
<1> QED BY <1>3, <1>4, <1>5

\* What outlasts in a queue outlasts in what is left of it.
LEMMA OutlastedTail ==
  ASSUME NEW S, NEW q \in Seq(S), q # <<>>, NEW z, z = Tail(q), NEW k, NEW l, NEW r,
         Outlasted(q, k, l, r)
  PROVE  /\ Outlasted(z, k, l, r)
         /\ Head(q).kind = k /\ Head(q).room = r => Holds(z, l, r)
<1>1. PICK n : n = Len(q) OBVIOUS
<1>2. /\ n \in Nat /\ n > 0 /\ Len(z) = n - 1 /\ Head(q) = q[1]
      /\ \A i \in 1 .. (n - 1) : z[i] = q[i + 1]
  BY <1>1
<1>3. ASSUME NEW i \in 1 .. n, q[i].kind = k, q[i].room = r
      PROVE  \E j \in i .. (n - 1) : z[j].kind = l /\ z[j].room = r
  <2>1. PICK j \in (i + 1) .. n : q[j].kind = l /\ q[j].room = r BY <1>1, <1>3 DEF Outlasted
  <2>2. j - 1 \in i .. (n - 1) /\ j - 1 \in 1 .. (n - 1) /\ (j - 1) + 1 = j BY <1>2
  <2>3. z[j - 1] = q[j] BY <1>2, <2>2
  <2> QED BY <2>1, <2>2, <2>3
<1>4. Outlasted(z, k, l, r)
  <2> SUFFICES ASSUME NEW i \in 1 .. (n - 1), z[i].kind = k, z[i].room = r
               PROVE  \E j \in (i + 1) .. (n - 1) : z[j].kind = l /\ z[j].room = r
    BY <1>2 DEF Outlasted
  <2>1. i + 1 \in 1 .. n /\ z[i] = q[i + 1] BY <1>2
  <2> QED BY <1>3, <2>1
<1>5. ASSUME Head(q).kind = k, Head(q).room = r PROVE Holds(z, l, r)
  <2>1. 1 \in 1 .. n BY <1>2
  <2> QED BY <1>2, <1>3, <1>5, <2>1 DEF Holds
<1> QED BY <1>4, <1>5

\* In two queues, one behind the other, a kind outlasts if it does in the second,
\* and in the first, too, unless the second has it.
LEMMA OutlastedBoth ==
  ASSUME NEW S, NEW q \in Seq(S), NEW s \in Seq(S), NEW z, z = q \o s, NEW k, NEW l, NEW r,
         Outlasted(s, k, l, r), Outlasted(q, k, l, r) \/ Holds(s, l, r)
  PROVE  Outlasted(z, k, l, r)
<1>1. PICK n, m : n = Len(q) /\ m = Len(s) OBVIOUS
<1>2. /\ n \in Nat /\ m \in Nat /\ Len(z) = n + m
      /\ \A i \in 1 .. (n + m) : z[i] = IF i <= n THEN q[i] ELSE s[i - n]
  BY <1>1
<1>3. SUFFICES ASSUME NEW i \in 1 .. (n + m), z[i].kind = k, z[i].room = r
               PROVE  \E j \in (i + 1) .. (n + m) : z[j].kind = l /\ z[j].room = r
  BY <1>2 DEF Outlasted
<1>4. CASE ~(i <= n)
  <2>1. i - n \in 1 .. m /\ z[i] = s[i - n] BY <1>2, <1>4
  <2>2. PICK j \in ((i - n) + 1) .. m : s[j].kind = l /\ s[j].room = r
    BY <1>1, <1>3, <2>1 DEF Outlasted
  <2>3. n + j \in (i + 1) .. (n + m) /\ n + j \in 1 .. (n + m) /\ ~(n + j <= n) /\ (n + j) - n = j
    BY <1>2, <1>4
  <2>4. z[n + j] = s[j] BY <1>2, <2>3
  <2> QED BY <2>2, <2>3, <2>4
<1>5. CASE i <= n /\ Holds(s, l, r)
  <2>1. PICK j \in 1 .. m : s[j].kind = l /\ s[j].room = r BY <1>1, <1>5 DEF Holds
  <2>2. n + j \in (i + 1) .. (n + m) /\ n + j \in 1 .. (n + m) /\ ~(n + j <= n) /\ (n + j) - n = j
    BY <1>2, <1>5
  <2>3. z[n + j] = s[j] BY <1>2, <2>2
  <2> QED BY <2>1, <2>2, <2>3
<1>6. CASE i <= n /\ Outlasted(q, k, l, r)
  <2>1. i \in 1 .. n /\ z[i] = q[i] BY <1>2, <1>6
  <2>2. PICK j \in (i + 1) .. n : q[j].kind = l /\ q[j].room = r BY <1>1, <1>3, <1>6, <2>1 DEF Outlasted
  <2>3. j \in (i + 1) .. (n + m) /\ j \in 1 .. (n + m) /\ j <= n BY <1>2, <2>1
  <2>4. z[j] = q[j] BY <1>2, <2>3
  <2> QED BY <2>2, <2>3, <2>4
<1> QED BY <1>4, <1>5, <1>6

\* A queue of one item, and none.
LEMMA HoldsOne ==
  ASSUME NEW x, NEW z, z = <<x>>, NEW k, NEW l, NEW r
  PROVE  /\ Holds(z, k, r) <=> x.kind = k /\ x.room = r
         /\ ~(x.kind = k /\ x.room = r) => Outlasted(z, k, l, r)
<1>1. Len(z) = 1 /\ z[1] = x OBVIOUS
<1> QED BY <1>1 DEF Holds, Outlasted

\* An empty queue holds nothing that could outlast anything.
LEMMA HoldsNone ==
  ASSUME NEW z, z = <<>>, NEW k, NEW l, NEW r
  PROVE  ~Holds(z, k, r) /\ Outlasted(z, k, l, r)
BY DEF Holds, Outlasted

\* The frames about the room on screen.
LEMMA DesiredHolds ==
  ASSUME DotsTypeOK, NEW r \in Rooms, NEW k, NEW j, NEW l
  PROVE  /\ Holds(Desired(k), j, r) <=> at = r /\ j = k
         /\ ~(at = r /\ j = k) => Outlasted(Desired(k), j, l, r)
<1>1. CASE at = NoRoom
  <2>1. Desired(k) = <<>> BY <1>1 DEF Desired
  <2> QED BY <1>1, <2>1, HoldsNone, UnreadDotsAssumption
<1>2. CASE at # NoRoom
  <2>1. PICK x : x = [kind |-> k, room |-> at] OBVIOUS
  <2>2. x.kind = k /\ x.room = at BY <2>1
  <2>3. Desired(k) = <<x>> BY <1>2, <2>1 DEF Desired
  <2> QED BY <2>2, <2>3, HoldsOne
<1> QED BY <1>1, <1>2

(***************************************************************************)
(* The rooms the server holds the page to be in                            *)
(***************************************************************************)

\* What InStep says of a room, and of a socket that is down.
InRoom(r) ==
  IF OnScreen(r)
  THEN up => (r \in joined \/ Holds(frames, "join", r)) /\ Outlasted(frames, "leave", "join", r)
  ELSE (r \in joined => Holds(frames, "leave", r)) /\ Outlasted(frames, "join", "leave", r)
Down == ~up => joined = {} /\ frames = <<>> /\ inbox = <<>>

\* InStep, room by room.
LEMMA InStepIs == InStep <=> Down /\ \A r \in Rooms : InRoom(r)
BY DEF InStep, Down, InRoom

\* While the socket is down nothing tells the server where the page is.
LEMMA DownInRoom ==
  ASSUME NEW r, ~up', joined' = {}, frames' = <<>>
  PROVE  InRoom(r)'
<1>1. Outlasted(frames', "join", "leave", r) BY HoldsNone
<1> QED BY <1>1 DEF InRoom

\* The server reads a frame.
LEMMA FrameInStep ==
  ASSUME DotsTypeOK, InStep, HandleFrame
  PROVE  InStep'
<1> USE DEF server, link, page, history, counts
<1>1. /\ frames \in Seq(Frame) /\ frames # <<>> /\ frames' = Tail(frames)
      /\ UNCHANGED <<up, at, visible>>
  BY DEF HandleFrame, DotsTypeOK
<1>2. up BY <1>1 DEF InStep
<1>3. PICK f : f = Head(frames) OBVIOUS
<1>4. f \in Frame BY ONLY <1>1, <1>3, QueueTypes
<1>5. /\ f.kind = "join" => joined' = joined \cup {f.room}
      /\ f.kind = "leave" => joined' = joined \ {f.room}
  BY <1>3 DEF HandleFrame
<1>6. f.kind \in {"join", "leave"} BY <1>4 DEF Frame
<1>7. ASSUME NEW r \in Rooms PROVE InRoom(r)'
  <2>0. InRoom(r) BY InStepIs
  <2>1. \A k : Holds(frames, k, r) <=> (f.kind = k /\ f.room = r) \/ Holds(frames', k, r)
    BY ONLY <1>1, <1>3, HoldsTail
  <2>2. ASSUME NEW k, NEW l, Outlasted(frames, k, l, r)
        PROVE  Outlasted(frames', k, l, r) /\ (f.kind = k /\ f.room = r => Holds(frames', l, r))
    BY ONLY <1>1, <1>3, <2>2, OutlastedTail
  <2>3. r \in joined' => r \in joined \/ (f.kind = "join" /\ f.room = r) BY <1>5, <1>6
  <2>4. (r \in joined /\ ~(f.kind = "leave" /\ f.room = r)) \/ (f.kind = "join" /\ f.room = r) => r \in joined'
    BY <1>5, <1>6
  <2>5. CASE OnScreen(r)
    <3>1. OnScreen(r)' BY <1>1, <2>5 DEF OnScreen
    <3>2. /\ r \in joined \/ Holds(frames, "join", r)
          /\ Outlasted(frames, "leave", "join", r)
      BY <1>2, <2>0, <2>5 DEF InRoom
    <3>3. Outlasted(frames', "leave", "join", r) BY <2>2, <3>2
    <3>4. r \in joined' \/ Holds(frames', "join", r) BY <2>1, <2>2, <2>4, <3>2
    <3> QED BY <3>1, <3>3, <3>4 DEF InRoom
  <2>6. CASE ~OnScreen(r)
    <3>1. ~OnScreen(r)' BY <1>1, <2>6 DEF OnScreen
    <3>2. /\ r \in joined => Holds(frames, "leave", r)
          /\ Outlasted(frames, "join", "leave", r)
      BY <2>0, <2>6 DEF InRoom
    <3>3. Outlasted(frames', "join", "leave", r) BY <2>2, <3>2
    <3>4. r \in joined' => Holds(frames', "leave", r)
      <4> SUFFICES ASSUME r \in joined' PROVE Holds(frames', "leave", r)
        OBVIOUS
      <4>1. CASE f.kind = "join" /\ f.room = r BY <2>2, <3>2, <4>1
      <4>2. CASE ~(f.kind = "join" /\ f.room = r)
        <5>1. r \in joined BY <2>3, <4>2
        <5>2. ~(f.kind = "leave" /\ f.room = r) BY <1>5
        <5> QED BY <2>1, <3>2, <5>1, <5>2
      <4> QED BY <4>1, <4>2
    <3> QED BY <3>1, <3>3, <3>4 DEF InRoom
  <2> QED BY <2>5, <2>6
<1>8. Down' BY <1>1, <1>2 DEF Down
<1> QED BY <1>7, <1>8, InStepIs DEF InStep, Down, InRoom

\* The socket goes and comes back.
LEMMA SocketInStep ==
  ASSUME DotsTypeOK, InStep, Drop \/ Reconnect
  PROVE  InStep'
<1> USE DEF server, link, page, history, counts
<1>1. CASE Drop
  <2>1. Down' BY <1>1 DEF Drop, Down
  <2>2. ASSUME NEW r \in Rooms PROVE InRoom(r)' BY <1>1, DownInRoom DEF Drop
  <2> QED BY <2>1, <2>2 DEF InStep, Down, InRoom
<1>2. CASE Reconnect
  <2>1. up' /\ joined' = {} /\ UNCHANGED <<at, visible>>
        /\ frames' = IF visible THEN Desired("join") ELSE <<>>
    BY <1>2 DEF Reconnect, InStep
  <2>2. ASSUME NEW r \in Rooms PROVE InRoom(r)'
    <3>1. CASE visible
      <4>1. Holds(frames', "join", r) <=> at = r BY <2>1, <3>1, DesiredHolds
      <4>2. Outlasted(frames', "leave", "join", r) BY <2>1, <3>1, DesiredHolds
      <4>3. at # r => Outlasted(frames', "join", "leave", r) BY <2>1, <3>1, DesiredHolds
      <4> QED BY <2>1, <3>1, <4>1, <4>2, <4>3 DEF InRoom, OnScreen
    <3>2. CASE ~visible
      <4>1. Outlasted(frames', "join", "leave", r) BY <2>1, <3>2, HoldsNone
      <4> QED BY <2>1, <3>2, <4>1 DEF InRoom, OnScreen
    <3> QED BY <3>1, <3>2
  <2> QED BY <2>1, <2>2 DEF InStep, Down, InRoom
<1> QED BY <1>1, <1>2

\* The user goes to another room: the frames of leaving and of joining follow.
LEMMA GoInStep ==
  ASSUME DotsTypeOK, InStep, NEW o \in Rooms \cup {NoRoom}, GoTo(o)
  PROVE  InStep'
<1> USE DEF server, link, page, history, counts
<1>1. /\ visible /\ visible' = visible /\ o # at /\ at' = o /\ UNCHANGED <<up, joined, inbox>>
  BY DEF GoTo
<1>2. CASE ~up
  <2>1. joined' = {} /\ frames' = <<>> /\ inbox' = <<>> BY <1>1, <1>2 DEF InStep, GoTo, SendFrames
  <2>2. ASSUME NEW r \in Rooms PROVE InRoom(r)' BY <1>1, <1>2, <2>1, DownInRoom
  <2> QED BY <2>1, <2>2 DEF InStep, Down, InRoom
<1>3. CASE up
  <2>1. PICK a, b, s : /\ a = Desired("leave") /\ b = (IF o = NoRoom THEN <<>> ELSE <<[kind |-> "join", room |-> o]>>)
                       /\ s = a \o b
    OBVIOUS
  <2>s. s = a \o b BY <2>1
  <2>2. frames \in Seq(Frame) /\ a \in Seq(Frame) /\ b \in Seq(Frame)
    BY <2>1, FrameTypes DEF DotsTypeOK
  <2>3. s \in Seq(Frame) BY ONLY <2>1, <2>2, QueueTypes
  <2>4. frames' = frames \o s BY <1>3, <2>1 DEF GoTo, SendFrames
  <2>5. ASSUME NEW r \in Rooms PROVE InRoom(r)'
    <3>1. \A k : Holds(a, k, r) <=> at = r /\ k = "leave" BY <2>1, DesiredHolds
    <3>2. \A k, l : ~(at = r /\ k = "leave") => Outlasted(a, k, l, r) BY <2>1, DesiredHolds
    <3>3. \A k, l : /\ Holds(b, k, r) <=> o = r /\ k = "join"
                    /\ ~(o = r /\ k = "join") => Outlasted(b, k, l, r)
      <4>1. CASE o = NoRoom
        <5>1. o # r BY <4>1, UnreadDotsAssumption
        <5>2. b = <<>> BY <2>1, <4>1
        <5> QED BY <5>1, <5>2, HoldsNone
      <4>2. CASE o # NoRoom
        <5>1. PICK x : x = [kind |-> "join", room |-> o] OBVIOUS
        <5>2. b = <<x>> /\ x.kind = "join" /\ x.room = o BY <2>1, <4>2, <5>1
        <5> QED BY <5>2, HoldsOne
      <4> QED BY <4>1, <4>2
    <3>4. \A k : Holds(s, k, r) <=> Holds(a, k, r) \/ Holds(b, k, r) BY ONLY <2>s, <2>2, HoldsBoth
    <3>5. \A k : Holds(frames', k, r) <=> Holds(frames, k, r) \/ Holds(s, k, r)
      BY ONLY <2>2, <2>3, <2>4, HoldsBoth
    <3>6. ASSUME NEW k, NEW l, Outlasted(b, k, l, r), Outlasted(a, k, l, r) \/ Holds(b, l, r)
          PROVE  Outlasted(s, k, l, r)
      BY ONLY <2>s, <2>2, <3>6, OutlastedBoth
    <3>7. ASSUME NEW k, NEW l, Outlasted(s, k, l, r), Outlasted(frames, k, l, r) \/ Holds(s, l, r)
          PROVE  Outlasted(frames', k, l, r)
      BY ONLY <2>2, <2>3, <2>4, <3>7, OutlastedBoth
    <3>8. CASE o = r
      <4>1. Outlasted(s, "leave", "join", r) BY <1>1, <3>2, <3>3, <3>6, <3>8
      <4>2. Holds(s, "join", r) BY <3>3, <3>4, <3>8
      <4>3. Outlasted(frames', "leave", "join", r) /\ Holds(frames', "join", r)
        BY <3>5, <3>7, <4>1, <4>2
      <4> QED BY <1>1, <3>8, <4>3 DEF InRoom, OnScreen
    <3>9. CASE o # r
      <4>1. Outlasted(s, "join", "leave", r) BY <3>2, <3>3, <3>6, <3>9
      <4>2. CASE at = r
        <5>1. Holds(s, "leave", r) BY <3>1, <3>4, <4>2
        <5>2. Outlasted(frames', "join", "leave", r) /\ Holds(frames', "leave", r)
          BY <3>5, <3>7, <4>1, <5>1
        <5> QED BY <1>1, <3>9, <5>2 DEF InRoom, OnScreen
      <4>3. CASE at # r
        <5>1. (r \in joined => Holds(frames, "leave", r)) /\ Outlasted(frames, "join", "leave", r)
          BY <4>3 DEF InStep, OnScreen
        <5>2. Outlasted(frames', "join", "leave", r) /\ (r \in joined => Holds(frames', "leave", r))
          BY <3>5, <3>7, <4>1, <5>1
        <5> QED BY <1>1, <3>9, <5>2 DEF InRoom, OnScreen
      <4> QED BY <4>2, <4>3
    <3> QED BY <3>8, <3>9
  <2> QED BY <1>1, <1>3, <2>5 DEF InStep, Down, InRoom
<1> QED BY <1>2, <1>3

\* The page is hidden or shown: the frame about the room on screen follows.
LEMMA LookInStep ==
  ASSUME DotsTypeOK, InStep, Look
  PROVE  InStep'
<1> USE DEF server, link, page, history, counts
<1>1. visible' = ~visible /\ UNCHANGED <<up, joined, inbox, at>>
  BY DEF Look
<1>2. CASE ~up
  <2>1. joined' = {} /\ frames' = <<>> /\ inbox' = <<>> BY <1>1, <1>2 DEF InStep, Look, SendFrames
  <2>2. ASSUME NEW r \in Rooms PROVE InRoom(r)' BY <1>1, <1>2, <2>1, DownInRoom
  <2> QED BY <2>1, <2>2 DEF InStep, Down, InRoom
<1>3. CASE up
  <2>1. PICK j, a : j = (IF visible THEN "leave" ELSE "join") /\ a = Desired(j)
    OBVIOUS
  <2>2. frames \in Seq(Frame) /\ a \in Seq(Frame)
    BY <2>1, FrameTypes DEF DotsTypeOK
  <2>3. frames' = frames \o a BY <1>3, <2>1 DEF Look, SendFrames
  <2>4. ASSUME NEW r \in Rooms PROVE InRoom(r)'
    <3>1. \A k : Holds(a, k, r) <=> at = r /\ k = j BY <2>1, DesiredHolds
    <3>2. \A k, l : ~(at = r /\ k = j) => Outlasted(a, k, l, r) BY <2>1, DesiredHolds
    <3>3. \A k : Holds(frames', k, r) <=> Holds(frames, k, r) \/ Holds(a, k, r)
      BY ONLY <2>2, <2>3, HoldsBoth
    <3>4. ASSUME NEW k, NEW l, Outlasted(a, k, l, r), Outlasted(frames, k, l, r) \/ Holds(a, l, r)
          PROVE  Outlasted(frames', k, l, r)
      BY ONLY <2>2, <2>3, <3>4, OutlastedBoth
    <3>5. CASE at = r /\ ~visible
      <4>1. Outlasted(a, "leave", "join", r) /\ Holds(a, "join", r) BY <2>1, <3>1, <3>2, <3>5
      <4>2. Outlasted(frames', "leave", "join", r) /\ Holds(frames', "join", r) BY <3>3, <3>4, <4>1
      <4> QED BY <1>1, <3>5, <4>2 DEF InRoom, OnScreen
    <3>6. CASE at = r /\ visible
      <4>1. Outlasted(a, "join", "leave", r) /\ Holds(a, "leave", r) BY <2>1, <3>1, <3>2, <3>6
      <4>2. Outlasted(frames', "join", "leave", r) /\ Holds(frames', "leave", r) BY <3>3, <3>4, <4>1
      <4> QED BY <1>1, <3>6, <4>2 DEF InRoom, OnScreen
    <3>7. CASE at # r
      <4>1. (r \in joined => Holds(frames, "leave", r)) /\ Outlasted(frames, "join", "leave", r)
        BY <3>7 DEF InStep, OnScreen
      <4>2. Outlasted(a, "join", "leave", r) BY <3>2, <3>7
      <4>3. Outlasted(frames', "join", "leave", r) /\ (r \in joined => Holds(frames', "leave", r))
        BY <3>3, <3>4, <4>1, <4>2
      <4> QED BY <1>1, <3>7, <4>3 DEF InRoom, OnScreen
    <3> QED BY <3>5, <3>6, <3>7 DEF DotsTypeOK
  <2> QED BY <1>1, <1>3, <2>4 DEF InStep, Down, InRoom
<1> QED BY <1>2, <1>3

\* Every other step leaves the frames, and takes in no envelope while the socket
\* is down.
LEMMA InStepStep ==
  ASSUME DotsTypeOK, InStep, [DotsNext]_dotsVars
  PROVE  InStep'
<1> USE DEF server, link, page, history, counts
<1>1. CASE UNCHANGED <<up, frames, joined, at, visible>> /\ (~up /\ inbox = <<>> => inbox' = <<>>)
  <2>1. \A r \in Rooms : InRoom(r)'  BY <1>1 DEF InStep, InRoom, OnScreen
  <2>2. Down' BY <1>1 DEF InStep, Down
  <2> QED BY <2>1, <2>2 DEF InStep, Down, InRoom
<1>2. ASSUME NEW p \in posts, Publish(p)
      PROVE UNCHANGED <<up, frames, joined, at, visible>> /\ (~up /\ inbox = <<>> => inbox' = <<>>)
  BY <1>2 DEF Publish, InStep
<1>3. ASSUME NEW p \in posts, Notify(p)
      PROVE UNCHANGED <<up, frames, joined, at, visible>> /\ (~up /\ inbox = <<>> => inbox' = <<>>)
  BY <1>3 DEF Notify, InStep
<1>4. CASE ReceiveMessage \/ ReceiveJoined \/ ReceiveUnread
  BY <1>1, <1>4 DEF ReceiveMessage, ReceiveJoined, ReceiveUnread, Arrived, MarkRead
<1>5. ASSUME NEW c \in calls, ServeList(c) \/ Copied(c) \/ AnswerList(c) \/ BeginMark(c)
                               \/ CommitMark(c) \/ Break(c)
      PROVE UNCHANGED <<up, frames, joined, at, visible>> /\ (~up /\ inbox = <<>> => inbox' = <<>>)
  BY <1>5 DEF ServeList, Copied, AnswerList, BeginMark, CommitMark, Break
<1>6. ASSUME NEW r \in Rooms, Insert(r)
      PROVE UNCHANGED <<up, frames, joined, at, visible>> /\ (~up /\ inbox = <<>> => inbox' = <<>>)
  BY <1>6 DEF Insert
<1>7. ASSUME NEW p \in posts, Commit(p)
      PROVE UNCHANGED <<up, frames, joined, at, visible>> /\ (~up /\ inbox = <<>> => inbox' = <<>>)
  BY <1>7 DEF Commit
<1>8. CASE Cleanup \/ RefreshRooms BY <1>1, <1>8 DEF Cleanup, RefreshRooms
<1>9. CASE UNCHANGED dotsVars BY <1>1, <1>9 DEF dotsVars
<1> QED BY <1>1, <1>2, <1>3, <1>4, <1>5, <1>6, <1>7, <1>8, <1>9,
           FrameInStep, SocketInStep, GoInStep, LookInStep DEF DotsNext

(***************************************************************************)
(* What comes of a message                                                 *)
(***************************************************************************)

Coverage == OneMark /\ DotComes /\ DotTrue /\ ReadComes

\* A room is unread for the messages that wait in it.
LEMMA UnreadIs == \A r : Unread(r) <=> \E n \in readAt[r] + 1 .. begun[r] : Waits(r, n)
BY DEF Unread, Waits, At

\* A handler goes on to its next stage, or ends.
LEMMA PostMoves ==
  ASSUME DotsTypeOK, NEW p \in posts, NEW s,
         posts' = Moved(p, s) \/ posts' = posts \ {p}, p.stage # s
  PROVE  /\ p.room \in Rooms
         /\ \A x, n, u : At(x, n, u)' <=>
               \/ At(x, n, u) /\ ~(x = p.room /\ n = p.n /\ u = p.stage)
               \/ posts' = Moved(p, s) /\ x = p.room /\ n = p.n /\ u = s
<1>1. p \in [room : Rooms, n : Nat, stage : {"inserted", "committed", "published"}] BY DEF DotsTypeOK
<1>2. \A x, n, u : [room |-> x, n |-> n, stage |-> u] = p <=> x = p.room /\ n = p.n /\ u = p.stage
  BY <1>1
<1>3. \A x, n, u : [room |-> x, n |-> n, stage |-> u] = [p EXCEPT !.stage = s]
                     <=> x = p.room /\ n = p.n /\ u = s
  BY <1>1
<1>4. CASE posts' = Moved(p, s)
  BY <1>1, <1>2, <1>3, <1>4 DEF At, Moved
<1>5. CASE posts' # Moved(p, s)
  <2>1. posts' = posts \ {p} BY <1>5
  <2> QED BY <1>1, <1>2, <1>5, <2>1 DEF At
<1> QED BY <1>4, <1>5

\* What the queues hold, as the model has it.
LEMMA QueuesHold ==
  /\ \A k, r : Holds(frames, k, r) <=> r \in FramesOf(k)
  /\ \A k, r : Holds(inbox, k, r) <=> r \in InboxOf(k)
BY DEF Holds, FramesOf, InboxOf

\* If the messages that wait are the same and so are the calls, or what they
\* mark, what is to come of them stays to be so.
LEMMA KeepsCoverage ==
  ASSUME Coverage, astray \subseteq astray', unsure \subseteq unsure',
         UNCHANGED <<readAt, begun, calls, dot>>,
         \A r \in Rooms : \A n \in readAt[r] + 1 .. begun[r] : Waits(r, n)' <=> Waits(r, n),
         \A r \in Rooms \ (astray' \cup unsure') : \A n \in readAt[r] + 1 .. begun[r] :
            Waits(r, n) /\ DotComing(r, n) => DotComing(r, n)',
         \A r \in Rooms \ unsure' : \A n \in readAt[r] + 1 .. begun[r] :
            up' /\ OnScreen(r)' /\ Waits(r, n) =>
              \/ up /\ OnScreen(r) /\ (ReadComing(r, n) => ReadComing(r, n)')
              \/ ReadComing(r, n)'
  PROVE  Coverage'
<1>1. OneMark' BY DEF Coverage, OneMark, Marks
<1>2. DotComes' BY DEF Coverage, DotComes
<1>3. \A r \in Rooms : Unread(r) => Unread(r)' BY UnreadIs DEF Unread, Waits, At
<1>4. DotTrue' BY <1>3 DEF Coverage, DotTrue, Marks
<1>5. ReadComes' BY DEF Coverage, ReadComes
<1> QED BY <1>1, <1>2, <1>4, <1>5 DEF Coverage

\* A message is inserted, and does not wait yet.
LEMMA InsertCovers ==
  ASSUME DotsTypeOK, Coverage, NEW o \in Rooms, Insert(o)
  PROVE  Coverage'
<1> USE DEF server, link, page, history, counts
<1>1. /\ UNCHANGED <<readAt, joined, ghost, up, frames, inbox, at, visible, dot, calls, astray, unsure>>
      /\ begun' = [begun EXCEPT ![o] = @ + 1]
      /\ posts' = posts \cup {[room |-> o, n |-> begun[o] + 1, stage |-> "inserted"]}
  BY DEF Insert
<1>2. begun \in [Rooms -> Nat] /\ readAt \in [Rooms -> Nat] BY DEF DotsTypeOK
<1>3. \A x, n, u : At(x, n, u)' <=> At(x, n, u) \/ (x = o /\ n = begun[o] + 1 /\ u = "inserted")
  BY <1>1 DEF At
<1>4. \A x \in Rooms, n \in Nat :
        n \in readAt[x] + 1 .. begun'[x] /\ Waits(x, n)' <=> n \in readAt[x] + 1 .. begun[x] /\ Waits(x, n)
  BY <1>1, <1>2, <1>3 DEF Waits
<1>5. \A x \in Rooms : \A n \in readAt'[x] + 1 .. begun'[x] : n \in Nat BY <1>1, <1>2
<1>6. \A x, n : /\ DotComing(x, n) => DotComing(x, n)'
                /\ ReadComing(x, n) => ReadComing(x, n)'
  BY <1>1, <1>3 DEF DotComing, ReadComing, Marked, Marks, OnScreen
<1>7. OneMark'
  <2>1. \A c \in calls : c.kind = "mark" => c.room \in Rooms /\ c.stamp \in Nat BY DEF DotsTypeOK, Calls
  <2> QED BY <1>1, <1>2, <2>1 DEF Coverage, OneMark, Marks
<1>8. DotComes' BY <1>1, <1>4, <1>5, <1>6 DEF Coverage, DotComes
<1>9. DotTrue'
  <2>1. \A x \in Rooms : Unread(x) => Unread(x)'
    <3> SUFFICES ASSUME NEW x \in Rooms, Unread(x) PROVE Unread(x)'
      OBVIOUS
    <3>1. PICK n \in readAt[x] + 1 .. begun[x] : Waits(x, n) BY UnreadIs
    <3>2. n \in Nat BY <1>2
    <3>3. n \in readAt'[x] + 1 .. begun'[x] /\ Waits(x, n)' BY <1>1, <1>4, <3>1, <3>2
    <3> QED BY <3>3 DEF Unread, Waits, At
  <2> QED BY <1>1, <2>1 DEF Coverage, DotTrue, Marks
<1>10. ReadComes' BY <1>1, <1>4, <1>5, <1>6 DEF Coverage, ReadComes, OnScreen
<1> QED BY <1>7, <1>8, <1>9, <1>10 DEF Coverage

\* It is committed: it waits, to be published.
LEMMA CommitCovers ==
  ASSUME DotsTypeOK, Coverage, NEW p \in posts, Commit(p)
  PROVE  Coverage'
<1> USE DEF server, link, page, history, counts
<1>1. /\ UNCHANGED <<begun, readAt, joined, ghost, up, frames, inbox, at, visible, dot, calls, astray, unsure>>
      /\ posts' = Moved(p, "committed") /\ p.stage = "inserted"
  BY DEF Commit
<1>2. \A x, n, u : At(x, n, u)' <=>
               \/ At(x, n, u) /\ ~(x = p.room /\ n = p.n /\ u = "inserted")
               \/ x = p.room /\ n = p.n /\ u = "committed"
  BY <1>1, PostMoves
<1>3. \A x, n : Waits(x, n)' => Waits(x, n) \/ At(x, n, "committed")'
  BY <1>1, <1>2 DEF Waits
<1>4. \A x, n : Waits(x, n) => Waits(x, n)' BY <1>1, <1>2 DEF Waits
<1>5. \A x, n : /\ DotComing(x, n) => DotComing(x, n)'
                /\ ReadComing(x, n) => ReadComing(x, n)'
                /\ At(x, n, "committed")' => DotComing(x, n)' /\ ReadComing(x, n)'
  BY <1>1, <1>2 DEF DotComing, ReadComing, Marked, Marks, OnScreen
<1>6. OneMark' BY <1>1 DEF Coverage, OneMark, Marks
<1>7. DotComes' BY <1>1, <1>3, <1>5 DEF Coverage, DotComes
<1>8. DotTrue'
  <2>1. \A x : Unread(x) => Unread(x)' BY <1>1, <1>4, UnreadIs DEF Unread, Waits, At
  <2> QED BY <1>1, <2>1 DEF Coverage, DotTrue, Marks
<1>9. ReadComes' BY <1>1, <1>3, <1>5 DEF Coverage, ReadComes, OnScreen
<1> QED BY <1>6, <1>7, <1>8, <1>9 DEF Coverage

\* It is published, to a page that is in the room and on screen, or to nobody.
LEMMA PublishCoversDots ==
  ASSUME DotsTypeOK, InStep, Coverage, NEW p \in posts, Publish(p)
  PROVE  Coverage'
<1> USE DEF server, link, page, history, counts
<1>1. /\ UNCHANGED <<begun, readAt, joined, ghost, up, frames, at, visible, dot, calls, unsure>>
      /\ posts' = Moved(p, "published") /\ p.stage = "committed"
      /\ astray' = astray \cup ({p.room} \cap joined \cap FramesOf("leave")) \cup ({p.room} \cap (ghost \ joined))
      /\ inbox \in Seq(Envelope)
  BY DEF Publish, DotsTypeOK
<1>2. \A x, n, u : At(x, n, u)' <=>
               \/ At(x, n, u) /\ ~(x = p.room /\ n = p.n /\ u = "committed")
               \/ x = p.room /\ n = p.n /\ u = "published"
  BY <1>1, PostMoves
<1>3. p.room \in Rooms BY <1>1, PostMoves
<1>4. \A k, r : Holds(inbox', k, r) <=> Holds(inbox, k, r) \/ (p.room \in joined /\ k = "message" /\ r = p.room)
  <2> SUFFICES ASSUME NEW k, NEW r
               PROVE  Holds(inbox', k, r) <=> Holds(inbox, k, r) \/ (p.room \in joined /\ k = "message" /\ r = p.room)
    OBVIOUS
  <2>1. PICK e : e = [kind |-> "message", room |-> p.room] OBVIOUS
  <2>2. e \in Envelope /\ e.kind = "message" /\ e.room = p.room BY <1>3, <2>1 DEF Envelope
  <2>3. CASE p.room \in joined
    <3>1. inbox' = Append(inbox, e) BY <2>1, <2>3 DEF Publish
    <3>2. inbox \in Seq(Envelope) /\ e \in Envelope BY <1>1, <2>2
    <3>3. Holds(inbox', k, r) <=> Holds(inbox, k, r) \/ (e.kind = k /\ e.room = r)
      BY ONLY <3>1, <3>2, HoldsMore
    <3> QED BY <2>2, <2>3, <3>3
  <2>4. CASE p.room \notin joined
    <3>1. inbox' = inbox BY <2>4 DEF Publish
    <3> QED BY <2>4, <3>1
  <2> QED BY <2>3, <2>4
<1>5. \A x, n : Waits(x, n)' <=> Waits(x, n) BY <1>1, <1>2 DEF Waits
<1>6. ASSUME NEW r \in Rooms \ astray', NEW n, DotComing(r, n) PROVE DotComing(r, n)'
  <2>1. CASE r = p.room
    <3>1. CASE r \in joined
      <4>1. ~Holds(frames, "leave", r) BY <1>1, <2>1, <3>1, QueuesHold
      <4>2. OnScreen(r) BY <3>1, <4>1 DEF InStep
      <4>3. Holds(inbox', "message", r) BY <1>4, <2>1, <3>1
      <4> QED BY <1>1, <4>2, <4>3 DEF DotComing, OnScreen
    <3>2. CASE r \notin joined
      <4>1. r \notin ghost BY <1>1, <2>1, <3>2
      <4> QED BY <1>1, <1>2, <1>4, <1>6, <2>1, <3>2, <4>1 DEF DotComing, Marked, Marks, OnScreen
    <3> QED BY <3>1, <3>2
  <2>2. CASE r # p.room
    BY <1>1, <1>2, <1>4, <1>6, <2>2 DEF DotComing, Marked, Marks, OnScreen
  <2> QED BY <2>1, <2>2
<1>7. ASSUME NEW r \in Rooms, NEW n, up, OnScreen(r), ReadComing(r, n) PROVE ReadComing(r, n)'
  <2>1. CASE r = p.room
    <3>1. r \in joined \/ Holds(frames, "join", r) BY <1>7 DEF InStep
    <3> QED BY <1>1, <1>4, <2>1, <3>1 DEF ReadComing
  <2>2. CASE r # p.room
    BY <1>1, <1>2, <1>4, <1>7, <2>2 DEF ReadComing, Marked, Marks
  <2> QED BY <2>1, <2>2
<1>8. \A r : OnScreen(r)' <=> OnScreen(r) BY <1>1 DEF OnScreen
<1> QED BY <1>1, <1>5, <1>6, <1>7, <1>8, KeepsCoverage

\* The members who are not present are told.
LEMMA NotifyCovers ==
  ASSUME DotsTypeOK, Coverage, NEW p \in posts, Notify(p)
  PROVE  Coverage'
<1> USE DEF server, link, page, history, counts
<1>1. /\ UNCHANGED <<begun, readAt, joined, ghost, up, frames, at, visible, dot, calls, unsure>>
      /\ posts' = posts \ {p} /\ p.stage = "published" /\ p.stage # "inserted"
      /\ astray' = IF ~up THEN astray \cup {p.room} ELSE astray
      /\ inbox \in Seq(Envelope)
  BY DEF Notify, DotsTypeOK
<1>2. ASSUME NEW x, NEW n, NEW u
      PROVE  /\ At(x, n, u)' => At(x, n, u)
             /\ At(x, n, u) => At(x, n, u)' \/ (x = p.room /\ n = p.n /\ u = "published")
  <2>1. p \in [room : Rooms, n : Nat, stage : {"inserted", "committed", "published"}] BY DEF DotsTypeOK
  <2> QED BY <1>1, <2>1 DEF At
<1>3. p.room \in Rooms BY DEF DotsTypeOK
<1>4. \A k, r : Holds(inbox', k, r) <=>
        Holds(inbox, k, r) \/ (Offline(p.room) /\ up /\ k = "unread_update" /\ r = p.room)
  <2> SUFFICES ASSUME NEW k, NEW r
               PROVE  Holds(inbox', k, r) <=>
                        Holds(inbox, k, r) \/ (Offline(p.room) /\ up /\ k = "unread_update" /\ r = p.room)
    OBVIOUS
  <2>1. PICK e : e = [kind |-> "unread_update", room |-> p.room] OBVIOUS
  <2>2. e \in Envelope /\ e.kind = "unread_update" /\ e.room = p.room BY <1>3, <2>1 DEF Envelope
  <2>3. CASE Offline(p.room) /\ up
    <3>1. inbox' = Append(inbox, e) BY <2>1, <2>3 DEF Notify
    <3>2. inbox \in Seq(Envelope) /\ e \in Envelope BY <1>1, <2>2
    <3>3. Holds(inbox', k, r) <=> Holds(inbox, k, r) \/ (e.kind = k /\ e.room = r)
      BY ONLY <3>1, <3>2, HoldsMore
    <3> QED BY <2>2, <2>3, <3>3
  <2>4. CASE ~(Offline(p.room) /\ up)
    <3>1. inbox' = inbox BY <2>4 DEF Notify
    <3> QED BY <2>4, <3>1
  <2> QED BY <2>3, <2>4
<1>5. \A x, n : Waits(x, n)' <=> Waits(x, n) BY <1>1, <1>2 DEF Waits
<1>6. ASSUME NEW r \in Rooms \ astray', NEW n, DotComing(r, n) PROVE DotComing(r, n)'
  <2>1. CASE At(r, n, "published") /\ r \notin joined \cup ghost
    <3>1. CASE r = p.room
      <4>1. up /\ Offline(r) BY <1>1, <2>1, <3>1 DEF Offline
      <4> QED BY <1>4, <3>1, <4>1 DEF DotComing
    <3>2. CASE r # p.room BY <1>1, <1>2, <2>1, <3>2 DEF DotComing
    <3> QED BY <3>1, <3>2
  <2>2. CASE ~(At(r, n, "published") /\ r \notin joined \cup ghost)
    <3>1. At(r, n, "committed") => At(r, n, "committed")' BY <1>2
    <3> QED BY <1>1, <1>4, <1>6, <2>2, <3>1 DEF DotComing, Marked, Marks, OnScreen
  <2> QED BY <2>1, <2>2
<1>7. ASSUME NEW r, NEW n, ReadComing(r, n) PROVE ReadComing(r, n)'
  <2>1. At(r, n, "committed") => At(r, n, "committed")' BY <1>2
  <2> QED BY <1>1, <1>4, <1>7, <2>1 DEF ReadComing, Marked, Marks
<1>8. \A r : OnScreen(r)' <=> OnScreen(r) BY <1>1 DEF OnScreen
<1> QED BY <1>1, <1>5, <1>6, <1>7, <1>8, KeepsCoverage

\* The server takes the page into a room: what it was not told of is astray, and
\* its answer has the room marked read.
LEMMA FrameCovers ==
  ASSUME DotsTypeOK, Coverage, HandleFrame
  PROVE  Coverage'
<1> USE DEF server, link, page, history, counts
<1>1. /\ frames \in Seq(Frame) /\ frames # <<>> /\ frames' = Tail(frames) /\ inbox \in Seq(Envelope)
      /\ UNCHANGED <<begun, posts, readAt, ghost, up, at, visible, dot, calls, unsure>>
      /\ astray \subseteq astray'
  BY DEF HandleFrame, DotsTypeOK
<1>2. PICK f : f = Head(frames) OBVIOUS
<1>3. f \in Frame BY ONLY <1>1, <1>2, QueueTypes
<1>4. f.kind \in {"join", "leave"} /\ f.room \in Rooms BY <1>3 DEF Frame
<1>5. \A k, r : Holds(frames, k, r) <=> (f.kind = k /\ f.room = r) \/ Holds(frames', k, r)
  BY ONLY <1>1, <1>2, HoldsTail
<1>6. /\ \A k, r : Holds(inbox, k, r) => Holds(inbox', k, r)
      /\ f.kind = "join" => Holds(inbox', "joined", f.room)
  <2>1. PICK e : e = [kind |-> "joined", room |-> f.room] OBVIOUS
  <2>2. e \in Envelope /\ e.kind = "joined" /\ e.room = f.room BY <1>4, <2>1 DEF Envelope
  <2>3. CASE f.kind = "join"
    <3>1. inbox' = Append(inbox, e) BY <1>2, <2>1, <2>3 DEF HandleFrame
    <3>2. inbox \in Seq(Envelope) /\ e \in Envelope BY <1>1, <2>2
    <3>3. \A k, r : Holds(inbox', k, r) <=> Holds(inbox, k, r) \/ (e.kind = k /\ e.room = r)
      BY ONLY <3>1, <3>2, HoldsMore
    <3> QED BY <2>2, <3>3
  <2>4. CASE f.kind # "join" BY <1>2, <2>4 DEF HandleFrame
  <2> QED BY <2>3, <2>4
<1>7. ASSUME NEW r \in Rooms \ astray', NEW n, At(r, n, "published"), r \notin joined \cup ghost
      PROVE  r \notin joined' \cup ghost'
  <2>1. CASE f.kind = "join"
    <3>1. joined' = joined \cup {f.room}
          /\ astray' = astray \cup {p.room : p \in {q \in posts : q.stage = "published" /\ q.room = f.room}}
      BY <1>2, <2>1 DEF HandleFrame
    <3>2. r # f.room
      <4> SUFFICES ASSUME r = f.room PROVE FALSE
        OBVIOUS
      <4>1. PICK p : p = [room |-> r, n |-> n, stage |-> "published"] OBVIOUS
      <4>2. p \in posts /\ p.stage = "published" /\ p.room = f.room BY <1>7, <4>1 DEF At
      <4> QED BY <1>7, <3>1, <4>2
    <3> QED BY <1>1, <1>7, <3>1, <3>2
  <2>2. CASE f.kind # "join"
    <3>1. joined' \subseteq joined BY <1>2, <2>2 DEF HandleFrame
    <3> QED BY <1>1, <1>7, <3>1
  <2> QED BY <2>1, <2>2
<1>8. /\ \A r, n : Waits(r, n)' <=> Waits(r, n)
      /\ \A r, n, s : At(r, n, s)' <=> At(r, n, s)
      /\ \A r : OnScreen(r)' <=> OnScreen(r)
      /\ \A r, n : Marked(r, n)' <=> Marked(r, n)
  BY <1>1 DEF Waits, At, OnScreen, Marked, Marks
<1>9. ASSUME NEW r \in Rooms \ astray', NEW n, DotComing(r, n) PROVE DotComing(r, n)'
  BY <1>1, <1>6, <1>7, <1>8, <1>9 DEF DotComing
<1>10. ASSUME NEW r, NEW n, ReadComing(r, n) PROVE ReadComing(r, n)'
  BY <1>1, <1>4, <1>5, <1>6, <1>8, <1>10 DEF ReadComing
<1> QED BY <1>1, <1>8, <1>9, <1>10, KeepsCoverage

\* The socket is lost: what was on its way is astray, and nothing is read.
LEMMA DropCovers ==
  ASSUME DotsTypeOK, Coverage, Drop \/ Cleanup
  PROVE  Coverage'
<1> USE DEF server, link, page, history, counts
<1>1. UNCHANGED <<begun, posts, readAt, at, visible, dot, calls, unsure>> /\ astray \subseteq astray'
  BY DEF Drop, Cleanup
<1>2. /\ \A r, n : Waits(r, n)' <=> Waits(r, n)
      /\ \A r, n, s : At(r, n, s)' <=> At(r, n, s)
      /\ \A r : OnScreen(r)' <=> OnScreen(r)
      /\ \A r, n : Marked(r, n)' <=> Marked(r, n)
  BY <1>1 DEF Waits, At, OnScreen, Marked, Marks
<1>3. CASE Drop
  <2>1. ~up' /\ joined' \cup ghost' = joined \cup ghost
        /\ astray' = astray \cup InboxOf("message") \cup InboxOf("unread_update")
    BY <1>3 DEF Drop
  <2>2. ASSUME NEW r \in Rooms \ astray', NEW n, DotComing(r, n) PROVE DotComing(r, n)'
    <3>1. ~Holds(inbox, "message", r) /\ ~Holds(inbox, "unread_update", r) BY <2>1, QueuesHold
    <3> QED BY <1>1, <1>2, <2>1, <2>2, <3>1 DEF DotComing
  <2> QED BY <1>1, <1>2, <2>1, <2>2, KeepsCoverage
<1>4. CASE Cleanup
  <2>1. UNCHANGED <<joined, up, frames, inbox>> /\ ghost' \subseteq ghost BY <1>4 DEF Cleanup
  <2>2. \A r, n : (DotComing(r, n) => DotComing(r, n)') /\ (ReadComing(r, n) => ReadComing(r, n)')
    BY <1>1, <1>2, <2>1 DEF DotComing, ReadComing
  <2> QED BY <1>1, <1>2, <2>1, <2>2, KeepsCoverage
<1> QED BY <1>3, <1>4

\* Whoever comes to a room, or back to it, asks to join it.
LEMMA Asks ==
  ASSUME DotsTypeOK, NEW r \in Rooms,
         \/ \E o \in Rooms \cup {NoRoom} : GoTo(o)
         \/ Look \/ Reconnect,
         up', OnScreen(r)', ~(up /\ OnScreen(r))
  PROVE  Holds(frames', "join", r)
<1> USE DEF server, link, page, history, counts
<1>1. CASE \E o \in Rooms \cup {NoRoom} : GoTo(o)
  <2>1. PICK o \in Rooms \cup {NoRoom} : GoTo(o) BY <1>1
  <2>2. o = r /\ r # NoRoom /\ up BY <2>1, UnreadDotsAssumption DEF GoTo, OnScreen
  <2>3. PICK x, a, b : /\ a = Desired("leave") /\ b = <<x>> /\ x = [kind |-> "join", room |-> r]
    OBVIOUS
  <2>4. /\ frames \in Seq(Frame) /\ a \in Seq(Frame) /\ b \in Seq(Frame)
        /\ b = <<x>> /\ x.kind = "join" /\ x.room = r
    BY <2>3, FrameTypes DEF DotsTypeOK
  <2>5. PICK s : s = a \o b OBVIOUS
  <2>6. s \in Seq(Frame) BY ONLY <2>4, <2>5, QueueTypes
  <2>7. frames' = frames \o s BY <2>1, <2>2, <2>3, <2>5 DEF GoTo, SendFrames
  <2>8. Holds(b, "join", r) BY ONLY <2>4, HoldsOne
  <2>9. Holds(s, "join", r) BY ONLY <2>4, <2>5, <2>8, HoldsBoth
  <2> QED BY ONLY <2>4, <2>6, <2>7, <2>9, HoldsBoth
<1>2. CASE Look
  <2>1. visible' = TRUE /\ ~visible /\ at = r /\ up BY <1>2 DEF Look, OnScreen, DotsTypeOK
  <2>2. PICK a : a = Desired("join") OBVIOUS
  <2>3. frames \in Seq(Frame) /\ a \in Seq(Frame) BY <2>2, FrameTypes DEF DotsTypeOK
  <2>4. frames' = frames \o a BY <1>2, <2>1, <2>2 DEF Look, SendFrames
  <2>5. Holds(a, "join", r) BY <2>1, <2>2, DesiredHolds
  <2> QED BY ONLY <2>3, <2>4, <2>5, HoldsBoth
<1>3. CASE Reconnect
  <2>1. frames' = Desired("join") /\ at = r BY <1>3 DEF Reconnect, OnScreen
  <2> QED BY <2>1, DesiredHolds
<1> QED BY <1>1, <1>2, <1>3

\* A room that is left with a message on its way to its pane is astray.
LEMMA PageCovers ==
  ASSUME DotsTypeOK, InStep, Coverage,
         \/ \E o \in Rooms \cup {NoRoom} : GoTo(o)
         \/ Look \/ Reconnect
  PROVE  Coverage'
<1> USE DEF server, link, page, history, counts
<1>1. /\ UNCHANGED <<begun, posts, readAt, joined, ghost, inbox, dot, calls, unsure>> /\ astray \subseteq astray'
      /\ up => up'
  <2>1. CASE \E o \in Rooms \cup {NoRoom} : GoTo(o) BY <2>1 DEF GoTo
  <2>2. CASE Look BY <2>2 DEF Look
  <2>3. CASE Reconnect BY <2>3 DEF Reconnect
  <2> QED BY <2>1, <2>2, <2>3
<1>2. /\ \A r, n : Waits(r, n)' <=> Waits(r, n)
      /\ \A r, n, s : At(r, n, s)' <=> At(r, n, s)
      /\ \A r, n : Marked(r, n)' <=> Marked(r, n)
  BY <1>1 DEF Waits, At, Marked, Marks
<1>3. ASSUME NEW r \in Rooms \ astray', OnScreen(r), Holds(inbox, "message", r) PROVE OnScreen(r)'
  <2>1. r \in Missing BY <1>3, QueuesHold DEF Missing, OnScreen
  <2> QED BY <1>3, <2>1 DEF GoTo, Look, Reconnect, OnScreen
<1>4. ASSUME NEW r \in Rooms \ astray', NEW n, DotComing(r, n) PROVE DotComing(r, n)'
  BY <1>1, <1>2, <1>3, <1>4 DEF DotComing
<1>5. ASSUME NEW r \in Rooms, NEW n, up', OnScreen(r)'
      PROVE  (up /\ OnScreen(r) /\ (ReadComing(r, n) => ReadComing(r, n)')) \/ ReadComing(r, n)'
  <2>1. CASE ~(up /\ OnScreen(r)) BY <1>5, <2>1, Asks DEF ReadComing
  <2>2. CASE up /\ OnScreen(r)
    <3>1. frames' = frames BY <1>5, <2>2 DEF GoTo, Look, Reconnect, OnScreen, DotsTypeOK
    <3> QED BY <1>1, <1>2, <2>2, <3>1 DEF ReadComing
  <2> QED BY <2>1, <2>2
<1> QED BY <1>1, <1>2, <1>4, <1>5, KeepsCoverage

\* The pane marks its room read: nothing waits in it but for that.
LEMMA MarkReadCovers ==
  ASSUME DotsTypeOK, Coverage, NEW r \in Rooms, MarkRead(r), OnScreen(r),
         UNCHANGED <<begun, posts, readAt, joined, ghost, up, frames, at, visible, astray>>,
         \A x \in Rooms \ {r}, k \in {"message", "joined", "unread_update"} :
            Holds(inbox, k, x) => Holds(inbox', k, x)
  PROVE  Coverage'
<1>1. PICK m : m = [id |-> FreeId, kind |-> "mark", room |-> r, stamp |-> 0, stage |-> "sent"]
  OBVIOUS
<1>2. /\ m.kind = "mark" /\ m.room = r /\ m.stamp = 0 /\ m.stage = "sent"
      /\ calls' = calls \cup {m} /\ dot' = [dot EXCEPT ![r] = FALSE]
      /\ unsure' = IF Marks(r) # {} THEN unsure \cup {r} ELSE unsure
  BY <1>1 DEF MarkRead, OnScreen, Cleared
<1>3. /\ begun \in [Rooms -> Nat] /\ dot \in [Rooms -> BOOLEAN] BY DEF DotsTypeOK
<1>4. Marks(r)' = Marks(r) \cup {m} /\ \A x \in Rooms \ {r} : Marks(x)' = Marks(x)
  BY <1>2 DEF Marks
<1>5. \A n : Marked(r, n)' BY <1>2, <1>4 DEF Marked
<1>6. OneMark'
  <2>1. \A x \in Rooms : readAt'[x] <= begun'[x] BY DEF Coverage, OneMark
  <2>2. \A c \in calls' : c.kind = "mark" => c.stamp <= begun'[c.room]
    BY <1>2, <1>3 DEF Coverage, OneMark
  <2>3. ASSUME NEW x \in Rooms \ unsure'
        PROVE  /\ \A c, d \in Marks(x)' : c = d
               /\ \A c \in Marks(x)' : c.stage = "begun" => readAt'[x] <= c.stamp
    <3>1. CASE x = r
      <4>1. Marks(x)' = {m} BY <1>2, <1>4, <2>3, <3>1
      <4> QED BY <1>2, <4>1
    <3>2. CASE x # r BY <1>2, <1>4, <2>3, <3>2 DEF Coverage, OneMark
    <3> QED BY <3>1, <3>2
  <2> QED BY <2>1, <2>2, <2>3 DEF OneMark
<1>7. \A x, n, u : (At(x, n, u)' <=> At(x, n, u)) /\ (Waits(x, n)' <=> Waits(x, n))
  BY DEF At, Waits
<1>8. ASSUME NEW x \in Rooms \ {r}, NEW n, DotComing(x, n) PROVE DotComing(x, n)'
  <2>1. ~OnScreen(x) BY <1>8 DEF OnScreen
  <2>2. dot'[x] = dot[x] BY <1>2, <1>3, <1>8
  <2>3. Marked(x, n)' <=> Marked(x, n) BY <1>4, <1>8 DEF Marked
  <2> QED BY <1>7, <1>8, <2>1, <2>2, <2>3 DEF DotComing
<1>9. DotComes'
  <2> SUFFICES ASSUME NEW x \in Rooms \ (astray' \cup unsure'), NEW n \in readAt'[x] + 1 .. begun'[x], Waits(x, n)'
               PROVE  DotComing(x, n)'
    BY DEF DotComes
  <2>1. CASE x = r BY <1>5, <2>1 DEF DotComing
  <2>2. CASE x # r
    <3>1. DotComing(x, n) BY <1>2, <1>7 DEF Coverage, DotComes
    <3> QED BY <1>8, <2>2, <3>1
  <2> QED BY <2>1, <2>2
<1>10. DotTrue'
  <2> SUFFICES ASSUME NEW x \in Rooms \ astray', dot'[x]
               PROVE  Unread(x)' /\ Marks(x)' = {}
    BY DEF DotTrue
  <2>1. x # r BY <1>2, <1>3
  <2>2. dot[x] BY <1>2, <1>3, <2>1
  <2>3. Unread(x) /\ Marks(x) = {} BY <2>2 DEF Coverage, DotTrue
  <2> QED BY <1>4, <2>1, <2>3 DEF Unread
<1>11. ReadComes'
  <2> SUFFICES ASSUME NEW x \in Rooms, NEW n, OnScreen(x)' PROVE ReadComing(x, n)'
    BY DEF ReadComes
  <2>1. x = r BY DEF OnScreen
  <2> QED BY <1>5, <2>1 DEF ReadComing
<1> QED BY <1>6, <1>9, <1>10, <1>11 DEF Coverage

\* The page takes in an envelope.
LEMMA EnvelopeCovers ==
  ASSUME DotsTypeOK, Coverage, ReceiveMessage \/ ReceiveJoined \/ ReceiveUnread
  PROVE  Coverage'
<1> USE DEF server, link, page, history, counts
<1>1. /\ inbox \in Seq(Envelope) /\ inbox # <<>> /\ inbox' = Tail(inbox)
      /\ UNCHANGED <<begun, posts, readAt, joined, ghost, up, frames, at, visible>>
      /\ astray \subseteq astray' /\ unsure \subseteq unsure'
  BY DEF ReceiveMessage, ReceiveJoined, ReceiveUnread, Arrived, MarkRead, DotsTypeOK
<1>2. PICK e : e = Head(inbox) OBVIOUS
<1>3. e \in Envelope BY ONLY <1>1, <1>2, QueueTypes
<1>4. e.room \in Rooms BY <1>3 DEF Envelope
<1>5. \A k, r : Holds(inbox, k, r) <=> (e.kind = k /\ e.room = r) \/ Holds(inbox', k, r)
  BY ONLY <1>1, <1>2, HoldsTail
<1>6. /\ \A r, n : Waits(r, n)' <=> Waits(r, n)
      /\ \A r, n, s : At(r, n, s)' <=> At(r, n, s)
      /\ \A r : OnScreen(r)' <=> OnScreen(r)
      /\ \A r : Unread(r)' <=> Unread(r)
  BY <1>1 DEF Waits, At, OnScreen, Unread
<1>7. CASE ReceiveMessage \/ ReceiveJoined
  <2>1. e.kind \in {"message", "joined"} /\ astray' = astray
    BY <1>2, <1>7 DEF ReceiveMessage, ReceiveJoined, Arrived
  <2>2. CASE OnScreen(e.room)
    <3>1. MarkRead(e.room) BY <1>2, <1>7, <2>2 DEF ReceiveMessage, ReceiveJoined, OnScreen
    <3> QED BY <1>1, <1>4, <1>5, <2>1, <2>2, <3>1, MarkReadCovers
  <2>3. CASE ~OnScreen(e.room)
    <3>1. UNCHANGED <<dot, calls, unsure>>
      BY <1>2, <1>7, <2>3 DEF ReceiveMessage, ReceiveJoined, MarkRead, OnScreen
    <3>2. \A r, n : Marked(r, n)' <=> Marked(r, n) BY <3>1 DEF Marked, Marks
    <3>3. ASSUME NEW r, NEW n, DotComing(r, n) PROVE DotComing(r, n)'
      BY <1>1, <1>5, <1>6, <2>1, <2>3, <3>1, <3>2, <3>3 DEF DotComing
    <3>4. ASSUME NEW r, NEW n, OnScreen(r), ReadComing(r, n) PROVE ReadComing(r, n)'
      BY <1>1, <1>5, <1>6, <2>3, <3>1, <3>2, <3>4 DEF ReadComing
    <3> QED BY <1>1, <1>6, <3>1, <3>3, <3>4, KeepsCoverage
  <2> QED BY <2>2, <2>3
<1>8. CASE ReceiveUnread
  <2>1. /\ e.kind = "unread_update" /\ UNCHANGED <<calls, unsure>> /\ dot' = [dot EXCEPT ![e.room] = TRUE]
        /\ astray' = IF ~Unread(e.room) \/ Marks(e.room) # {} THEN astray \cup {e.room} ELSE astray
    BY <1>2, <1>8 DEF ReceiveUnread, Arrived
  <2>2. \A r, n : (Marked(r, n)' <=> Marked(r, n)) /\ Marks(r)' = Marks(r) BY <2>1 DEF Marked, Marks
  <2>3. dot \in [Rooms -> BOOLEAN] BY DEF DotsTypeOK
  <2>4. ASSUME NEW r \in Rooms, NEW n, DotComing(r, n) PROVE DotComing(r, n)'
    <3>1. CASE r = e.room BY <1>4, <2>1, <2>3, <3>1 DEF DotComing
    <3>2. CASE r # e.room
      <4>1. dot'[r] = dot[r] BY <2>1, <2>3, <3>2
      <4> QED BY <1>1, <1>5, <1>6, <2>2, <2>4, <3>2, <4>1 DEF DotComing
    <3> QED BY <3>1, <3>2
  <2>5. ASSUME NEW r, NEW n, ReadComing(r, n) PROVE ReadComing(r, n)'
    BY <1>1, <1>5, <1>6, <2>1, <2>2, <2>5 DEF ReadComing
  <2>6. OneMark' BY <1>1, <2>1, <2>2 DEF Coverage, OneMark
  <2>7. DotComes' BY <1>1, <1>6, <2>1, <2>4 DEF Coverage, DotComes
  <2>8. DotTrue'
    <3> SUFFICES ASSUME NEW r \in Rooms \ astray', dot'[r]
                 PROVE  Unread(r) /\ Marks(r) = {}
      BY <1>6, <2>2 DEF DotTrue
    <3>1. CASE r = e.room BY <2>1, <3>1
    <3>2. CASE r # e.room
      <4>1. dot[r] BY <2>1, <2>3, <3>2
      <4> QED BY <1>1, <4>1 DEF Coverage, DotTrue
    <3> QED BY <3>1, <3>2
  <2>9. ReadComes' BY <1>1, <1>6, <2>1, <2>5 DEF Coverage, ReadComes
  <2> QED BY <2>6, <2>7, <2>8, <2>9 DEF Coverage
<1> QED BY <1>7, <1>8

\* A list of rooms is asked for, served, and shown.
LEMMA ListCovers ==
  ASSUME DotsTypeOK, Coverage,
         \/ RefreshRooms
         \/ \E c \in calls : ServeList(c) \/ Copied(c) \/ AnswerList(c)
         \/ \E c \in calls : Break(c) /\ c.kind = "list"
  PROVE  Coverage'
<1> USE DEF server, link, page, history, counts
<1>1. /\ UNCHANGED <<begun, posts, readAt, joined, ghost, up, frames, inbox, at, visible, unsure>>
      /\ astray \subseteq astray'
  BY DEF RefreshRooms, ServeList, Copied, AnswerList, Break
<1>2. \A c : c.kind = "mark" => (c \in calls' <=> c \in calls)
  <2>1. CASE RefreshRooms BY <2>1 DEF RefreshRooms
  <2>2. ASSUME NEW c \in calls, ServeList(c) PROVE \A d : d.kind = "mark" => (d \in calls' <=> d \in calls)
    <3>1. c \in Calls /\ c.kind = "list" BY <2>2 DEF ServeList, Loading, DotsTypeOK
    <3>2. [c EXCEPT !.stage = "served", !.dots = {r \in Rooms : Unread(r)}].kind = "list"
      BY <3>1 DEF Calls
    <3> QED BY <2>2, <3>1, <3>2 DEF ServeList
  <2>3. ASSUME NEW c \in calls, AnswerList(c) PROVE \A d : d.kind = "mark" => (d \in calls' <=> d \in calls)
    BY <2>3 DEF AnswerList, Loading
  <2>4. ASSUME NEW c \in calls, Break(c), c.kind = "list"
        PROVE  \A d : d.kind = "mark" => (d \in calls' <=> d \in calls)
    BY <2>4 DEF Break
  <2>5. ASSUME NEW c \in calls, Copied(c) PROVE \A d : d.kind = "mark" => (d \in calls' <=> d \in calls)
    <3>1. c \in Calls /\ c.kind = "list" BY <2>5 DEF Copied, Loading, DotsTypeOK
    <3>2. \A dots : [c EXCEPT !.stage = "served", !.dots = dots].kind = "list"
      BY <3>1 DEF Calls
    <3> QED BY <2>5, <3>1, <3>2 DEF Copied
  <2> QED BY <2>1, <2>2, <2>3, <2>4, <2>5
<1>3. \A r : Marks(r)' = Marks(r) BY <1>2 DEF Marks
<1>4. /\ \A r, n : Waits(r, n)' <=> Waits(r, n)
      /\ \A r, n, s : At(r, n, s)' <=> At(r, n, s)
      /\ \A r : OnScreen(r)' <=> OnScreen(r)
      /\ \A r : Unread(r)' <=> Unread(r)
      /\ \A r, n : Marked(r, n)' <=> Marked(r, n)
  BY <1>1, <1>3 DEF Waits, At, OnScreen, Unread, Marked
<1>5. OneMark'
  <2>1. \A c \in calls' : c.kind = "mark" => c.stamp <= begun'[c.room]
    BY <1>1, <1>2 DEF Coverage, OneMark
  <2> QED BY <1>1, <1>3, <2>1 DEF Coverage, OneMark
<1>6. ReadComes' BY <1>1, <1>4 DEF Coverage, ReadComes, ReadComing
<1>7. CASE dot' = dot
  <2>1. DotComes' BY <1>1, <1>4, <1>7 DEF Coverage, DotComes, DotComing
  <2>2. DotTrue' BY <1>1, <1>3, <1>4, <1>7 DEF Coverage, DotTrue
  <2> QED BY <1>5, <1>6, <2>1, <2>2 DEF Coverage
<1>8. ASSUME NEW c \in calls, AnswerList(c) PROVE Coverage'
  <2>1. /\ dot' = [r \in Rooms |-> r \in c.dots]
        /\ astray' = astray \cup {r \in Rooms : Moving(r) \/ (r \in c.dots) # Unread(r)}
    BY <1>8 DEF AnswerList
  <2>2. \A r \in Rooms \ astray' : ~Moving(r) /\ (r \in c.dots <=> Unread(r)) BY <2>1
  <2>3. DotComes'
    <3> SUFFICES ASSUME NEW r \in Rooms \ astray', NEW n \in readAt[r] + 1 .. begun[r], Waits(r, n)
                 PROVE  dot'[r]
      BY <1>1, <1>4 DEF DotComes, DotComing
    <3>1. Unread(r) BY UnreadIs
    <3> QED BY <2>1, <2>2, <3>1
  <2>4. DotTrue' BY <1>3, <1>4, <2>1, <2>2 DEF DotTrue, Moving
  <2> QED BY <1>5, <1>6, <2>3, <2>4 DEF Coverage
<1> QED BY <1>7, <1>8 DEF RefreshRooms, ServeList, Copied, Break

\* A mark-read takes the time it begins at, as late as every message that is there.
LEMMA BeginCovers ==
  ASSUME DotsTypeOK, Coverage, NEW c \in calls, BeginMark(c)
  PROVE  Coverage'
<1> USE DEF server, link, page, history, counts
<1>1. /\ UNCHANGED <<begun, posts, readAt, joined, ghost, up, frames, inbox, at, visible, dot, astray, unsure>>
      /\ c.kind = "mark" /\ c.stage = "sent"
  BY DEF BeginMark
<1>2. c \in Calls BY DEF DotsTypeOK
<1>3. PICK d : d = [c EXCEPT !.stage = "begun", !.stamp = begun[c.room]] OBVIOUS
<1>4. /\ calls' = (calls \ {c}) \cup {d} /\ c.room \in Rooms
      /\ d.kind = "mark" /\ d.room = c.room /\ d.stage = "begun" /\ d.stamp = begun[c.room]
  BY <1>1, <1>2, <1>3 DEF BeginMark, Calls
<1>5. begun \in [Rooms -> Nat] /\ readAt \in [Rooms -> Nat] BY DEF DotsTypeOK
<1>6. /\ Marks(c.room)' = (Marks(c.room) \ {c}) \cup {d} /\ c \in Marks(c.room)
      /\ \A r \in Rooms \ {c.room} : Marks(r)' = Marks(r)
  BY <1>1, <1>4 DEF Marks
<1>7. /\ \A r, n : Waits(r, n)' <=> Waits(r, n)
      /\ \A r, n, s : At(r, n, s)' <=> At(r, n, s)
      /\ \A r : OnScreen(r)' <=> OnScreen(r)
      /\ \A r : Unread(r)' <=> Unread(r)
  BY <1>1 DEF Waits, At, OnScreen, Unread
<1>8. ASSUME NEW r \in Rooms, NEW n \in readAt[r] + 1 .. begun[r], Marked(r, n) PROVE Marked(r, n)'
  <2>1. CASE r = c.room
    <3>1. n <= d.stamp BY <1>4, <1>5, <2>1
    <3> QED BY <1>6, <2>1, <3>1 DEF Marked
  <2>2. CASE r # c.room BY <1>6, <1>8, <2>2 DEF Marked
  <2> QED BY <2>1, <2>2
<1>9. OneMark'
  <2>1. \A x \in calls' : x.kind = "mark" => x.stamp <= begun'[x.room]
    BY <1>1, <1>4, <1>5 DEF Coverage, OneMark
  <2>2. ASSUME NEW r \in Rooms \ unsure
        PROVE  /\ \A x, y \in Marks(r)' : x = y
               /\ \A x \in Marks(r)' : x.stage = "begun" => readAt[r] <= x.stamp
    <3>1. CASE r = c.room
      <4>1. Marks(r)' = {d} BY <1>6, <3>1 DEF Coverage, OneMark
      <4>2. readAt[r] <= d.stamp BY <1>4, <3>1 DEF Coverage, OneMark
      <4> QED BY <4>1, <4>2
    <3>2. CASE r # c.room BY <1>6, <3>2 DEF Coverage, OneMark
    <3> QED BY <3>1, <3>2
  <2> QED BY <1>1, <2>1, <2>2 DEF Coverage, OneMark
<1>10. DotComes' BY <1>1, <1>7, <1>8 DEF Coverage, DotComes, DotComing
<1>11. DotTrue'
  <2> SUFFICES ASSUME NEW r \in Rooms \ astray, dot[r] PROVE Unread(r) /\ Marks(r)' = {}
    BY <1>1, <1>7 DEF DotTrue
  <2>1. Unread(r) /\ Marks(r) = {} BY DEF Coverage, DotTrue
  <2>2. r # c.room BY <1>6, <2>1
  <2> QED BY <1>6, <2>1, <2>2
<1>12. ReadComes' BY <1>1, <1>7, <1>8 DEF Coverage, ReadComes, ReadComing
<1> QED BY <1>9, <1>10, <1>11, <1>12 DEF Coverage

\* A mark-read is over: the messages up to its time wait no more, and if it was
\* alone, no others do that did not.
LEMMA MarkCovers ==
  ASSUME DotsTypeOK, Coverage, NEW c \in calls, c.kind = "mark", CommitMark(c) \/ Break(c)
  PROVE  Coverage'
<1> USE DEF server, link, page, history, counts
<1>1. /\ UNCHANGED <<begun, posts, joined, ghost, up, frames, inbox, at, visible, dot, astray>>
      /\ calls' = calls \ {c} /\ unsure \subseteq unsure'
  BY DEF CommitMark, Break
<1>2. c \in Calls BY DEF DotsTypeOK
<1>3. c.room \in Rooms /\ c.stamp \in Nat BY <1>2 DEF Calls
<1>4. begun \in [Rooms -> Nat] /\ readAt \in [Rooms -> Nat] BY DEF DotsTypeOK
<1>5. /\ Marks(c.room)' = Marks(c.room) \ {c} /\ c \in Marks(c.room)
      /\ \A r \in Rooms \ {c.room} : Marks(r)' = Marks(r) /\ readAt'[r] = readAt[r]
  BY <1>1, <1>4 DEF Marks, CommitMark, Break
<1>6. c.room \in unsure' \/ (c.stage = "begun" /\ readAt'[c.room] = c.stamp)
  BY <1>3, <1>4 DEF CommitMark, Break
<1>7. readAt'[c.room] \in {readAt[c.room], c.stamp} BY <1>3, <1>4 DEF CommitMark, Break
<1>8. ASSUME c.room \notin unsure'
      PROVE  /\ Marks(c.room)' = {} /\ readAt'[c.room] = c.stamp /\ readAt[c.room] <= c.stamp
             /\ \A n \in Nat : c.stamp < n => ~Marked(c.room, n)
  <2>1. c.room \in Rooms \ unsure BY <1>1, <1>3, <1>8
  <2>2. Marks(c.room) = {c} BY <1>5, <2>1 DEF Coverage, OneMark
  <2>3. c.stage = "begun" /\ readAt'[c.room] = c.stamp BY <1>6, <1>8
  <2>4. readAt[c.room] <= c.stamp BY <1>5, <2>1, <2>3 DEF Coverage, OneMark
  <2>5. \A n \in Nat : c.stamp < n => ~Marked(c.room, n) BY <1>3, <2>2, <2>3 DEF Marked
  <2> QED BY <1>5, <2>2, <2>3, <2>4, <2>5
<1>9. /\ \A r, n, s : At(r, n, s)' <=> At(r, n, s)
      /\ \A r : OnScreen(r)' <=> OnScreen(r)
  BY <1>1 DEF At, OnScreen
<1>10. ASSUME NEW r \in Rooms \ unsure', NEW n \in readAt'[r] + 1 .. begun'[r], Waits(r, n)'
       PROVE  /\ n \in readAt[r] + 1 .. begun[r] /\ Waits(r, n)
              /\ Marked(r, n) => Marked(r, n)'
  <2>1. CASE r = c.room
    <3>1. n \in Nat /\ c.stamp < n /\ n \in readAt[r] + 1 .. begun[r]
      BY <1>1, <1>3, <1>4, <1>8, <2>1
    <3>2. ~Marked(r, n) BY <1>8, <2>1, <3>1
    <3> QED BY <1>9, <1>10, <3>1, <3>2 DEF Waits
  <2>2. CASE r # c.room
    <3>1. n \in readAt[r] + 1 .. begun[r] BY <1>1, <1>5, <2>2
    <3> QED BY <1>5, <1>9, <1>10, <2>2, <3>1 DEF Waits, Marked
  <2> QED BY <2>1, <2>2
<1>11. OneMark'
  <2>1. \A r \in Rooms : readAt'[r] <= begun'[r]
    <3>1. c.stamp <= begun[c.room] BY DEF Coverage, OneMark
    <3> QED BY <1>1, <1>5, <1>7, <3>1 DEF Coverage, OneMark
  <2>2. \A x \in calls' : x.kind = "mark" => x.stamp <= begun'[x.room] BY <1>1 DEF Coverage, OneMark
  <2>3. ASSUME NEW r \in Rooms \ unsure'
        PROVE  /\ \A x, y \in Marks(r)' : x = y
               /\ \A x \in Marks(r)' : x.stage = "begun" => readAt'[r] <= x.stamp
    <3>1. CASE r = c.room BY <1>8, <2>3, <3>1
    <3>2. CASE r # c.room BY <1>1, <1>5, <2>3, <3>2 DEF Coverage, OneMark
    <3> QED BY <3>1, <3>2
  <2> QED BY <2>1, <2>2, <2>3 DEF OneMark
<1>12. DotComes'
  <2> SUFFICES ASSUME NEW r \in Rooms \ (astray' \cup unsure'), NEW n \in readAt'[r] + 1 .. begun'[r], Waits(r, n)'
               PROVE  DotComing(r, n)'
    BY DEF DotComes
  <2>1. DotComing(r, n) BY <1>1, <1>10 DEF Coverage, DotComes
  <2>2. Marked(r, n) => Marked(r, n)' BY <1>10
  <2> QED BY <1>1, <1>9, <2>1, <2>2 DEF DotComing
<1>13. DotTrue'
  <2> SUFFICES ASSUME NEW r \in Rooms \ astray, dot[r] PROVE Unread(r)' /\ Marks(r)' = {}
    BY <1>1 DEF DotTrue
  <2>1. Unread(r) /\ Marks(r) = {} BY DEF Coverage, DotTrue
  <2>2. r # c.room BY <1>5, <2>1
  <2> QED BY <1>1, <1>5, <2>1, <2>2 DEF Unread
<1>14. ReadComes'
  <2> SUFFICES ASSUME NEW r \in Rooms \ unsure', NEW n \in readAt'[r] + 1 .. begun'[r],
                      up, OnScreen(r), Waits(r, n)'
               PROVE  ReadComing(r, n)'
    BY <1>1, <1>9 DEF ReadComes
  <2>1. ReadComing(r, n) BY <1>1, <1>10 DEF Coverage, ReadComes
  <2>2. Marked(r, n) => Marked(r, n)' BY <1>10
  <2> QED BY <1>1, <1>9, <2>1, <2>2 DEF ReadComing
<1> QED BY <1>11, <1>12, <1>13, <1>14 DEF Coverage

\* At first there are no messages and no dots.
LEMMA DotsInvInit == DotsInit => DotsInv
<1> SUFFICES ASSUME DotsInit PROVE DotsInv
  OBVIOUS
<1>1. DotsTypeOK /\ IsFiniteSet(calls) BY DotsTypeInit
<1>2. InStep
  <2>1. \A r \in Rooms : ~OnScreen(r) BY UnreadDotsAssumption DEF DotsInit, OnScreen
  <2>2. \A r : Outlasted(frames, "join", "leave", r) BY HoldsNone DEF DotsInit
  <2> QED BY <2>1, <2>2 DEF DotsInit, InStep
<1>3. \A r \in Rooms : readAt[r] + 1 .. begun[r] = {} BY DEF DotsInit
<1>4. OneMark BY DEF DotsInit, OneMark, Marks
<1>5. DotComes /\ DotTrue /\ ReadComes BY <1>3 DEF DotsInit, DotComes, DotTrue, ReadComes
<1> QED BY <1>1, <1>2, <1>4, <1>5 DEF DotsInv

\* And every step keeps track of what waits.
LEMMA DotsInvStep == DotsInv /\ [DotsNext]_dotsVars => DotsInv'
<1> SUFFICES ASSUME DotsInv, [DotsNext]_dotsVars PROVE DotsInv'
  OBVIOUS
<1>1. DotsTypeOK /\ IsFiniteSet(calls) /\ InStep /\ Coverage BY DEF DotsInv, Coverage
<1>2. DotsTypeOK' /\ IsFiniteSet(calls)' BY <1>1, DotsTypeStep
<1>3. InStep' BY <1>1, InStepStep
<1>4. Coverage'
  <2>1. ASSUME NEW r \in Rooms, Insert(r) PROVE Coverage' BY <1>1, <2>1, InsertCovers
  <2>2. ASSUME NEW p \in posts, Commit(p) \/ Publish(p) \/ Notify(p) PROVE Coverage'
    BY <1>1, <2>2, CommitCovers, PublishCoversDots, NotifyCovers
  <2>3. CASE HandleFrame \/ Drop \/ Cleanup BY <1>1, <2>3, FrameCovers, DropCovers
  <2>4. CASE Reconnect \/ Look \/ \E o \in Rooms \cup {NoRoom} : GoTo(o) BY <1>1, <2>4, PageCovers
  <2>5. CASE ReceiveMessage \/ ReceiveJoined \/ ReceiveUnread BY <1>1, <2>5, EnvelopeCovers
  <2>6. CASE RefreshRooms BY <1>1, <2>6, ListCovers
  <2>7. ASSUME NEW c \in calls, ServeList(c) \/ Copied(c) \/ AnswerList(c) \/ BeginMark(c)
                               \/ CommitMark(c) \/ Break(c)
        PROVE  Coverage'
    <3>1. c.kind \in {"list", "mark"} BY <1>1 DEF DotsTypeOK, Calls
    <3>2. CommitMark(c) => c.kind = "mark" BY DEF CommitMark
    <3> QED BY <1>1, <2>7, <3>1, <3>2, ListCovers, BeginCovers, MarkCovers
  <2>8. CASE UNCHANGED dotsVars
    <3>1. UNCHANGED <<begun, posts, readAt, joined, ghost, up, frames, inbox, at, visible, dot, calls, astray, unsure>>
      BY <2>8 DEF dotsVars, server, link, page, history
    <3> QED BY <1>1, <3>1 DEF Coverage, OneMark, DotComes, DotTrue, ReadComes, DotComing, ReadComing,
                            Waits, At, Marked, Marks, OnScreen, Unread
  <2> QED BY <2>1, <2>2, <2>3, <2>4, <2>5, <2>6, <2>7, <2>8 DEF DotsNext
<1> QED BY <1>2, <1>3, <1>4 DEF DotsInv, Coverage

\* Nothing is to come once all is settled.
LEMMA SettledIs ==
  ASSUME Settled
  PROVE  \A k, r, n : /\ ~Holds(frames, k, r) /\ ~Holds(inbox, k, r)
                      /\ ~At(r, n, k) /\ ~Marked(r, n)
<1>1. frames = <<>> /\ inbox = <<>> /\ calls = {} /\ posts = {} BY DEF Settled
<1>2. \A k, r : ~Holds(frames, k, r) /\ ~Holds(inbox, k, r) BY <1>1, HoldsNone
<1> QED BY <1>1, <1>2 DEF At, Marked, Marks

\* At rest every room that is not open has its dot exactly when it is unread
\* (ChatShellPage.tsx, message_events.py), in every order of messages, frames,
\* envelopes, lists and mark-reads, but for the rooms of the recorded races.
THEOREM DotsAreRight == DotsSpec => []DotsAgree
<1>1. DotsInv => DotsAgree
  <2> SUFFICES ASSUME DotsInv, Settled, NEW r \in Rooms \ ({at} \cup astray \cup unsure)
               PROVE  Dotted(r) = Unread(r)
    BY DEF DotsAgree
  <2>1. ASSUME dot[r] PROVE Unread(r) BY <2>1 DEF DotsInv, DotTrue
  <2>2. ASSUME Unread(r) PROVE dot[r]
    <3>1. PICK n \in readAt[r] + 1 .. begun[r] : Waits(r, n) BY <2>2, UnreadIs
    <3>2. DotComing(r, n) BY <3>1 DEF DotsInv, DotComes
    <3> QED BY <3>2, SettledIs DEF DotComing
  <2>3. dot[r] \in BOOLEAN /\ r # at BY DEF DotsInv, DotsTypeOK
  <2>4. Unread(r) \in BOOLEAN BY DEF Unread
  <2> QED BY <2>1, <2>2, <2>3, <2>4 DEF Dotted
<1> QED BY <1>1, DotsInvInit, DotsInvStep, PTL DEF DotsSpec

\* At rest the room on screen is read on the server (ChatPane.tsx, mark_room_read),
\* over lost sockets, hidden pages and ghosts, unless a mark-read was broken or
\* overtaken.
THEOREM OnScreenRead == DotsSpec => []OnScreenIsRead
<1>1. DotsInv => OnScreenIsRead
  <2> SUFFICES ASSUME DotsInv, Settled, visible, at # NoRoom, Unread(at), at \notin unsure
               PROVE  FALSE
    BY DEF OnScreenIsRead
  <2>1. at \in Rooms \ unsure /\ OnScreen(at) BY DEF DotsInv, DotsTypeOK, OnScreen
  <2>2. PICK n \in readAt[at] + 1 .. begun[at] : Waits(at, n) BY UnreadIs
  <2>3. up BY DEF Settled
  <2>4. ReadComing(at, n) BY <2>1, <2>2, <2>3 DEF DotsInv, ReadComes
  <2> QED BY <2>4, SettledIs DEF ReadComing
<1> QED BY <1>1, DotsInvInit, DotsInvStep, PTL DEF DotsSpec

=============================================================================
