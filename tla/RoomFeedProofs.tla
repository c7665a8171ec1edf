--------------------------- MODULE RoomFeedProofs ---------------------------
(***************************************************************************)
(* Theorems of RoomFeed, for any messages and writers, any number of       *)
(* versions, closes, breaks, visibility changes and failed fetches: its    *)
(* types; that the room's channel follows the tab's visibility; and that   *)
(* a tab at rest shows every message of the room.                          *)
(***************************************************************************)
EXTENDS RoomFeed, TLAPS

USE DEF Version, Gone, None, Joined

\* A change of a message leaves a list of messages one.
LEMMA PatchType ==
  ASSUME NEW list \in Table, NEW e \in Envelope
  PROVE  Patch(list, e) \in Table
BY DEF Patch, Table, Envelope

\* The types of RoomFeed (ws/chat.py, useChatSocket.ts, ChatPane.tsx).
THEOREM FeedTypes == Spec => []TypeOK
<1> USE FeedAssumption
<1>1. Init => TypeOK
  <2> SUFFICES ASSUME Init PROVE TypeOK
    OBVIOUS
  <2>1. Blank \in Table BY DEF Blank, Table
  <2>2. None \in Envelope BY DEF Envelope
  <2>3. fetches \subseteq [last : BOOLEAN, by : {"network", "copy"}, snap : Table \cup {NotRead}]
    BY DEF Init, Request
  <2>4. frames \in Seq({"join", "leave"}) /\ inbox \in Seq(Envelope) BY DEF Init
  <2>5. row \in Table /\ history \in Table /\ live \in Table BY <2>1 DEF Init
  <2>6. pending \in [Writers -> Envelope] BY <2>2 DEF Init
  <2>7. srvJoined \in BOOLEAN /\ visible \in BOOLEAN /\ banner \in BOOLEAN BY Zenon DEF Init
  <2>8. srvPc \in {"idle", "joining"} /\ sock \in {"down", "open", "zombie"} BY DEF Init
  <2>10. past \subseteq Table /\ copied \in BOOLEAN BY <2>1 DEF Init
  <2>9. events \in 0 .. MaxEvents /\ failures \in 0 .. MaxFailures BY DEF Init
  <2> QED BY <2>3, <2>4, <2>5, <2>6, <2>7, <2>8, <2>9, <2>10 DEF TypeOK
<1>2. TypeOK /\ [Next]_vars => TypeOK'
  <2> SUFFICES ASSUME TypeOK, [Next]_vars PROVE TypeOK'
    OBVIOUS
  <2> USE DEF TypeOK, server, link, pane
  <2>1. ASSUME NEW h \in Writers, NEW m \in Messages, NEW type \in {"message", "message_update", "message_deleted"},
               NEW v \in Version, Commit(h, m, type, v)
        PROVE TypeOK'
    <3>1. row' \in Table BY <2>1 DEF Commit, Table
    <3>2. Update(type, m, v) \in Envelope BY DEF Update, Envelope
    <3>3. pending' \in [Writers -> Envelope] BY <2>1, <3>2 DEF Commit
    <3>4. past' \subseteq Table BY <2>1, <3>1 DEF Commit
    <3> QED BY <2>1, <3>1, <3>3, <3>4 DEF Commit
  <2>2. CASE \E h \in Writers, m \in Messages : Post(h, m) \/ Edit(h, m) \/ Delete(h, m)
    <3>1. PICK h \in Writers, m \in Messages : Post(h, m) \/ Edit(h, m) \/ Delete(h, m) BY <2>2
    <3>2. CASE Post(h, m) BY <2>1, <3>2 DEF Post
    <3>3. CASE Edit(h, m) 
      <4>1. row[m] + 1 \in Version BY <3>3 DEF Edit
      <4> QED BY <2>1, <3>3, <4>1 DEF Edit
    <3>4. CASE Delete(h, m) BY <2>1, <3>4 DEF Delete
    <3> QED BY <3>1, <3>2, <3>3, <3>4
  <2>3. CASE \E h \in Writers : Publish(h)
    <3>1. PICK h \in Writers : Publish(h) BY <2>3
    <3>2. inbox' \in Seq(Envelope) BY <3>1 DEF Publish
    <3>3. pending' \in [Writers -> Envelope] 
      <4>1. None \in Envelope BY DEF Envelope
      <4> QED BY <3>1, <4>1 DEF Publish
    <3> QED BY <3>1, <3>2, <3>3 DEF Publish
  <2>4. CASE ServerJoin BY <2>4 DEF ServerJoin
  <2>5. CASE ServerReply 
    <3>1. Joined \in Envelope BY DEF Envelope
    <3> QED BY <2>5, <3>1 DEF ServerReply
  <2>6. CASE ServerLeave
    <3>1. frames' \in Seq({"join", "leave"}) BY <2>6 DEF ServerLeave
    <3> QED BY <2>6, <3>1 DEF ServerLeave
  <2>7. CASE Open
    <3>1. frames' \in Seq({"join", "leave"})
      <4>1. <<"join">> \in Seq({"join", "leave"}) /\ <<>> \in Seq({"join", "leave"}) OBVIOUS
      <4> QED BY <2>7, <4>1 DEF Open
    <3> QED BY <2>7, <3>1 DEF Open
  <2>8. CASE Close
    <3>1. frames' \in Seq({"join", "leave"}) /\ inbox' \in Seq(Envelope) BY <2>8 DEF Close, Cut
    <3>2. events' \in 0 .. MaxEvents BY <2>8 DEF Close
    <3> QED BY <2>8, <3>1, <3>2 DEF Close, Cut
  <2>9. CASE Break
    <3>1. frames' \in Seq({"join", "leave"}) /\ inbox' \in Seq(Envelope) BY <2>9 DEF Break, Cut
    <3>2. events' \in 0 .. MaxEvents BY <2>9 DEF Break
    <3> QED BY <2>9, <3>1, <3>2 DEF Break, Cut
  <2>10. CASE Watchdog BY <2>10 DEF Watchdog
  <2>11. CASE ChangeVisibility BY <2>11 DEF ChangeVisibility
  <2>12. CASE Receive
    <3>1. inbox' \in Seq(Envelope) BY <2>12 DEF Receive
    <3>2. PICK e \in Envelope : e = Head(inbox) BY <2>12 DEF Receive
    <3>3. CASE RefreshHistory
      <4>1. live' \in Table BY <3>3 DEF RefreshHistory, Blank, Table
      <4>2. fetches' \subseteq [last : BOOLEAN, by : {"network", "copy"}, snap : Table \cup {NotRead}]
        <5>1. Request \in [last : BOOLEAN, by : {"network", "copy"}, snap : Table \cup {NotRead}] BY DEF Request
        <5>2. \A f \in fetches : [f EXCEPT !.last = FALSE] \in [last : BOOLEAN, by : {"network", "copy"}, snap : Table \cup {NotRead}]
          OBVIOUS
        <5> QED BY <3>3, <5>1, <5>2 DEF RefreshHistory
      <4>3. banner' \in BOOLEAN /\ copied' \in BOOLEAN BY <3>3 DEF RefreshHistory
      <4>4. history' \in Table BY <3>3 DEF RefreshHistory
      <4>5. /\ UNCHANGED <<row, pending, past, srvJoined, srvPc, sock, frames, visible, events, failures>>
        BY <2>12 DEF Receive
      <4> QED BY <3>1, <4>1, <4>2, <4>3, <4>4, <4>5
    <3>4. CASE AppendLive(e)
      <4>1. live' \in Table BY <3>4 DEF AppendLive, Envelope, Table
      <4> QED BY <2>12, <3>1, <3>4, <4>1 DEF AppendLive, Receive
    <3>5. CASE PatchBoth(e)
      <4>1. live' \in Table /\ history' \in Table BY <3>5, PatchType DEF PatchBoth
      <4> QED BY <2>12, <3>1, <3>5, <4>1 DEF PatchBoth, Receive
    <3> QED BY <2>12, <3>2, <3>3, <3>4, <3>5 DEF Receive
  <2>13. CASE FetchRead
    <3>1. PICK f \in fetches : f.snap = NotRead /\ fetches' = (fetches \ {f}) \cup {[f EXCEPT !.snap = row]}
      BY <2>13 DEF FetchRead
    <3>2. [f EXCEPT !.snap = row] \in [last : BOOLEAN, by : {"network", "copy"}, snap : Table \cup {NotRead}] BY <3>1
    <3> QED BY <2>13, <3>1, <3>2 DEF FetchRead
  <2>14. CASE FetchReturn
    <3>1. PICK f \in fetches : /\ f.snap # NotRead /\ fetches' = fetches \ {f}
                              /\ IF f.last THEN history' = f.snap /\ copied' = (f.by = "copy")
                                 ELSE UNCHANGED <<history, copied>>
      BY <2>14 DEF FetchReturn
    <3>2. history' \in Table /\ copied' \in BOOLEAN BY <3>1
    <3> QED BY <2>14, <3>1, <3>2 DEF FetchReturn
  <2>17. CASE FetchCopied
    <3>1. PICK f \in fetches, t \in past :
            fetches' = (fetches \ {f}) \cup {[f EXCEPT !.by = "copy", !.snap = t]}
      BY <2>17 DEF FetchCopied
    <3>2. [f EXCEPT !.by = "copy", !.snap = t] \in [last : BOOLEAN, by : {"network", "copy"}, snap : Table \cup {NotRead}] BY <3>1
    <3>3. failures' \in 0 .. MaxFailures BY <2>17 DEF FetchCopied
    <3> QED BY <2>17, <3>1, <3>2, <3>3 DEF FetchCopied
  <2>15. CASE FetchFail
    <3>1. PICK f \in fetches : fetches' = fetches \ {f} /\ banner' = (banner \/ f.last)
      BY <2>15 DEF FetchFail
    <3>2. failures' \in 0 .. MaxFailures BY <2>15 DEF FetchFail
    <3> QED BY <2>15, <3>1, <3>2 DEF FetchFail
  <2>16. CASE UNCHANGED vars BY <2>16 DEF vars
  <2> QED BY <2>2, <2>3, <2>4, <2>5, <2>6, <2>7, <2>8, <2>9, <2>10, <2>11, <2>12, <2>13, <2>14, <2>15, <2>16, <2>17 DEF Next
<1> QED BY <1>1, <1>2, PTL DEF Spec

(***************************************************************************)
(* The channel.  The last frame on its way to the server tells what the    *)
(* tab is; with none on its way the server has done what the last one said *)
(* (Follows).  Nothing is left of a connection that is not open (Ended).   *)
(***************************************************************************)

Ended == sock # "open" => ~srvJoined /\ srvPc = "idle" /\ frames = <<>> /\ inbox = <<>>

Follows ==
  sock = "open" =>
    IF frames = <<>> THEN srvJoined = visible
    ELSE frames[Len(frames)] = (IF visible THEN "join" ELSE "leave")

ChannelInv == TypeOK /\ Ended /\ Follows

(***************************************************************************)
(* The messages.  A message the tab does not show yet, of a room it has    *)
(* joined, is coming (Covered): its author's handler has yet to publish    *)
(* it, or it is among the envelopes, or a refetch is coming, or the last   *)
(* one asked for has not read the table or found it, or it failed, or it   *)
(* gave a copy (Stale).  What an answer brings was in the table            *)
(* (ReadFromRows), and so is what is shown; an answer of the server does   *)
(* not miss what the history it replaces showed (NoneForgotten), for the   *)
(* room was read after it; and the last request is one (OneOfEach).        *)
(***************************************************************************)

\* Only a version that is one comes in an envelope.
IsChange(e) == e.type \in {"message", "message_update", "message_deleted"} => e.ver # 0
ChangesOnly ==
  /\ \A h \in Writers : IsChange(pending[h])
  /\ \A k \in 1 .. Len(inbox) : IsChange(inbox[k])

OneOfEach == \A f, g \in fetches : f.last /\ g.last => f = g

ReadFromRows ==
  \A m \in Messages :
    /\ history[m] # 0 => row[m] # 0
    /\ \A f \in fetches : f.snap # NotRead /\ f.snap[m] # 0 => row[m] # 0
    /\ \A t \in past : t[m] # 0 => row[m] # 0

NoneForgotten ==
  \A f \in fetches : f.last /\ f.by = "network" /\ f.snap # NotRead =>
     \A m \in Messages : history[m] # 0 => f.snap[m] # 0

Refetching == srvPc = "joining" \/ \E k \in 1 .. Len(inbox) : inbox[k].type = "joined"
Reading(m) == \E f \in fetches : f.last /\ (f.by = "copy" \/ f.snap = NotRead \/ f.snap[m] # 0)
\* The history on screen is a copy, and no request is to replace it.
Stale == copied /\ \A f \in fetches : ~f.last
News(e, m) == e.type = "message" /\ e.id = m
Announced(m) ==
  \/ \E h \in Writers : News(pending[h], m)
  \/ \E k \in 1 .. Len(inbox) : News(inbox[k], m)

Covered ==
  \A m \in Messages : row[m] # 0 /\ srvJoined =>
     Shown(m) \/ Announced(m) \/ Refetching \/ Reading(m) \/ banner \/ Stale

FeedInv == TypeOK /\ ChangesOnly /\ OneOfEach /\ ReadFromRows /\ NoneForgotten /\ Covered

\* The last frame stays the last as those before it are read.
LEMMA LastFrame ==
  ASSUME NEW S, NEW q \in Seq(S), q # <<>>
  PROVE  /\ Tail(q) # <<>> => Tail(q)[Len(Tail(q))] = q[Len(q)]
         /\ Tail(q) = <<>> => Head(q) = q[Len(q)]
<1>1. PICK z, n : z = Tail(q) /\ n = Len(q) OBVIOUS
<1>2. /\ n \in Nat /\ n > 0 /\ z \in Seq(S) /\ Len(z) = n - 1
      /\ \A k \in 1 .. (n - 1) : z[k] = q[k + 1]
  BY <1>1
<1>3. ASSUME z = <<>> PROVE Head(q) = q[n]
  <2>1. Len(z) = 0 BY <1>3
  <2>2. n = 1 BY <1>2, <2>1
  <2> QED BY <2>2
<1>4. ASSUME z # <<>> PROVE z[Len(z)] = q[n]
  <2>1. Len(z) # 0 BY <1>2, <1>4
  <2>2. n - 1 \in 1 .. (n - 1) /\ (n - 1) + 1 = n BY <1>2, <2>1
  <2>3. z[n - 1] = q[n] BY <1>2, <2>2
  <2> QED BY <1>2, <2>3
<1> QED BY <1>1, <1>3, <1>4

\* The frame just sent is the last.
LEMMA SentFrame ==
  ASSUME NEW S, NEW q \in Seq(S), NEW x \in S
  PROVE  Append(q, x) # <<>> /\ Append(q, x)[Len(Append(q, x))] = x
OBVIOUS

\* Every step keeps the last frame, or the server, up with the tab.
LEMMA ChannelStep == ChannelInv /\ TypeOK' /\ [Next]_vars => Ended' /\ Follows'
<1> SUFFICES ASSUME ChannelInv, TypeOK', [Next]_vars PROVE Ended' /\ Follows'
  OBVIOUS
<1> USE DEF server, link, pane
<1>t. /\ frames \in Seq({"join", "leave"}) /\ sock \in {"down", "open", "zombie"}
      /\ srvJoined \in BOOLEAN /\ visible \in BOOLEAN
      /\ frames' \in Seq({"join", "leave"})
  BY DEF ChannelInv, TypeOK
<1>e. Ended /\ Follows BY DEF ChannelInv
<1>f. frames = <<>> <=> Len(frames) = 0 BY <1>t
<1>1. CASE UNCHANGED link /\ UNCHANGED visible
  BY <1>1, <1>e DEF Ended, Follows
<1>2. CASE \E h \in Writers : Publish(h)
  <2>1. PICK h \in Writers : Publish(h) BY <1>2
  <2>2. sock # "open" => inbox' = <<>> BY <1>e, <2>1 DEF Publish, Ended
  <2>3. Ended' BY <1>e, <2>1, <2>2 DEF Publish, Ended
  <2>4. Follows' BY <1>e, <2>1 DEF Publish, Follows
  <2> QED BY <2>3, <2>4
<1>3. CASE ServerJoin
  <2>1. sock = "open" /\ frames # <<>> /\ frames' = Tail(frames) /\ srvJoined' = TRUE
        /\ Head(frames) = "join" /\ UNCHANGED <<sock, visible>>
    BY <1>3, <1>e DEF ServerJoin, Ended
  <2>2. Ended' BY <2>1 DEF Ended
  <2>3. /\ frames' # <<>> => frames'[Len(frames')] = frames[Len(frames)]
        /\ frames' = <<>> => Head(frames) = frames[Len(frames)]
    BY <1>t, <2>1, LastFrame
  <2>4. frames[Len(frames)] = (IF visible THEN "join" ELSE "leave") BY <1>e, <2>1 DEF Follows
  <2>5. Follows'
    <3>1. CASE frames' = <<>>
      <4>1. visible = TRUE BY <1>t, <2>1, <2>3, <2>4, <3>1
      <4> QED BY <2>1, <3>1, <4>1 DEF Follows
    <3>2. CASE frames' # <<>> BY <2>1, <2>3, <2>4, <3>2 DEF Follows
    <3> QED BY <3>1, <3>2
  <2> QED BY <2>2, <2>5
<1>4. CASE ServerReply
  <2>1. srvPc = "joining" /\ UNCHANGED <<sock, frames, visible, srvJoined>> BY <1>4 DEF ServerReply
  <2>2. sock = "open" BY <1>e, <2>1 DEF Ended
  <2> QED BY <1>e, <2>1, <2>2 DEF Ended, Follows
<1>5. CASE ServerLeave
  <2>1. sock = "open" /\ frames # <<>> /\ frames' = Tail(frames) /\ srvJoined' = FALSE
        /\ Head(frames) = "leave" /\ UNCHANGED <<sock, visible>>
    BY <1>5, <1>e DEF ServerLeave, Ended
  <2>2. Ended' BY <2>1 DEF Ended
  <2>3. /\ frames' # <<>> => frames'[Len(frames')] = frames[Len(frames)]
        /\ frames' = <<>> => Head(frames) = frames[Len(frames)]
    BY <1>t, <2>1, LastFrame
  <2>4. frames[Len(frames)] = (IF visible THEN "join" ELSE "leave") BY <1>e, <2>1 DEF Follows
  <2>5. Follows'
    <3>1. CASE frames' = <<>>
      <4>1. visible = FALSE BY <1>t, <2>1, <2>3, <2>4, <3>1
      <4> QED BY <2>1, <3>1, <4>1 DEF Follows
    <3>2. CASE frames' # <<>> BY <2>1, <2>3, <2>4, <3>2 DEF Follows
    <3> QED BY <3>1, <3>2
  <2> QED BY <2>2, <2>5
<1>6. CASE Open
  <2>1. sock' = "open" /\ ~srvJoined /\ UNCHANGED <<srvJoined, visible>>
        /\ frames' = (IF visible THEN <<"join">> ELSE <<>>)
    BY <1>6, <1>e DEF Open, Ended
  <2>2. CASE visible
    <3>1. frames' = <<"join">> BY <2>1, <2>2
    <3> QED BY <2>1, <2>2, <3>1 DEF Ended, Follows
  <2>3. CASE ~visible
    <3>1. frames' = <<>> /\ srvJoined' = FALSE /\ visible' = FALSE BY <1>t, <2>1, <2>3
    <3> QED BY <2>1, <3>1 DEF Ended, Follows
  <2> QED BY <2>2, <2>3
<1>7. CASE Close BY <1>7 DEF Close, Cut, Ended, Follows
<1>8. CASE Break BY <1>8 DEF Break, Cut, Ended, Follows
<1>9. CASE Watchdog BY <1>9, <1>e DEF Watchdog, Ended, Follows
<1>10. CASE ChangeVisibility
  <2>1. CASE sock = "open"
    <3>1. sock' = "open" /\ frames' = Append(frames, IF visible' THEN "join" ELSE "leave")
      BY <1>10, <2>1 DEF ChangeVisibility
    <3>2. (IF visible' THEN "join" ELSE "leave") \in {"join", "leave"} OBVIOUS
    <3>3. frames' # <<>> /\ frames'[Len(frames')] = (IF visible' THEN "join" ELSE "leave")
      BY <1>t, <3>1, <3>2, SentFrame
    <3> QED BY <3>1, <3>3 DEF Ended, Follows
  <2>2. CASE sock # "open" BY <1>10, <1>e, <2>2 DEF ChangeVisibility, Ended, Follows
  <2> QED BY <2>1, <2>2
<1>11. CASE Receive BY <1>11, <1>e DEF Receive, Ended, Follows
<1>12. CASE \/ \E h \in Writers, m \in Messages : Post(h, m) \/ Edit(h, m) \/ Delete(h, m)
            \/ FetchRead \/ FetchCopied \/ FetchReturn \/ FetchFail \/ UNCHANGED vars
  <2>1. UNCHANGED link /\ UNCHANGED visible
    BY <1>12 DEF Post, Edit, Delete, Commit, FetchRead, FetchCopied, FetchReturn, FetchFail, vars
  <2> QED BY <1>1, <2>1
<1> QED BY <1>2, <1>3, <1>4, <1>5, <1>6, <1>7, <1>8, <1>9, <1>10, <1>11, <1>12 DEF Next

\* ChannelFollowsVisibility: the tab believes it is in the room exactly when the
\* server does, over reconnects and zombie connections
\* (useChatSocket.ts:108-132, 204-215).
THEOREM ChannelFollows == Spec => []ChannelFollowsVisibility
<1>1. Init => Ended /\ Follows
  <2> SUFFICES ASSUME Init PROVE Ended /\ Follows
    OBVIOUS
  <2> QED BY DEF Init, Ended, Follows
<1>2. ChannelInv => ChannelFollowsVisibility
  BY DEF ChannelInv, Follows, ChannelFollowsVisibility
<1>3. Spec => [](Ended /\ Follows)
  <2>1. TypeOK /\ TypeOK' /\ (Ended /\ Follows) /\ [Next]_vars => (Ended /\ Follows)'
    BY ChannelStep DEF ChannelInv
  <2> QED BY <1>1, <2>1, FeedTypes, PTL DEF Spec
<1> QED BY <1>2, <1>3, FeedTypes, PTL DEF ChannelInv

\* What was on its way still is when more is sent, and that, too.
LEMMA Sent ==
  ASSUME NEW S, NEW q \in Seq(S), NEW x \in S, NEW z, z = Append(q, x)
  PROVE  /\ \A k \in 1 .. Len(q) : \E j \in 1 .. Len(z) : z[j] = q[k]
         /\ \E j \in 1 .. Len(z) : z[j] = x
         /\ \A j \in 1 .. Len(z) : z[j] = x \/ \E k \in 1 .. Len(q) : z[j] = q[k]
<1>1. /\ Len(q) \in Nat /\ Len(z) = Len(q) + 1 /\ z[Len(q) + 1] = x
      /\ \A k \in 1 .. Len(q) : z[k] = q[k]
  OBVIOUS
<1> QED BY <1>1

\* What is taken is the first of a queue, and the others stay in it.
LEMMA Taken ==
  ASSUME NEW S, NEW q \in Seq(S), q # <<>>
  PROVE  /\ \A k \in 1 .. Len(q) : q[k] = Head(q) \/ \E j \in 1 .. Len(Tail(q)) : Tail(q)[j] = q[k]
         /\ \A j \in 1 .. Len(Tail(q)) : \E k \in 1 .. Len(q) : Tail(q)[j] = q[k]
         /\ \E k \in 1 .. Len(q) : q[k] = Head(q)
<1>1. PICK z, n : z = Tail(q) /\ n = Len(q) OBVIOUS
<1>2. /\ n \in Nat /\ n > 0 /\ Len(z) = n - 1 /\ Head(q) = q[1]
      /\ \A k \in 1 .. (n - 1) : z[k] = q[k + 1]
  BY <1>1
<1>3. ASSUME NEW k \in 1 .. n PROVE q[k] = Head(q) \/ \E j \in 1 .. Len(z) : z[j] = q[k]
  <2>1. CASE k = 1 BY <1>2, <2>1
  <2>2. CASE k # 1
    <3>1. k - 1 \in 1 .. (n - 1) /\ (k - 1) + 1 = k BY <1>2, <2>2
    <3> QED BY <1>2, <3>1
  <2> QED BY <2>1, <2>2
<1>4. ASSUME NEW j \in 1 .. Len(z) PROVE \E k \in 1 .. n : z[j] = q[k]
  <2>1. j + 1 \in 1 .. n /\ j \in 1 .. (n - 1) BY <1>2
  <2> QED BY <1>2, <2>1
<1>5. 1 \in 1 .. n BY <1>2
<1> QED BY <1>1, <1>2, <1>3, <1>4, <1>5

\* A change of the table: a message is announced with its first version.
LEMMA CommitCovers ==
  ASSUME FeedInv, NEW h \in Writers, NEW m \in Messages,
         NEW type \in {"message", "message_update", "message_deleted"}, NEW v \in Version,
         Commit(h, m, type, v), v # 0, row[m] = 0 => type = "message"
  PROVE  ChangesOnly' /\ OneOfEach' /\ ReadFromRows' /\ NoneForgotten' /\ Covered'
<1> USE DEF FeedInv, server, link, pane
<1>1. /\ row \in Table /\ pending \in [Writers -> Envelope] /\ pending[h] = None
      /\ row' = [row EXCEPT ![m] = v] /\ past' = past \cup {row'} /\ pending' = [pending EXCEPT ![h] = Update(type, m, v)]
      /\ UNCHANGED <<link, visible, pane, events, failures>>
  BY DEF Commit, TypeOK
<1>2. pending'[h] = Update(type, m, v) /\ \A g \in Writers : g # h => pending'[g] = pending[g]
  BY <1>1
<1>3. \A x \in Messages : (row[x] # 0 => row'[x] # 0) /\ (x # m => row'[x] = row[x])
  BY <1>1 DEF Table
<1>4. ChangesOnly'
  <2>1. IsChange(Update(type, m, v)) BY DEF IsChange, Update
  <2> QED BY <1>1, <1>2, <2>1 DEF ChangesOnly
<1>5. OneOfEach' /\ NoneForgotten' BY <1>1 DEF OneOfEach, NoneForgotten
<1>6. ReadFromRows' BY <1>1, <1>3 DEF ReadFromRows
<1>7. Covered'
  <2> SUFFICES ASSUME NEW x \in Messages, row'[x] # 0, srvJoined'
               PROVE  (Shown(x) \/ Announced(x) \/ Refetching \/ Reading(x) \/ banner \/ Stale)'
    BY DEF Covered
  <2>1. CASE row[x] = 0
    <3>1. x = m /\ type = "message" BY <1>3, <2>1
    <3>2. News(pending'[h], x) BY <1>2, <3>1 DEF News, Update
    <3> QED BY <3>2 DEF Announced
  <2>2. CASE row[x] # 0
    <3>1. Shown(x) \/ Announced(x) \/ Refetching \/ Reading(x) \/ banner \/ Stale
      BY <1>1, <2>2 DEF Covered
    <3>2. Announced(x) => Announced(x)'
      <4>1. ~News(pending[h], x) BY <1>1 DEF News
      <4> QED BY <1>1, <1>2, <4>1 DEF Announced
    <3> QED BY <1>1, <3>1, <3>2 DEF Shown, Refetching, Reading, Stale
  <2> QED BY <2>1, <2>2
<1> QED BY <1>4, <1>5, <1>6, <1>7

\* An envelope that is published reaches the tab if it is in the room.
LEMMA PublishCovers ==
  ASSUME FeedInv, NEW h \in Writers, Publish(h)
  PROVE  ChangesOnly' /\ OneOfEach' /\ ReadFromRows' /\ NoneForgotten' /\ Covered'
<1> USE DEF FeedInv, server, link, pane
<1>1. /\ pending \in [Writers -> Envelope] /\ inbox \in Seq(Envelope)
      /\ pending' = [pending EXCEPT ![h] = None]
      /\ inbox' = IF srvJoined THEN Append(inbox, pending[h]) ELSE inbox
      /\ UNCHANGED <<row, past, srvJoined, srvPc, sock, frames, visible, pane, events, failures>>
  BY DEF Publish, TypeOK
<1>2. pending'[h] = None /\ \A g \in Writers : g # h => pending'[g] = pending[g]
  BY <1>1
<1>3. pending[h] \in Envelope BY <1>1
<1>4. /\ \A k \in 1 .. Len(inbox) : \E j \in 1 .. Len(inbox') : inbox'[j] = inbox[k]
      /\ srvJoined => \E j \in 1 .. Len(inbox') : inbox'[j] = pending[h]
      /\ \A j \in 1 .. Len(inbox') : inbox'[j] = pending[h] \/ \E k \in 1 .. Len(inbox) : inbox'[j] = inbox[k]
  <2>1. CASE srvJoined
    <3>1. inbox' = Append(inbox, pending[h]) BY <1>1, <2>1
    <3>2. inbox \in Seq(Envelope) BY <1>1
    <3> QED BY ONLY <1>3, <2>1, <3>1, <3>2, Sent
  <2>2. CASE ~srvJoined BY <1>1, <2>2
  <2> QED BY <2>1, <2>2
<1>5. ChangesOnly'
  <2>1. IsChange(None) BY DEF IsChange
  <2>2. \A g \in Writers : IsChange(pending'[g]) BY <1>2, <2>1 DEF ChangesOnly
  <2>3. \A j \in 1 .. Len(inbox') : IsChange(inbox'[j]) BY <1>4 DEF ChangesOnly
  <2> QED BY <2>2, <2>3 DEF ChangesOnly
<1>6. OneOfEach' /\ NoneForgotten' /\ ReadFromRows' BY <1>1 DEF OneOfEach, NoneForgotten, ReadFromRows
<1>7. Covered'
  <2> SUFFICES ASSUME NEW x \in Messages, row'[x] # 0, srvJoined'
               PROVE  (Shown(x) \/ Announced(x) \/ Refetching \/ Reading(x) \/ banner \/ Stale)'
    BY DEF Covered
  <2>1. Shown(x) \/ Announced(x) \/ Refetching \/ Reading(x) \/ banner \/ Stale
    BY <1>1 DEF Covered
  <2>2. Announced(x) => Announced(x)' BY <1>1, <1>2, <1>4 DEF Announced
  <2>3. Refetching => Refetching' BY <1>1, <1>4 DEF Refetching
  <2> QED BY <1>1, <2>1, <2>2, <2>3 DEF Shown, Reading, Stale
<1> QED BY <1>5, <1>6, <1>7

\* The tab's handler, and the tab's socket.
LEMMA LinkCovers ==
  ASSUME FeedInv,
         \/ ServerJoin \/ ServerReply \/ ServerLeave
         \/ Open \/ Close \/ Break \/ Watchdog \/ ChangeVisibility \/ UNCHANGED vars
  PROVE  ChangesOnly' /\ OneOfEach' /\ ReadFromRows' /\ NoneForgotten' /\ Covered'
<1> USE DEF FeedInv, server, link, pane
<1>1. UNCHANGED <<row, pending, past, history, live, fetches, banner, copied>>
  BY DEF ServerJoin, ServerReply, ServerLeave, Open, Close, Break, Watchdog, ChangeVisibility, vars
<1>2. OneOfEach' /\ NoneForgotten' /\ ReadFromRows' BY <1>1 DEF OneOfEach, NoneForgotten, ReadFromRows
<1>3. \A x \in Messages : (Shown(x) => Shown(x)') /\ (Reading(x) => Reading(x)')
  BY <1>1 DEF Shown, Reading
<1>4. CASE ServerReply
  <2>1. PICK e \in Envelope : e = Joined
    <3>1. Joined \in Envelope BY FeedAssumption DEF Envelope
    <3> QED BY <3>1
  <2>2. /\ \E j \in 1 .. Len(inbox') : inbox'[j] = e
        /\ \A j \in 1 .. Len(inbox') : inbox'[j] = e \/ \E k \in 1 .. Len(inbox) : inbox'[j] = inbox[k]
    <3>1. inbox \in Seq(Envelope) BY DEF TypeOK
    <3>2. inbox' = Append(inbox, e) BY <1>4, <2>1 DEF ServerReply
    <3>3. e \in Envelope BY <2>1
    <3> QED BY ONLY <3>1, <3>2, <3>3, Sent
  <2>3. ChangesOnly'
    <3>1. IsChange(Joined) BY DEF IsChange
    <3> QED BY <1>1, <2>1, <2>2, <3>1 DEF ChangesOnly
  <2>4. Refetching' BY <2>1, <2>2 DEF Refetching
  <2> QED BY <1>2, <2>3, <2>4 DEF Covered
<1>5. CASE UNCHANGED <<inbox, srvJoined, srvPc>>
  <2>1. ChangesOnly' BY <1>1, <1>5 DEF ChangesOnly
  <2>2. \A x \in Messages : Announced(x) => Announced(x)' BY <1>1, <1>5 DEF Announced
  <2>3. Refetching => Refetching' BY <1>5 DEF Refetching
  <2>5. Stale => Stale' BY <1>1 DEF Stale
  <2>4. Covered' BY <1>1, <1>3, <1>5, <2>2, <2>3, <2>5 DEF Covered
  <2> QED BY <1>2, <2>1, <2>4
<1>6. CASE ServerJoin
  <2>1. srvPc' = "joining" /\ UNCHANGED inbox BY <1>6 DEF ServerJoin
  <2>2. ChangesOnly' BY <1>1, <2>1 DEF ChangesOnly
  <2>3. Refetching' BY <2>1 DEF Refetching
  <2> QED BY <1>2, <2>2, <2>3 DEF Covered
<1>7. CASE ServerLeave \/ Close \/ Break
  <2>1. srvJoined' = FALSE /\ (UNCHANGED inbox \/ inbox' = <<>>)
    BY <1>7 DEF ServerLeave, Close, Break, Cut
  <2>2. ChangesOnly'
    <3>1. CASE UNCHANGED inbox BY <1>1, <3>1 DEF ChangesOnly
    <3>2. CASE inbox' = <<>>
      <4>1. \A k \in 1 .. Len(inbox') : FALSE BY <3>2
      <4> QED BY <1>1, <4>1 DEF ChangesOnly
    <3> QED BY <2>1, <3>1, <3>2
  <2> QED BY <1>2, <2>1, <2>2 DEF Covered
<1> QED BY <1>4, <1>5, <1>6, <1>7 DEF Open, Watchdog, ChangeVisibility, vars

\* A change of a message leaves one that is shown shown, and adds none.
LEMMA PatchKeeps ==
  ASSUME NEW list \in Table, NEW e \in Envelope, e.ver # 0, NEW m \in Messages
  PROVE  Patch(list, e)[m] # 0 <=> list[m] # 0
BY FeedAssumption DEF Patch, Table, Envelope

\* The tab takes an envelope: a "joined" clears what came live and asks again,
\* a message is shown, a change leaves everything that is shown shown.
LEMMA ReceiveCovers ==
  ASSUME FeedInv, Receive
  PROVE  ChangesOnly' /\ OneOfEach' /\ ReadFromRows' /\ NoneForgotten' /\ Covered'
<1> USE DEF FeedInv
<1>1. /\ inbox \in Seq(Envelope) /\ inbox # <<>> /\ inbox' = Tail(inbox)
      /\ UNCHANGED <<row, pending, past, srvJoined, srvPc>>
  BY DEF Receive, TypeOK, server
<1>2. PICK e : e = Head(inbox) OBVIOUS
<1>3. /\ e \in Envelope
      /\ \/ e.type = "joined" /\ RefreshHistory
         \/ e.type = "message" /\ AppendLive(e)
         \/ e.type \in {"message_update", "message_deleted"} /\ PatchBoth(e)
  BY <1>1, <1>2 DEF Receive
<1>4. /\ \A k \in 1 .. Len(inbox) : inbox[k] = e \/ \E j \in 1 .. Len(inbox') : inbox'[j] = inbox[k]
      /\ \A j \in 1 .. Len(inbox') : \E k \in 1 .. Len(inbox) : inbox'[j] = inbox[k]
      /\ \E k \in 1 .. Len(inbox) : inbox[k] = e
  BY <1>1, <1>2, Taken
<1>5. ChangesOnly' BY <1>1, <1>4 DEF ChangesOnly
<1>6. IsChange(e) BY <1>4 DEF ChangesOnly
<1>7. /\ fetches \subseteq [last : BOOLEAN, by : {"network", "copy"}, snap : Table \cup {NotRead}]
      /\ history \in Table /\ live \in Table
  BY DEF TypeOK
<1>8. CASE e.type = "joined" /\ RefreshHistory
  <2>2. /\ fetches' = {[f EXCEPT !.last = FALSE] : f \in fetches} \cup {Request}
        /\ UNCHANGED <<history, copied>>
        /\ Request.last /\ Request.snap = NotRead
    BY <1>8 DEF RefreshHistory, Request
  <2>3. \A f \in fetches' : f = Request \/ (~f.last /\ \E g \in fetches : g.snap = f.snap)
    <3> SUFFICES ASSUME NEW f \in fetches', f # Request
                 PROVE  ~f.last /\ \E g \in fetches : g.snap = f.snap
      OBVIOUS
    <3>1. PICK g \in fetches : f = [g EXCEPT !.last = FALSE] BY <2>2
    <3>2. ~f.last /\ f.snap = g.snap BY <1>7, <3>1
    <3> QED BY <3>2
  <2>4. OneOfEach' BY <2>3 DEF OneOfEach
  <2>5. ReadFromRows' BY <1>1, <2>2, <2>3 DEF ReadFromRows
  <2>6. NoneForgotten' BY <2>2, <2>3 DEF NoneForgotten
  <2>7. \A x \in Messages : Reading(x)' BY <2>2 DEF Reading
  <2> QED BY <1>5, <2>4, <2>5, <2>6, <2>7 DEF Covered
<1>9. CASE e.type = "message" /\ AppendLive(e)
  <2>1. live' = [live EXCEPT ![e.id] = e.ver] /\ UNCHANGED <<history, fetches, banner, copied>>
    BY <1>9 DEF AppendLive
  <2>2. e.ver # 0 BY <1>6, <1>9 DEF IsChange
  <2>3. OneOfEach' /\ ReadFromRows' /\ NoneForgotten'
    BY <1>1, <2>1 DEF OneOfEach, ReadFromRows, NoneForgotten
  <2>4. Covered'
    <3> SUFFICES ASSUME NEW x \in Messages, row'[x] # 0, srvJoined'
                 PROVE  (Shown(x) \/ Announced(x) \/ Refetching \/ Reading(x) \/ banner \/ Stale)'
      BY DEF Covered
    <3>1. Shown(x) \/ Announced(x) \/ Refetching \/ Reading(x) \/ banner \/ Stale
      BY <1>1 DEF Covered
    <3>2. Shown(x) => Shown(x)' BY <1>7, <2>1, <2>2 DEF Shown, Table
    <3>3. Announced(x) => Announced(x)' \/ Shown(x)'
      <4>1. News(e, x) => Shown(x)' BY <1>7, <2>1, <2>2 DEF News, Shown, Table
      <4> QED BY <1>1, <1>4, <4>1 DEF Announced
    <3>4. Refetching => Refetching' BY <1>1, <1>4, <1>9 DEF Refetching
    <3> QED BY <2>1, <3>1, <3>2, <3>3, <3>4 DEF Reading, Stale
  <2> QED BY <1>5, <2>3, <2>4
<1>10. CASE e.type \in {"message_update", "message_deleted"} /\ PatchBoth(e)
  <2>1. history' = Patch(history, e) /\ live' = Patch(live, e) /\ UNCHANGED <<fetches, banner, copied>>
    BY <1>10 DEF PatchBoth
  <2>2. e.ver # 0 BY <1>6, <1>10 DEF IsChange
  <2>3. \A x \in Messages : (history'[x] # 0 <=> history[x] # 0) /\ (live'[x] # 0 <=> live[x] # 0)
    BY <1>3, <1>7, <2>1, <2>2, PatchKeeps
  <2>4. OneOfEach' BY <2>1 DEF OneOfEach
  <2>5. ReadFromRows' BY <1>1, <2>1, <2>3 DEF ReadFromRows
  <2>6. NoneForgotten' BY <2>1, <2>3 DEF NoneForgotten
  <2>7. Covered'
    <3> SUFFICES ASSUME NEW x \in Messages, row'[x] # 0, srvJoined'
                 PROVE  (Shown(x) \/ Announced(x) \/ Refetching \/ Reading(x) \/ banner \/ Stale)'
      BY DEF Covered
    <3>1. Shown(x) \/ Announced(x) \/ Refetching \/ Reading(x) \/ banner \/ Stale
      BY <1>1 DEF Covered
    <3>2. Shown(x) => Shown(x)' BY <2>3 DEF Shown
    <3>3. Announced(x) => Announced(x)' 
      <4>1. ~News(e, x) BY <1>10 DEF News
      <4> QED BY <1>1, <1>4, <4>1 DEF Announced
    <3>4. Refetching => Refetching' BY <1>1, <1>4, <1>10 DEF Refetching
    <3> QED BY <2>1, <3>1, <3>2, <3>3, <3>4 DEF Reading, Stale
  <2> QED BY <1>5, <2>4, <2>5, <2>6, <2>7
<1> QED BY <1>3, <1>8, <1>9, <1>10

\* A request reads the table, is answered, or fails.
LEMMA FetchCovers ==
  ASSUME FeedInv, FetchRead \/ FetchCopied \/ FetchReturn \/ FetchFail
  PROVE  ChangesOnly' /\ OneOfEach' /\ ReadFromRows' /\ NoneForgotten' /\ Covered'
<1> USE DEF FeedInv
<1>1. UNCHANGED <<row, pending, past, srvJoined, srvPc, inbox, live>>
  BY DEF FetchRead, FetchCopied, FetchReturn, FetchFail, server, link
<1>2. ChangesOnly' BY <1>1 DEF ChangesOnly
<1>3. fetches \subseteq [last : BOOLEAN, by : {"network", "copy"}, snap : Table \cup {NotRead}]
  BY DEF TypeOK
<1>4. /\ \A x \in Messages : Announced(x) => Announced(x)'
      /\ Refetching => Refetching'
  BY <1>1 DEF Announced, Refetching
<1>5. CASE FetchRead
  <2>1. PICK f \in fetches : f.snap = NotRead /\ fetches' = (fetches \ {f}) \cup {[f EXCEPT !.snap = row]}
    BY <1>5 DEF FetchRead
  <2>2. PICK g : g = [f EXCEPT !.snap = row] OBVIOUS
  <2>3. g.last = f.last /\ g.by = f.by /\ g.snap = row BY <1>3, <2>1, <2>2
  <2>4. fetches' = (fetches \ {f}) \cup {g} BY <2>1, <2>2
  <2>5. UNCHANGED <<history, banner, copied>> BY <1>5 DEF FetchRead
  <2>6. OneOfEach' BY <2>3, <2>4 DEF OneOfEach
  <2>7. ReadFromRows' BY <1>1, <2>3, <2>4, <2>5 DEF ReadFromRows
  <2>8. NoneForgotten' BY <1>1, <2>3, <2>4, <2>5 DEF NoneForgotten, ReadFromRows
  <2>9. \A x \in Messages : row[x] # 0 /\ Reading(x) => Reading(x)'
    BY <1>1, <2>3, <2>4 DEF Reading
  <2>11. Stale => Stale' BY <2>1, <2>3, <2>4, <2>5 DEF Stale
  <2>10. Covered' BY <1>1, <1>4, <2>5, <2>9, <2>11 DEF Covered, Shown
  <2> QED BY <1>2, <2>6, <2>7, <2>8, <2>10
<1>6. CASE FetchReturn
  <2>1. PICK f \in fetches : /\ f.snap # NotRead /\ fetches' = fetches \ {f}
                            /\ IF f.last THEN history' = f.snap /\ copied' = (f.by = "copy")
                               ELSE UNCHANGED <<history, copied>>
    BY <1>6 DEF FetchReturn
  <2>2. UNCHANGED banner BY <1>6 DEF FetchReturn
  <2>3. OneOfEach' BY <2>1 DEF OneOfEach
  <2>4. ReadFromRows' BY <1>1, <2>1 DEF ReadFromRows
  <2>5. f.last => \A g \in fetches' : ~g.last BY <2>1 DEF OneOfEach
  <2>6. NoneForgotten' BY <1>1, <2>1, <2>5 DEF NoneForgotten
  <2>7. CASE f.last /\ f.by = "copy"
    <3>1. Stale' BY <2>1, <2>5, <2>7 DEF Stale
    <3> QED BY <1>2, <2>3, <2>4, <2>6, <3>1 DEF Covered
  <2>8. CASE ~f.last
    <3>1. \A x \in Messages : Reading(x) => Reading(x)' BY <2>1, <2>8 DEF Reading
    <3>2. Stale => Stale' BY <2>1, <2>8 DEF Stale
    <3> QED BY <1>1, <1>2, <1>4, <2>1, <2>2, <2>3, <2>4, <2>6, <2>8, <3>1, <3>2 DEF Covered, Shown
  <2>9. CASE f.last /\ f.by = "network"
    <3>1. \A x \in Messages : Shown(x) => Shown(x)' BY <1>1, <2>1, <2>9 DEF Shown, NoneForgotten
    <3>2. \A x \in Messages : Reading(x) => Shown(x)'
      BY <1>1, <2>1, <2>9 DEF Reading, Shown, OneOfEach
    <3>3. ~Stale BY <2>9 DEF Stale
    <3>4. Covered' BY <1>1, <1>4, <2>2, <3>1, <3>2, <3>3 DEF Covered
    <3> QED BY <1>2, <2>3, <2>4, <2>6, <3>4
  <2>10. f.last \in BOOLEAN /\ f.by \in {"network", "copy"} BY <1>3, <2>1
  <2> QED BY <1>2, <2>3, <2>4, <2>6, <2>7, <2>8, <2>9, <2>10
<1>7. CASE FetchFail
  <2>1. PICK f \in fetches : fetches' = fetches \ {f} /\ banner' = (banner \/ f.last)
    BY <1>7 DEF FetchFail
  <2>2. UNCHANGED <<history, copied>> BY <1>7 DEF FetchFail
  <2>3. OneOfEach' BY <2>1 DEF OneOfEach
  <2>4. ReadFromRows' BY <1>1, <2>1, <2>2 DEF ReadFromRows
  <2>5. NoneForgotten' BY <1>1, <2>1, <2>2 DEF NoneForgotten
  <2>6. \A x \in Messages : Shown(x) => Shown(x)' BY <1>1, <2>2 DEF Shown
  <2>7. \A x \in Messages : Reading(x) => Reading(x)' \/ banner'
    BY <1>1, <2>1 DEF Reading
  <2>8. banner => banner' BY <2>1
  <2>10. Stale => Stale' BY <2>1, <2>2 DEF Stale
  <2>9. Covered' BY <1>1, <1>4, <2>2, <2>6, <2>7, <2>8, <2>10 DEF Covered
  <2> QED BY <1>2, <2>3, <2>4, <2>5, <2>9
<1>8. CASE FetchCopied
  <2>1. PICK f \in fetches, t \in past : fetches' = (fetches \ {f}) \cup {[f EXCEPT !.by = "copy", !.snap = t]}
    BY <1>8 DEF FetchCopied
  <2>2. PICK g : g = [f EXCEPT !.by = "copy", !.snap = t] OBVIOUS
  <2>3. g.last = f.last /\ g.by = "copy" /\ g.snap = t BY <1>3, <2>1, <2>2
  <2>4. fetches' = (fetches \ {f}) \cup {g} BY <2>1, <2>2
  <2>5. UNCHANGED <<history, banner, copied>> BY <1>8 DEF FetchCopied
  <2>6. OneOfEach' BY <2>3, <2>4 DEF OneOfEach
  <2>7. ReadFromRows' BY <1>1, <2>3, <2>4, <2>5 DEF ReadFromRows
  <2>8. NoneForgotten' BY <2>3, <2>4, <2>5 DEF NoneForgotten
  <2>9. \A x \in Messages : Reading(x) => Reading(x)'
    BY <2>3, <2>4 DEF Reading
  <2>11. Stale => Stale' BY <2>1, <2>3, <2>4, <2>5 DEF Stale
  <2>10. Covered' BY <1>1, <1>4, <2>5, <2>9, <2>11 DEF Covered, Shown
  <2> QED BY <1>2, <2>6, <2>7, <2>8, <2>10
<1> QED BY <1>5, <1>6, <1>7, <1>8

\* NothingMissing: once things settle the tab shows every message of the room
\* (ChatPane.tsx:52-74, 112-125).
THEOREM NothingIsMissing == Spec => []NothingMissing
<1> DEFINE I == ChangesOnly /\ OneOfEach /\ ReadFromRows /\ NoneForgotten /\ Covered
<1>1. Init => I
  <2> SUFFICES ASSUME Init PROVE I
    OBVIOUS
  <2>1. ChangesOnly
    <3>1. IsChange(None) BY DEF IsChange
    <3>2. \A k \in 1 .. Len(inbox) : FALSE BY DEF Init
    <3> QED BY <3>1, <3>2 DEF ChangesOnly, Init
  <2>2. OneOfEach /\ ReadFromRows /\ NoneForgotten
    BY DEF Init, Blank, Request, OneOfEach, ReadFromRows, NoneForgotten
  <2>3. Covered BY DEF Init, Blank, Covered
  <2> QED BY <2>1, <2>2, <2>3
<1>2. TypeOK /\ I /\ [Next]_vars => I'
  <2> SUFFICES ASSUME FeedInv, [Next]_vars PROVE I'
    BY DEF FeedInv
  <2>1. CASE \E h \in Writers, m \in Messages : Post(h, m) \/ Edit(h, m) \/ Delete(h, m)
    <3>1. PICK h \in Writers, m \in Messages : Post(h, m) \/ Edit(h, m) \/ Delete(h, m) BY <2>1
    <3>2. PICK type \in {"message", "message_update", "message_deleted"}, v \in Version :
            Commit(h, m, type, v) /\ v # 0 /\ (row[m] = 0 => type = "message")
      <4> USE FeedAssumption
      <4>1. CASE Post(h, m) BY <4>1 DEF Post
      <4>2. CASE Edit(h, m)
        <5>1. row[m] + 1 \in Version /\ row[m] + 1 # 0 /\ row[m] # 0 BY <4>2 DEF Edit
        <5> QED BY <4>2, <5>1 DEF Edit
      <4>3. CASE Delete(h, m)
        <5>1. Gone \in Version /\ Gone # 0 /\ row[m] # 0 BY <4>3 DEF Delete
        <5> QED BY <4>3, <5>1 DEF Delete
      <4> QED BY <3>1, <4>1, <4>2, <4>3
    <3> QED BY <3>2, CommitCovers
  <2>2. CASE \E h \in Writers : Publish(h) BY <2>2, PublishCovers
  <2>3. CASE \/ ServerJoin \/ ServerReply \/ ServerLeave
             \/ Open \/ Close \/ Break \/ Watchdog \/ ChangeVisibility \/ UNCHANGED vars
    BY <2>3, LinkCovers
  <2>4. CASE Receive BY <2>4, ReceiveCovers
  <2>5. CASE FetchRead \/ FetchCopied \/ FetchReturn \/ FetchFail BY <2>5, FetchCovers
  <2> QED BY <2>1, <2>2, <2>3, <2>4, <2>5 DEF Next
<1>3. I => NothingMissing
  <2> SUFFICES ASSUME I, Settled, ~copied, NEW m \in Messages, row[m] # 0 PROVE Shown(m)
    BY DEF NothingMissing
  <2>1. Shown(m) \/ Announced(m) \/ Refetching \/ Reading(m) \/ banner \/ Stale
    BY DEF Settled, Covered
  <2>2. ~Announced(m) /\ ~Refetching /\ ~Reading(m) /\ ~banner /\ ~Stale
    BY DEF Settled, Stale, Announced, News, Refetching, Reading
  <2> QED BY <2>1, <2>2
<1>4. Spec => []I
  <2>1. TypeOK /\ TypeOK' /\ I /\ [Next]_vars => I' BY <1>2
  <2> HIDE DEF I
  <2> QED BY <1>1, <2>1, FeedTypes, PTL DEF Spec
<1> HIDE DEF I
<1> QED BY <1>3, <1>4, PTL
=============================================================================
