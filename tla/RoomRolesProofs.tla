-------------------------- MODULE RoomRolesProofs --------------------------
(***************************************************************************)
(* Proofs about RoomRoles, for any accounts, any number of requests at     *)
(* once and any set of operations: the types; that the room always has     *)
(* exactly one owner, until a request to transfer it begins; and that the  *)
(* owner its own row names is that one, until a commit writes over what    *)
(* has changed since its request read it.                                  *)
(*                                                                         *)
(* Proofs about AdminPage and AdminSettings, for any rooms, bots, tokens   *)
(* and values typed, any size of a page of the log and any number of       *)
(* clicks: the types; that the audit log is shown without gaps; that a     *)
(* token stands under its bot; and that the page shows what it changed.    *)
(***************************************************************************)
EXTENDS RoomRoles, AdminPage, SequenceTheorems, TLAPS

\* A membership about to be deleted or given another role was not the owner's
\* when it was read, and a caller about to remove himself is judged by the role
\* he was authorised with.
PendingHarmless ==
    \A r \in Requests :
        /\ At(r, "commit") /\ req[r].op \in {"remove", "leave", "change"}
               => req[r].target # ownerId
        /\ At(r, "commit") /\ req[r].op = "change" => req[r].to \in {"member", "admin"}
        /\ At(r, "target") /\ req[r].op = "remove" /\ req[r].by = ownerId
               => req[r].acting = "owner"
        /\ At(r, "current") => req[r].op \in TransferOps

\* No transfer is under way.
NoTransfer == \A r \in Requests : req[r] # Idle => req[r].op \notin TransferOps

IInv ==
    /\ TypeOK
    /\ transfers = "none" => ownerId = Creator /\ OneOwner /\ PendingHarmless /\ NoTransfer

\* The first state is well typed.
LEMMA InitTypes == Init => TypeOK
  BY RolesAssumption DEF Init, TypeOK, Role, RoomRole, Privacy

-----------------------------------------------------------------------------
(* Types                                                                   *)

\* A request keeps its type when it goes on (only its stage and what it has read
\* change) and when it ends.
LEMMA GoesOn ==
  ASSUME TypeOK, NEW r \in Requests, req[r] # Idle, UNCHANGED <<row, transfers, written>>,
         NEW q \in Request,
         q.op = req[r].op, q.by = req[r].by, q.target = req[r].target, q.to = req[r].to,
         req' = [req EXCEPT ![r] = q]
  PROVE  TypeOK'
<1>1. \A x \in Requests : req'[x] = IF x = r THEN q ELSE req[x]
  BY DEF TypeOK
<1>2. \A x \in Requests : req'[x] # Idle =>
          Asks(req'[x].op, req'[x].by, req'[x].target, req'[x].to)
  BY <1>1 DEF TypeOK
<1> QED
  BY <1>2 DEF TypeOK, row, written

\* A request that ends leaves the others as they were.
LEMMA Ends ==
  ASSUME TypeOK, NEW r \in Requests, End(r)
  PROVE  /\ req' \in [Requests -> Request \cup {Idle}]
         /\ \A x \in Requests : req'[x] = IF x = r THEN Idle ELSE req[x]
         /\ \A x \in Requests : req'[x] # Idle =>
                Asks(req'[x].op, req'[x].by, req'[x].target, req'[x].to)
<1>1. \A x \in Requests : req'[x] = IF x = r THEN Idle ELSE req[x]
  BY DEF TypeOK, End
<1> QED
  BY <1>1 DEF TypeOK, End

\* One that is refused changes nothing else.
LEMMA Refused ==
  ASSUME TypeOK, NEW r \in Requests, End(r), UNCHANGED <<row, transfers, written>>
  PROVE  TypeOK'
  BY Ends DEF TypeOK, row, written

\* The reads of a request keep the types.
LEMMA ReadTypes ==
  ASSUME TypeOK, NEW r \in Requests,
         ReadRoom(r) \/ Authorize(r) \/ ReadTarget(r) \/ ReadCurrent(r)
  PROVE  TypeOK'
<1>0. /\ req[r] \in Request /\ req[r] # Idle
      /\ role[req[r].by] \in Role /\ role[req[r].target] \in Role
      /\ role[Current(req[r])] \in Role
  BY DEF ReadRoom, Authorize, ReadTarget, ReadCurrent, At, TypeOK, Request, Current
<1>1. CASE End(r)
  BY <1>1, Refused DEF ReadRoom, Authorize, ReadTarget, ReadCurrent
<1>2. CASE ReadRoom(r) /\ ~End(r)
  <2> DEFINE q == [req[r] EXCEPT !.stage = AfterRoom(req[r].op),
                     !.owner = IF req[r].op \in TransferOps THEN ownerId ELSE req[r].owner,
                     !.privacy = IF req[r].op = "update" THEN privacy ELSE req[r].privacy]
  <2>1. req' = [req EXCEPT ![r] = q]
    BY <1>2, <1>0 DEF ReadRoom, TypeOK
  <2>2. q \in Request
    BY <1>0 DEF Request, TypeOK, AfterRoom, Stage
  <2>3. q.op = req[r].op /\ q.by = req[r].by /\ q.target = req[r].target /\ q.to = req[r].to
    BY <1>0 DEF Request
  <2> QED
    BY <1>2, <1>0, <2>1, <2>2, <2>3, GoesOn DEF ReadRoom
<1>3. CASE Authorize(r) /\ ~End(r)
  <2> DEFINE q == [req[r] EXCEPT !.stage = AfterAuth(req[r].op),
                     !.acting = IF req[r].op = "remove" THEN role[req[r].by] ELSE req[r].acting]
  <2>1. req' = [req EXCEPT ![r] = q]
    BY <1>3, <1>0 DEF Authorize, TypeOK
  <2>2. q \in Request
    BY <1>0 DEF Request, AfterAuth, Stage
  <2>3. q.op = req[r].op /\ q.by = req[r].by /\ q.target = req[r].target /\ q.to = req[r].to
    BY <1>0 DEF Request
  <2> QED
    BY <1>3, <1>0, <2>1, <2>2, <2>3, GoesOn DEF Authorize
<1>4. CASE ReadTarget(r) /\ ~End(r)
  <2> DEFINE read == IF req[r].op = "remove" /\ req[r].target = req[r].by
                         THEN req[r].acting ELSE role[req[r].target]
             q == [req[r] EXCEPT !.stage = AfterTarget(req[r].op), !.loaded = read]
  <2>1. req' = [req EXCEPT ![r] = q]
    BY <1>4, <1>0 DEF ReadTarget, TypeOK
  <2>2. read \in Role
    BY <1>0 DEF Request
  <2>3. q \in Request
    BY <1>0, <2>2 DEF Request, AfterTarget, Stage
  <2>4. q.op = req[r].op /\ q.by = req[r].by /\ q.target = req[r].target /\ q.to = req[r].to
    BY <1>0 DEF Request
  <2> QED
    BY <1>4, <1>0, <2>1, <2>3, <2>4, GoesOn DEF ReadTarget
<1>5. CASE ReadCurrent(r) /\ ~End(r)
  <2> DEFINE read == IF req[r].target = Current(req[r])
                         THEN req[r].loaded ELSE role[Current(req[r])]
             q == [req[r] EXCEPT !.stage = "commit", !.acting = read]
  <2>1. req' = [req EXCEPT ![r] = q]
    BY <1>5, <1>0 DEF ReadCurrent, TypeOK
  <2>2. read \in Role
    BY <1>0 DEF Request
  <2>3. q \in Request
    BY <1>0, <2>2 DEF Request, Stage
  <2>4. q.op = req[r].op /\ q.by = req[r].by /\ q.target = req[r].target /\ q.to = req[r].to
    BY <1>0 DEF Request
  <2> QED
    BY <1>5, <1>0, <2>1, <2>3, <2>4, GoesOn DEF ReadCurrent
<1> QED
  BY <1>1, <1>2, <1>3, <1>4, <1>5

\* So does every step.
LEMMA TypeStep == TypeOK /\ [Next]_vars => TypeOK'
<1> SUFFICES ASSUME TypeOK, [Next]_vars PROVE TypeOK'
  OBVIOUS
<1> USE RolesAssumption
<1>1. CASE UNCHANGED vars
  BY <1>1 DEF vars, written, TypeOK
<1>2. CASE Create
  BY <1>2 DEF Create, written, TypeOK, Role, RoomRole
<1>3. ASSUME NEW r \in Requests, Begin(r) PROVE TypeOK'
  <2>1. PICK op \in Ops, by \in Users, target \in Users,
             to \in RoomRole \cup Privacy \cup {"-"} :
          /\ Asks(op, by, target, to)
          /\ req' = [req EXCEPT ![r] =
               [op |-> op, by |-> by, target |-> target, to |-> to, stage |-> First(op),
                acting |-> "none", loaded |-> "none", owner |-> by, privacy |-> "open"]]
    BY <1>3 DEF Begin
  <2> DEFINE q == [op |-> op, by |-> by, target |-> target, to |-> to, stage |-> First(op),
                   acting |-> "none", loaded |-> "none", owner |-> by, privacy |-> "open"]
  <2>2. q \in Request
    BY DEF Request, First, Stage, Role, RoomRole, Privacy
  <2>3. \A x \in Requests : req'[x] = IF x = r THEN q ELSE req[x]
    BY <2>1 DEF TypeOK
  <2>4. \A x \in Requests : req'[x] # Idle =>
            Asks(req'[x].op, req'[x].by, req'[x].target, req'[x].to)
    BY <2>1, <2>3 DEF TypeOK
  <2>5. req' \in [Requests -> Request \cup {Idle}]
    BY <2>1, <2>2 DEF TypeOK
  <2>6. transfers' \in {"none", "begun"}
    BY <1>3 DEF Begin, TypeOK
  <2> QED
    BY <1>3, <2>4, <2>5, <2>6 DEF Begin, TypeOK, row, written
<1>4. ASSUME NEW r \in Requests,
             ReadRoom(r) \/ Authorize(r) \/ ReadTarget(r) \/ ReadCurrent(r)
      PROVE  TypeOK'
  BY <1>4, ReadTypes
<1>5. ASSUME NEW r \in Requests, CommitJoin(r) PROVE TypeOK'
  BY <1>5, Ends DEF CommitJoin, written, TypeOK, Role, RoomRole
<1>6. ASSUME NEW r \in Requests, CommitRemove(r) PROVE TypeOK'
  BY <1>6, Ends DEF CommitRemove, NoteRace, Rewritten, TypeOK, Role
<1>7. ASSUME NEW r \in Requests, CommitChange(r) PROVE TypeOK'
  <2>1. req[r] # Idle /\ req[r].op = "change" /\ Asks("change", req[r].by, req[r].target, req[r].to)
    BY <1>7 DEF CommitChange, Committing, At, TypeOK
  <2>2. req[r].to \in Role
    BY <2>1 DEF Asks, Role
  <2> QED
    BY <1>7, <2>2, Ends DEF CommitChange, NoteRace, Rewritten, TypeOK, Role
<1>8. ASSUME NEW r \in Requests, CommitTransfer(r) PROVE TypeOK'
  <2>1. role' \in [Users -> Role]
    BY <1>8 DEF CommitTransfer, TypeOK, Role, RoomRole, Given
  <2>2. req[r] \in Request
    BY <1>8 DEF CommitTransfer, Committing, At, TypeOK
  <2>3. ownerId' \in Users
    BY <1>8, <2>2 DEF CommitTransfer, TypeOK, Request
  <2>4. phase # "present" => role' = role
    BY <1>8 DEF CommitTransfer
  <2>5. raced' \in BOOLEAN /\ abdicated' \in BOOLEAN
    BY <1>8 DEF CommitTransfer, NoteRace, Rewritten, TypeOK
  <2> QED
    BY <1>8, <2>1, <2>3, <2>4, <2>5, Ends DEF CommitTransfer, TypeOK
<1>9. ASSUME NEW r \in Requests, CommitUpdate(r) PROVE TypeOK'
  <2>1. req[r] # Idle /\ req[r].op = "update" /\ Asks("update", req[r].by, req[r].target, req[r].to)
    BY <1>9 DEF CommitUpdate, Committing, At, TypeOK
  <2>2. req[r].to \in Privacy
    BY <2>1 DEF Asks
  <2> QED
    BY <1>9, <2>2, Ends DEF CommitUpdate, written, TypeOK
<1>10. ASSUME NEW r \in Requests, CommitDelete(r) PROVE TypeOK'
  BY <1>10, Ends DEF CommitDelete, written, TypeOK, Role
<1> QED
  BY <1>1, <1>2, <1>3, <1>4, <1>5, <1>6, <1>7, <1>8, <1>9, <1>10 DEF Next

\* Every reachable state of the membership tables and of the requests under way
\* has its type, and memberships exist only while their room does.
THEOREM RolesTypes == Spec => []TypeOK
  BY InitTypes, TypeStep, PTL DEF Spec

-----------------------------------------------------------------------------
(* One owner                                                               *)

\* The part of PendingHarmless that is about one request
Harmless(r) ==
    /\ At(r, "commit") /\ req[r].op \in {"remove", "leave", "change"}
           => req[r].target # ownerId
    /\ At(r, "commit") /\ req[r].op = "change" => req[r].to \in {"member", "admin"}
    /\ At(r, "target") /\ req[r].op = "remove" /\ req[r].by = ownerId
           => req[r].acting = "owner"
    /\ At(r, "current") => req[r].op \in TransferOps

\* The other requests are where they were, and the owner is who it was.
LEMMA OthersHarmless ==
  ASSUME TypeOK, PendingHarmless, ownerId' = ownerId,
         NEW r \in Requests, \A x \in Requests : x # r => req'[x] = req[x], Harmless(r)'
  PROVE  PendingHarmless'
  BY DEF PendingHarmless, Harmless, At

\* Reading memberships: nobody else's role is mistaken for the owner's.
LEMMA ReadHarmless ==
  ASSUME IInv, transfers = "none", NEW r \in Requests,
         ReadRoom(r) \/ Authorize(r) \/ ReadTarget(r) \/ ReadCurrent(r)
  PROVE  PendingHarmless' /\ NoTransfer'
<1>0. /\ req[r] \in Request /\ req[r] # Idle
      /\ Asks(req[r].op, req[r].by, req[r].target, req[r].to)
      /\ TypeOK /\ PendingHarmless /\ OneOwner /\ NoTransfer /\ transfers = "none"
      /\ ownerId' = ownerId
  BY DEF ReadRoom, Authorize, ReadTarget, ReadCurrent, At, IInv, TypeOK, row
<1>1. \A x \in Requests : x # r => req'[x] = req[x]
  BY <1>0 DEF ReadRoom, Authorize, ReadTarget, ReadCurrent, End, TypeOK
<1>10. req'[r] = Idle \/ req'[r].op = req[r].op
  BY <1>0 DEF ReadRoom, Authorize, ReadTarget, ReadCurrent, End, TypeOK, Request
<1>11. NoTransfer'
  BY <1>0, <1>1, <1>10 DEF NoTransfer
<1>2. CASE End(r)
  BY <1>0, <1>1, <1>11, <1>2, Ends, OthersHarmless DEF Harmless, At
<1>3. CASE ReadRoom(r) /\ ~End(r)
  <2>1. req'[r] = [req[r] EXCEPT !.stage = AfterRoom(req[r].op),
                     !.owner = IF req[r].op \in TransferOps THEN ownerId ELSE req[r].owner,
                     !.privacy = IF req[r].op = "update" THEN privacy ELSE req[r].privacy]
    BY <1>0, <1>3 DEF ReadRoom, TypeOK
  <2>2. /\ req'[r].stage = AfterRoom(req[r].op) /\ req'[r].op = req[r].op
    BY <1>0, <2>1 DEF Request
  <2>3. Harmless(r)'
    BY <2>2 DEF Harmless, At, AfterRoom
  <2> QED
    BY <1>0, <1>1, <1>11, <2>3, OthersHarmless
<1>4. CASE Authorize(r) /\ ~End(r)
  <2>1. req'[r] = [req[r] EXCEPT !.stage = AfterAuth(req[r].op),
                     !.acting = IF req[r].op = "remove" THEN role[req[r].by] ELSE req[r].acting]
    BY <1>0, <1>4 DEF Authorize, TypeOK
  <2>2. /\ req'[r].stage = AfterAuth(req[r].op) /\ req'[r].op = req[r].op
        /\ req'[r].by = req[r].by
        /\ req[r].op = "remove" => req'[r].acting = role[req[r].by]
    BY <1>0, <2>1 DEF Request
  <2>3. req[r].op = "remove" => role[req[r].by] # "none"
    BY <1>4 DEF Authorize, Required, AtLeast
  <2>4. req[r].op = "remove" /\ req[r].by = ownerId => role[req[r].by] = "owner"
    BY <1>0, <2>3 DEF OneOwner, TypeOK, Request
  <2>5. Harmless(r)'
    BY <1>0, <2>2, <2>4 DEF Harmless, At, AfterAuth
  <2> QED
    BY <1>0, <1>1, <1>11, <2>5, OthersHarmless
<1>5. CASE ReadTarget(r) /\ ~End(r)
  <2> DEFINE read == IF req[r].op = "remove" /\ req[r].target = req[r].by
                         THEN req[r].acting ELSE role[req[r].target]
  <2>1. req'[r] = [req[r] EXCEPT !.stage = AfterTarget(req[r].op), !.loaded = read]
    BY <1>0, <1>5 DEF ReadTarget, TypeOK
  <2>2. /\ req'[r].stage = AfterTarget(req[r].op) /\ req'[r].op = req[r].op
        /\ req'[r].target = req[r].target /\ req'[r].to = req[r].to
    BY <1>0, <2>1 DEF Request
  <2>3. Accepts(req[r], read) /\ At(r, "target")
    BY <1>5 DEF ReadTarget
  <2>4. role[req[r].target] # "none" /\ req[r].target = ownerId => role[req[r].target] = "owner"
    BY <1>0 DEF OneOwner, TypeOK, Request
  <2>5. req[r].op = "remove" /\ req[r].target = req[r].by /\ req[r].target = ownerId
           => read = "owner"
    BY <1>0, <2>3 DEF PendingHarmless
  <2>6. req[r].op \in {"remove", "leave", "change"} => read \in {"member", "admin"}
    BY <2>3 DEF Accepts
  <2>7. req[r].op \in {"remove", "leave", "change"} => req[r].target # ownerId
    BY <2>4, <2>5, <2>6
  <2>8. req[r].op = "change" => req[r].to \in {"member", "admin"}
    BY <1>0, <2>3 DEF Accepts, Asks, RoomRole
  <2>9. Harmless(r)'
    BY <1>0, <2>2, <2>7, <2>8 DEF Harmless, At, AfterTarget
  <2> QED
    BY <1>0, <1>1, <1>11, <2>9, OthersHarmless
<1>6. CASE ReadCurrent(r) /\ ~End(r)
  <2> DEFINE read == IF req[r].target = Current(req[r])
                         THEN req[r].loaded ELSE role[Current(req[r])]
  <2>1. req'[r] = [req[r] EXCEPT !.stage = "commit", !.acting = read]
    BY <1>0, <1>6 DEF ReadCurrent, TypeOK
  <2>2. /\ req'[r].stage = "commit" /\ req'[r].op = req[r].op
    BY <1>0, <2>1 DEF Request
  <2>3. req[r].op \in TransferOps
    BY <1>0, <1>6 DEF PendingHarmless, ReadCurrent
  <2>4. Harmless(r)'
    BY <2>2, <2>3 DEF Harmless, At, TransferOps
  <2> QED
    BY <1>0, <1>1, <1>11, <2>4, OthersHarmless
<1> QED
  BY <1>2, <1>3, <1>4, <1>5, <1>6

\* A request that is over holds nothing against the owner.
LEMMA EndHarmless ==
  ASSUME TypeOK, PendingHarmless, NoTransfer, NEW r \in Requests, End(r), ownerId' = ownerId
  PROVE  PendingHarmless' /\ NoTransfer'
<1>1. \A x \in Requests : req'[x] = IF x = r THEN Idle ELSE req[x]
  BY Ends
<1>2. Harmless(r)'
  BY <1>1 DEF Harmless, At
<1>3. NoTransfer'
  BY <1>1 DEF NoTransfer
<1> QED
  BY <1>1, <1>2, <1>3, OthersHarmless

\* A transfer that begins is noted, alone or not.
LEMMA BeginHarmless ==
  ASSUME IInv, transfers = "none", NEW r \in Requests, Begin(r), transfers' = "none"
  PROVE  PendingHarmless' /\ NoTransfer'
<1>0. TypeOK /\ PendingHarmless /\ NoTransfer
  BY DEF IInv
<1>1. PICK op \in Ops, by \in Users, target \in Users,
           to \in RoomRole \cup Privacy \cup {"-"} :
        /\ req' = [req EXCEPT ![r] =
             [op |-> op, by |-> by, target |-> target, to |-> to, stage |-> First(op),
              acting |-> "none", loaded |-> "none", owner |-> by, privacy |-> "open"]]
        /\ transfers' = IF op \in TransferOps THEN "begun" ELSE transfers
  BY DEF Begin
<1>2. /\ \A x \in Requests : x # r => req'[x] = req[x]
      /\ req'[r].stage \in {"room", "auth"} /\ req'[r].op = op /\ req'[r] # Idle
  BY <1>0, <1>1 DEF TypeOK, First, Idle
<1>3. Harmless(r)'
  BY <1>2 DEF Harmless, At
<1>4. op \notin TransferOps
  BY <1>1, <1>2
<1>5. NoTransfer'
  BY <1>0, <1>2, <1>4 DEF NoTransfer
<1> QED
  BY <1>0, <1>2, <1>3, <1>5, OthersHarmless DEF Begin, row

\* Every step keeps the invariant until a transfer begins.
LEMMA OwnerStep ==
  ASSUME IInv, [Next]_vars
  PROVE  IInv'
<1>0. TypeOK /\ TypeOK'
  BY TypeStep DEF IInv
<1> SUFFICES ASSUME transfers' = "none"
             PROVE  (ownerId = Creator /\ OneOwner /\ PendingHarmless /\ NoTransfer)'
  BY <1>0 DEF IInv
<1> DEFINE Goal == ownerId = Creator /\ OneOwner /\ PendingHarmless /\ NoTransfer
<1>00. transfers = "none"
  <2>1. ASSUME NEW r \in Requests, Begin(r) PROVE transfers = "none"
    BY <2>1 DEF Begin
  <2>2. transfers' = transfers \/ \E r \in Requests : Begin(r)
    BY DEF Next, Create, ReadRoom, Authorize, ReadTarget, ReadCurrent, CommitJoin,
       CommitRemove, CommitChange, CommitTransfer, CommitUpdate, CommitDelete, vars
  <2> QED
    BY <2>1, <2>2
<1>01. Goal
  BY <1>00 DEF IInv
<1>1. CASE UNCHANGED vars
  BY <1>01, <1>1 DEF vars, OneOwner, PendingHarmless, At, NoTransfer
<1>2. CASE Create
  <2>1. OneOwner'
    BY <1>0, <1>01, <1>2 DEF Create, OneOwner, TypeOK
  <2>2. PendingHarmless' /\ NoTransfer'
    BY <1>01, <1>2 DEF Create, PendingHarmless, At, NoTransfer
  <2> QED
    BY <1>01, <1>2, <2>1, <2>2 DEF Create
<1>3. ASSUME NEW r \in Requests, Begin(r) PROVE Goal'
  <2>1. PendingHarmless' /\ NoTransfer'
    BY <1>00, <1>3, BeginHarmless
  <2> QED
    BY <1>00, <1>01, <1>3, <2>1 DEF Begin, row, OneOwner
<1>4. ASSUME NEW r \in Requests,
             ReadRoom(r) \/ Authorize(r) \/ ReadTarget(r) \/ ReadCurrent(r)
      PROVE  Goal'
  <2>1. UNCHANGED <<row, transfers, written>>
    BY <1>4 DEF ReadRoom, Authorize, ReadTarget, ReadCurrent
  <2> QED
    BY <1>00, <1>01, <1>4, <2>1, ReadHarmless DEF row, OneOwner
<1>5. ASSUME NEW r \in Requests, CommitJoin(r) PROVE Goal'
  <2>1. OneOwner'
    BY <1>0, <1>01, <1>5 DEF CommitJoin, OneOwner, TypeOK
  <2> QED
    BY <1>0, <1>01, <1>5, <2>1, EndHarmless DEF CommitJoin
<1>6. ASSUME NEW r \in Requests, CommitRemove(r) PROVE Goal'
  <2>1. req[r].target # ownerId
    BY <1>01, <1>6 DEF CommitRemove, Committing, PendingHarmless
  <2>2. OneOwner'
    BY <1>0, <1>01, <1>6, <2>1 DEF CommitRemove, OneOwner, TypeOK
  <2> QED
    BY <1>0, <1>01, <1>6, <2>2, EndHarmless DEF CommitRemove
<1>7. ASSUME NEW r \in Requests, CommitChange(r) PROVE Goal'
  <2>1. req[r].target # ownerId /\ req[r].to # "owner"
    BY <1>01, <1>7 DEF CommitChange, Committing, PendingHarmless
  <2>2. OneOwner'
    BY <1>0, <1>01, <1>7, <2>1 DEF CommitChange, OneOwner, TypeOK
  <2> QED
    BY <1>0, <1>01, <1>7, <2>2, EndHarmless DEF CommitChange
<1>8. ASSUME NEW r \in Requests, CommitTransfer(r) PROVE FALSE
  BY <1>01, <1>8 DEF CommitTransfer, Committing, At, NoTransfer
<1>9. ASSUME NEW r \in Requests, CommitUpdate(r) PROVE Goal'
  BY <1>0, <1>01, <1>9, EndHarmless DEF CommitUpdate, OneOwner
<1>10. ASSUME NEW r \in Requests, CommitDelete(r) PROVE Goal'
  BY <1>0, <1>01, <1>10, EndHarmless DEF CommitDelete, OneOwner
<1> QED
  BY <1>1, <1>2, <1>3, <1>4, <1>5, <1>6, <1>7, <1>8, <1>9, <1>10 DEF Next

\* It holds at first.
LEMMA InitOwner == Init => IInv
  BY InitTypes, RolesAssumption DEF Init, IInv, OneOwner, PendingHarmless, At, NoTransfer

\* Until a transfer of ownership begins, the room has exactly one owner, the
\* user its row names, in every interleaving of joins, additions, removals,
\* departures, role changes, updates and the room's deletion, for any number of
\* users and of requests at once.
THEOREM StableRoomHasOneOwner == Spec => []OneOwner
<1>1. IInv /\ [Next]_vars => IInv'
  BY OwnerStep
<1>2. IInv => OneOwner
  BY DEF IInv, OneOwner
<1> QED
  BY InitOwner, <1>1, <1>2, PTL DEF Spec

-----------------------------------------------------------------------------
(* The owner the row names                                                 *)

\* What a request has read when it comes to its commit: no request that is not a
\* transfer makes an owner, and one that takes a membership away or changes it
\* found a member or an admin.
Judged(r) ==
    /\ At(r, "current") => req[r].op \in TransferOps
    /\ At(r, "commit") /\ req[r].op = "change" => req[r].to \in {"member", "admin"}
    /\ At(r, "commit") /\ req[r].op \in {"remove", "leave", "change"}
           => req[r].loaded \in {"member", "admin"}

\* Before the room is created, its creator is to own it and nobody asks for it.
UnbornIsCreators ==
    phase = "unborn" => ownerId = Creator /\ \A r \in Requests : req[r] = Idle

RecordInv ==
    TypeOK /\ (\A r \in Requests : Judged(r)) /\ UnbornIsCreators /\ OwnerIsRecorded

\* A step of request r leaves the others alone.
LEMMA OneRequest ==
  ASSUME TypeOK, NEW r \in Requests,
         \/ ReadRoom(r) \/ Authorize(r) \/ ReadTarget(r) \/ ReadCurrent(r)
         \/ CommitJoin(r) \/ CommitRemove(r) \/ CommitChange(r)
         \/ CommitTransfer(r) \/ CommitUpdate(r) \/ CommitDelete(r)
  PROVE  /\ req[r] \in Request /\ req[r] # Idle
         /\ Asks(req[r].op, req[r].by, req[r].target, req[r].to)
         /\ \A x \in Requests : x # r => req'[x] = req[x]
<1>1. req[r] \in Request /\ req[r] # Idle
  BY DEF ReadRoom, Authorize, ReadTarget, ReadCurrent, CommitJoin, CommitRemove, CommitChange,
         CommitTransfer, CommitUpdate, CommitDelete, Committing, At, TypeOK
<1>2. \A x \in Requests : x # r => req'[x] = req[x]
  BY DEF ReadRoom, Authorize, ReadTarget, ReadCurrent, CommitJoin, CommitRemove, CommitChange,
         CommitTransfer, CommitUpdate, CommitDelete, End, TypeOK
<1>3. Asks(req[r].op, req[r].by, req[r].target, req[r].to)
  BY <1>1 DEF TypeOK
<1> QED
  BY <1>1, <1>2, <1>3

\* What a request reads is judged before it comes to its commit.
LEMMA ReadsJudged ==
  ASSUME TypeOK, \A x \in Requests : Judged(x), NEW r \in Requests,
         ReadRoom(r) \/ Authorize(r) \/ ReadTarget(r) \/ ReadCurrent(r)
  PROVE  \A x \in Requests : Judged(x)'
<1>0. /\ req[r] \in Request /\ req[r] # Idle /\ \A x \in Requests : x # r => req'[x] = req[x]
      /\ Asks(req[r].op, req[r].by, req[r].target, req[r].to)
  BY OneRequest
<1> SUFFICES Judged(r)'
  BY <1>0 DEF Judged, At
<1>1. CASE End(r)
  BY <1>1, Ends DEF Judged, At
<1>2. CASE ReadRoom(r) /\ ~End(r)
  <2>1. req'[r].stage = AfterRoom(req[r].op)
    BY <1>0, <1>2 DEF ReadRoom, TypeOK, Request
  <2> QED
    BY <2>1 DEF Judged, At, AfterRoom
<1>3. CASE Authorize(r) /\ ~End(r)
  <2>1. req'[r].stage = AfterAuth(req[r].op) /\ req'[r].op = req[r].op
    BY <1>0, <1>3 DEF Authorize, TypeOK, Request
  <2> QED
    BY <2>1 DEF Judged, At, AfterAuth
<1>4. CASE ReadTarget(r) /\ ~End(r)
  <2> DEFINE read == IF req[r].op = "remove" /\ req[r].target = req[r].by
                         THEN req[r].acting ELSE role[req[r].target]
  <2>1. /\ req'[r].stage = AfterTarget(req[r].op) /\ req'[r].op = req[r].op
        /\ req'[r].to = req[r].to /\ req'[r].loaded = read
    BY <1>0, <1>4 DEF ReadTarget, TypeOK, Request
  <2>2. Accepts(req[r], read)
    BY <1>4 DEF ReadTarget
  <2>3. req[r].op = "change" => req[r].to \in {"member", "admin"}
    BY <1>0, <2>2 DEF Accepts, Asks, RoomRole
  <2>4. req[r].op \in {"remove", "leave", "change"} => read \in {"member", "admin"}
    BY <2>2 DEF Accepts
  <2> HIDE DEF read
  <2> QED
    BY <2>1, <2>3, <2>4 DEF Judged, At, AfterTarget
<1>5. CASE ReadCurrent(r) /\ ~End(r)
  <2>1. req'[r].stage = "commit" /\ req'[r].op = req[r].op
    BY <1>0, <1>5 DEF ReadCurrent, TypeOK, Request
  <2>2. req[r].op \in TransferOps
    BY <1>5 DEF ReadCurrent, Judged
  <2> QED
    BY <2>1, <2>2 DEF Judged, At, TransferOps
<1> QED
  BY <1>1, <1>2, <1>3, <1>4, <1>5

\* A request that begins has read nothing.
LEMMA BeginJudged ==
  ASSUME TypeOK, \A x \in Requests : Judged(x), NEW r \in Requests, Begin(r)
  PROVE  \A x \in Requests : Judged(x)'
<1>1. PICK op \in Ops, by \in Users, target \in Users,
           to \in RoomRole \cup Privacy \cup {"-"} :
        req' = [req EXCEPT ![r] =
          [op |-> op, by |-> by, target |-> target, to |-> to, stage |-> First(op),
           acting |-> "none", loaded |-> "none", owner |-> by, privacy |-> "open"]]
  BY DEF Begin
<1>2. /\ \A x \in Requests : x # r => req'[x] = req[x]
      /\ req'[r].stage \in {"room", "auth"}
  BY <1>1 DEF TypeOK, First
<1> QED
  BY <1>2 DEF Judged, At

\* A commit ends its request.
LEMMA CommitJudged ==
  ASSUME TypeOK, \A x \in Requests : Judged(x), NEW r \in Requests,
         \/ CommitJoin(r) \/ CommitRemove(r) \/ CommitChange(r)
         \/ CommitTransfer(r) \/ CommitUpdate(r) \/ CommitDelete(r)
  PROVE  \A x \in Requests : Judged(x)'
<1>1. /\ \A x \in Requests : x # r => req'[x] = req[x]
      /\ req'[r] = Idle
  BY OneRequest, Ends DEF CommitJoin, CommitRemove, CommitChange, CommitTransfer, CommitUpdate,
     CommitDelete
<1> QED
  BY <1>1 DEF Judged, At

\* Taking a membership away or changing it is about someone who is not the
\* owner, if it is still what was read.
LEMMA ChangeRecords ==
  ASSUME TypeOK, OwnerIsRecorded, NEW r \in Requests, Judged(r),
         CommitRemove(r) \/ CommitChange(r)
  PROVE  OwnerIsRecorded'
<1>0. /\ req[r] \in Request /\ req[r].loaded \in {"member", "admin"}
      /\ req[r].op = "change" => req[r].to \in {"member", "admin"}
      /\ UNCHANGED <<phase, ownerId, abdicated>> /\ NoteRace(req[r])
  BY OneRequest DEF CommitRemove, CommitChange, Committing, Judged
<1>1. /\ \A u \in Users : u # req[r].target => role'[u] = role[u]
      /\ role'[req[r].target] \in {role[req[r].target], "none", "member", "admin"}
  <2>1. CASE CommitRemove(r)
    BY <1>0, <2>1 DEF CommitRemove, TypeOK, Request
  <2>2. CASE CommitChange(r)
    <3>1. req[r].to \in {"member", "admin"}
      BY <1>0, <2>2 DEF CommitChange, Committing
    <3> QED
      BY <1>0, <2>2, <3>1 DEF CommitChange, TypeOK, Request
  <2> QED
    BY <2>1, <2>2
<1>2. CASE role' = role
  BY <1>0, <1>2 DEF OwnerIsRecorded, NoteRace
<1>3. CASE raced'
  BY <1>3 DEF OwnerIsRecorded
<1>4. CASE role' # role /\ ~raced'
  <2>1. ~raced /\ ~Outdated(req[r])
    BY <1>0, <1>4 DEF NoteRace, Rewritten
  <2>2. role[req[r].target] # "owner"
    BY <1>0, <2>1 DEF Outdated
  <2> QED
    BY <1>0, <1>1, <2>1, <2>2 DEF OwnerIsRecorded, TypeOK
<1> QED
  BY <1>2, <1>3, <1>4

\* A transfer that finds what it read takes the role from the owner the row
\* names, and gives it to the one it makes the row name, if he is another.
LEMMA TransferRecords ==
  ASSUME TypeOK, OwnerIsRecorded, NEW r \in Requests, CommitTransfer(r)
  PROVE  OwnerIsRecorded'
<1>0. /\ req[r] \in Request /\ req[r].op \in TransferOps /\ phase' = phase /\ NoteRace(req[r])
  BY OneRequest DEF CommitTransfer, Committing
<1> DEFINE q == req[r]
           changed == {u \in {q.target, Current(q)} : Given(q, u) # Held(q, u)}
<1>1. CASE UNCHANGED <<role, ownerId>>
  <2>1. abdicated' = abdicated
    BY <1>1 DEF CommitTransfer, Rewritten
  <2> QED
    BY <1>0, <1>1, <2>1 DEF OwnerIsRecorded, NoteRace
<1>2. CASE raced'
  BY <1>2 DEF OwnerIsRecorded
<1>3. CASE ~raced' /\ Rewritten
  <2>1. ~raced /\ ~Outdated(q)
    BY <1>0, <1>3 DEF NoteRace
  <2>2. /\ phase = "present"
        /\ role' = [u \in Users |-> IF u \in changed THEN Given(q, u) ELSE role[u]]
        /\ ownerId' = IF q.target # q.owner THEN q.target ELSE ownerId
        /\ abdicated' = (q.target = Current(q))
    BY <1>3 DEF CommitTransfer, Rewritten
  <2>3. /\ role[q.target] = q.loaded /\ role[Current(q)] = q.acting /\ ownerId = q.owner
        /\ q.op = "transfer" => role[q.by] = "owner"
    BY <1>0, <2>1 DEF Outdated
  <2>4. q.target \in Users /\ q.by \in Users /\ q.owner \in Users /\ Current(q) \in Users
    BY <1>0 DEF Request, Current
  <2>5. \A u \in Users : role[u] = "owner" => u = ownerId
    BY <2>1, <2>2 DEF OwnerIsRecorded
  <2>6. Current(q) = ownerId
    BY <1>0, <2>3, <2>4, <2>5 DEF Current, TransferOps
  <2>7. ownerId' = q.target
    BY <2>2, <2>3
  <2>8. \A u \in Users : u \notin {q.target, Current(q)} => role'[u] = role[u]
    BY <2>2
  <2>9. role'[Current(q)] = "admin"
    BY <2>2, <2>3, <2>4 DEF Given, Held
  <2>10. q.target # Current(q) => role'[q.target] = "owner"
    BY <2>2, <2>3, <2>4 DEF Given, Held
  <2> HIDE DEF q, changed
  <2>11. \A u \in Users : role'[u] = "owner" => u = q.target
    BY <2>5, <2>6, <2>8, <2>9
  <2>12. role'[q.target] = "owner" \/ abdicated'
    BY <2>2, <2>10
  <2> QED
    BY <2>7, <2>11, <2>12 DEF OwnerIsRecorded
<1> QED
  BY <1>1, <1>2, <1>3 DEF Rewritten

\* The other commits make nobody an owner and take the role from nobody, but
\* with the room.
LEMMA OthersRecord ==
  ASSUME TypeOK, OwnerIsRecorded, NEW r \in Requests,
         CommitJoin(r) \/ CommitUpdate(r) \/ CommitDelete(r)
  PROVE  OwnerIsRecorded'
<1>1. CASE CommitJoin(r)
  <2>1. \A u \in Users : role'[u] = role[u] \/ (role[u] = "none" /\ role'[u] = "member")
    BY <1>1 DEF CommitJoin, TypeOK
  <2> QED
    BY <1>1, <2>1 DEF CommitJoin, written, OwnerIsRecorded, TypeOK
<1>2. CASE CommitUpdate(r)
  BY <1>2 DEF CommitUpdate, written, OwnerIsRecorded
<1>3. CASE CommitDelete(r)
  BY <1>3 DEF CommitDelete, OwnerIsRecorded
<1> QED
  BY <1>1, <1>2, <1>3

\* Every step keeps the row and the memberships together.
LEMMA RecordStep ==
  ASSUME RecordInv, [Next]_vars
  PROVE  RecordInv'
<1>0. /\ TypeOK /\ TypeOK' /\ (\A x \in Requests : Judged(x)) /\ UnbornIsCreators
      /\ OwnerIsRecorded
  BY TypeStep DEF RecordInv
<1>1. CASE UNCHANGED vars
  <2>1. (\A x \in Requests : Judged(x)') /\ UnbornIsCreators' /\ OwnerIsRecorded'
    BY <1>0, <1>1 DEF vars, written, Judged, At, UnbornIsCreators, OwnerIsRecorded
  <2> QED
    BY <1>0, <2>1 DEF RecordInv
<1>2. CASE Create
  <2>1. (\A x \in Requests : Judged(x)') /\ UnbornIsCreators'
    BY <1>0, <1>2 DEF Create, Judged, At, UnbornIsCreators
  <2>2. OwnerIsRecorded'
    BY <1>0, <1>2, RolesAssumption DEF Create, OwnerIsRecorded, UnbornIsCreators, TypeOK
  <2> QED
    BY <1>0, <2>1, <2>2 DEF RecordInv
<1>3. ASSUME NEW r \in Requests, Begin(r) PROVE RecordInv'
  <2>1. \A x \in Requests : Judged(x)'
    BY <1>0, <1>3, BeginJudged
  <2>2. UnbornIsCreators' /\ OwnerIsRecorded'
    BY <1>0, <1>3 DEF Begin, row, written, UnbornIsCreators, OwnerIsRecorded
  <2> QED
    BY <1>0, <2>1, <2>2 DEF RecordInv
<1>4. ASSUME NEW r \in Requests,
             ReadRoom(r) \/ Authorize(r) \/ ReadTarget(r) \/ ReadCurrent(r)
      PROVE  RecordInv'
  <2>1. UNCHANGED <<row, transfers, written>>
    BY <1>4 DEF ReadRoom, Authorize, ReadTarget, ReadCurrent
  <2>2. \A x \in Requests : Judged(x)'
    BY <1>0, <1>4, ReadsJudged
  <2>3. phase # "unborn"
    BY <1>0, <1>4, OneRequest DEF UnbornIsCreators
  <2>4. UnbornIsCreators' /\ OwnerIsRecorded'
    BY <1>0, <2>1, <2>3 DEF row, written, UnbornIsCreators, OwnerIsRecorded
  <2> QED
    BY <1>0, <2>2, <2>4 DEF RecordInv
<1>5. ASSUME NEW r \in Requests,
             \/ CommitJoin(r) \/ CommitRemove(r) \/ CommitChange(r)
             \/ CommitTransfer(r) \/ CommitUpdate(r) \/ CommitDelete(r)
      PROVE  RecordInv'
  <2>1. req[r] # Idle
    BY <1>0, <1>5, OneRequest
  <2>2. \A x \in Requests : Judged(x)'
    BY <1>0, <1>5, CommitJudged
  <2>3. phase' # "unborn"
    BY <1>0, <1>5, <2>1 DEF CommitJoin, CommitRemove, CommitChange, CommitTransfer, CommitUpdate,
       CommitDelete, UnbornIsCreators
  <2>4. OwnerIsRecorded'
    BY <1>0, <1>5, ChangeRecords, TransferRecords, OthersRecord
  <2> QED
    BY <1>0, <2>2, <2>3, <2>4 DEF RecordInv, UnbornIsCreators
<1> QED
  BY <1>1, <1>2, <1>3, <1>4, <1>5 DEF Next

\* The rooms row and the memberships name the same owner, for any users,
\* operations and number of requests at once, as long as no commit writes over
\* what has changed since its request read it: a transfer that finds what it
\* read demotes the owner the row names and writes the one it promotes into it,
\* who is missing only if he is the same (transfer_ownership,
\* transfer_ownership_admin).
THEOREM OwnerRecorded == Spec => []OwnerIsRecorded
<1>1. Init => RecordInv
  BY InitTypes DEF Init, RecordInv, Judged, At, UnbornIsCreators, OwnerIsRecorded
<1>2. RecordInv /\ [Next]_vars => RecordInv'
  BY RecordStep
<1>3. RecordInv => OwnerIsRecorded
  BY DEF RecordInv
<1> QED
  BY <1>1, <1>2, <1>3, PTL DEF Spec

(***************************************************************************)
(* The administration page.                                                *)
(***************************************************************************)

\* What is told right: whoever of the calls under way is about x is one, unless
\* x was crossed; a list that fails crosses what it is about.
OneAbout ==
  \A c, d \in calls : \A x \in (About(c) \cap About(d)) \ crossed : c = d
ListsCome ==
  \A c \in calls : c.kind \in Lists /\ c.stage = "failed" => About(c) \subseteq crossed

\* What the page acts on it has listed.
OnRows ==
  /\ picking # None => rows[picking] # None
  /\ \A c \in calls : c.kind \in {"archive", "transfer"} => rows[c.on] # None

\* A room shows as it is, or the answer that makes it so is there.
RoomsFollow ==
  \A r \in (own \ crossed) \cap Rooms :
    /\ \/ rows[r] = room[r]
       \/ \E c \in calls : c.kind \in {"archive", "transfer"} /\ c.on = r /\ c.stage = "ok"
    /\ \A c \in calls :
         /\ c.kind \in {"archive", "transfer"} /\ c.on = r /\ c.stage = "ok" => c.got = room[r]
         /\ c.kind = "rooms" /\ c.stage = "ok" => c.got[r] = room[r]

\* The bots are listed, or there is a call that lists them.
BotsFollow ==
  "bots" \in own \ crossed =>
    /\ \/ listed = named
       \/ \E c \in calls : c.kind = "create" /\ c.stage = "ok"
       \/ \E c \in calls : c.kind = "bots"
    /\ \A c \in calls : c.kind = "bots" /\ c.stage = "ok" => c.got = named

\* The tokens of a bot are shown, or there is a call that lists them.
TokensFollow ==
  \A b \in (own \ crossed) \cap Bots :
    /\ \/ tokensOf[b] = Of(b)
       \/ \E c \in calls : c.kind \in {"issue", "revoke"} /\ b \in About(c) /\ c.stage = "ok"
       \/ \E c \in calls : c.kind = "tokens" /\ c.on = b
    /\ \A c \in calls : c.kind = "tokens" /\ c.on = b /\ c.stage = "ok" => c.got = Of(b)

\* A token stays its bot's until it is revoked.
TokensHome ==
  /\ \A b \in Bots : tokensOf[b] # None => \A t \in tokensOf[b] : bot[t] \in {b, Revoked}
  /\ \A c \in calls : c.kind = "tokens" /\ c.stage = "ok" => \A t \in c.got : bot[t] \in {c.on, Revoked}
  /\ \A c \in calls : c.kind = "revoke" => bot[c.on] \in {c.arg, Revoked}

\* Every commit has its number, one after the other.
Numbered ==
  /\ \A i \in 1 .. Len(log) : log[i] \in 1 .. Len(log)
  /\ \A i, j \in 1 .. Len(log) : log[i] = log[j] => i = j

\* Of the first n entries of a log l, those that s leaves out are none between
\* two of its own, or below one of them if there are no more, as long as its
\* first is among the first Page + 1; and s reaches down its own length.
In(s, x) == \E i \in 1 .. Len(s) : s[i] = x
Gapless(s, more, n, l) ==
  \A k \in 1 .. Len(l) :
    /\ l[k] <= n
    /\ \E i \in 1 .. k : In(s, l[i])
    /\ more => \E j \in k .. Len(l) : In(s, l[j])
    => In(s, l[k])
Reaches(s, more, n, l) ==
  /\ n <= Len(l)
  /\ \A i \in 1 .. Len(s) : s[i] <= Len(l)
  /\ s # <<>> => \E k \in Len(s) .. Len(l) : l[k] = s[Len(s)]
  /\ (\E h \in 1 .. Len(l) : h <= Page + 1 /\ s # <<>> /\ l[h] = s[1]) => Gapless(s, more, n, l)

\* What is shown once the load c has come, and of how many entries it tells.
Then(c) == IF c.kind = "audit" THEN c.got ELSE audit \o c.got
Since(c) == IF c.kind = "audit" \/ audit = <<>> THEN c.since ELSE from
AuditFollows ==
  ~tangled =>
    /\ Reaches(audit, hasMore, from, log)
    /\ hasMore /\ audit # <<>> => Len(audit) >= Page
    /\ \A c, d \in calls : {c.kind, d.kind} \subseteq AuditLoads => c = d
    /\ \A c \in calls : c.kind = "more" => hasMore /\ c.arg = Len(audit)
    /\ \A c \in calls : c.kind = "audit" => c.arg = 0
    /\ \A c \in calls : c.kind \in AuditLoads => c.since <= Len(log)
    /\ \A c \in calls : c.kind \in AuditLoads /\ c.stage = "ok" =>
         Reaches(Then(c), Len(c.got) = Page, Since(c), log)

\* The settings.
OnePost ==
  \A p, q \in posts : p.form = q.form /\ p.form \notin muddled => p = q
FirstRow(f) == IF stored[f] = <<>> THEN None ELSE stored[f][1]
PostsFollow ==
  \A p \in posts : p.form \notin muddled =>
    /\ p.stage = "failed" => p.kind = "test"
    /\ p.stage = "read" => IF stored[p.form] = <<>> THEN p.row = 0 ELSE p.row = 1 /\ p.seen = FirstRow(p.form)
    /\ p.stage = "ok" => p.got = FirstRow(p.form)
    /\ p.kind = "save" /\ p.stage \in {"sent", "read"} /\ p.form \notin edited =>
         field[p.form] = p.value
FormsFollow ==
  \A f \in Forms \ muddled :
    /\ Len(stored[f]) <= 1
    /\ f \in kept =>
         /\ stored[f] # <<>>
         /\ current[f] = FirstRow(f) \/ \E p \in posts : p.form = f /\ p.kind = "save" /\ p.stage = "ok"
         /\ f \notin edited =>
              \/ field[f] = FirstRow(f)
              \/ \E p \in posts : p.form = f /\ p.kind = "save" /\ p.stage \in {"sent", "read"}

AdminInv ==
  /\ AdminTypeOK
  /\ OneAbout /\ ListsCome /\ OnRows /\ RoomsFollow /\ BotsFollow /\ TokensFollow /\ TokensHome
  /\ Numbered /\ AuditFollows
  /\ OnePost /\ PostsFollow /\ FormsFollow


(***************************************************************************)
(* The settings: types                                                     *)
(***************************************************************************)

\* The fields of a new call of the settings tab.
LEMMA PostIs ==
  ASSUME SettingsTypeOK, NEW k \in {"load", "save", "test"}, NEW f \in Forms
  PROVE  /\ SettingsPost(Post(k, f)) /\ Post(k, f).kind = k /\ Post(k, f).form = f
         /\ Post(k, f).stage = "sent" /\ Post(k, f).value = field[f]
<1>1. PICK i : i = CHOOSE n \in 0 .. Cardinality(posts) : \A p \in posts : p.id # n OBVIOUS
<1>2. Post(k, f) = [id |-> i, kind |-> k, form |-> f, value |-> field[f],
                    row |-> 0, seen |-> None, got |-> None, stage |-> "sent"]
  BY <1>1 DEF Post
<1>3. field[f] \in Values BY DEF SettingsTypeOK
<1> QED BY <1>2, <1>3 DEF SettingsPost

\* Rows are added and changed, never taken away: a call's row stays there.
LEMMA PostStays ==
  ASSUME NEW p, SettingsPost(p), \A f \in Forms : DOMAIN stored[f] \subseteq DOMAIN stored'[f]
  PROVE  SettingsPost(p)'
BY DEF SettingsPost

\* A row is changed.
LEMMA ChangedRow ==
  ASSUME NEW S, NEW s \in Seq(S), NEW n \in DOMAIN s, NEW v \in S
  PROVE  /\ [s EXCEPT ![n] = v] \in Seq(S) /\ Len([s EXCEPT ![n] = v]) = Len(s)
         /\ [s EXCEPT ![n] = v][n] = v
BY ExceptSeq

\* What a call leaves of its form's rows.
LEMMA WrittenIs ==
  ASSUME SettingsTypeOK, NEW p \in posts, p.stage = "read"
  PROVE  /\ Written(p) \in [Forms -> Seq(Values)]
         /\ \A f \in Forms \ {p.form} : Written(p)[f] = stored[f]
         /\ \/ Written(p)[p.form] = stored[p.form] /\ p.kind # "save"
            \/ Written(p)[p.form] = stored[p.form] /\ p.row # 0 /\ p.value = p.seen
            \/ /\ p.row = 0
               /\ \E v \in Values : /\ Written(p)[p.form] = Append(stored[p.form], v)
                                    /\ p.kind = "save" => v = p.value
            \/ /\ p.row # 0 /\ p.kind = "save"
               /\ Written(p)[p.form] = [stored[p.form] EXCEPT ![p.row] = p.value]
<1> DEFINE f == p.form
<1>1. /\ SettingsPost(p) /\ f \in Forms /\ p.value \in Values
      /\ stored \in [Forms -> Seq(Values)] /\ stored[f] \in Seq(Values)
      /\ p.row # 0 => p.row \in DOMAIN stored[f]
  BY DEF SettingsTypeOK, SettingsPost
<1>2. CASE p.row = 0 /\ p.kind = "save"
  <2>1. Written(p) = [stored EXCEPT ![f] = Append(@, p.value)] BY <1>2 DEF Written
  <2>2. Append(stored[f], p.value) \in Seq(Values) BY <1>1
  <2> QED BY <1>1, <1>2, <2>1, <2>2
<1>3. CASE p.row = 0 /\ p.kind = "load" /\ f = "upload"
  <2>1. Written(p) = [stored EXCEPT ![f] = Append(@, Factory[f])] BY <1>3 DEF Written
  <2>2. Factory[f] \in Values BY <1>3 DEF Factory, Values
  <2>3. Append(stored[f], Factory[f]) \in Seq(Values) BY <1>1, <2>2
  <2> QED BY <1>1, <1>3, <2>1, <2>2, <2>3
<1>4. CASE p.row # 0 /\ p.kind = "save" /\ p.value # p.seen
  <2>1. Written(p) = [stored EXCEPT ![f][p.row] = p.value] BY <1>4 DEF Written
  <2>2. [stored[f] EXCEPT ![p.row] = p.value] \in Seq(Values) BY <1>1, <1>4, ChangedRow
  <2> QED BY <1>1, <1>4, <2>1, <2>2
<1>5. CASE /\ ~(p.row = 0 /\ p.kind = "save")
           /\ ~(p.row = 0 /\ p.kind = "load" /\ f = "upload")
           /\ ~(p.row # 0 /\ p.kind = "save" /\ p.value # p.seen)
  <2>1. Written(p) = stored BY <1>5 DEF Written
  <2> QED BY <1>1, <1>5, <2>1
<1> QED BY <1>2, <1>3, <1>4, <1>5

\* What the settings do when the page moves.
SettingsMove ==
  \/ SettingsStep
  \/ LoadAll /\ UNCHANGED <<stored, forms, kept, edited>>
  \/ UNCHANGED settings

\* The settings start well typed.
LEMMA SettingsTypeInit == SettingsInit => SettingsTypeOK
<1>1. <<>> \in Seq(Values) OBVIOUS
<1>2. Factory \in [Forms -> Values] BY DEF Factory, Forms, Values
<1> QED BY <1>1, <1>2 DEF SettingsInit, SettingsTypeOK

\* A call finds its row.
LEMMA ReadType ==
  ASSUME SettingsTypeOK, NEW p, ReadRow(p)
  PROVE  SettingsTypeOK'
<1>1. p \in posts /\ p.stage = "sent" /\ SettingsPost(p) /\ p.form \in Forms
  BY DEF ReadRow, SettingsTypeOK, SettingsPost
<1>2. PICK n \in IF stored[p.form] = <<>> THEN {0} ELSE DOMAIN stored[p.form] :
        posts' = (posts \ {p}) \cup
          {[p EXCEPT !.stage = "read", !.row = n,
                     !.seen = IF n = 0 THEN None ELSE stored[p.form][n]]}
  BY DEF ReadRow
<1>3. stored[p.form] \in Seq(Values) BY <1>1 DEF SettingsTypeOK
<1>4. n \in Nat /\ (n # 0 => n \in DOMAIN stored[p.form] /\ stored[p.form][n] \in Values)
  BY <1>2, <1>3
<1>5. PICK v : v = IF n = 0 THEN None ELSE stored[p.form][n] OBVIOUS
<1>6. PICK q : q = [p EXCEPT !.stage = "read", !.row = n, !.seen = v] OBVIOUS
<1>7. SettingsPost(q)
  <2>1. /\ q = [id |-> q.id, kind |-> q.kind, form |-> q.form, value |-> q.value,
                row |-> q.row, seen |-> q.seen, got |-> q.got, stage |-> q.stage]
        /\ q.kind = p.kind /\ q.form = p.form /\ q.value = p.value
        /\ q.stage = "read" /\ q.row = n /\ q.seen = v /\ q.got = p.got
    BY <1>1, <1>6 DEF SettingsPost
  <2> QED BY <1>1, <1>4, <1>5, <2>1 DEF SettingsPost
<1>8. UNCHANGED <<stored, forms, traces>> /\ posts' = (posts \ {p}) \cup {q}
  BY <1>2, <1>5, <1>6 DEF ReadRow
<1>9. \A x \in posts' : SettingsPost(x) BY <1>7, <1>8 DEF SettingsTypeOK
<1>10. \A x \in posts' : SettingsPost(x)' BY <1>8, <1>9 DEF SettingsPost
<1> QED BY <1>8, <1>10 DEF SettingsTypeOK, forms, traces

\* A call writes and is answered.
LEMMA WriteType ==
  ASSUME SettingsTypeOK, NEW p, WriteRow(p)
  PROVE  SettingsTypeOK'
<1> DEFINE f == p.form
<1>1. p \in posts /\ p.stage = "read" /\ SettingsPost(p) /\ f \in Forms /\ p.value \in Values
  BY DEF WriteRow, SettingsTypeOK, SettingsPost
<1>2. /\ stored' \in [Forms -> Seq(Values)]
      /\ \A g \in Forms \ {f} : stored'[g] = stored[g]
      /\ \/ stored'[f] = stored[f] /\ p.kind # "save"
         \/ stored'[f] = stored[f] /\ p.row # 0 /\ p.value = p.seen
         \/ p.row = 0 /\ \E v \in Values : stored'[f] = Append(stored[f], v)
         \/ p.row # 0 /\ p.kind = "save" /\ stored'[f] = [stored[f] EXCEPT ![p.row] = p.value]
  BY <1>1, WrittenIs DEF WriteRow
<1>3. /\ stored \in [Forms -> Seq(Values)] /\ stored[f] \in Seq(Values) /\ stored'[f] \in Seq(Values)
      /\ p.row \in Nat /\ (p.row # 0 => p.row \in DOMAIN stored[f])
  BY <1>1, <1>2 DEF SettingsTypeOK, SettingsPost
<1>4. \A g \in Forms : DOMAIN stored[g] \subseteq DOMAIN stored'[g]
  <2>1. DOMAIN stored[f] \subseteq DOMAIN stored'[f]
    <3>1. \A v : DOMAIN stored[f] \subseteq DOMAIN Append(stored[f], v) BY <1>3
    <3>2. DOMAIN [stored[f] EXCEPT ![p.row] = p.value] = DOMAIN stored[f] OBVIOUS
    <3> QED BY <1>2, <3>1, <3>2
  <2> QED BY <1>2, <2>1
<1>5. PICK g : g = IF p.row # 0 THEN stored'[f][p.row]
                   ELSE IF stored'[f] = stored[f] THEN None ELSE stored'[f][Len(stored'[f])]
  OBVIOUS
<1>6. g \in Values \cup {None} /\ (p.kind = "save" => g # None)
  <2>1. CASE p.row # 0
    <3>1. g = stored'[f][p.row] /\ p.row \in DOMAIN stored'[f] BY <1>1, <1>3, <1>4, <1>5, <2>1
    <3>2. g \in Values BY <1>3, <3>1
    <3> QED BY <3>2, AdminSettingsAssumption DEF Values
  <2>2. CASE p.row = 0
    <3>1. CASE stored'[f] = stored[f] BY <1>2, <1>5, <2>2, <3>1
    <3>2. ASSUME NEW v \in Values, stored'[f] = Append(stored[f], v) PROVE g = v
      <4>1. stored'[f] # stored[f] /\ stored'[f][Len(stored'[f])] = v BY <1>3, <3>2
      <4> QED BY <1>5, <2>2, <4>1
    <3>3. \A v \in Values : v # None BY AdminSettingsAssumption DEF Values
    <3> QED BY <1>2, <1>3, <2>2, <3>1, <3>2, <3>3
  <2> QED BY <2>1, <2>2
<1>7. PICK s \in {"ok", "failed"} : s = IF p.kind = "test" /\ p.row = 0 THEN "failed" ELSE "ok" OBVIOUS
<1>8. PICK q : q = [p EXCEPT !.stage = s, !.got = g] OBVIOUS
<1>9. /\ posts' = (posts \ {p}) \cup {q} /\ UNCHANGED <<forms, muddled, edited>>
      /\ kept' \subseteq kept \cup {f}
  BY <1>5, <1>7, <1>8 DEF WriteRow
<1>10. SettingsPost(q)'
  <2>1. /\ q = [id |-> q.id, kind |-> q.kind, form |-> q.form, value |-> q.value,
                row |-> q.row, seen |-> q.seen, got |-> q.got, stage |-> q.stage]
        /\ q.kind = p.kind /\ q.form = p.form /\ q.value = p.value
        /\ q.stage = s /\ q.row = p.row /\ q.seen = p.seen /\ q.got = g
    BY <1>1, <1>8 DEF SettingsPost
  <2>2. SettingsPost(q) BY <1>1, <1>6, <1>7, <2>1 DEF SettingsPost
  <2> QED BY <1>4, <2>2, PostStays
<1>11. \A x \in posts' : SettingsPost(x)'
  <2>1. \A x \in posts : SettingsPost(x)' BY <1>4, PostStays DEF SettingsTypeOK
  <2> QED BY <1>9, <1>10, <2>1
<1> QED BY <1>1, <1>2, <1>9, <1>11 DEF SettingsTypeOK, forms

\* Every other step.
LEMMA SettingsTypeStep == SettingsTypeOK /\ SettingsMove => SettingsTypeOK'
<1> SUFFICES ASSUME SettingsTypeOK, SettingsMove PROVE SettingsTypeOK'
  OBVIOUS
<1> USE DEF forms, traces
<1>1. ASSUME UNCHANGED stored, \A p \in posts' : SettingsPost(p) PROVE \A p \in posts' : SettingsPost(p)'
  BY <1>1 DEF SettingsPost
<1>2. CASE UNCHANGED settings BY <1>2 DEF settings, SettingsTypeOK, SettingsPost
<1>3. ASSUME NEW S, PostAll(S), \A p \in S : SettingsPost(p), UNCHANGED stored
      PROVE  (\A p \in posts' : SettingsPost(p)') /\ muddled' \subseteq Forms
  <2>1. \A p \in posts' : SettingsPost(p) BY <1>3 DEF PostAll, SettingsTypeOK
  <2>2. \A p \in S : p.form \in Forms BY <1>3 DEF SettingsPost
  <2> QED BY <1>1, <1>3, <2>1, <2>2 DEF PostAll, SettingsTypeOK
<1>4. CASE LoadAll /\ UNCHANGED <<stored, forms, kept, edited>>
  <2>1. \A p \in {Post("load", f) : f \in Forms} : SettingsPost(p) BY PostIs
  <2>2. (\A p \in posts' : SettingsPost(p)') /\ muddled' \subseteq Forms BY <1>3, <1>4, <2>1 DEF LoadAll
  <2> QED BY <1>4, <2>2 DEF SettingsTypeOK
<1>5. ASSUME NEW f \in Forms, Type(f) PROVE SettingsTypeOK'
  <2>1. \A p \in posts' : SettingsPost(p)' BY <1>1, <1>5 DEF Type, SettingsTypeOK
  <2> QED BY <1>5, <2>1 DEF Type, SettingsTypeOK, Values
<1>6. ASSUME NEW f \in Forms, Save(f) PROVE SettingsTypeOK'
  <2>1. \A p \in {Post("save", f)} : SettingsPost(p) BY PostIs
  <2>2. (\A p \in posts' : SettingsPost(p)') /\ muddled' \subseteq Forms BY <1>3, <1>6, <2>1 DEF Save
  <2> QED BY <1>6, <2>2 DEF Save, SettingsTypeOK
<1>7. CASE SendTest
  <2>1. \A p \in {Post("test", "smtp")} : SettingsPost(p) BY PostIs DEF Forms
  <2>2. (\A p \in posts' : SettingsPost(p)') /\ muddled' \subseteq Forms BY <1>3, <1>7, <2>1 DEF SendTest
  <2> QED BY <1>7, <2>2 DEF SendTest, SettingsTypeOK
<1>8. ASSUME NEW p \in posts, BreakPost(p) PROVE SettingsTypeOK'
  <2>1. PICK q : q = [p EXCEPT !.stage = "failed"] OBVIOUS
  <2>2. SettingsPost(p) BY DEF SettingsTypeOK
  <2>3. SettingsPost(q)
    <3>1. /\ q = [id |-> q.id, kind |-> q.kind, form |-> q.form, value |-> q.value,
                  row |-> q.row, seen |-> q.seen, got |-> q.got, stage |-> q.stage]
          /\ q.kind = p.kind /\ q.form = p.form /\ q.value = p.value
          /\ q.stage = "failed" /\ q.row = p.row /\ q.seen = p.seen /\ q.got = p.got
      BY <2>1, <2>2 DEF SettingsPost
    <3> QED BY <2>2, <3>1 DEF SettingsPost
  <2>4. \A x \in posts' : SettingsPost(x)' BY <1>1, <1>8, <2>1, <2>3 DEF BreakPost, SettingsTypeOK
  <2>5. p.form \in Forms BY <2>2 DEF SettingsPost
  <2> QED BY <1>8, <2>4, <2>5 DEF BreakPost, SettingsTypeOK
<1>9. ASSUME NEW p \in posts, SettingsLoaded(p) \/ SettingsSaved(p) \/ TestSent(p) PROVE SettingsTypeOK'
  <2>1. UNCHANGED stored /\ posts' \subseteq posts BY <1>9 DEF SettingsLoaded, SettingsSaved, TestSent, Done
  <2>2. \A x \in posts' : SettingsPost(x)' BY <1>1, <2>1 DEF SettingsTypeOK
  <2>3. p.form \in Forms /\ p.got \in Values \cup {None} /\ (p.kind = "save" /\ p.stage = "ok" => p.got \in Values)
    BY DEF SettingsTypeOK, SettingsPost
  <2>4. CASE SettingsLoaded(p) BY <2>2, <2>3, <2>4 DEF SettingsLoaded, SettingsTypeOK
  <2>5. CASE SettingsSaved(p) BY <2>2, <2>3, <2>5 DEF SettingsSaved, SettingsTypeOK, Done
  <2>6. CASE TestSent(p) BY <2>2, <2>6 DEF TestSent, SettingsTypeOK
  <2> QED BY <1>9, <2>4, <2>5, <2>6
<1>10. CASE OtherUser
  <2>1. PICK f \in Forms :
          /\ \/ \E n \in DOMAIN stored[f], v \in Typed : stored' = [stored EXCEPT ![f][n] = v]
             \/ stored[f] = <<>> /\ \E v \in Values : stored' = [stored EXCEPT ![f] = <<v>>]
          /\ kept' = kept \ {f} /\ muddled' \subseteq muddled \cup Forms
    <3>1. Factory["upload"] \in Values BY DEF Factory, Values
    <3>2. \A p \in posts : p.form \in Forms BY DEF SettingsTypeOK, SettingsPost
    <3> QED BY <1>10, <3>1, <3>2 DEF OtherUser, Values
  <2>2. stored \in [Forms -> Seq(Values)] /\ stored[f] \in Seq(Values) BY DEF SettingsTypeOK
  <2>3. stored' \in [Forms -> Seq(Values)] /\ \A g \in Forms : DOMAIN stored[g] \subseteq DOMAIN stored'[g]
    <3>1. ASSUME NEW n \in DOMAIN stored[f], NEW v \in Typed, stored' = [stored EXCEPT ![f][n] = v]
          PROVE  stored' \in [Forms -> Seq(Values)] /\ \A g \in Forms : DOMAIN stored[g] \subseteq DOMAIN stored'[g]
      <4>1. [stored[f] EXCEPT ![n] = v] \in Seq(Values)
        <5>1. v \in Values BY DEF Values
        <5> QED BY <2>2, <5>1, ChangedRow
      <4> QED BY <2>2, <3>1, <4>1
    <3>2. ASSUME NEW v \in Values, stored[f] = <<>>, stored' = [stored EXCEPT ![f] = <<v>>]
          PROVE  stored' \in [Forms -> Seq(Values)] /\ \A g \in Forms : DOMAIN stored[g] \subseteq DOMAIN stored'[g]
      <4>1. <<v>> \in Seq(Values) /\ DOMAIN stored[f] = {} BY <3>2
      <4> QED BY <2>2, <3>2, <4>1
    <3> QED BY <2>1, <3>1, <3>2
  <2>4. \A x \in posts' : SettingsPost(x)' BY <1>10, <2>3, PostStays DEF OtherUser, SettingsTypeOK
  <2> QED BY <1>10, <2>1, <2>3, <2>4 DEF OtherUser, SettingsTypeOK
<1> QED BY <1>2, <1>4, <1>5, <1>6, <1>7, <1>8, <1>9, <1>10, ReadType, WriteType DEF SettingsMove, SettingsStep

(***************************************************************************)
(* The settings: what the forms show                                       *)
(***************************************************************************)

SettingsInv == SettingsTypeOK /\ OnePost /\ PostsFollow /\ FormsFollow
SettingsFollow == OnePost /\ PostsFollow /\ FormsFollow

\* Calls are made, about forms that have none or are muddled by them.
LEMMA PostsCover ==
  ASSUME SettingsInv, UNCHANGED <<stored, current, field, kept>>, edited' \subseteq edited,
         NEW S, PostAll(S),
         \A p \in S : p.stage = "sent" /\ p.form \in Forms /\ p.value = field[p.form],
         \A p, q \in S : p.form = q.form => p = q,
         \A f \in edited \ edited' : \E p \in S : p.form = f /\ p.kind = "save"
  PROVE  SettingsFollow'
<1>1. /\ posts' = posts \cup S /\ muddled \subseteq muddled'
      /\ \A p \in S, q \in posts : p.form = q.form => p.form \in muddled'
  BY DEF PostAll
<1>2. OnePost'
  <2> SUFFICES ASSUME NEW p \in posts', NEW q \in posts', p.form = q.form, p.form \notin muddled'
               PROVE  p = q
    BY DEF OnePost
  <2> QED BY <1>1 DEF SettingsInv, OnePost
<1>3. \A f : FirstRow(f)' = FirstRow(f) BY DEF FirstRow
<1>4. PostsFollow'
  <2> SUFFICES ASSUME NEW p \in posts', p.form \notin muddled'
               PROVE  /\ p.stage = "failed" => p.kind = "test"
                      /\ p.stage = "read" => IF stored[p.form] = <<>> THEN p.row = 0
                                             ELSE p.row = 1 /\ p.seen = FirstRow(p.form)
                      /\ p.stage = "ok" => p.got = FirstRow(p.form)
                      /\ p.kind = "save" /\ p.stage \in {"sent", "read"} /\ p.form \notin edited' =>
                           field[p.form] = p.value
    BY <1>3 DEF PostsFollow
  <2>1. CASE p \in S BY <2>1
  <2>2. CASE p \in posts
    <3>1. p.form \notin muddled BY <1>1
    <3>2. p.form \notin edited' => p.form \notin edited BY <1>1, <2>2
    <3> QED BY <2>2, <3>1, <3>2 DEF SettingsInv, PostsFollow
  <2> QED BY <1>1, <2>1, <2>2
<1>5. FormsFollow'
  <2> SUFFICES ASSUME NEW f \in Forms \ muddled'
               PROVE  (Len(stored[f]) <= 1 /\
                 (f \in kept =>
                   /\ stored[f] # <<>>
                   /\ current[f] = FirstRow(f) \/ \E p \in posts' : p.form = f /\ p.kind = "save" /\ p.stage = "ok"
                   /\ f \notin edited' =>
                        \/ field[f] = FirstRow(f)
                        \/ \E p \in posts' : p.form = f /\ p.kind = "save" /\ p.stage \in {"sent", "read"}))
    BY <1>3 DEF FormsFollow
  <2>1. f \notin muddled BY <1>1
  <2>2. f \in edited /\ f \notin edited' => \E p \in posts' : p.form = f /\ p.kind = "save" /\ p.stage = "sent"
    BY <1>1
  <2> QED BY <1>1, <2>1, <2>2 DEF SettingsInv, FormsFollow
<1> QED BY <1>2, <1>4, <1>5 DEF SettingsFollow

\* A call goes on, q in place of p; what is about other forms stays.
LEMMA PostGoesOn ==
  ASSUME SettingsInv, NEW p \in posts, NEW q, q.form = p.form,
         posts' = (posts \ {p}) \cup {q}, UNCHANGED <<current, field, edited, muddled>>,
         \A f \in Forms \ {p.form} : stored'[f] = stored[f] /\ (f \in kept' <=> f \in kept),
         p.form \notin muddled =>
           /\ q.stage = "failed" => q.kind = "test"
           /\ q.stage = "read" => IF stored'[p.form] = <<>> THEN q.row = 0
                                  ELSE q.row = 1 /\ q.seen = FirstRow(p.form)'
           /\ q.stage = "ok" => q.got = FirstRow(p.form)'
           /\ q.kind = "save" /\ q.stage \in {"sent", "read"} /\ p.form \notin edited =>
                field[p.form] = q.value
           /\ Len(stored'[p.form]) <= 1
           /\ p.form \in kept' =>
                /\ stored'[p.form] # <<>>
                /\ current[p.form] = FirstRow(p.form)' \/ (q.kind = "save" /\ q.stage = "ok")
                /\ p.form \notin edited =>
                     field[p.form] = FirstRow(p.form)' \/ (q.kind = "save" /\ q.stage \in {"sent", "read"})
  PROVE  SettingsFollow'
<1>1. p.form \in Forms /\ \A x \in posts : x.form \in Forms
  BY DEF SettingsInv, SettingsTypeOK, SettingsPost
<1>2. \A f \in Forms \ {p.form} : FirstRow(f)' = FirstRow(f) BY DEF FirstRow
<1>3. OnePost' BY DEF SettingsInv, OnePost
<1>4. \A x \in posts' : x = q \/ x \in posts \ {p} OBVIOUS
<1>5. \A x \in posts \ {p} : x.form \notin muddled => x.form # p.form BY DEF SettingsInv, OnePost
<1>6. PostsFollow'
  <2> SUFFICES ASSUME NEW x \in posts', x.form \notin muddled
               PROVE  /\ x.stage = "failed" => x.kind = "test"
                      /\ x.stage = "read" => IF stored'[x.form] = <<>> THEN x.row = 0
                                             ELSE x.row = 1 /\ x.seen = FirstRow(x.form)'
                      /\ x.stage = "ok" => x.got = FirstRow(x.form)'
                      /\ x.kind = "save" /\ x.stage \in {"sent", "read"} /\ x.form \notin edited =>
                           field[x.form] = x.value
    BY DEF PostsFollow
  <2>1. CASE x = q BY <2>1
  <2>2. CASE x \in posts \ {p}
    <3>1. x.form \in Forms \ {p.form} BY <1>1, <1>5, <2>2
    <3>2. stored'[x.form] = stored[x.form] /\ FirstRow(x.form)' = FirstRow(x.form) BY <1>2, <3>1
    <3> QED BY <2>2, <3>2 DEF SettingsInv, PostsFollow
  <2> QED BY <1>4, <2>1, <2>2
<1>7. FormsFollow'
  <2> SUFFICES ASSUME NEW f \in Forms \ muddled
               PROVE  (Len(stored'[f]) <= 1 /\
                 (f \in kept' =>
                   /\ stored'[f] # <<>>
                   /\ current[f] = FirstRow(f)' \/ \E x \in posts' : x.form = f /\ x.kind = "save" /\ x.stage = "ok"
                   /\ f \notin edited =>
                        \/ field[f] = FirstRow(f)'
                        \/ \E x \in posts' : x.form = f /\ x.kind = "save" /\ x.stage \in {"sent", "read"}))
    BY DEF FormsFollow
  <2>1. CASE f = p.form
    <3>1. q \in posts' /\ q.form = f BY <2>1
    <3> QED BY <2>1, <3>1
  <2>2. CASE f # p.form
    <3>1. stored'[f] = stored[f] /\ FirstRow(f)' = FirstRow(f) /\ (f \in kept' => f \in kept) BY <1>2, <2>2
    <3>2. \A x \in posts : x.form = f => x \in posts' BY <2>2
    <3> QED BY <3>1, <3>2 DEF SettingsInv, FormsFollow
  <2> QED BY <2>1, <2>2
<1> QED BY <1>3, <1>6, <1>7 DEF SettingsFollow

\* A call is answered, and taken off.
LEMMA PostEnds ==
  ASSUME SettingsInv, NEW p \in posts, posts' = posts \ {p}, UNCHANGED <<stored, kept, muddled>>,
         \A f \in Forms \ {p.form} :
           current'[f] = current[f] /\ field'[f] = field[f] /\ (f \in edited' <=> f \in edited),
         p.form \notin muddled /\ p.form \in kept =>
           /\ current'[p.form] = FirstRow(p.form)
           /\ p.form \notin edited' => field'[p.form] = FirstRow(p.form)
  PROVE  SettingsFollow'
<1>1. p.form \in Forms /\ \A x \in posts : x.form \in Forms
  BY DEF SettingsInv, SettingsTypeOK, SettingsPost
<1>2. \A f : FirstRow(f)' = FirstRow(f) BY DEF FirstRow
<1>3. OnePost' BY DEF SettingsInv, OnePost
<1>4. \A x \in posts \ {p} : x.form \notin muddled => x.form # p.form BY DEF SettingsInv, OnePost
<1>5. PostsFollow' BY <1>1, <1>2, <1>4 DEF SettingsInv, PostsFollow
<1>6. FormsFollow'
  <2> SUFFICES ASSUME NEW f \in Forms \ muddled
               PROVE  (Len(stored[f]) <= 1 /\
                 (f \in kept =>
                   /\ stored[f] # <<>>
                   /\ current'[f] = FirstRow(f) \/ \E x \in posts' : x.form = f /\ x.kind = "save" /\ x.stage = "ok"
                   /\ f \notin edited' =>
                        \/ field'[f] = FirstRow(f)
                        \/ \E x \in posts' : x.form = f /\ x.kind = "save" /\ x.stage \in {"sent", "read"}))
    BY <1>2 DEF FormsFollow
  <2>1. CASE f = p.form BY <2>1 DEF SettingsInv, FormsFollow
  <2>2. CASE f # p.form BY <2>2 DEF SettingsInv, FormsFollow
  <2> QED BY <2>1, <2>2
<1> QED BY <1>3, <1>5, <1>6 DEF SettingsFollow

\* A call reads its row.
LEMMA ReadFollows ==
  ASSUME SettingsInv, NEW p, ReadRow(p)
  PROVE  SettingsFollow'
<1>1. p \in posts /\ p.stage = "sent" /\ SettingsPost(p) /\ p.form \in Forms
  BY DEF ReadRow, SettingsInv, SettingsTypeOK, SettingsPost
<1>2. PICK n \in IF stored[p.form] = <<>> THEN {0} ELSE DOMAIN stored[p.form] :
        posts' = (posts \ {p}) \cup
          {[p EXCEPT !.stage = "read", !.row = n,
                     !.seen = IF n = 0 THEN None ELSE stored[p.form][n]]}
  BY DEF ReadRow
<1>3. stored[p.form] \in Seq(Values) BY <1>1 DEF SettingsInv, SettingsTypeOK
<1>4. PICK q : q = [p EXCEPT !.stage = "read", !.row = n,
                             !.seen = IF n = 0 THEN None ELSE stored[p.form][n]]
  OBVIOUS
<1>5. /\ q.kind = p.kind /\ q.form = p.form /\ q.value = p.value /\ q.stage = "read" /\ q.row = n
      /\ q.seen = IF n = 0 THEN None ELSE stored[p.form][n]
  BY <1>1, <1>4 DEF SettingsPost
<1>6. UNCHANGED <<stored, current, field, edited, muddled, kept>> /\ posts' = (posts \ {p}) \cup {q}
  BY <1>2, <1>4 DEF ReadRow, forms, traces
<1>7. FirstRow(p.form)' = FirstRow(p.form) BY <1>6 DEF FirstRow
<1>8. ASSUME p.form \notin muddled
      PROVE  /\ Len(stored[p.form]) <= 1
             /\ IF stored[p.form] = <<>> THEN n = 0 ELSE n = 1 /\ q.seen = FirstRow(p.form)
             /\ p.kind = "save" /\ p.form \notin edited => field[p.form] = p.value
             /\ p.form \in kept =>
                  /\ stored[p.form] # <<>> /\ current[p.form] = FirstRow(p.form)
                  /\ p.form \notin edited => field[p.form] = FirstRow(p.form) \/ p.kind = "save"
  <2>1. Len(stored[p.form]) <= 1 BY <1>1, <1>8 DEF SettingsInv, FormsFollow
  <2>2. IF stored[p.form] = <<>> THEN n = 0 ELSE n = 1 /\ q.seen = FirstRow(p.form)
    BY <1>2, <1>3, <1>5, <2>1 DEF FirstRow
  <2>3. p.kind = "save" /\ p.form \notin edited => field[p.form] = p.value
    BY <1>1, <1>8 DEF SettingsInv, PostsFollow
  <2>4. \A x \in posts : x.form = p.form => x = p BY <1>1, <1>8 DEF SettingsInv, OnePost
  <2>5. p.form \in kept =>
          /\ stored[p.form] # <<>> /\ current[p.form] = FirstRow(p.form)
          /\ p.form \notin edited => field[p.form] = FirstRow(p.form) \/ p.kind = "save"
    BY <1>1, <1>8, <2>4 DEF SettingsInv, FormsFollow
  <2> QED BY <2>1, <2>2, <2>3, <2>5
<1> QED BY <1>1, <1>5, <1>6, <1>7, <1>8, PostGoesOn

\* A call writes its row and is answered.
LEMMA WriteFollows ==
  ASSUME SettingsInv, NEW p, WriteRow(p)
  PROVE  SettingsFollow'
<1> DEFINE f == p.form
<1>1. p \in posts /\ p.stage = "read" /\ SettingsPost(p) /\ f \in Forms /\ p.value \in Values
  BY DEF WriteRow, SettingsInv, SettingsTypeOK, SettingsPost
<1>2. /\ stored' \in [Forms -> Seq(Values)]
      /\ \A g \in Forms \ {f} : stored'[g] = stored[g]
      /\ \/ stored'[f] = stored[f] /\ p.kind # "save"
         \/ stored'[f] = stored[f] /\ p.row # 0 /\ p.value = p.seen
         \/ p.row = 0 /\ \E v \in Values : /\ stored'[f] = Append(stored[f], v)
                                           /\ p.kind = "save" => v = p.value
         \/ p.row # 0 /\ p.kind = "save" /\ stored'[f] = [stored[f] EXCEPT ![p.row] = p.value]
  BY <1>1, WrittenIs DEF WriteRow, SettingsInv
<1>3. stored[f] \in Seq(Values) /\ p.row \in Nat BY <1>1 DEF SettingsInv, SettingsTypeOK, SettingsPost
<1>4. PICK g : g = IF p.row # 0 THEN stored'[f][p.row]
                   ELSE IF stored'[f] = stored[f] THEN None ELSE stored'[f][Len(stored'[f])]
  OBVIOUS
<1>5. PICK s \in {"ok", "failed"} : s = IF p.kind = "test" /\ p.row = 0 THEN "failed" ELSE "ok" OBVIOUS
<1>6. PICK q : q = [p EXCEPT !.stage = s, !.got = g] OBVIOUS
<1>7. /\ q.kind = p.kind /\ q.form = f /\ q.value = p.value /\ q.stage = s /\ q.got = g
  BY <1>1, <1>6 DEF SettingsPost
<1>8. /\ stored' = Written(p) /\ UNCHANGED <<current, field, edited, muddled>>
      /\ kept' = IF p.kind = "save" THEN kept \cup {f} ELSE kept
  BY DEF WriteRow, forms
<1>9. posts' = (posts \ {p}) \cup {q}
  <2>1. \/ stored' = stored
        \/ stored'[f] # stored[f]
    BY <1>2, <1>8 DEF SettingsInv, SettingsTypeOK
  <2>2. (stored'[p.form] = stored[p.form]) <=> (stored'[f] = stored[f]) OBVIOUS
  <2>3. posts' = (posts \ {p}) \cup
          {[p EXCEPT !.stage = IF p.kind = "test" /\ p.row = 0 THEN "failed" ELSE "ok",
                     !.got = IF p.row # 0 THEN stored'[f][p.row]
                             ELSE IF stored'[f] = stored[f] THEN None
                             ELSE stored'[f][Len(stored'[f])]]}
    BY DEF WriteRow
  <2> QED BY <1>4, <1>5, <1>6, <2>3
<1>10. ASSUME f \notin muddled
       PROVE  /\ Len(stored'[f]) <= 1
              /\ q.stage = "failed" => q.kind = "test"
              /\ q.stage = "ok" => q.got = FirstRow(f)'
              /\ p.kind = "save" => stored'[f] # <<>> /\ FirstRow(f)' = p.value /\ q.stage = "ok"
              /\ p.kind # "save" /\ stored[f] # <<>> => stored'[f] = stored[f]
  <2>1. /\ IF stored[f] = <<>> THEN p.row = 0 ELSE p.row = 1 /\ p.seen = FirstRow(f)
        /\ Len(stored[f]) <= 1
    BY <1>1, <1>10 DEF SettingsInv, PostsFollow, FormsFollow
  <2>2. CASE stored[f] = <<>>
    <3>1. \A v : Append(stored[f], v) = <<v>> BY <2>2
    <3>2. \/ stored'[f] = <<>> /\ p.kind # "save"
          \/ \E v \in Values : stored'[f] = <<v>> /\ (p.kind = "save" => v = p.value)
      BY <1>2, <2>1, <2>2, <3>1
    <3>3. ASSUME stored'[f] = <<>> PROVE Len(stored'[f]) = 0 /\ g = None /\ FirstRow(f)' = None
      BY <1>4, <2>1, <2>2, <3>3 DEF FirstRow
    <3>4. ASSUME NEW v, stored'[f] = <<v>>
          PROVE Len(stored'[f]) = 1 /\ g = v /\ FirstRow(f)' = v /\ stored'[f] # <<>>
      <4>1. Len(stored'[f]) = 1 /\ stored'[f][1] = v /\ stored'[f] # <<>> BY <3>4
      <4> QED BY <1>4, <2>1, <2>2, <4>1 DEF FirstRow
    <3>5. /\ s = "failed" => p.kind = "test"
          /\ p.kind = "save" => s = "ok"
      BY <1>5
    <3>6. CASE stored'[f] = <<>> /\ p.kind # "save" BY <1>7, <2>2, <3>3, <3>5, <3>6
    <3>7. ASSUME NEW v \in Values, stored'[f] = <<v>>, p.kind = "save" => v = p.value
          PROVE  /\ Len(stored'[f]) <= 1 /\ q.got = FirstRow(f)' /\ stored'[f] # <<>>
                 /\ p.kind = "save" => FirstRow(f)' = p.value
      BY <1>7, <3>4, <3>7
    <3> QED BY <1>7, <2>2, <3>2, <3>5, <3>6, <3>7
  <2>3. CASE stored[f] # <<>>
    <3>1. p.row = 1 /\ Len(stored[f]) = 1 /\ 1 \in DOMAIN stored[f] /\ FirstRow(f) = stored[f][1]
      <4>1. p.row = 1 /\ FirstRow(f) = stored[f][1] BY <2>1, <2>3 DEF FirstRow
      <4>2. Len(stored[f]) \in Nat /\ Len(stored[f]) # 0 BY <1>3, <2>3, EmptySeq
      <4>3. Len(stored[f]) <= 1 BY <2>1
      <4>4. Len(stored[f]) = 1
        <5>1. PICK k : k = Len(stored[f]) OBVIOUS
        <5>2. k \in Nat /\ k # 0 /\ k <= 1 BY <4>2, <4>3, <5>1
        <5>3. k = 1 BY <5>2
        <5> QED BY <5>1, <5>3
      <4>5. 1 \in DOMAIN stored[f] BY <1>3, <4>4
      <4> QED BY <4>1, <4>4, <4>5
    <3>2. \/ stored'[f] = stored[f] /\ (p.kind = "save" => p.value = p.seen)
          \/ p.kind = "save" /\ stored'[f] = [stored[f] EXCEPT ![1] = p.value]
      BY <1>2, <3>1
    <3>3. Len(stored'[f]) = 1 /\ (p.kind = "save" => stored'[f][1] = p.value)
      <4>1. [stored[f] EXCEPT ![1] = p.value] \in Seq(Values) /\ Len([stored[f] EXCEPT ![1] = p.value]) = 1
            /\ [stored[f] EXCEPT ![1] = p.value][1] = p.value
        BY <1>1, <1>3, <3>1, ChangedRow
      <4> QED BY <2>1, <3>1, <3>2, <4>1
    <3>4. stored'[f] # <<>> /\ FirstRow(f)' = stored'[f][1] /\ g = stored'[f][1]
      BY <1>4, <3>1, <3>3 DEF FirstRow
    <3> QED BY <1>5, <1>7, <2>1, <2>3, <3>1, <3>2, <3>3, <3>4
  <2> QED BY <2>2, <2>3
<1>11. ASSUME f \notin muddled, f \in kept'
       PROVE  /\ stored'[f] # <<>>
              /\ current[f] = FirstRow(f)' \/ (q.kind = "save" /\ q.stage = "ok")
              /\ f \notin edited =>
                   field[f] = FirstRow(f)' \/ (q.kind = "save" /\ q.stage \in {"sent", "read"})
  <2>1. CASE p.kind = "save"
    <3>1. f \notin edited => field[f] = p.value BY <1>1, <1>11, <2>1 DEF SettingsInv, PostsFollow
    <3> QED BY <1>7, <1>10, <1>11, <2>1, <3>1
  <2>2. CASE p.kind # "save"
    <3>1. f \in kept BY <1>8, <1>11, <2>2
    <3>2. \A x \in posts : x.form = f => x.kind # "save" BY <1>1, <1>11, <2>2 DEF SettingsInv, OnePost
    <3>3. stored[f] # <<>> /\ current[f] = FirstRow(f) /\ (f \notin edited => field[f] = FirstRow(f))
      BY <1>1, <1>11, <3>1, <3>2 DEF SettingsInv, FormsFollow
    <3>4. stored'[f] = stored[f] /\ FirstRow(f)' = FirstRow(f) BY <1>10, <1>11, <2>2, <3>3 DEF FirstRow
    <3> QED BY <3>3, <3>4
  <2> QED BY <2>1, <2>2
<1>12. \A h \in Forms \ {f} : stored'[h] = stored[h] /\ (h \in kept' <=> h \in kept) BY <1>2, <1>8
<1>13. q.stage # "read" /\ q.stage # "sent" BY <1>5, <1>7
<1> QED BY <1>1, <1>7, <1>8, <1>9, <1>10, <1>11, <1>12, <1>13, PostGoesOn

\* Every step of the settings.
LEMMA SettingsFollowStep == SettingsInv /\ SettingsMove => SettingsFollow'
<1> SUFFICES ASSUME SettingsInv, SettingsMove PROVE SettingsFollow'
  OBVIOUS
<1> USE DEF forms, traces
<1>1. SettingsTypeOK BY DEF SettingsInv
<1>2. CASE UNCHANGED settings
  BY <1>2 DEF settings, SettingsInv, SettingsFollow, OnePost, PostsFollow, FormsFollow, FirstRow
<1>3. CASE LoadAll /\ UNCHANGED <<stored, forms, kept, edited>>
  <2>1. PICK S : S = {Post("load", f) : f \in Forms} OBVIOUS
  <2>2. /\ \A p \in S : p.stage = "sent" /\ p.form \in Forms /\ p.value = field[p.form]
        /\ \A p, q \in S : p.form = q.form => p = q
    BY <1>1, <2>1, PostIs
  <2> QED BY <1>3, <2>1, <2>2, PostsCover DEF LoadAll
<1>4. ASSUME NEW f \in Forms, Type(f) PROVE SettingsFollow'
  <2>1. /\ UNCHANGED <<stored, current, posts, kept, muddled>> /\ edited' = edited \cup {f}
        /\ \A g \in Forms \ {f} : field'[g] = field[g]
    BY <1>1, <1>4 DEF Type, SettingsTypeOK
  <2>2. \A g : FirstRow(g)' = FirstRow(g) BY <2>1 DEF FirstRow
  <2>3. OnePost' BY <2>1 DEF SettingsInv, OnePost
  <2>4. \A p \in posts : p.form \in Forms BY <1>1 DEF SettingsTypeOK, SettingsPost
  <2>5. PostsFollow' BY <2>1, <2>2, <2>4 DEF SettingsInv, PostsFollow
  <2>6. FormsFollow' BY <2>1, <2>2 DEF SettingsInv, FormsFollow
  <2> QED BY <2>3, <2>5, <2>6 DEF SettingsFollow
<1>5. ASSUME NEW f \in Forms, Save(f) PROVE SettingsFollow'
  <2>1. PICK S : S = {Post("save", f)} OBVIOUS
  <2>2. /\ \A p \in S : p.stage = "sent" /\ p.form \in Forms /\ p.value = field[p.form]
        /\ \A p, q \in S : p.form = q.form => p = q
        /\ \A g \in edited \ edited' : \E p \in S : p.form = g /\ p.kind = "save"
    BY <1>1, <1>5, <2>1, PostIs DEF Save
  <2> QED BY <1>5, <2>1, <2>2, PostsCover DEF Save
<1>6. CASE SendTest
  <2>1. PICK S : S = {Post("test", "smtp")} OBVIOUS
  <2>2. "smtp" \in Forms BY DEF Forms
  <2>3. /\ \A p \in S : p.stage = "sent" /\ p.form \in Forms /\ p.value = field[p.form]
        /\ \A p, q \in S : p.form = q.form => p = q
    BY <1>1, <2>1, <2>2, PostIs
  <2> QED BY <1>6, <2>1, <2>3, PostsCover DEF SendTest
<1>7. ASSUME NEW p \in posts, BreakPost(p) PROVE SettingsFollow'
  <2>1. /\ UNCHANGED <<stored, current, field, kept, edited>> /\ muddled' = muddled \cup {p.form}
        /\ posts' = (posts \ {p}) \cup {[p EXCEPT !.stage = "failed"]}
    BY <1>7 DEF BreakPost
  <2>2. [p EXCEPT !.stage = "failed"].form = p.form BY <1>1 DEF SettingsTypeOK, SettingsPost
  <2>3. \A x \in posts' : x.form \notin muddled' => x \in posts /\ x # p BY <2>1, <2>2
  <2>4. \A g : FirstRow(g)' = FirstRow(g) BY <2>1 DEF FirstRow
  <2>5. OnePost' BY <2>1, <2>3 DEF SettingsInv, OnePost
  <2>6. PostsFollow' BY <2>1, <2>3, <2>4 DEF SettingsInv, PostsFollow
  <2>7. FormsFollow'
    <3>1. \A f \in Forms \ muddled' : f \notin muddled /\ \A x \in posts : x.form = f => x \in posts' BY <2>1
    <3> QED BY <2>1, <2>4, <3>1 DEF SettingsInv, FormsFollow
  <2> QED BY <2>5, <2>6, <2>7 DEF SettingsFollow
<1>8. ASSUME NEW p \in posts, SettingsLoaded(p) \/ SettingsSaved(p) \/ TestSent(p) PROVE SettingsFollow'
  <2>1. /\ posts' = posts \ {p} /\ UNCHANGED <<stored, kept, muddled>>
        /\ p.stage \in {"ok", "failed"} /\ SettingsPost(p) /\ p.form \in Forms
    BY <1>1, <1>8 DEF SettingsLoaded, SettingsSaved, TestSent, Done, SettingsTypeOK, SettingsPost
  <2>2. \A f \in Forms \ {p.form} :
          current'[f] = current[f] /\ field'[f] = field[f] /\ (f \in edited' <=> f \in edited)
    <3>1. CASE SettingsLoaded(p) BY <1>1, <3>1 DEF SettingsLoaded, SettingsTypeOK
    <3>2. CASE SettingsSaved(p) BY <1>1, <3>2 DEF SettingsSaved, SettingsTypeOK
    <3>3. CASE TestSent(p) BY <3>3 DEF TestSent
    <3> QED BY <1>8, <3>1, <3>2, <3>3
  <2>3. ASSUME p.form \notin muddled, p.form \in kept
        PROVE  /\ current'[p.form] = FirstRow(p.form)
               /\ p.form \notin edited' => field'[p.form] = FirstRow(p.form)
    <3>1. /\ p.stage = "ok" => p.got = FirstRow(p.form)
          /\ p.stage = "failed" => p.kind = "test"
      BY <2>3 DEF SettingsInv, PostsFollow
    <3>2. \A x \in posts : x.form = p.form => x = p BY <2>3 DEF SettingsInv, OnePost
    <3>3. /\ stored[p.form] # <<>>
          /\ current[p.form] = FirstRow(p.form) \/ (p.kind = "save" /\ p.stage = "ok")
          /\ p.form \notin edited => field[p.form] = FirstRow(p.form)
      BY <2>1, <2>3, <3>2 DEF SettingsInv, FormsFollow
    <3>4. FirstRow(p.form) # None
      <4>1. stored[p.form] \in Seq(Values) BY <1>1, <2>1 DEF SettingsTypeOK
      <4>2. stored[p.form][1] \in Values BY <3>3, <4>1
      <4> QED BY <3>3, <4>2, AdminSettingsAssumption DEF FirstRow, Values
    <3>5. CASE SettingsLoaded(p)
      <4>1. p.kind = "load" /\ p.stage = "ok" BY <2>1, <3>1, <3>5 DEF SettingsLoaded, Done
      <4> QED BY <1>1, <2>1, <3>1, <3>4, <3>5, <4>1 DEF SettingsLoaded, SettingsTypeOK
    <3>6. CASE SettingsSaved(p)
      <4>1. p.kind = "save" /\ p.stage = "ok" BY <2>1, <3>1, <3>6 DEF SettingsSaved, Done
      <4> QED BY <1>1, <2>1, <3>1, <3>3, <3>6, <4>1 DEF SettingsSaved, SettingsTypeOK
    <3>7. CASE TestSent(p)
      <4>1. p.kind = "test" BY <3>7 DEF TestSent, Done
      <4> QED BY <3>3, <3>7, <4>1 DEF TestSent
    <3> QED BY <1>8, <3>5, <3>6, <3>7
  <2> QED BY <2>1, <2>2, <2>3, PostEnds
<1>9. CASE OtherUser
  <2>1. PICK f \in Forms :
          /\ \/ \E n \in DOMAIN stored[f], v \in Typed : stored' = [stored EXCEPT ![f][n] = v]
             \/ stored[f] = <<>> /\ \E v \in Values : stored' = [stored EXCEPT ![f] = <<v>>]
          /\ kept' = kept \ {f}
          /\ muddled' = muddled \cup {p.form : p \in {q \in posts : q.form = f}}
    <3>1. PICK f \in Forms :
            /\ stored' \in {[stored EXCEPT ![f][n] = v] : n \in DOMAIN stored[f], v \in Typed}
                  \cup {[stored EXCEPT ![f] = <<v>>] :
                          v \in IF stored[f] # <<>> THEN {}
                                ELSE IF f = "upload" THEN Typed \cup {Factory[f]} ELSE Typed}
            /\ kept' = kept \ {f}
            /\ muddled' = muddled \cup {p.form : p \in {q \in posts : q.form = f}}
      BY <1>9 DEF OtherUser
    <3>2. f = "upload" => Factory[f] \in Values BY DEF Factory, Values
    <3>3. \/ \E n \in DOMAIN stored[f], v \in Typed : stored' = [stored EXCEPT ![f][n] = v]
          \/ stored[f] = <<>> /\ \E v \in Values : stored' = [stored EXCEPT ![f] = <<v>>]
      BY <3>1, <3>2 DEF Values
    <3> QED BY <3>1, <3>3
  <2>2. UNCHANGED <<current, field, posts, edited>> BY <1>9 DEF OtherUser
  <2>3. stored \in [Forms -> Seq(Values)] /\ stored[f] \in Seq(Values) BY <1>1 DEF SettingsTypeOK
  <2>4. \A g \in Forms \ {f} : stored'[g] = stored[g] /\ FirstRow(g)' = FirstRow(g) BY <2>1, <2>3 DEF FirstRow
  <2>5. Len(stored[f]) <= 1 => Len(stored'[f]) <= 1
    <3>1. ASSUME NEW n \in DOMAIN stored[f], NEW v \in Typed, stored' = [stored EXCEPT ![f][n] = v]
          PROVE  Len(stored'[f]) = Len(stored[f])
      <4>1. v \in Values BY DEF Values
      <4>2. stored'[f] = [stored[f] EXCEPT ![n] = v] BY <2>3, <3>1
      <4> QED BY <2>3, <4>1, <4>2, ChangedRow
    <3>2. ASSUME NEW v \in Values, stored' = [stored EXCEPT ![f] = <<v>>] PROVE Len(stored'[f]) = 1
      <4>1. stored'[f] = <<v>> BY <2>3, <3>2
      <4> QED BY <4>1
    <3>3. CASE \E n \in DOMAIN stored[f], v \in Typed : stored' = [stored EXCEPT ![f][n] = v]
      BY <3>1, <3>3
    <3>4. CASE \E v \in Values : stored' = [stored EXCEPT ![f] = <<v>>] BY <3>2, <3>4
    <3> QED BY <2>1, <3>3, <3>4
  <2>6. \A p \in posts : p.form \notin muddled' => p.form \notin muddled /\ p.form \in Forms \ {f}
    BY <1>1, <2>1 DEF SettingsTypeOK, SettingsPost
  <2>7. OnePost' BY <2>1, <2>2 DEF SettingsInv, OnePost
  <2>8. PostsFollow'
    <3> SUFFICES ASSUME NEW p \in posts, p.form \notin muddled'
                 PROVE  /\ p.stage = "failed" => p.kind = "test"
                        /\ p.stage = "read" => IF stored'[p.form] = <<>> THEN p.row = 0
                                               ELSE p.row = 1 /\ p.seen = FirstRow(p.form)'
                        /\ p.stage = "ok" => p.got = FirstRow(p.form)'
                        /\ p.kind = "save" /\ p.stage \in {"sent", "read"} /\ p.form \notin edited =>
                             field[p.form] = p.value
      BY <2>2 DEF PostsFollow
    <3>1. p.form \notin muddled /\ stored'[p.form] = stored[p.form] /\ FirstRow(p.form)' = FirstRow(p.form)
      BY <2>4, <2>6
    <3> QED BY <3>1 DEF SettingsInv, PostsFollow
  <2>9. FormsFollow'
    <3>1. \A g \in Forms \ muddled' : g \notin muddled BY <2>1
    <3>2. \A g \in Forms \ muddled' : Len(stored'[g]) <= 1
      BY <2>4, <2>5, <3>1 DEF SettingsInv, FormsFollow
    <3>3. \A g \in kept' : g # f /\ g \in kept BY <2>1
    <3> QED BY <2>2, <2>4, <3>1, <3>2, <3>3 DEF SettingsInv, FormsFollow
  <2> QED BY <2>7, <2>8, <2>9 DEF SettingsFollow
<1> QED BY <1>2, <1>3, <1>4, <1>5, <1>6, <1>7, <1>8, <1>9, ReadFollows, WriteFollows DEF SettingsMove, SettingsStep

(***************************************************************************)
(* The tables: calls and types                                             *)
(***************************************************************************)

\* A call the page may make in the state it is in.
Asked(a) ==
  /\ AdminCall(a) /\ a.stage = "sent"
  /\ a.kind \in {"archive", "transfer"} => rows[a.on] # None
  /\ a.kind = "revoke" => bot[a.on] \in {a.arg, Revoked}
  /\ a.kind = "more" => hasMore /\ a.arg = Len(audit)
  /\ a.kind = "audit" => a.arg = 0
  /\ a.since = Len(log)

\* At most one such call joins the calls "rest".
Sends(rest) == \E S : Send(S, rest) /\ (\A a \in S : Asked(a)) /\ (\A a, b \in S : a = b)

\* The fields of a new call.
LEMMA AskIs ==
  ASSUME NEW k, NEW x, NEW y, NEW z
  PROVE  /\ Ask(k, x, y, z) = [id |-> Ask(k, x, y, z).id, kind |-> k, on |-> x, arg |-> y,
                               frees |-> z, since |-> Len(log), stage |-> "sent", got |-> None]
         /\ Ask(k, x, y, z).kind = k /\ Ask(k, x, y, z).on = x /\ Ask(k, x, y, z).arg = y
         /\ Ask(k, x, y, z).frees = z /\ Ask(k, x, y, z).stage = "sent"
         /\ Ask(k, x, y, z).got = None /\ Ask(k, x, y, z).since = Len(log)
<1>1. PICK i : i = CHOOSE n \in 0 .. Cardinality(calls) : \A c \in calls : c.id # n OBVIOUS
<1>2. Ask(k, x, y, z) = [id |-> i, kind |-> k, on |-> x, arg |-> y, frees |-> z,
                         since |-> Len(log), stage |-> "sent", got |-> None]
  BY <1>1 DEF Ask
<1> QED BY <1>2

\* A new call is well typed if what it carries is.
LEMMA AskType ==
  ASSUME log \in Seq(Nat), NEW k \in Changes \cup Lists \cup AuditLoads, NEW x, NEW y, NEW z,
         k = "archive" => x \in Rooms /\ y \in BOOLEAN,
         k = "transfer" => x \in Rooms /\ y \in Owners,
         k \in {"issue", "tokens"} => x \in Bots,
         k = "create" => x = "bots",
         k = "revoke" => x \in Tokens /\ y \in Bots,
         k \in AuditLoads => y \in Nat
  PROVE  AdminCall(Ask(k, x, y, z))
<1>1. PICK a : a = Ask(k, x, y, z) OBVIOUS
<1>2. /\ a = [id |-> a.id, kind |-> k, on |-> x, arg |-> y, frees |-> z, since |-> Len(log),
              stage |-> "sent", got |-> None]
      /\ a.since = Len(log) /\ Len(log) \in Nat
      /\ a.kind = k /\ a.on = x /\ a.arg = y /\ a.frees = z /\ a.stage = "sent" /\ a.got = None
  BY <1>1, AskIs
<1>3. AdminCall(a) BY <1>2 DEF AdminCall
<1> QED BY <1>1, <1>3

\* A new call may be made if what it acts on is shown.
LEMMA AskAsked ==
  ASSUME NEW k, NEW x, NEW y, NEW z, AdminCall(Ask(k, x, y, z)),
         k \in {"archive", "transfer"} => rows[x] # None,
         k = "revoke" => bot[x] \in {y, Revoked},
         k = "more" => hasMore /\ y = Len(audit),
         k = "audit" => y = 0
  PROVE  Asked(Ask(k, x, y, z))
<1>1. PICK a : a = Ask(k, x, y, z) OBVIOUS
<1>2. a.kind = k /\ a.on = x /\ a.arg = y /\ a.since = Len(log) /\ a.stage = "sent" BY <1>1, AskIs
<1>3. Asked(a) BY <1>1, <1>2 DEF Asked
<1> QED BY <1>1, <1>3

\* One call that may be made, or none.
LEMMA SendOne ==
  ASSUME NEW a, Asked(a), NEW S, S \subseteq {a}, NEW rest, Send(S, rest)
  PROVE  Sends(rest)
<1>1. (\A b \in S : Asked(b)) /\ \A b, c \in S : b = c OBVIOUS
<1> QED BY <1>1 DEF Sends

\* What calls are about.
LEMMA AboutIs ==
  ASSUME NEW c, AdminCall(c)
  PROVE  /\ c.kind = "rooms" => About(c) = Rooms
         /\ c.kind \in {"bots", "create"} => About(c) = {"bots"}
         /\ c.kind = "revoke" => About(c) = {c.arg}
         /\ c.kind \in AuditLoads => About(c) = {}
         /\ c.kind \in {"archive", "transfer", "issue", "tokens"} => About(c) = {c.on}
         /\ About(c) \subseteq Rooms \cup Bots \cup {"bots"}
BY DEF AdminCall, About, Changes, Lists, AuditLoads

\* What calls send is well typed, and crosses what it is about.
LEMMA SendsType ==
  ASSUME AdminTypeOK, NEW rest, rest \subseteq calls, Sends(rest)
  PROVE  /\ \A c \in calls' : AdminCall(c)
         /\ crossed \subseteq crossed' /\ crossed' \subseteq Rooms \cup Bots \cup {"bots"}
         /\ tangled' \in BOOLEAN
<1>1. PICK S : Send(S, rest) /\ \A a \in S : Asked(a) BY DEF Sends
<1>2. /\ calls' = rest \cup S
      /\ crossed' = crossed \cup UNION {About(c) \cap About(d) : c \in S, d \in rest}
      /\ tangled' = (tangled \/ \E c \in S, d \in rest : {c.kind, d.kind} \subseteq AuditLoads)
  BY <1>1 DEF Send
<1>3. \A c \in calls' : AdminCall(c) BY <1>1, <1>2 DEF AdminTypeOK, Asked
<1>4. \A c \in S : About(c) \subseteq Rooms \cup Bots \cup {"bots"} BY <1>2, <1>3, AboutIs
<1>5. UNION {About(c) \cap About(d) : c \in S, d \in rest} \subseteq Rooms \cup Bots \cup {"bots"}
  BY <1>4
<1> QED BY <1>2, <1>3, <1>5 DEF AdminTypeOK

\* The clicks that make calls, and those that make none.
Clicks ==
  \/ \E t \in {"users", "rooms", "bots", "audit", "settings"} : SetTab(t)
  \/ \E r \in Rooms : ToggleArchive(r) \/ TransferOwnership(r)
  \/ \E b \in Bots : ToggleExpand(b)
  \/ CreateBot \/ IssueToken \/ LoadMore
  \/ \E t \in Tokens : RevokeToken(t)

\* What the page acts on it shows.
LEMMA ClicksSend ==
  ASSUME AdminTypeOK, OnRows, TokensHome, Clicks
  PROVE  /\ Sends(calls)
         /\ UNCHANGED <<server, table, auditing, picking, own, moved>>
         /\ busy' \in Rooms \cup Bots \cup Tokens \cup {None}
         /\ tab' \in {"users", "rooms", "bots", "audit", "settings"}
         /\ \/ UNCHANGED <<expanded, created>>
            \/ \E b \in Bots : expanded = b /\ expanded' = None /\ UNCHANGED created
            \/ \E b \in Bots : expanded' = b /\ created' = None
<1> USE DEF detail
<1>0. log \in Seq(Nat) BY DEF AdminTypeOK
<1>1. ASSUME NEW t \in {"users", "rooms", "bots", "audit", "settings"}, SetTab(t)
      PROVE  Sends(calls)
  <2>1. PICK S : /\ S = (CASE t = "rooms" -> {Ask("rooms", None, None, FALSE)}
                           [] t = "bots" -> {Ask("bots", None, None, FALSE)}
                           [] t = "audit" -> {Ask("audit", None, 0, FALSE)}
                           [] OTHER -> {})
                 /\ Send(S, calls)
    BY <1>1 DEF SetTab
  <2>2. AdminCall(Ask("rooms", None, None, FALSE)) BY <1>0, AskType DEF Changes, Lists, AuditLoads
  <2>3. AdminCall(Ask("bots", None, None, FALSE)) BY <1>0, AskType DEF Changes, Lists, AuditLoads
  <2>4. AdminCall(Ask("audit", None, 0, FALSE)) BY <1>0, AskType DEF Changes, Lists, AuditLoads
  <2>5. /\ Asked(Ask("rooms", None, None, FALSE))
        /\ Asked(Ask("bots", None, None, FALSE))
        /\ Asked(Ask("audit", None, 0, FALSE))
    BY <2>2, <2>3, <2>4, AskAsked
  <2>6. \/ S \subseteq {Ask("rooms", None, None, FALSE)}
        \/ S \subseteq {Ask("bots", None, None, FALSE)}
        \/ S \subseteq {Ask("audit", None, 0, FALSE)}
    BY <2>1
  <2> QED BY <2>1, <2>5, <2>6, SendOne
<1>2. ASSUME NEW k, NEW x, NEW y, NEW z, Start(k, x, y, z), Asked(Ask(k, x, y, TRUE))
      PROVE  Sends(calls) /\ busy' = z
  <2>1. Send({Ask(k, x, y, TRUE)}, calls) /\ busy' = z BY <1>2 DEF Start
  <2> QED BY <1>2, <2>1, SendOne
<1>3. ASSUME NEW r \in Rooms, ToggleArchive(r) PROVE Sends(calls) /\ busy' = r
  <2>1. rows[r] \in Records /\ rows[r] # None /\ Start("archive", r, ~rows[r].archived, r)
    BY <1>3 DEF ToggleArchive, AdminTypeOK
  <2>2. AdminCall(Ask("archive", r, ~rows[r].archived, TRUE))
    BY <1>0, <2>1, AskType DEF Changes, Lists, AuditLoads, Records
  <2>3. Asked(Ask("archive", r, ~rows[r].archived, TRUE)) BY <2>1, <2>2, AskAsked
  <2> QED BY <1>2, <2>1, <2>3
<1>4. ASSUME NEW r \in Rooms, TransferOwnership(r) PROVE Sends(calls) /\ busy' = r
  <2>1. PICK o \in Owners : Start("transfer", r, o, r) BY <1>4 DEF TransferOwnership
  <2>2. rows[r] # None
    <3>1. picking = r /\ r # None BY <1>4, AdminPageAssumption DEF TransferOwnership
    <3> QED BY <3>1 DEF OnRows
  <2>3. AdminCall(Ask("transfer", r, o, TRUE)) BY <1>0, AskType DEF Changes, Lists, AuditLoads
  <2>4. Asked(Ask("transfer", r, o, TRUE)) BY <2>2, <2>3, AskAsked
  <2> QED BY <1>2, <2>1, <2>4
<1>5. ASSUME NEW b \in Bots, ToggleExpand(b) PROVE Sends(calls)
  <2>1. PICK S : S \subseteq {Ask("tokens", b, None, FALSE)} /\ Send(S, calls)
    BY <1>5 DEF ToggleExpand
  <2>2. AdminCall(Ask("tokens", b, None, FALSE)) BY <1>0, AskType DEF Changes, Lists, AuditLoads
  <2>3. Asked(Ask("tokens", b, None, FALSE)) BY <2>2, AskAsked
  <2> QED BY <2>1, <2>3, SendOne
<1>6. ASSUME CreateBot PROVE Sends(calls)
  <2>1. AdminCall(Ask("create", "bots", None, FALSE)) BY <1>0, AskType DEF Changes, Lists, AuditLoads
  <2>2. Asked(Ask("create", "bots", None, FALSE)) BY <2>1, AskAsked
  <2>3. Send({Ask("create", "bots", None, FALSE)}, calls) BY <1>6 DEF CreateBot
  <2> QED BY <2>2, <2>3, SendOne
<1>7. ASSUME IssueToken PROVE Sends(calls) /\ busy' \in Bots
  <2>1. expanded \in Bots /\ Start("issue", expanded, None, expanded)
    BY <1>7 DEF IssueToken, AdminTypeOK
  <2>2. AdminCall(Ask("issue", expanded, None, TRUE)) BY <1>0, <2>1, AskType DEF Changes, Lists, AuditLoads
  <2>3. Asked(Ask("issue", expanded, None, TRUE)) BY <2>2, AskAsked
  <2> QED BY <1>2, <2>1, <2>3
<1>8. ASSUME NEW t \in Tokens, RevokeToken(t) PROVE Sends(calls) /\ busy' = t
  <2>1. expanded \in Bots /\ Start("revoke", t, expanded, t) BY <1>8 DEF RevokeToken, AdminTypeOK
  <2>2. bot[t] \in {expanded, Revoked} BY <1>8, <2>1 DEF RevokeToken, TokensHome
  <2>3. AdminCall(Ask("revoke", t, expanded, TRUE)) BY <1>0, <2>1, AskType DEF Changes, Lists, AuditLoads
  <2>4. Asked(Ask("revoke", t, expanded, TRUE)) BY <2>2, <2>3, AskAsked
  <2> QED BY <1>2, <2>1, <2>4
<1>9. ASSUME LoadMore PROVE Sends(calls)
  <2>1. Len(audit) \in Nat BY DEF AdminTypeOK
  <2>2. AdminCall(Ask("more", None, Len(audit), FALSE)) BY <1>0, <2>1, AskType DEF Changes, Lists, AuditLoads
  <2>3. hasMore /\ Send({Ask("more", None, Len(audit), FALSE)}, calls) BY <1>9 DEF LoadMore
  <2>4. Asked(Ask("more", None, Len(audit), FALSE)) BY <2>2, <2>3, AskAsked
  <2> QED BY <2>3, <2>4, SendOne
<1>10. Sends(calls) BY <1>1, <1>3, <1>4, <1>5, <1>6, <1>7, <1>8, <1>9 DEF Clicks
<1>11. UNCHANGED <<server, table, auditing, picking, own, moved>>
  BY DEF Clicks, SetTab, ToggleArchive, TransferOwnership, ToggleExpand, CreateBot, IssueToken,
         LoadMore, RevokeToken, Start
<1>12. busy' \in Rooms \cup Bots \cup Tokens \cup {None}
  <2>1. CASE IssueToken BY <1>7, <2>1
  <2>2. CASE \/ \E t \in {"users", "rooms", "bots", "audit", "settings"} : SetTab(t)
             \/ \E b \in Bots : ToggleExpand(b)
             \/ CreateBot \/ LoadMore
    BY <2>2 DEF SetTab, ToggleExpand, CreateBot, LoadMore, AdminTypeOK
  <2> QED BY <1>3, <1>4, <1>8, <2>1, <2>2 DEF Clicks
<1>13. tab' \in {"users", "rooms", "bots", "audit", "settings"}
  <2>1. CASE \E t \in {"users", "rooms", "bots", "audit", "settings"} : SetTab(t) BY <2>1 DEF SetTab
  <2>2. CASE \/ \E r \in Rooms : ToggleArchive(r) \/ TransferOwnership(r)
             \/ \E b \in Bots : ToggleExpand(b)
             \/ CreateBot \/ IssueToken \/ LoadMore
             \/ \E t \in Tokens : RevokeToken(t)
    BY <2>2 DEF ToggleArchive, TransferOwnership, ToggleExpand, CreateBot, IssueToken, LoadMore,
                RevokeToken, Start, AdminTypeOK
  <2> QED BY <2>1, <2>2 DEF Clicks
<1>14. \/ UNCHANGED <<expanded, created>>
       \/ \E b \in Bots : expanded = b /\ expanded' = None /\ UNCHANGED created
       \/ \E b \in Bots : expanded' = b /\ created' = None
  <2>1. ASSUME NEW b \in Bots, ToggleExpand(b)
        PROVE  \/ expanded = b /\ expanded' = None /\ UNCHANGED created
               \/ expanded' = b /\ created' = None
    BY <2>1 DEF ToggleExpand
  <2>2. CASE \/ \E t \in {"users", "rooms", "bots", "audit", "settings"} : SetTab(t)
             \/ \E r \in Rooms : ToggleArchive(r) \/ TransferOwnership(r)
             \/ CreateBot \/ IssueToken \/ LoadMore
             \/ \E t \in Tokens : RevokeToken(t)
    BY <2>2 DEF SetTab, ToggleArchive, TransferOwnership, CreateBot, IssueToken, LoadMore,
                RevokeToken, Start
  <2> QED BY <2>1, <2>2 DEF Clicks
<1> QED BY <1>10, <1>11, <1>12, <1>13, <1>14

\* A page of the log: the entries from its offset on.
LEMMA AuditPageIs ==
  ASSUME log \in Seq(Nat), NEW k \in Nat, NEW n,
         n = IF k + Page <= Len(log) THEN Page ELSE IF k < Len(log) THEN Len(log) - k ELSE 0
  PROVE  /\ n \in 0 .. Page /\ (k <= Len(log) => k + n <= Len(log)) /\ (n < Page => Len(log) <= k + n)
         /\ AuditPage(k) \in Seq(Nat) /\ Len(AuditPage(k)) = n
         /\ \A i \in 1 .. n : AuditPage(k)[i] = log[k + i]
<1>1. /\ n \in 0 .. Page /\ (k <= Len(log) => k + n <= Len(log)) /\ (n < Page => Len(log) <= k + n)
      /\ n \in Nat /\ (n # 0 => k + n <= Len(log)) /\ Len(log) \in Nat
  BY AdminPageAssumption
<1>2. PICK e : e = IF k + Page <= Len(log) THEN k + Page ELSE Len(log) OBVIOUS
<1>3. AuditPage(k) = SubSeq(log, k + 1, e) BY <1>2 DEF AuditPage
<1>4. CASE n # 0
  <2>1. e = k + n /\ e \in Nat BY <1>1, <1>2, <1>4, AdminPageAssumption
  <2>2. \A i \in (k + 1) .. e : log[i] \in Nat BY <1>1, <1>4, <2>1
  <2>3. SubSeq(log, k + 1, e) \in Seq(Nat) /\ Len(SubSeq(log, k + 1, e)) = n
    BY <1>1, <2>1, <2>2
  <2>4. \A i \in 1 .. n : SubSeq(log, k + 1, e)[i] = log[k + i]
    BY <1>1, <1>4, <2>1
  <2> QED BY <1>1, <1>3, <2>3, <2>4
<1>5. CASE n = 0
  <2>1. e < k + 1 /\ e \in Nat BY <1>1, <1>2, <1>5, AdminPageAssumption
  <2>2. SubSeq(log, k + 1, e) = <<>> BY <1>1, <2>1
  <2>3. /\ AuditPage(k) \in Seq(Nat) /\ Len(AuditPage(k)) = n
        /\ \A i \in 1 .. n : AuditPage(k)[i] = log[k + i]
    <3>1. AuditPage(k) = <<>> /\ 1 .. n = {} BY <1>3, <1>5, <2>2
    <3> QED BY <1>5, <3>1
  <2> QED BY <1>1, <2>3
<1> QED BY <1>4, <1>5

\* An entry comes in among those of a log l, and none goes.
Enters(l, m) ==
  /\ m \in Seq(Nat) /\ Len(m) = Len(l) + 1
  /\ \E p \in 1 .. Len(m) : /\ m[p] = Len(m)
                            /\ \A i \in 1 .. p - 1 : m[i] = l[i]
                            /\ \A i \in p + 1 .. Len(m) : m[i] = l[i - 1]

LEMMA EnterIs ==
  ASSUME log \in Seq(Nat), NEW n, Enter(n)
  PROVE  Enters(log, log') /\ log' # log
<1>1. PICK p \in 1 .. Len(log) + 1 :
        log' = SubSeq(log, 1, p - 1) \o <<Len(log) + 1>> \o SubSeq(log, p, Len(log))
  BY DEF Enter
<1>2. PICK a, b : a = SubSeq(log, 1, p - 1) /\ b = SubSeq(log, p, Len(log)) OBVIOUS
<1>3. /\ a \in Seq(Nat) /\ Len(a) = p - 1 /\ \A i \in 1 .. p - 1 : a[i] = log[i]
  BY <1>2
<1>4. /\ b \in Seq(Nat) /\ Len(b) = Len(log) - p + 1
      /\ \A i \in 1 .. Len(log) - p + 1 : b[i] = log[p + i - 1]
  BY <1>2
<1>5. PICK e : e = <<Len(log) + 1>> OBVIOUS
<1>6. e \in Seq(Nat) /\ Len(e) = 1 /\ e[1] = Len(log) + 1 /\ log' = (a \o e) \o b /\ Len(log) \in Nat
  BY <1>1, <1>2, <1>5
<1>7. PICK f : f = a \o e OBVIOUS
<1>8. /\ f \in Seq(Nat) /\ Len(f) = p
      /\ \A i \in 1 .. p : f[i] = IF i <= p - 1 THEN a[i] ELSE e[i - (p - 1)]
  <2>1. /\ f \in Seq(Nat) /\ Len(f) = Len(a) + Len(e)
        /\ \A i \in 1 .. Len(a) + Len(e) : f[i] = IF i <= Len(a) THEN a[i] ELSE e[i - Len(a)]
    BY <1>3, <1>6, <1>7, ConcatProperties
  <2>2. Len(a) + Len(e) = p BY <1>3, <1>6
  <2> QED BY <1>3, <2>1, <2>2
<1>9. /\ log' \in Seq(Nat) /\ Len(log') = Len(log) + 1
      /\ \A i \in 1 .. Len(log) + 1 : log'[i] = IF i <= p THEN f[i] ELSE b[i - p]
  <2>1. /\ log' \in Seq(Nat) /\ Len(log') = Len(f) + Len(b)
        /\ \A i \in 1 .. Len(f) + Len(b) : log'[i] = IF i <= Len(f) THEN f[i] ELSE b[i - Len(f)]
    <3>1. log' = f \o b BY <1>6, <1>7
    <3> QED BY <1>4, <1>8, <3>1, ConcatProperties
  <2>2. Len(f) + Len(b) = Len(log) + 1 BY <1>4, <1>6, <1>8
  <2> QED BY <1>8, <2>1, <2>2
<1>10. log'[p] = Len(log')
  <2>1. log'[p] = f[p] BY <1>6, <1>9
  <2>2. f[p] = e[1]
    <3>1. p \in 1 .. p /\ ~(p <= p - 1) /\ p - (p - 1) = 1 BY <1>6
    <3> QED BY <1>8, <3>1
  <2> QED BY <1>6, <1>9, <2>1, <2>2
<1>11. ASSUME NEW i \in 1 .. p - 1 PROVE log'[i] = log[i]
  <2>1. i \in 1 .. Len(log) + 1 /\ i \in 1 .. p /\ i <= p /\ i <= p - 1 BY <1>6
  <2> QED BY <1>3, <1>8, <1>9, <2>1
<1>12. ASSUME NEW i \in p + 1 .. Len(log') PROVE log'[i] = log[i - 1]
  <2>1. /\ i \in 1 .. Len(log) + 1 /\ ~(i <= p) /\ i - p \in 1 .. Len(log) - p + 1
        /\ p + (i - p) - 1 = i - 1
    BY <1>6, <1>9
  <2>2. log'[i] = b[i - p] BY <1>9, <2>1
  <2>3. b[i - p] = log[p + (i - p) - 1] BY <1>4, <2>1
  <2> QED BY <2>1, <2>2, <2>3
<1>13. p \in 1 .. Len(log') BY <1>6, <1>9
<1>14. Enters(log, log') BY <1>9, <1>10, <1>11, <1>12, <1>13 DEF Enters
<1>15. log' # log BY <1>6, <1>9
<1> QED BY <1>14, <1>15

\* A change of each kind.
LEMMA ChangeIs ==
  ASSUME AdminTypeOK, NEW c, AdminCall(c), c.kind \in Changes, Change(c)
  PROVE  /\ room' \in [Rooms -> Records] /\ named' \subseteq Bots
         /\ bot' \in [Tokens -> Bots \cup {None, Revoked}]
         /\ c.kind \in {"archive", "transfer"} =>
              /\ c.on \in Rooms /\ \A r \in Rooms \ {c.on} : room'[r] = room[r]
              /\ UNCHANGED <<named, bot>>
         /\ c.kind = "create" => UNCHANGED <<room, bot>>
         /\ c.kind = "issue" =>
              /\ UNCHANGED <<room, named>>
              /\ \E t \in Tokens : bot[t] = None /\ bot' = [bot EXCEPT ![t] = c.on]
         /\ c.kind = "revoke" => UNCHANGED <<room, named>> /\ bot' = [bot EXCEPT ![c.on] = Revoked]
<1>0. /\ room \in [Rooms -> Records] /\ named \subseteq Bots
      /\ bot \in [Tokens -> Bots \cup {None, Revoked}]
  BY DEF AdminTypeOK
<1>1. CASE c.kind = "archive"
  <2>1. room' = [room EXCEPT ![c.on].archived = c.arg] /\ UNCHANGED <<named, bot>> BY <1>1 DEF Change
  <2>2. c.on \in Rooms /\ c.arg \in BOOLEAN BY <1>1 DEF AdminCall
  <2>3. [room[c.on] EXCEPT !.archived = c.arg] \in Records BY <1>0, <2>2 DEF Records
  <2>4. room' \in [Rooms -> Records] BY <1>0, <2>1, <2>2, <2>3
  <2> QED BY <1>0, <1>1, <2>1, <2>2, <2>4
<1>2. CASE c.kind = "transfer"
  <2>1. room' = [room EXCEPT ![c.on].owner = c.arg] /\ UNCHANGED <<named, bot>> BY <1>2 DEF Change
  <2>2. c.on \in Rooms /\ c.arg \in Owners BY <1>2 DEF AdminCall
  <2>3. [room[c.on] EXCEPT !.owner = c.arg] \in Records BY <1>0, <2>2 DEF Records
  <2>4. room' \in [Rooms -> Records] BY <1>0, <2>1, <2>2, <2>3
  <2> QED BY <1>0, <1>2, <2>1, <2>2, <2>4
<1>3. CASE c.kind = "create" BY <1>0, <1>3 DEF Change
<1>4. CASE c.kind = "issue"
  <2>1. PICK t \in Tokens : bot[t] = None /\ bot' = [bot EXCEPT ![t] = c.on] BY <1>4 DEF Change
  <2>2. UNCHANGED <<room, named>> BY <1>4 DEF Change
  <2>3. c.on \in Bots BY <1>4 DEF AdminCall
  <2> QED BY <1>0, <1>4, <2>1, <2>2, <2>3
<1>5. CASE c.kind = "revoke"
  <2>1. bot' = [bot EXCEPT ![c.on] = Revoked] /\ UNCHANGED <<room, named>> BY <1>5 DEF Change
  <2> QED BY <1>0, <1>5, <2>1
<1> QED BY <1>1, <1>2, <1>3, <1>4, <1>5 DEF Changes

\* What serving a call does.
LEMMA ServeIs ==
  ASSUME AdminTypeOK, NEW c, Serve(c)
  PROVE  /\ c \in calls /\ AdminCall(c) /\ c.stage = "sent"
         /\ UNCHANGED <<table, detail, auditing, settings, busy, crossed, tangled, moved>>
         /\ \E d : /\ calls' = (calls \ {c}) \cup {d} /\ AdminCall(d) /\ About(d) = About(c)
                   /\ d.kind = c.kind /\ d.on = c.on /\ d.arg = c.arg /\ d.since = c.since
                   /\ \/ /\ d.stage = "failed" /\ c.kind \in {"revoke", "create"}
                         /\ UNCHANGED <<server, own>>
                      \/ /\ d.stage = "ok" /\ c.kind \in Changes /\ Change(c)
                         /\ Enter(c.since) /\ own' = own \cup About(c)
                         /\ c.kind \in {"archive", "transfer"} => d.got = room'[c.on]
                      \/ /\ d.stage = "ok" /\ c.kind \notin Changes /\ UNCHANGED <<server, own>>
                         /\ c.kind = "rooms" => d.got = room
                         /\ c.kind = "bots" => d.got = named
                         /\ c.kind = "tokens" => d.got = Of(c.on)
                         /\ c.kind \in AuditLoads => d.got = AuditPage(c.arg)
<1>1. c \in calls /\ AdminCall(c) /\ c.stage = "sent" BY DEF Serve, AdminTypeOK
<1>2. UNCHANGED <<table, detail, auditing, settings, busy, crossed, tangled, moved>> BY DEF Serve
<1>3. CASE \/ c.kind = "revoke" /\ bot[c.on] = Revoked
           \/ c.kind = "create" /\ named = Bots
  <2>1. PICK d : d = [c EXCEPT !.stage = "failed"] OBVIOUS
  <2>2. d = [c EXCEPT !.stage = "failed", !.got = c.got] BY <1>1, <2>1 DEF AdminCall
  <2>3. /\ calls' = (calls \ {c}) \cup {d} /\ UNCHANGED <<server, own>>
    BY <1>3, <2>1 DEF Serve
  <2>4. /\ d = [id |-> d.id, kind |-> d.kind, on |-> d.on, arg |-> d.arg,
                frees |-> d.frees, since |-> d.since, stage |-> d.stage, got |-> d.got]
        /\ d.kind = c.kind /\ d.on = c.on /\ d.arg = c.arg /\ d.since = c.since /\ d.stage = "failed"
        /\ About(d) = About(c)
    BY <1>1, <2>2 DEF AdminCall, About
  <2>5. AdminCall(d) BY <1>1, <2>4 DEF AdminCall
  <2>6. c.kind \in {"revoke", "create"} BY <1>3
  <2> QED BY <1>1, <1>2, <2>3, <2>4, <2>5, <2>6
<1>4. CASE ~ \/ c.kind = "revoke" /\ bot[c.on] = Revoked
             \/ c.kind = "create" /\ named = Bots
  <2>1. PICK g : g = Answered(c) OBVIOUS
  <2>2. PICK d : d = [c EXCEPT !.stage = "ok", !.got = g] OBVIOUS
  <2>3. /\ calls' = (calls \ {c}) \cup {d}
        /\ IF c.kind \in Changes
           THEN Change(c) /\ Enter(c.since) /\ own' = own \cup About(c)
           ELSE UNCHANGED <<server, own>>
    BY <1>4, <2>1, <2>2 DEF Serve
  <2>4. /\ d = [id |-> d.id, kind |-> d.kind, on |-> d.on, arg |-> d.arg,
                frees |-> d.frees, since |-> d.since, stage |-> d.stage, got |-> d.got]
        /\ d.kind = c.kind /\ d.on = c.on /\ d.arg = c.arg /\ d.since = c.since /\ d.stage = "ok" /\ d.got = g
        /\ About(d) = About(c)
    BY <1>1, <2>2 DEF AdminCall, About
  <2>5. CASE c.kind \in {"archive", "transfer"}
    <3>1. c.kind \in Changes BY <2>5 DEF Changes
    <3>2. g = room'[c.on] BY <2>1, <2>5 DEF Answered, AuditLoads
    <3>3. g \in Records BY <1>1, <2>3, <3>1, <3>2, ChangeIs, <2>5
    <3>4. AdminCall(d) BY <1>1, <2>4, <2>5, <3>3 DEF AdminCall, AuditLoads
    <3> QED BY <1>1, <1>2, <2>3, <2>4, <3>1, <3>2, <3>4
  <2>6. CASE c.kind \in {"create", "revoke"}
    <3>1. c.kind \in Changes /\ c.kind \notin {"archive", "transfer"} BY <2>6 DEF Changes
    <3>2. AdminCall(d) BY <1>1, <2>4, <2>6 DEF AdminCall, AuditLoads
    <3> QED BY <1>1, <1>2, <2>3, <2>4, <3>1, <3>2
  <2>7. CASE c.kind = "issue"
    <3>1. c.kind \in Changes /\ c.kind \notin {"archive", "transfer"} BY <2>7 DEF Changes
    <3>2. g = CHOOSE t \in Tokens : bot'[t] # bot[t] BY <2>1, <2>7 DEF Answered, AuditLoads
    <3>3. \E t \in Tokens : bot'[t] # bot[t]
      <4>1. PICK t \in Tokens : bot[t] = None /\ bot' = [bot EXCEPT ![t] = c.on]
        BY <1>1, <2>3, <2>7, <3>1, ChangeIs
      <4>2. c.on # None /\ bot \in [Tokens -> Bots \cup {None, Revoked}]
        BY <1>1, <2>7, AdminPageAssumption DEF AdminCall, AdminTypeOK
      <4> QED BY <4>1, <4>2
    <3>4. g \in Tokens BY <3>2, <3>3
    <3>5. AdminCall(d) BY <1>1, <2>4, <2>7, <3>4 DEF AdminCall, AuditLoads
    <3> QED BY <1>1, <1>2, <2>3, <2>4, <3>1, <3>5
  <2>8. CASE c.kind \in Lists
    <3>1. c.kind \notin Changes /\ c.kind \notin AuditLoads BY <2>8 DEF Changes, Lists, AuditLoads
    <3>2. /\ c.kind = "rooms" => g = room
          /\ c.kind = "bots" => g = named
          /\ c.kind = "tokens" => g = Of(c.on)
      BY <2>1 DEF Answered, AuditLoads
    <3>3. AdminCall(d) BY <1>1, <2>4, <2>8, <3>1, <3>2 DEF AdminCall, AdminTypeOK, Of, Lists, Changes
    <3> QED BY <1>1, <1>2, <2>3, <2>4, <3>1, <3>2, <3>3
  <2>9. CASE c.kind \in AuditLoads
    <3>1. c.kind \notin Changes /\ c.kind \notin Lists BY <2>9 DEF Changes, Lists, AuditLoads
    <3>2. g = AuditPage(c.arg)
      <4>1. c.kind \notin {"archive", "transfer", "issue", "rooms", "bots", "tokens"} BY <2>9 DEF AuditLoads
      <4> QED BY <2>1, <2>9, <4>1 DEF Answered
    <3>3. g \in Seq(Nat)
      <4>1. c.arg \in Nat /\ log \in Seq(Nat) BY <1>1, <2>9 DEF AdminCall, AdminTypeOK
      <4> QED BY <3>2, <4>1, AuditPageIs
    <3>4. AdminCall(d) BY <1>1, <2>4, <2>9, <3>3 DEF AdminCall, AuditLoads
    <3> QED BY <1>1, <1>2, <2>3, <2>4, <3>1, <3>2, <3>4 DEF Lists
  <2> QED BY <1>1, <2>5, <2>6, <2>7, <2>8, <2>9 DEF AdminCall, Changes
<1> QED BY <1>3, <1>4

\* A call is broken.
LEMMA BreakIs ==
  ASSUME AdminTypeOK, NEW c, Break(c)
  PROVE  /\ c \in calls /\ AdminCall(c) /\ crossed' = crossed \cup About(c)
         /\ UNCHANGED <<server, table, detail, auditing, settings, busy, own, tangled, moved>>
         /\ \E d : /\ calls' = (calls \ {c}) \cup {d} /\ AdminCall(d) /\ About(d) = About(c)
                   /\ d.kind = c.kind /\ d.on = c.on /\ d.arg = c.arg /\ d.since = c.since /\ d.stage = "failed"
<1>1. c \in calls /\ AdminCall(c) BY DEF Break, AdminTypeOK
<1>2. PICK d : d = [c EXCEPT !.stage = "failed", !.got = None] OBVIOUS
<1>3. /\ d = [id |-> d.id, kind |-> d.kind, on |-> d.on, arg |-> d.arg,
              frees |-> d.frees, since |-> d.since, stage |-> d.stage, got |-> d.got]
      /\ d.kind = c.kind /\ d.on = c.on /\ d.arg = c.arg /\ d.since = c.since /\ d.stage = "failed"
      /\ About(d) = About(c)
  BY <1>1, <1>2 DEF AdminCall, About
<1>4. AdminCall(d) BY <1>1, <1>3 DEF AdminCall
<1> QED BY <1>1, <1>2, <1>3, <1>4 DEF Break

\* A bot, or a token, that was made or revoked is listed next.
LEMMA BotCreatedIs ==
  ASSUME AdminTypeOK, NEW c, BotCreated(c)
  PROVE  /\ c \in calls /\ c.kind = "create" /\ c.stage # "sent"
         /\ UNCHANGED <<server, table, detail, auditing, settings, busy, own, moved>>
         /\ c.stage = "ok" =>
              /\ Sends(calls \ {c})
              /\ \E a \in calls' : a.kind = "bots" /\ a.stage = "sent"
         /\ c.stage # "ok" => calls' = calls \ {c} /\ UNCHANGED <<crossed, tangled>>
<1>1. ASSUME c.stage = "ok"
      PROVE  Sends(calls \ {c}) /\ \E a \in calls' : a.kind = "bots" /\ a.stage = "sent"
  <2>1. PICK a : a = Ask("bots", None, None, FALSE) OBVIOUS
  <2>2. AdminCall(a) /\ a.kind = "bots" /\ a.stage = "sent" /\ a.since = Len(log)
    <3>1. AdminCall(Ask("bots", None, None, FALSE)) BY AskType DEF Changes, Lists, AuditLoads, AdminTypeOK
    <3>2. PICK k, z : k = "bots" /\ z = FALSE OBVIOUS
    <3>3. a = Ask(k, None, None, z) BY <2>1, <3>2
    <3>4. a.kind = k /\ a.stage = "sent" /\ a.since = Len(log) BY <3>3, AskIs
    <3> QED BY <2>1, <3>1, <3>2, <3>4
  <2>3. Send({a}, calls \ {c}) BY <1>1, <2>1 DEF BotCreated
  <2>4. Asked(a) BY <2>2 DEF Asked
  <2>5. a \in calls' BY <2>3 DEF Send
  <2> QED BY <2>2, <2>3, <2>4, <2>5, SendOne
<1> QED BY <1>1 DEF BotCreated, Take

\* The same for a token.
LEMMA TokenChangedIs ==
  ASSUME AdminTypeOK, NEW c, TokenChanged(c), NEW b, b = IF c.kind = "issue" THEN c.on ELSE c.arg
  PROVE  /\ c \in calls /\ c.kind \in {"issue", "revoke"} /\ c.stage # "sent" /\ b \in Bots
         /\ About(c) = {b}
         /\ UNCHANGED <<server, table, tab, expanded, picking, auditing, settings, own>>
         /\ busy' \in {busy, None}
         /\ created' = IF c.kind = "issue" /\ c.stage = "ok" THEN [token |-> c.got, bot |-> b] ELSE created
         /\ moved' = (moved \/ (c.kind = "issue" /\ expanded # b))
         /\ c.stage = "ok" =>
              /\ Sends(calls \ {c})
              /\ \E a \in calls' : a.kind = "tokens" /\ a.on = b /\ a.stage = "sent"
         /\ c.stage # "ok" => calls' = calls \ {c} /\ UNCHANGED <<crossed, tangled>>
<1>1. /\ c \in calls /\ c.kind \in {"issue", "revoke"} /\ c.stage # "sent" /\ AdminCall(c) /\ b \in Bots
  BY DEF TokenChanged, Take, AdminTypeOK, AdminCall
<1>2. ASSUME c.stage = "ok"
      PROVE  /\ Sends(calls \ {c})
             /\ \E a \in calls' : a.kind = "tokens" /\ a.on = b /\ a.stage = "sent"
  <2>1. PICK a : a = Ask("tokens", b, None, TRUE) OBVIOUS
  <2>2. AdminCall(a) /\ a.kind = "tokens" /\ a.on = b /\ a.stage = "sent" /\ a.since = Len(log)
    <3>1. AdminCall(Ask("tokens", b, None, TRUE)) BY <1>1, AskType DEF Changes, Lists, AuditLoads, AdminTypeOK
    <3>2. PICK k, z : k = "tokens" /\ z = TRUE OBVIOUS
    <3>3. a = Ask(k, b, None, z) BY <2>1, <3>2
    <3>4. a.kind = k /\ a.on = b /\ a.stage = "sent" /\ a.since = Len(log) BY <3>3, AskIs
    <3> QED BY <2>1, <3>1, <3>2, <3>4
  <2>3. Send({a}, calls \ {c}) BY <1>2, <2>1 DEF TokenChanged
  <2>4. Asked(a) BY <2>2 DEF Asked
  <2>5. a \in calls' BY <2>3 DEF Send
  <2> QED BY <2>2, <2>3, <2>4, <2>5, SendOne
<1>3. About(c) = {b} BY <1>1, AboutIs
<1> QED BY <1>1, <1>2, <1>3 DEF TokenChanged, Free

\* What a step of the page is for the settings.
LEMMA SettingsMoves == AdminNext \/ UNCHANGED adminVars => SettingsMove
<1> SUFFICES ASSUME AdminNext \/ UNCHANGED adminVars, ~UNCHANGED settings PROVE SettingsMove
  BY DEF SettingsMove
<1>1. CASE UNCHANGED adminVars BY <1>1 DEF adminVars
<1>2. ASSUME NEW t, SetTab(t) PROVE SettingsMove BY <1>2 DEF SetTab, SettingsMove
<1>3. CASE SettingsStep BY <1>3 DEF SettingsMove
<1>4. ASSUME NEW r, ToggleArchive(r) \/ ToggleTransfer(r) \/ TransferOwnership(r) PROVE FALSE
  BY <1>4 DEF ToggleArchive, ToggleTransfer, TransferOwnership, Start
<1>5. ASSUME NEW b, ToggleExpand(b) PROVE FALSE BY <1>5 DEF ToggleExpand
<1>6. CASE CreateBot \/ IssueToken \/ LoadMore \/ OtherAdmin
  BY <1>6 DEF CreateBot, IssueToken, LoadMore, OtherAdmin, Start
<1>7. ASSUME NEW t, RevokeToken(t) PROVE FALSE BY <1>7 DEF RevokeToken, Start
<1>8. ASSUME NEW c, Serve(c) \/ Break(c) PROVE FALSE BY <1>8 DEF Serve, Break
<1>9. ASSUME NEW c, Answer(c) PROVE FALSE
  BY <1>9 DEF Answer, Listed, Patched, BotCreated, TokenChanged, AuditLoaded
<1> QED BY <1>1, <1>2, <1>3, <1>4, <1>5, <1>6, <1>7, <1>8, <1>9 DEF AdminNext

\* The page starts well typed.
LEMMA AdminTypeInit == AdminInit => AdminTypeOK
<1> SUFFICES ASSUME AdminInit PROVE AdminTypeOK
  OBVIOUS
<1>1. SettingsTypeOK BY SettingsTypeInit DEF AdminInit
<1>2. room \in [Rooms -> Records] BY DEF AdminInit, Records, Owners
<1>3. named \subseteq Bots /\ bot \in [Tokens -> Bots \cup {None, Revoked}] BY DEF AdminInit
<1>4. audit \in Seq(Nat) /\ log \in Seq(Nat) BY AdminPageAssumption, IsASeq DEF AdminInit
<1> QED BY <1>1, <1>2, <1>3, <1>4 DEF AdminInit, AdminTypeOK

\* Every variable keeps its type.
LEMMA AdminTypeStep ==
  ASSUME AdminTypeOK, OnRows, TokensHome, AdminNext \/ UNCHANGED adminVars
  PROVE  AdminTypeOK'
<1>0. SettingsTypeOK' BY SettingsMoves, SettingsTypeStep DEF AdminTypeOK
<1> USE DEF server, table, detail, auditing, history
<1>1. CASE UNCHANGED <<server, table, detail, auditing, busy, calls, history>>
  BY <1>0, <1>1 DEF AdminTypeOK, AdminCall
<1>2. CASE Clicks
  <2>1. /\ Sends(calls) /\ UNCHANGED <<room, named, bot, log, rows, listed, tokensOf, audit, hasMore, from, picking, own, moved>>
        /\ busy' \in Rooms \cup Bots \cup Tokens \cup {None}
        /\ tab' \in {"users", "rooms", "bots", "audit", "settings"}
        /\ expanded' \in Bots \cup {None} /\ created' \in {created, None}
    BY <1>2, ClicksSend DEF AdminTypeOK
  <2>2. /\ \A c \in calls' : AdminCall(c)
        /\ crossed' \subseteq Rooms \cup Bots \cup {"bots"} /\ tangled' \in BOOLEAN
    BY <2>1, SendsType
  <2>3. \A c \in calls' : AdminCall(c)' BY <2>2 DEF AdminCall
  <2> QED BY <1>0, <2>1, <2>2, <2>3 DEF AdminTypeOK
<1>3. ASSUME NEW r \in Rooms, ToggleTransfer(r) PROVE AdminTypeOK'
  BY <1>0, <1>3 DEF AdminTypeOK, ToggleTransfer, AdminCall
<1>4. ASSUME NEW c, Serve(c) PROVE AdminTypeOK'
  <2>1. /\ c \in calls /\ AdminCall(c)
        /\ UNCHANGED <<table, detail, auditing, settings, busy, crossed, tangled, moved>>
    BY <1>4, ServeIs
  <2>2. PICK d : /\ calls' = (calls \ {c}) \cup {d} /\ AdminCall(d)
                 /\ \/ UNCHANGED <<server, own>>
                    \/ c.kind \in Changes /\ Change(c) /\ Enter(c.since) /\ own' = own \cup About(c)
    BY <1>4, ServeIs
  <2>3. \A x \in calls' : AdminCall(x)' BY <2>2 DEF AdminTypeOK, AdminCall
  <2>4. CASE UNCHANGED <<server, own>> BY <1>0, <2>1, <2>3, <2>4 DEF AdminTypeOK
  <2>5. CASE c.kind \in Changes /\ Change(c) /\ Enter(c.since) /\ own' = own \cup About(c)
    <3>1. /\ room' \in [Rooms -> Records] /\ named' \subseteq Bots
          /\ bot' \in [Tokens -> Bots \cup {None, Revoked}]
      BY <2>1, <2>5, ChangeIs
    <3>2. own' \subseteq Rooms \cup Bots \cup {"bots"} BY <2>1, <2>5, AboutIs DEF AdminTypeOK
    <3>3. log' \in Seq(Nat) BY <2>5, EnterIs DEF AdminTypeOK, Enters
    <3> QED BY <1>0, <2>1, <2>3, <2>5, <3>1, <3>2, <3>3 DEF AdminTypeOK
  <2> QED BY <2>2, <2>4, <2>5
<1>5. ASSUME NEW c, Break(c) PROVE AdminTypeOK'
  <2>1. /\ AdminCall(c) /\ crossed' = crossed \cup About(c)
        /\ UNCHANGED <<server, table, detail, auditing, busy, own, tangled, moved>>
    BY <1>5, BreakIs
  <2>2. \A x \in calls' : AdminCall(x) BY <1>5, BreakIs DEF AdminTypeOK
  <2>3. \A x \in calls' : AdminCall(x)' BY <2>2 DEF AdminCall
  <2>4. crossed' \subseteq Rooms \cup Bots \cup {"bots"} BY <2>1, AboutIs DEF AdminTypeOK
  <2> QED BY <1>0, <2>1, <2>3, <2>4 DEF AdminTypeOK
<1>6. CASE OtherAdmin
  <2>1. UNCHANGED <<table, detail, auditing, busy, calls, crossed, tangled, moved>> /\ log' \in Seq(Nat)
    BY <1>6, EnterIs DEF OtherAdmin, AdminTypeOK, Enters
  <2>2. /\ room' \in [Rooms -> Records] /\ named' \subseteq Bots /\ bot' = bot /\ own' \subseteq own
    <3>1. ASSUME NEW r \in Rooms, room' = [room EXCEPT ![r].archived = ~@] PROVE room' \in [Rooms -> Records]
      <4>1. room \in [Rooms -> Records] BY DEF AdminTypeOK
      <4>2. room' = [room EXCEPT ![r] = [room[r] EXCEPT !.archived = ~room[r].archived]] BY <3>1, <4>1
      <4>3. [room[r] EXCEPT !.archived = ~room[r].archived] \in Records BY <4>1 DEF Records
      <4> QED BY <4>1, <4>2, <4>3
    <3> QED BY <1>6, <3>1 DEF OtherAdmin, AdminTypeOK
  <2>3. \A x \in calls' : AdminCall(x)' BY <2>1 DEF AdminTypeOK, AdminCall
  <2> QED BY <1>0, <2>1, <2>2, <2>3 DEF AdminTypeOK
<1>7. ASSUME NEW c, Listed(c) \/ Patched(c) \/ AuditLoaded(c) PROVE AdminTypeOK'
  <2>1. c \in calls /\ AdminCall(c) /\ calls' = calls \ {c}
    BY <1>7 DEF Listed, Patched, AuditLoaded, Take, AdminTypeOK
  <2>2. \A x \in calls' : AdminCall(x)' BY <2>1 DEF AdminTypeOK, AdminCall
  <2>3. /\ c.stage = "ok" =>
             /\ c.kind \in {"archive", "transfer"} => c.got \in Records /\ c.on \in Rooms
             /\ c.kind = "rooms" => c.got \in [Rooms -> Records]
             /\ c.kind = "bots" => c.got \subseteq Bots
             /\ c.kind = "tokens" => c.got \subseteq Tokens /\ c.on \in Bots
             /\ c.kind \in AuditLoads => c.got \in Seq(Nat)
    BY <2>1 DEF AdminCall
  <2>4. CASE Listed(c)
    <3>1. UNCHANGED <<server, detail, auditing, history>> /\ busy' \in {busy, None}
      BY <2>4 DEF Listed, Free
    <3>2. rows' \in [Rooms -> Records \cup {None}] /\ listed' \subseteq Bots
      BY <2>3, <2>4 DEF Listed, AdminTypeOK
    <3>3. tokensOf' \in [Bots -> {None} \cup SUBSET Tokens] BY <2>3, <2>4 DEF Listed, AdminTypeOK
    <3> QED BY <1>0, <2>2, <3>1, <3>2, <3>3 DEF AdminTypeOK
  <2>5. CASE Patched(c)
    <3>1. /\ UNCHANGED <<server, listed, tokensOf, tab, expanded, created, auditing, history>>
          /\ busy' \in {busy, None} /\ picking' \in {picking, None}
      BY <2>5 DEF Patched, Free
    <3>2. rows' \in [Rooms -> Records \cup {None}]
      <4>1. c.kind \in {"archive", "transfer"} BY <2>5 DEF Patched, Take
      <4> QED BY <2>3, <2>5, <4>1 DEF Patched, AdminTypeOK
    <3> QED BY <1>0, <2>2, <3>1, <3>2 DEF AdminTypeOK
  <2>6. CASE AuditLoaded(c)
    <3>1. UNCHANGED <<server, table, detail, busy, history>> BY <2>6 DEF AuditLoaded
    <3>2. c.kind \in AuditLoads BY <2>6 DEF AuditLoaded, Take
    <3>3. audit' \in Seq(Nat) /\ hasMore' \in BOOLEAN /\ from' \in Nat
      <4>1. audit \in Seq(Nat) /\ hasMore \in BOOLEAN /\ from \in Nat /\ c.since \in Nat
        BY <2>1 DEF AdminTypeOK, AdminCall
      <4>2. c.stage = "ok" => audit \o c.got \in Seq(Nat) BY <2>3, <3>2, <4>1
      <4> QED BY <2>3, <2>6, <3>2, <4>1, <4>2 DEF AuditLoaded
    <3> QED BY <1>0, <2>2, <3>1, <3>3 DEF AdminTypeOK
  <2> QED BY <1>7, <2>4, <2>5, <2>6
<1>8. ASSUME NEW c, BotCreated(c) PROVE AdminTypeOK'
  <2>1. UNCHANGED <<server, table, detail, auditing, busy, own, moved>> BY <1>8, BotCreatedIs
  <2>2. /\ \A x \in calls' : AdminCall(x)
        /\ crossed' \subseteq Rooms \cup Bots \cup {"bots"} /\ tangled' \in BOOLEAN
    <3>1. CASE Sends(calls \ {c}) BY <3>1, SendsType
    <3>2. CASE calls' = calls \ {c} /\ UNCHANGED <<crossed, tangled>> BY <3>2 DEF AdminTypeOK
    <3> QED BY <1>8, <3>1, <3>2, BotCreatedIs
  <2>3. \A x \in calls' : AdminCall(x)' BY <2>2 DEF AdminCall
  <2> QED BY <1>0, <2>1, <2>2, <2>3 DEF AdminTypeOK
<1>9. ASSUME NEW c, TokenChanged(c) PROVE AdminTypeOK'
  <2>1. PICK b : b = IF c.kind = "issue" THEN c.on ELSE c.arg OBVIOUS
  <2>2. /\ c \in calls /\ c.kind \in {"issue", "revoke"} /\ b \in Bots
        /\ UNCHANGED <<server, table, tab, expanded, picking, auditing, own>> /\ busy' \in {busy, None}
        /\ created' = IF c.kind = "issue" /\ c.stage = "ok" THEN [token |-> c.got, bot |-> b] ELSE created
        /\ moved' = (moved \/ (c.kind = "issue" /\ expanded # b))
    BY <1>9, <2>1, TokenChangedIs
  <2>3. /\ \A x \in calls' : AdminCall(x)
        /\ crossed' \subseteq Rooms \cup Bots \cup {"bots"} /\ tangled' \in BOOLEAN
    <3>1. CASE Sends(calls \ {c}) BY <3>1, SendsType
    <3>2. CASE calls' = calls \ {c} /\ UNCHANGED <<crossed, tangled>> BY <3>2 DEF AdminTypeOK
    <3> QED BY <1>9, <2>1, <3>1, <3>2, TokenChangedIs
  <2>4. \A x \in calls' : AdminCall(x)' BY <2>3 DEF AdminCall
  <2>5. created' \in [token : Tokens, bot : Bots] \cup {None}
    <3>1. c.kind = "issue" /\ c.stage = "ok" => c.got \in Tokens BY <2>2 DEF AdminTypeOK, AdminCall
    <3> QED BY <2>2, <3>1 DEF AdminTypeOK
  <2> QED BY <1>0, <2>2, <2>3, <2>4, <2>5 DEF AdminTypeOK
<1> QED BY <1>1, <1>2, <1>3, <1>4, <1>5, <1>6, <1>7, <1>8, <1>9 DEF AdminNext, Clicks, Answer, adminVars

(***************************************************************************)
(* The tables: what is under way                                           *)
(***************************************************************************)

\* What sending does to the calls under way.
LEMMA SendsIs ==
  ASSUME NEW rest, Sends(rest)
  PROVE  /\ rest \subseteq calls' /\ crossed \subseteq crossed' /\ (tangled => tangled')
         /\ \A c \in calls' : c \in rest \/ Asked(c)
         /\ \A c \in calls' : c.stage # "sent" => c \in rest
         /\ \A c \in calls', d \in rest : c \notin rest => About(c) \cap About(d) \subseteq crossed'
         /\ \A c, d \in calls' : c \notin rest /\ d \notin rest => c = d
         /\ \A c \in calls', d \in rest :
              c \notin rest /\ {c.kind, d.kind} \subseteq AuditLoads => tangled'
<1>1. PICK S : Send(S, rest) /\ (\A a \in S : Asked(a)) /\ \A a, b \in S : a = b BY DEF Sends
<1>2. /\ calls' = rest \cup S
      /\ crossed' = crossed \cup UNION {About(c) \cap About(d) : c \in S, d \in rest}
      /\ tangled' = (tangled \/ \E c \in S, d \in rest : {c.kind, d.kind} \subseteq AuditLoads)
  BY <1>1 DEF Send
<1>3. \A c \in S : Asked(c) /\ c.stage = "sent" BY <1>1 DEF Asked
<1> DEFINE X == {About(c) \cap About(d) : c \in S, d \in rest}
<1>10. crossed' = crossed \cup UNION X BY <1>2
<1>11. \A c \in S, d \in rest : About(c) \cap About(d) \in X OBVIOUS
<1>5. \A c \in S, d \in rest : {c.kind, d.kind} \subseteq AuditLoads => tangled' BY <1>2, Zenon
<1>9. tangled => tangled' BY <1>2, Zenon
<1> HIDE DEF X
<1>4. ASSUME NEW c \in S, NEW d \in rest PROVE About(c) \cap About(d) \subseteq crossed'
  <2>1. PICK A : A = About(c) \cap About(d) OBVIOUS
  <2> QED BY <1>10, <1>11, <2>1
<1>6. rest \subseteq calls' /\ crossed \subseteq crossed' BY <1>2, <1>10
<1>7. \A c \in calls' : c \in rest \/ c \in S BY <1>2
<1>8. \A c, d \in calls' : c \notin rest /\ d \notin rest => c = d BY <1>1, <1>7
<1> QED BY <1>3, <1>4, <1>5, <1>6, <1>7, <1>8, <1>9

\* What calls are about does not change.
LEMMA AboutStays == \A c : About(c)' = About(c)
BY DEF About

\* OneAbout and ListsCome as calls are sent,
LEMMA OneSends ==
  ASSUME OneAbout, ListsCome, NEW rest, rest \subseteq calls, Sends(rest)
  PROVE  OneAbout' /\ ListsCome'
<1>1. OneAbout'
  <2> SUFFICES ASSUME NEW c \in calls', NEW d \in calls', NEW x \in (About(c) \cap About(d)) \ crossed'
               PROVE  c = d
    BY AboutStays DEF OneAbout
  <2>1. CASE c \in rest /\ d \in rest BY <2>1, SendsIs DEF OneAbout
  <2>2. CASE c \notin rest /\ d \in rest BY <2>2, SendsIs
  <2>3. CASE c \in rest /\ d \notin rest BY <2>3, SendsIs
  <2>4. CASE c \notin rest /\ d \notin rest BY <2>4, SendsIs
  <2> QED BY <2>1, <2>2, <2>3, <2>4
<1>2. ListsCome'
  <2> SUFFICES ASSUME NEW c \in calls', c.kind \in Lists, c.stage = "failed"
               PROVE  About(c) \subseteq crossed'
    BY AboutStays DEF ListsCome
  <2>1. c \in calls BY SendsIs
  <2> QED BY <2>1, SendsIs DEF ListsCome
<1> QED BY <1>1, <1>2

\* as one goes on,
LEMMA OneGoesOn ==
  ASSUME OneAbout, ListsCome, NEW c \in calls, NEW d, calls' = (calls \ {c}) \cup {d},
         About(d) = About(c), crossed \subseteq crossed',
         d.kind \in Lists /\ d.stage = "failed" => About(d) \subseteq crossed'
  PROVE  OneAbout' /\ ListsCome'
<1>1. OneAbout'
  <2> SUFFICES ASSUME NEW a \in calls', NEW b \in calls', NEW x \in (About(a) \cap About(b)) \ crossed'
               PROVE  a = b
    BY AboutStays DEF OneAbout
  <2>1. CASE a # d /\ b # d BY <2>1 DEF OneAbout
  <2>2. CASE a = d /\ b # d BY <2>2 DEF OneAbout
  <2>3. CASE a # d /\ b = d BY <2>3 DEF OneAbout
  <2> QED BY <2>1, <2>2, <2>3
<1>2. ListsCome'
  <2> SUFFICES ASSUME NEW a \in calls', a.kind \in Lists, a.stage = "failed"
               PROVE  About(a) \subseteq crossed'
    BY AboutStays DEF ListsCome
  <2> QED BY DEF ListsCome
<1> QED BY <1>1, <1>2

\* and as one is taken off.
LEMMA OneEnds ==
  ASSUME OneAbout, ListsCome, calls' \subseteq calls, crossed \subseteq crossed'
  PROVE  OneAbout' /\ ListsCome'
<1>1. OneAbout' BY AboutStays DEF OneAbout
<1>2. ListsCome' BY AboutStays DEF ListsCome
<1> QED BY <1>1, <1>2

\* Of calls about the same, one is under way, whatever the page does.
LEMMA OneStep ==
  ASSUME AdminTypeOK, OneAbout, ListsCome, OnRows, TokensHome, AdminNext \/ UNCHANGED adminVars
  PROVE  OneAbout' /\ ListsCome'
<1> USE DEF history
<1>1. CASE Clicks BY <1>1, ClicksSend, OneSends
<1>2. CASE UNCHANGED <<calls, history>> BY <1>2, OneEnds
<1>3. ASSUME NEW r, ToggleTransfer(r) PROVE UNCHANGED <<calls, history>> BY <1>3 DEF ToggleTransfer
<1>4. ASSUME NEW c, Serve(c) PROVE OneAbout' /\ ListsCome'
  <2>1. PICK d : /\ calls' = (calls \ {c}) \cup {d} /\ About(d) = About(c) /\ d.kind = c.kind
                 /\ d.stage = "failed" => c.kind \in {"revoke", "create"}
    BY <1>4, ServeIs
  <2>2. d.kind \in Lists => d.stage # "failed" BY <2>1 DEF Lists
  <2>3. c \in calls /\ crossed' = crossed BY <1>4, ServeIs
  <2> QED BY <2>1, <2>2, <2>3, OneGoesOn
<1>5. ASSUME NEW c, Break(c) PROVE OneAbout' /\ ListsCome'
  <2>1. PICK d : calls' = (calls \ {c}) \cup {d} /\ About(d) = About(c) BY <1>5, BreakIs
  <2>2. c \in calls /\ crossed' = crossed \cup About(c) BY <1>5, BreakIs
  <2> QED BY <2>1, <2>2, OneGoesOn
<1>6. CASE OtherAdmin BY <1>6, OneEnds DEF OtherAdmin
<1>7. ASSUME NEW c, Listed(c) \/ Patched(c) \/ AuditLoaded(c) PROVE OneAbout' /\ ListsCome'
  <2>1. calls' \subseteq calls /\ crossed' = crossed BY <1>7 DEF Listed, Patched, AuditLoaded
  <2> QED BY <2>1, OneEnds
<1>8. ASSUME NEW c, BotCreated(c) PROVE OneAbout' /\ ListsCome'
  <2>1. CASE Sends(calls \ {c}) BY <2>1, OneSends
  <2>2. CASE calls' = calls \ {c} /\ UNCHANGED <<crossed, tangled>> BY <2>2, OneEnds
  <2> QED BY <1>8, <2>1, <2>2, BotCreatedIs
<1>9. ASSUME NEW c, TokenChanged(c) PROVE OneAbout' /\ ListsCome'
  <2>1. CASE Sends(calls \ {c}) BY <2>1, OneSends
  <2>2. CASE calls' = calls \ {c} /\ UNCHANGED <<crossed, tangled>> BY <2>2, OneEnds
  <2> QED BY <1>9, <2>1, <2>2, TokenChangedIs
<1> QED BY <1>1, <1>2, <1>3, <1>4, <1>5, <1>6, <1>7, <1>8, <1>9 DEF AdminNext, Clicks, Answer, adminVars

\* What the page acts on stays listed.
LEMMA OnRowsStep ==
  ASSUME AdminTypeOK, OnRows, TokensHome, AdminNext \/ UNCHANGED adminVars
  PROVE  OnRows'
<1> USE DEF table, detail
<1>0. ASSUME \A r \in Rooms : rows[r] # None => rows'[r] # None, picking' \in {picking, None},
             \A c \in calls' : c.kind \in {"archive", "transfer"} =>
               \/ \E d \in calls : d.kind = c.kind /\ d.on = c.on
               \/ rows[c.on] # None /\ c.on \in Rooms
      PROVE  OnRows'
  <2>1. picking' # None => picking' \in Rooms BY <1>0 DEF AdminTypeOK
  <2>2. \A d \in calls : d.kind \in {"archive", "transfer"} => d.on \in Rooms BY DEF AdminTypeOK, AdminCall
  <2> QED BY <1>0, <2>1, <2>2 DEF OnRows
<1>00. ASSUME NEW rest, rest \subseteq calls, Sends(rest)
       PROVE  \A c \in calls' : c.kind \in {"archive", "transfer"} =>
                \/ \E d \in calls : d.kind = c.kind /\ d.on = c.on
                \/ rows[c.on] # None /\ c.on \in Rooms
  BY <1>00, SendsIs DEF Asked, AdminCall
<1>1. CASE Clicks
  <2>1. Sends(calls) /\ UNCHANGED <<rows, picking>> BY <1>1, ClicksSend
  <2> QED BY <1>0, <1>00, <2>1
<1>2. CASE UNCHANGED <<rows, picking, calls>> BY <1>0, <1>2
<1>3. ASSUME NEW r \in Rooms, ToggleTransfer(r) PROVE OnRows' BY <1>3 DEF ToggleTransfer, OnRows
<1>4. ASSUME NEW c, Serve(c) PROVE OnRows'
  <2>1. /\ c \in calls /\ UNCHANGED <<rows, picking>>
        /\ \E d : calls' = (calls \ {c}) \cup {d} /\ d.kind = c.kind /\ d.on = c.on
    BY <1>4, ServeIs
  <2> QED BY <1>0, <2>1
<1>5. ASSUME NEW c, Break(c) PROVE OnRows'
  <2>1. /\ c \in calls /\ UNCHANGED <<rows, picking>>
        /\ \E d : calls' = (calls \ {c}) \cup {d} /\ d.kind = c.kind /\ d.on = c.on
    BY <1>5, BreakIs
  <2> QED BY <1>0, <2>1
<1>6. CASE OtherAdmin BY <1>2, <1>6 DEF OtherAdmin
<1>7. ASSUME NEW c, Listed(c) \/ Patched(c) \/ AuditLoaded(c) PROVE OnRows'
  <2>1. calls' \subseteq calls /\ picking' \in {picking, None} /\ c \in calls
    BY <1>7 DEF Listed, Patched, AuditLoaded, Take
  <2>2. \A r \in Rooms : rows[r] # None => rows'[r] # None
    <3>1. /\ AdminCall(c) /\ rows \in [Rooms -> Records \cup {None}] /\ None \notin Records
      BY <2>1, AdminPageAssumption DEF AdminTypeOK
    <3>2. CASE Listed(c) BY <3>1, <3>2 DEF Listed, AdminCall
    <3>3. CASE Patched(c) BY <3>1, <3>3 DEF Patched, Take, AdminCall
    <3>4. CASE AuditLoaded(c) BY <3>4 DEF AuditLoaded
    <3> QED BY <1>7, <3>2, <3>3, <3>4
  <2> QED BY <1>0, <2>1, <2>2
<1>8. ASSUME NEW c, BotCreated(c) PROVE OnRows'
  <2>1. UNCHANGED <<rows, picking>> BY <1>8, BotCreatedIs
  <2>2. CASE Sends(calls \ {c}) BY <1>0, <1>00, <2>1, <2>2
  <2>3. CASE calls' = calls \ {c} BY <1>0, <2>1, <2>3
  <2> QED BY <1>8, <2>2, <2>3, BotCreatedIs
<1>9. ASSUME NEW c, TokenChanged(c) PROVE OnRows'
  <2>1. UNCHANGED <<rows, picking>> BY <1>9, TokenChangedIs
  <2>2. CASE Sends(calls \ {c}) BY <1>0, <1>00, <2>1, <2>2
  <2>3. CASE calls' = calls \ {c} BY <1>0, <2>1, <2>3
  <2> QED BY <1>9, <2>2, <2>3, TokenChangedIs
<1> QED BY <1>1, <1>2, <1>3, <1>4, <1>5, <1>6, <1>7, <1>8, <1>9 DEF AdminNext, Clicks, Answer, adminVars

\* A token found with a bot stays with it, until it is revoked,
LEMMA BotMoves ==
  ASSUME AdminTypeOK, OnRows, TokensHome, AdminNext \/ UNCHANGED adminVars
  PROVE  \A t \in Tokens, b \in Bots : bot[t] \in {b, Revoked} => bot'[t] \in {b, Revoked}
<1>0. CASE UNCHANGED bot BY <1>0
<1>1. ASSUME NEW c, Serve(c), ~UNCHANGED bot
      PROVE  \A t \in Tokens, b \in Bots : bot[t] \in {b, Revoked} => bot'[t] \in {b, Revoked}
  <2>1. AdminCall(c) /\ c.kind \in Changes /\ Change(c)
    BY <1>1, ServeIs DEF server
  <2>2. bot \in [Tokens -> Bots \cup {None, Revoked}] BY DEF AdminTypeOK
  <2>3. CASE c.kind \in {"archive", "transfer", "create"} BY <1>1, <2>1, <2>3, ChangeIs
  <2>4. CASE c.kind = "issue"
    <3>1. PICK t \in Tokens : bot[t] = None /\ bot' = [bot EXCEPT ![t] = c.on]
      BY <2>1, <2>4, ChangeIs
    <3>2. None \notin Bots \cup {Revoked} BY AdminPageAssumption
    <3> QED BY <2>2, <3>1, <3>2
  <2>5. CASE c.kind = "revoke" BY <2>1, <2>2, <2>5, ChangeIs
  <2> QED BY <2>1, <2>3, <2>4, <2>5 DEF Changes
<1>2. CASE Clicks BY <1>0, <1>2, ClicksSend DEF server
<1>3. ASSUME NEW r, ToggleTransfer(r) PROVE UNCHANGED bot BY <1>3 DEF ToggleTransfer, server
<1>4. ASSUME NEW c, Break(c) \/ Answer(c) PROVE UNCHANGED bot
  BY <1>4 DEF Break, Answer, Listed, Patched, BotCreated, TokenChanged, AuditLoaded, server
<1>5. CASE OtherAdmin BY <1>0, <1>5 DEF OtherAdmin
<1>6. CASE UNCHANGED server BY <1>0, <1>6 DEF server
<1> QED BY <1>0, <1>1, <1>2, <1>3, <1>4, <1>5, <1>6 DEF AdminNext, Clicks, adminVars

\* so the page finds it where it listed it.
LEMMA TokensHomeStep ==
  ASSUME AdminTypeOK, OnRows, TokensHome, AdminNext \/ UNCHANGED adminVars
  PROVE  TokensHome'
<1> DEFINE Home(c) == /\ c.kind = "tokens" /\ c.stage = "ok" => \A t \in c.got : bot[t] \in {c.on, Revoked}
                      /\ c.kind = "revoke" => bot[c.on] \in {c.arg, Revoked}
<1>1. \A t \in Tokens, b \in Bots : bot[t] \in {b, Revoked} => bot'[t] \in {b, Revoked}
  BY BotMoves
<1>2. \A c : AdminCall(c) /\ Home(c) => Home(c)'
  BY <1>1 DEF AdminCall
<1>3. \A c \in calls : AdminCall(c) /\ Home(c) BY DEF TokensHome, AdminTypeOK
<1>4. \A c : Asked(c) => AdminCall(c) /\ Home(c) BY DEF Asked
<1>5. ASSUME UNCHANGED tokensOf, \A c \in calls' : AdminCall(c) /\ Home(c)
      PROVE  TokensHome'
  <2>1. \A b \in Bots : tokensOf[b] # None => tokensOf[b] \subseteq Tokens BY DEF AdminTypeOK
  <2>2. \A b \in Bots : tokensOf'[b] # None => \A t \in tokensOf'[b] : bot'[t] \in {b, Revoked}
    BY <1>1, <1>5, <2>1 DEF TokensHome
  <2>3. \A c \in calls' : Home(c)' BY <1>2, <1>5
  <2> QED BY <2>2, <2>3 DEF TokensHome
<1>6. ASSUME NEW rest, rest \subseteq calls, Sends(rest), UNCHANGED tokensOf PROVE TokensHome'
  <2>1. \A c \in calls' : c \in rest \/ Asked(c) BY <1>6, SendsIs
  <2> QED BY <1>3, <1>4, <1>5, <1>6, <2>1
<1>7. ASSUME UNCHANGED tokensOf, calls' \subseteq calls PROVE TokensHome' BY <1>3, <1>5, <1>7
<1>8. CASE Clicks BY <1>6, <1>8, ClicksSend DEF table
<1>9. ASSUME NEW r, ToggleTransfer(r) PROVE TokensHome' BY <1>7, <1>9 DEF ToggleTransfer, table
<1>10. ASSUME NEW c, Serve(c) PROVE TokensHome'
  <2>1. c \in calls /\ UNCHANGED tokensOf BY <1>10, ServeIs DEF table
  <2>2. PICK d : /\ calls' = (calls \ {c}) \cup {d} /\ AdminCall(d)
                 /\ d.kind = c.kind /\ d.on = c.on /\ d.arg = c.arg
                 /\ c.kind = "tokens" => d.got = Of(c.on)
    BY <1>10, ServeIs DEF Changes
  <2>3. c.kind = "tokens" => \A t \in d.got : bot[t] = c.on BY <2>2 DEF Of
  <2>4. Home(d) BY <1>3, <2>1, <2>2, <2>3
  <2> QED BY <1>3, <1>5, <2>1, <2>2, <2>4
<1>11. ASSUME NEW c, Break(c) PROVE TokensHome'
  <2>1. c \in calls /\ UNCHANGED tokensOf BY <1>11, BreakIs DEF table
  <2>2. PICK d : /\ calls' = (calls \ {c}) \cup {d} /\ AdminCall(d)
                 /\ d.kind = c.kind /\ d.on = c.on /\ d.arg = c.arg /\ d.stage = "failed"
    BY <1>11, BreakIs
  <2>3. Home(d) BY <1>3, <2>1, <2>2
  <2> QED BY <1>3, <1>5, <2>1, <2>2, <2>3
<1>12. CASE OtherAdmin BY <1>7, <1>12 DEF OtherAdmin, table
<1>13. ASSUME NEW c, Listed(c) PROVE TokensHome'
  <2>1. c \in calls /\ calls' \subseteq calls /\ bot' = bot BY <1>13 DEF Listed, Take, server
  <2>2. ASSUME NEW b \in Bots, tokensOf'[b] # None, NEW t \in tokensOf'[b]
        PROVE  bot'[t] \in {b, Revoked}
    <3>1. \/ tokensOf'[b] = tokensOf[b]
          \/ c.kind = "tokens" /\ c.stage = "ok" /\ c.on = b /\ tokensOf'[b] = c.got
      BY <1>13 DEF Listed, AdminTypeOK
    <3> QED BY <1>3, <2>1, <2>2, <3>1 DEF TokensHome
  <2>3. \A x \in calls' : Home(x)' BY <1>3, <2>1
  <2> QED BY <2>2, <2>3 DEF TokensHome
<1>14. ASSUME NEW c, Patched(c) \/ AuditLoaded(c) PROVE TokensHome'
  BY <1>7, <1>14 DEF Patched, AuditLoaded, table
<1>15. ASSUME NEW c, BotCreated(c) PROVE TokensHome'
  BY <1>6, <1>7, <1>15, BotCreatedIs DEF table
<1>16. ASSUME NEW c, TokenChanged(c) PROVE TokensHome'
  BY <1>6, <1>7, <1>16, TokenChangedIs DEF table
<1>17. CASE UNCHANGED <<table, calls>> BY <1>7, <1>17 DEF table
<1> QED BY <1>8, <1>9, <1>10, <1>11, <1>12, <1>13, <1>14, <1>15, <1>16, <1>17 DEF AdminNext, Clicks, Answer, adminVars

(***************************************************************************)
(* The tables: what they show                                              *)
(***************************************************************************)

\* Where nothing listed changes, it is enough that answers are not made up,
\* and that calls go away only crossed or followed by a list.
LEMMA QuietFollows ==
  ASSUME AdminTypeOK, RoomsFollow, BotsFollow, TokensFollow,
         UNCHANGED <<room, named, bot, rows, listed, tokensOf, own>>, crossed \subseteq crossed',
         \A e \in calls' : e.stage = "ok" => e \in calls,
         \A e \in calls :
           \/ e \in calls' \/ About(e) \subseteq crossed' \/ e.kind \in AuditLoads
           \/ e.stage # "ok" /\ e.kind \notin Lists
           \/ e.kind = "create" /\ \E a \in calls' : a.kind = "bots"
           \/ e.kind \in {"issue", "revoke"} /\ \E a \in calls' : a.kind = "tokens" /\ About(e) = {a.on}
  PROVE  RoomsFollow' /\ BotsFollow' /\ TokensFollow'
<1> USE DEF Lists, AuditLoads
<1>1. \A e \in calls : /\ e.kind \in {"archive", "transfer", "issue", "tokens"} => About(e) = {e.on}
                       /\ e.kind \in {"bots", "create"} => About(e) = {"bots"}
  BY AboutIs DEF AdminTypeOK
<1>2. RoomsFollow'
  <2> SUFFICES ASSUME NEW r \in (own' \ crossed') \cap Rooms
               PROVE  /\ \/ rows'[r] = room'[r]
                         \/ \E e \in calls' : e.kind \in {"archive", "transfer"} /\ e.on = r /\ e.stage = "ok"
                      /\ \A e \in calls' :
                           /\ e.kind \in {"archive", "transfer"} /\ e.on = r /\ e.stage = "ok" => e.got = room'[r]
                           /\ e.kind = "rooms" /\ e.stage = "ok" => e.got[r] = room'[r]
    BY DEF RoomsFollow
  <2>1. r \in (own \ crossed) \cap Rooms OBVIOUS
  <2>2. \A e \in calls' :
          /\ e.kind \in {"archive", "transfer"} /\ e.on = r /\ e.stage = "ok" => e.got = room'[r]
          /\ e.kind = "rooms" /\ e.stage = "ok" => e.got[r] = room'[r]
    BY <2>1 DEF RoomsFollow
  <2>3. ASSUME NEW e \in calls, e.kind \in {"archive", "transfer"}, e.on = r, e.stage = "ok" PROVE e \in calls'
    BY <1>1, <2>3
  <2> QED BY <2>1, <2>2, <2>3 DEF RoomsFollow
<1>3. BotsFollow'
  <2> SUFFICES ASSUME "bots" \in own' \ crossed'
               PROVE  /\ \/ listed' = named'
                         \/ \E e \in calls' : e.kind = "create" /\ e.stage = "ok"
                         \/ \E e \in calls' : e.kind = "bots"
                      /\ \A e \in calls' : e.kind = "bots" /\ e.stage = "ok" => e.got = named'
    BY DEF BotsFollow
  <2>1. "bots" \in own \ crossed OBVIOUS
  <2>2. \A e \in calls' : e.kind = "bots" /\ e.stage = "ok" => e.got = named' BY <2>1 DEF BotsFollow
  <2>3. ASSUME NEW e \in calls, e.kind = "bots" PROVE e \in calls' BY <1>1, <2>3
  <2>4. ASSUME NEW e \in calls, e.kind = "create", e.stage = "ok"
        PROVE  e \in calls' \/ \E a \in calls' : a.kind = "bots"
    BY <1>1, <2>4
  <2> QED BY <2>1, <2>2, <2>3, <2>4 DEF BotsFollow
<1>4. TokensFollow'
  <2> SUFFICES ASSUME NEW b \in (own' \ crossed') \cap Bots
               PROVE  /\ \/ tokensOf'[b] = Of(b)'
                         \/ \E e \in calls' : e.kind \in {"issue", "revoke"} /\ b \in About(e) /\ e.stage = "ok"
                         \/ \E e \in calls' : e.kind = "tokens" /\ e.on = b
                      /\ \A e \in calls' : e.kind = "tokens" /\ e.on = b /\ e.stage = "ok" => e.got = Of(b)'
    BY AboutStays DEF TokensFollow
  <2>1. b \in (own \ crossed) \cap Bots /\ Of(b)' = Of(b) BY DEF Of
  <2>2. \A e \in calls' : e.kind = "tokens" /\ e.on = b /\ e.stage = "ok" => e.got = Of(b)'
    BY <2>1 DEF TokensFollow
  <2>3. ASSUME NEW e \in calls, e.kind = "tokens", e.on = b PROVE e \in calls' BY <1>1, <2>3
  <2>4. ASSUME NEW e \in calls, e.kind \in {"issue", "revoke"}, b \in About(e), e.stage = "ok"
        PROVE  e \in calls' \/ \E a \in calls' : a.kind = "tokens" /\ a.on = b
    BY <2>4
  <2> QED BY <2>1, <2>2, <2>3, <2>4 DEF TokensFollow
<1> QED BY <1>2, <1>3, <1>4

\* A call that is served answers for what it is about alone.
LEMMA ServeFollows ==
  ASSUME AdminTypeOK, OneAbout, TokensHome, RoomsFollow, BotsFollow, TokensFollow, NEW c, Serve(c)
  PROVE  RoomsFollow' /\ BotsFollow' /\ TokensFollow'
<1> USE DEF server, table, history
<1>1. c \in calls /\ AdminCall(c) /\ c.stage = "sent" /\ UNCHANGED <<rows, listed, tokensOf, crossed>>
  BY ServeIs
<1>2. PICK d : /\ calls' = (calls \ {c}) \cup {d} /\ AdminCall(d) /\ About(d) = About(c)
               /\ d.kind = c.kind /\ d.on = c.on /\ d.arg = c.arg
               /\ \/ /\ d.stage = "failed" /\ c.kind \in {"revoke", "create"}
                     /\ UNCHANGED <<server, own>>
                  \/ /\ d.stage = "ok" /\ c.kind \in Changes /\ Change(c)
                     /\ Enter(c.since) /\ own' = own \cup About(c)
                     /\ c.kind \in {"archive", "transfer"} => d.got = room'[c.on]
                  \/ /\ d.stage = "ok" /\ c.kind \notin Changes /\ UNCHANGED <<server, own>>
                     /\ c.kind = "rooms" => d.got = room
                     /\ c.kind = "bots" => d.got = named
                     /\ c.kind = "tokens" => d.got = Of(c.on)
                     /\ c.kind \in AuditLoads => d.got = AuditPage(c.arg)
  BY ServeIs
<1>3. \A e \in calls \ {c} : About(e) \cap About(c) \subseteq crossed BY <1>1 DEF OneAbout
<1>4. \A e \in calls :
        /\ e.kind = "rooms" => About(e) = Rooms
        /\ e.kind \in {"archive", "transfer", "issue", "tokens"} => About(e) = {e.on}
        /\ e.kind \in {"bots", "create"} => About(e) = {"bots"}
  BY AboutIs DEF AdminTypeOK
<1>5. /\ c.kind \in {"archive", "transfer"} => About(c) = {c.on} /\ c.on \in Rooms
      /\ c.kind = "issue" => About(c) = {c.on} /\ c.on \in Bots
      /\ c.kind = "revoke" => About(c) = {c.arg} /\ c.arg \in Bots
      /\ c.kind = "create" => About(c) = {"bots"}
  BY <1>1, AboutIs DEF AdminCall
<1>6. Rooms \cap Bots = {} /\ "bots" \notin Rooms \cup Bots /\ {None, Revoked} \cap Bots = {}
  BY AdminPageAssumption
<1>7. CASE UNCHANGED <<server, own>>
  <2>1. d.stage = "ok" => /\ c.kind \notin Changes
                          /\ c.kind = "rooms" => d.got = room
                          /\ c.kind = "bots" => d.got = named
                          /\ c.kind = "tokens" => d.got = Of(c.on)
    <3>1. c.kind \in Changes => log' # log \/ d.stage # "ok" BY <1>2, EnterIs DEF AdminTypeOK
    <3> QED BY <1>2, <1>7, <3>1
  <2>2. RoomsFollow'
    BY <1>1, <1>2, <1>7, <2>1 DEF RoomsFollow, Changes
  <2>3. BotsFollow'
    BY <1>1, <1>2, <1>7, <2>1 DEF BotsFollow, Changes
  <2>4. \A b : Of(b)' = Of(b) BY <1>7 DEF Of
  <2>5. TokensFollow'
    BY <1>1, <1>2, <1>7, <2>1, <2>4, AboutStays DEF TokensFollow, Changes
  <2> QED BY <2>2, <2>3, <2>5
<1>8. CASE d.stage = "ok" /\ c.kind \in Changes /\ Change(c) /\ own' = own \cup About(c)
           /\ (c.kind \in {"archive", "transfer"} => d.got = room'[c.on])
  <2>0. c.kind \notin {"rooms", "bots", "tokens"} BY <1>8 DEF Changes
  <2>1. RoomsFollow'
    <3> SUFFICES ASSUME NEW r \in (own' \ crossed') \cap Rooms
                 PROVE  /\ \/ rows'[r] = room'[r]
                           \/ \E e \in calls' : e.kind \in {"archive", "transfer"} /\ e.on = r /\ e.stage = "ok"
                        /\ \A e \in calls' :
                             /\ e.kind \in {"archive", "transfer"} /\ e.on = r /\ e.stage = "ok" => e.got = room'[r]
                             /\ e.kind = "rooms" /\ e.stage = "ok" => e.got[r] = room'[r]
      BY DEF RoomsFollow
    <3>1. CASE c.kind \in {"archive", "transfer"} /\ c.on = r
      <4>1. \A e \in calls \ {c} : r \notin About(e) BY <1>1, <1>3, <1>5, <3>1
      <4>2. \A e \in calls \ {c} : e.kind # "rooms" /\ ~(e.kind \in {"archive", "transfer"} /\ e.on = r)
        BY <1>4, <4>1
      <4> QED BY <1>2, <1>8, <2>0, <3>1, <4>2
    <3>2. CASE ~(c.kind \in {"archive", "transfer"} /\ c.on = r)
      <4>1. r \in (own \ crossed) \cap Rooms BY <1>1, <1>5, <1>6, <1>8, <3>2 DEF Changes
      <4>2. room'[r] = room[r] BY <1>1, <1>8, <3>2, ChangeIs DEF Changes
      <4> QED BY <1>1, <1>2, <2>0, <3>2, <4>1, <4>2 DEF RoomsFollow
    <3> QED BY <3>1, <3>2
  <2>2. BotsFollow'
    <3> SUFFICES ASSUME "bots" \in own' \ crossed'
                 PROVE  /\ \/ listed' = named'
                           \/ \E e \in calls' : e.kind = "create" /\ e.stage = "ok"
                           \/ \E e \in calls' : e.kind = "bots"
                        /\ \A e \in calls' : e.kind = "bots" /\ e.stage = "ok" => e.got = named'
      BY DEF BotsFollow
    <3>1. CASE c.kind = "create"
      <4>1. \A e \in calls \ {c} : e.kind # "bots" BY <1>1, <1>3, <1>4, <1>5, <3>1
      <4> QED BY <1>2, <1>8, <2>0, <3>1, <4>1
    <3>2. CASE c.kind # "create"
      <4>1. "bots" \in own \ crossed BY <1>1, <1>5, <1>6, <1>8, <3>2 DEF Changes
      <4>2. named' = named BY <1>1, <1>8, <3>2, ChangeIs DEF Changes
      <4> QED BY <1>1, <1>2, <2>0, <3>2, <4>1, <4>2 DEF BotsFollow
    <3> QED BY <3>1, <3>2
  <2>3. TokensFollow'
    <3> SUFFICES ASSUME NEW b \in (own' \ crossed') \cap Bots
                 PROVE  /\ \/ tokensOf'[b] = Of(b)'
                           \/ \E e \in calls' : e.kind \in {"issue", "revoke"} /\ b \in About(e) /\ e.stage = "ok"
                           \/ \E e \in calls' : e.kind = "tokens" /\ e.on = b
                        /\ \A e \in calls' : e.kind = "tokens" /\ e.on = b /\ e.stage = "ok" => e.got = Of(b)'
      BY AboutStays DEF TokensFollow
    <3>1. CASE c.kind \in {"issue", "revoke"} /\ b \in About(c)
      <4>1. \A e \in calls \ {c} : b \notin About(e) BY <1>1, <1>3, <3>1
      <4>2. \A e \in calls \ {c} : ~(e.kind = "tokens" /\ e.on = b) BY <1>4, <4>1
      <4> QED BY <1>2, <1>8, <2>0, <3>1, <4>2
    <3>2. CASE ~(c.kind \in {"issue", "revoke"} /\ b \in About(c))
      <4>1. b \in (own \ crossed) \cap Bots BY <1>1, <1>5, <1>6, <1>8, <3>2 DEF Changes
      <4>2. Of(b)' = Of(b)
        <5>1. bot \in [Tokens -> Bots \cup {None, Revoked}] BY DEF AdminTypeOK
        <5>2. \A t \in Tokens : (bot'[t] = b) <=> (bot[t] = b)
          <6>1. CASE c.kind = "issue" BY <1>1, <1>5, <1>6, <1>8, <3>2, <5>1, <6>1, ChangeIs
          <6>2. CASE c.kind = "revoke"
            <7>1. bot' = [bot EXCEPT ![c.on] = Revoked] /\ c.on \in Tokens
              BY <1>1, <1>8, <6>2, ChangeIs DEF AdminCall
            <7>2. bot[c.on] \in {c.arg, Revoked} BY <1>1, <6>2 DEF TokensHome
            <7> QED BY <1>5, <1>6, <3>2, <5>1, <6>2, <7>1, <7>2
          <6>3. CASE c.kind \in {"archive", "transfer", "create"} BY <1>1, <1>8, <6>3, ChangeIs
          <6> QED BY <1>8, <6>1, <6>2, <6>3 DEF Changes
        <5> QED BY <5>2 DEF Of
      <4>3. d.kind = c.kind /\ d.kind # "tokens" BY <1>2, <2>0
      <4> QED BY <1>1, <1>2, <2>0, <3>2, <4>1, <4>2, <4>3 DEF TokensFollow
    <3> QED BY <3>1, <3>2
  <2> QED BY <2>1, <2>2, <2>3
<1> QED BY <1>2, <1>7, <1>8

\* Other admins take what they change off the page's own changes.
LEMMA OtherFollows ==
  ASSUME AdminTypeOK, RoomsFollow, BotsFollow, TokensFollow, OtherAdmin
  PROVE  RoomsFollow' /\ BotsFollow' /\ TokensFollow'
<1> USE DEF table
<1>1. UNCHANGED <<rows, listed, tokensOf, calls, crossed, bot>> /\ own' \subseteq own
  BY DEF OtherAdmin
<1>2. \A r \in own' \cap Rooms : room'[r] = room[r]
  <2>1. \A s \in Rooms : room' = [room EXCEPT ![s].archived = ~@] => \A r \in Rooms \ {s} : room'[r] = room[r]
    BY DEF AdminTypeOK
  <2> QED BY <2>1 DEF OtherAdmin
<1>3. "bots" \in own' => named' = named BY DEF OtherAdmin
<1>4. \A b : Of(b)' = Of(b) BY <1>1 DEF Of
<1>5. RoomsFollow' BY <1>1, <1>2 DEF RoomsFollow
<1>6. BotsFollow' BY <1>1, <1>3 DEF BotsFollow
<1>7. TokensFollow' BY <1>1, <1>4, AboutStays DEF TokensFollow
<1> QED BY <1>5, <1>6, <1>7

\* A list that is answered says what there is, of what it alone is about.
LEMMA ListedFollows ==
  ASSUME AdminTypeOK, ListsCome, RoomsFollow, BotsFollow, TokensFollow, NEW c, Listed(c)
  PROVE  RoomsFollow' /\ BotsFollow' /\ TokensFollow'
<1> USE DEF server, history
<1>1. /\ c \in calls /\ AdminCall(c) /\ c.kind \in Lists /\ c.stage \in {"ok", "failed"}
      /\ calls' = calls \ {c} /\ UNCHANGED <<room, named, bot, own, crossed>>
  BY DEF Listed, Take, AdminTypeOK, AdminCall
<1>2. c.kind \notin {"archive", "transfer", "create", "issue", "revoke"} BY <1>1 DEF Lists
<1>3. /\ rows' = IF c.kind = "rooms" /\ c.stage = "ok" THEN c.got ELSE rows
      /\ listed' = IF c.kind = "bots" /\ c.stage = "ok" THEN c.got ELSE listed
      /\ tokensOf' = IF c.kind = "tokens" /\ c.stage = "ok"
                     THEN [tokensOf EXCEPT ![c.on] = c.got] ELSE tokensOf
  BY DEF Listed
<1>4. c.stage = "failed" => About(c) \subseteq crossed BY <1>1 DEF ListsCome
<1>5. RoomsFollow'
  <2> SUFFICES ASSUME NEW r \in (own \ crossed) \cap Rooms
               PROVE  \/ rows'[r] = room[r]
                      \/ \E e \in calls' : e.kind \in {"archive", "transfer"} /\ e.on = r /\ e.stage = "ok"
    BY <1>1 DEF RoomsFollow
  <2>1. CASE c.kind = "rooms" /\ c.stage = "ok" BY <1>1, <1>3, <2>1 DEF RoomsFollow
  <2>2. CASE ~(c.kind = "rooms" /\ c.stage = "ok") BY <1>1, <1>2, <1>3, <2>2 DEF RoomsFollow
  <2> QED BY <2>1, <2>2
<1>6. BotsFollow'
  <2> SUFFICES ASSUME "bots" \in own \ crossed
               PROVE  \/ listed' = named
                      \/ \E e \in calls' : e.kind = "create" /\ e.stage = "ok"
                      \/ \E e \in calls' : e.kind = "bots"
    BY <1>1 DEF BotsFollow
  <2>1. CASE c.kind = "bots"
    <3>1. c.stage = "ok" BY <1>1, <1>4, <2>1, AboutIs
    <3> QED BY <1>1, <1>3, <2>1, <3>1 DEF BotsFollow
  <2>2. CASE c.kind # "bots" BY <1>1, <1>2, <1>3, <2>2 DEF BotsFollow
  <2> QED BY <2>1, <2>2
<1>7. TokensFollow'
  <2>0. \A b : Of(b)' = Of(b) BY <1>1 DEF Of
  <2> SUFFICES ASSUME NEW b \in (own \ crossed) \cap Bots
               PROVE  \/ tokensOf'[b] = Of(b)
                      \/ \E e \in calls' : e.kind \in {"issue", "revoke"} /\ b \in About(e) /\ e.stage = "ok"
                      \/ \E e \in calls' : e.kind = "tokens" /\ e.on = b
    BY <1>1, <2>0, AboutStays DEF TokensFollow
  <2>1. CASE c.kind = "tokens" /\ c.on = b
    <3>1. c.stage = "ok" BY <1>1, <1>4, <2>1, AboutIs
    <3>2. c.got = Of(b) BY <1>1, <2>1, <3>1 DEF TokensFollow
    <3> QED BY <1>3, <2>1, <3>1, <3>2 DEF AdminTypeOK
  <2>2. CASE ~(c.kind = "tokens" /\ c.on = b)
    <3>1. tokensOf'[b] = tokensOf[b] BY <1>3, <2>2 DEF AdminTypeOK
    <3> QED BY <1>1, <1>2, <2>2, <3>1 DEF TokensFollow
  <2> QED BY <2>1, <2>2
<1> QED BY <1>5, <1>6, <1>7

\* A row that is patched takes the record as it is.
LEMMA PatchedFollows ==
  ASSUME AdminTypeOK, OnRows, RoomsFollow, BotsFollow, TokensFollow, NEW c, Patched(c)
  PROVE  RoomsFollow' /\ BotsFollow' /\ TokensFollow'
<1> USE DEF server, history
<1>1. /\ c \in calls /\ AdminCall(c) /\ c.kind \in {"archive", "transfer"}
      /\ calls' = calls \ {c} /\ UNCHANGED <<room, named, bot, own, crossed, listed, tokensOf>>
  BY DEF Patched, Take, AdminTypeOK
<1>2. rows[c.on] # None BY <1>1 DEF OnRows
<1>3. rows' = IF c.stage = "ok" THEN [rows EXCEPT ![c.on] = c.got] ELSE rows BY <1>2 DEF Patched
<1>4. RoomsFollow'
  <2> SUFFICES ASSUME NEW r \in (own \ crossed) \cap Rooms
               PROVE  \/ rows'[r] = room[r]
                      \/ \E e \in calls' : e.kind \in {"archive", "transfer"} /\ e.on = r /\ e.stage = "ok"
    BY <1>1 DEF RoomsFollow
  <2>1. CASE c.on = r /\ c.stage = "ok"
    <3>1. c.got = room[r] BY <1>1, <2>1 DEF RoomsFollow
    <3> QED BY <1>3, <2>1, <3>1 DEF AdminTypeOK
  <2>2. CASE ~(c.on = r /\ c.stage = "ok")
    <3>1. rows'[r] = rows[r] BY <1>3, <2>2 DEF AdminTypeOK
    <3> QED BY <1>1, <2>2, <3>1 DEF RoomsFollow
  <2> QED BY <2>1, <2>2
<1>5. BotsFollow' BY <1>1 DEF BotsFollow
<1>6. TokensFollow'
  <2>1. \A b : Of(b)' = Of(b) BY <1>1 DEF Of
  <2> QED BY <1>1, <2>1, AboutStays DEF TokensFollow
<1> QED BY <1>4, <1>5, <1>6

\* The tables follow what the page has changed, whatever it does.
LEMMA TablesFollowStep ==
  ASSUME AdminTypeOK, OneAbout, ListsCome, OnRows, TokensHome, RoomsFollow, BotsFollow, TokensFollow,
         AdminNext \/ UNCHANGED adminVars
  PROVE  RoomsFollow' /\ BotsFollow' /\ TokensFollow'
<1> DEFINE Follows == RoomsFollow' /\ BotsFollow' /\ TokensFollow'
<1> USE DEF server, table, history
<1>1. ASSUME UNCHANGED <<server, table, own>>, UNCHANGED calls, crossed \subseteq crossed' PROVE Follows
  BY <1>1, QuietFollows
<1>2. ASSUME UNCHANGED <<server, table, own>>, Sends(calls) PROVE Follows
  <2>1. calls \subseteq calls' /\ crossed \subseteq crossed' /\ \A e \in calls' : e.stage # "sent" => e \in calls
    BY <1>2, SendsIs
  <2> QED BY <1>2, <2>1, QuietFollows
<1>3. CASE Clicks BY <1>2, <1>3, ClicksSend
<1>4. ASSUME NEW r, ToggleTransfer(r) PROVE Follows BY <1>1, <1>4 DEF ToggleTransfer
<1>5. ASSUME NEW c, Serve(c) PROVE Follows BY <1>5, ServeFollows
<1>6. ASSUME NEW c, Break(c) PROVE Follows
  <2>1. c \in calls /\ UNCHANGED <<server, table, own>> /\ crossed' = crossed \cup About(c) BY <1>6, BreakIs
  <2>2. PICK d : calls' = (calls \ {c}) \cup {d} /\ d.stage = "failed" BY <1>6, BreakIs
  <2> QED BY <2>1, <2>2, QuietFollows
<1>7. CASE OtherAdmin BY <1>7, OtherFollows
<1>8. ASSUME NEW c, Listed(c) PROVE Follows BY <1>8, ListedFollows
<1>9. ASSUME NEW c, Patched(c) PROVE Follows BY <1>9, PatchedFollows
<1>10. ASSUME NEW c, AuditLoaded(c) PROVE Follows
  <2>1. c.kind \in AuditLoads /\ calls' = calls \ {c} /\ UNCHANGED <<server, table, own, crossed>>
    BY <1>10 DEF AuditLoaded, Take
  <2> QED BY <2>1, QuietFollows
<1>11. ASSUME NEW c, NEW rest, rest = calls \ {c}, c.stage # "sent", c.kind \notin Lists,
              UNCHANGED <<server, table, own>>,
              c.stage = "ok" =>
                /\ Sends(rest)
                /\ \/ c.kind = "create" /\ \E a \in calls' : a.kind = "bots"
                   \/ c.kind \in {"issue", "revoke"} /\ \E a \in calls' : a.kind = "tokens" /\ About(c) = {a.on},
              c.stage # "ok" => calls' = rest /\ UNCHANGED crossed
       PROVE  Follows
  <2>1. CASE c.stage = "ok"
    <3>1. rest \subseteq calls' /\ crossed \subseteq crossed' /\ \A e \in calls' : e.stage # "sent" => e \in rest
      BY <1>11, <2>1, SendsIs
    <3> QED BY <1>11, <2>1, <3>1, QuietFollows
  <2>2. CASE c.stage # "ok" BY <1>11, <2>2, QuietFollows
  <2> QED BY <2>1, <2>2
<1>12. ASSUME NEW c, BotCreated(c) PROVE Follows
  <2>1. c.kind = "create" => c.kind \notin Lists BY DEF Lists
  <2> QED BY <1>11, <1>12, <2>1, BotCreatedIs
<1>13. ASSUME NEW c, TokenChanged(c) PROVE Follows
  <2>1. PICK b : b = IF c.kind = "issue" THEN c.on ELSE c.arg OBVIOUS
  <2>2. /\ c.kind \in {"issue", "revoke"} /\ c.stage # "sent" /\ About(c) = {b}
        /\ UNCHANGED <<server, table, own>>
        /\ c.stage = "ok" => Sends(calls \ {c}) /\ \E a \in calls' : a.kind = "tokens" /\ a.on = b
        /\ c.stage # "ok" => calls' = calls \ {c} /\ UNCHANGED crossed
    <3>1. /\ c.kind \in {"issue", "revoke"} /\ c.stage # "sent" /\ About(c) = {b}
          /\ UNCHANGED <<server, table, own>>
      BY <1>13, <2>1, TokenChangedIs
    <3>2. ASSUME c.stage = "ok" PROVE Sends(calls \ {c}) /\ \E a \in calls' : a.kind = "tokens" /\ a.on = b
      BY <1>13, <2>1, <3>2, TokenChangedIs
    <3>3. c.stage # "ok" => calls' = calls \ {c} /\ UNCHANGED crossed
      BY <1>13, <2>1, TokenChangedIs
    <3> QED BY <3>1, <3>2, <3>3
  <2>3. c.kind \notin Lists BY <2>2 DEF Lists
  <2> QED BY <1>11, <2>2, <2>3
<1>14. CASE UNCHANGED <<server, table, calls, history>> BY <1>1, <1>14
<1> QED BY <1>3, <1>4, <1>5, <1>6, <1>7, <1>8, <1>9, <1>10, <1>12, <1>13, <1>14
     DEF AdminNext, Clicks, Answer, adminVars

(***************************************************************************)
(* The audit log                                                           *)
(***************************************************************************)

\* The log grows by one entry at a time.
LEMMA LogMoves ==
  ASSUME AdminTypeOK, AdminNext \/ UNCHANGED adminVars
  PROVE  log' = log \/ Enters(log, log')
<1> USE DEF server
<1>0. log \in Seq(Nat) BY DEF AdminTypeOK
<1>1. ASSUME NEW c, Serve(c) PROVE log' = log \/ Enters(log, log')
  BY <1>0, <1>1, ServeIs, EnterIs
<1>2. CASE OtherAdmin BY <1>0, <1>2, EnterIs DEF OtherAdmin
<1>3. ASSUME NEW c, Answer(c) PROVE log' = log
  BY <1>3 DEF Answer, Listed, Patched, BotCreated, TokenChanged, AuditLoaded
<1>4. ASSUME NEW t, SetTab(t) PROVE log' = log BY <1>4 DEF SetTab
<1>5. ASSUME NEW r, ToggleArchive(r) \/ ToggleTransfer(r) \/ TransferOwnership(r) PROVE log' = log
  BY <1>5 DEF ToggleArchive, ToggleTransfer, TransferOwnership, Start
<1>6. ASSUME NEW b, ToggleExpand(b) PROVE log' = log BY <1>6 DEF ToggleExpand
<1>7. CASE CreateBot \/ IssueToken \/ LoadMore BY <1>7 DEF CreateBot, IssueToken, LoadMore, Start
<1>8. ASSUME NEW t, RevokeToken(t) PROVE log' = log BY <1>8 DEF RevokeToken, Start
<1>9. ASSUME NEW c, Break(c) PROVE log' = log BY <1>9 DEF Break
<1>10. CASE UNCHANGED server BY <1>10
<1> QED BY <1>1, <1>2, <1>3, <1>4, <1>5, <1>6, <1>7, <1>8, <1>9, <1>10 DEF AdminNext, adminVars

\* Each gets the next number.
LEMMA NumberedStep ==
  ASSUME AdminTypeOK, Numbered, AdminNext \/ UNCHANGED adminVars
  PROVE  Numbered'
<1>1. CASE log' = log BY <1>1 DEF Numbered
<1>2. CASE Enters(log, log')
  <2>1. PICK p \in 1 .. Len(log') : /\ log'[p] = Len(log')
                                    /\ \A i \in 1 .. p - 1 : log'[i] = log[i]
                                    /\ \A i \in p + 1 .. Len(log') : log'[i] = log[i - 1]
    BY <1>2 DEF Enters
  <2>2. Len(log') = Len(log) + 1 /\ Len(log) \in Nat BY <1>2 DEF Enters, AdminTypeOK
  <2>3. PICK n : n = Len(log) OBVIOUS
  <2>4. \A i \in 1 .. n + 1 : i # p =>
          \E k \in 1 .. n : log'[i] = log[k] /\ k = IF i < p THEN i ELSE i - 1
    BY <2>1, <2>2, <2>3
  <2>5. \A i \in 1 .. n : log[i] \in 1 .. n BY <2>3 DEF Numbered
  <2>6. \A i \in 1 .. n + 1 : log'[i] \in 1 .. n + 1 /\ (i # p => log'[i] # n + 1)
    BY <2>1, <2>2, <2>3, <2>4, <2>5
  <2>7. ASSUME NEW i \in 1 .. n + 1, NEW j \in 1 .. n + 1, log'[i] = log'[j] PROVE i = j
    <3>1. CASE i = p \/ j = p BY <2>1, <2>2, <2>3, <2>6, <2>7, <3>1
    <3>2. CASE i # p /\ j # p
      <4>1. PICK k \in 1 .. n : log'[i] = log[k] /\ k = IF i < p THEN i ELSE i - 1 BY <2>4, <3>2
      <4>2. PICK m \in 1 .. n : log'[j] = log[m] /\ m = IF j < p THEN j ELSE j - 1 BY <2>4, <3>2
      <4>3. k = m BY <2>3, <2>7, <4>1, <4>2 DEF Numbered
      <4> QED BY <2>2, <2>3, <3>2, <4>1, <4>2, <4>3
    <3> QED BY <3>1, <3>2
  <2> QED BY <2>2, <2>3, <2>6, <2>7 DEF Numbered
<1> QED BY <1>1, <1>2, LogMoves

\* What reaches far enough does so when an entry has come in.
LEMMA ReachesLater ==
  ASSUME NEW s \in Seq(Nat), NEW more, NEW n \in Nat, NEW l \in Seq(Nat), NEW m, Enters(l, m),
         Reaches(s, more, n, l)
  PROVE  Reaches(s, more, n, m)
<1>1. PICK p \in 1 .. Len(m) : /\ m[p] = Len(m)
                               /\ \A i \in 1 .. p - 1 : m[i] = l[i]
                               /\ \A i \in p + 1 .. Len(m) : m[i] = l[i - 1]
  BY DEF Enters
<1>2. /\ Len(m) = Len(l) + 1 /\ Len(l) \in Nat /\ m \in Seq(Nat) /\ Len(s) \in Nat
      /\ n <= Len(l) /\ \A i \in 1 .. Len(s) : s[i] \in Nat /\ s[i] <= Len(l)
  <2>1. Len(m) = Len(l) + 1 /\ m \in Seq(Nat) BY DEF Enters
  <2>2. n <= Len(l) /\ \A i \in 1 .. Len(s) : s[i] <= Len(l) BY DEF Reaches
  <2> QED BY <2>1, <2>2
<1> DEFINE Old(i) == IF i < p THEN i ELSE i - 1
<1>3. \A i \in 1 .. Len(m) : i # p => Old(i) \in 1 .. Len(l) /\ m[i] = l[Old(i)]
  BY <1>1, <1>2
<1>4. \A i \in 1 .. Len(m) : (In(s, m[i]) \/ m[i] <= n) => i # p
  BY <1>1, <1>2 DEF In
<1>5. \A i, j \in 1 .. Len(m) : i # p /\ j # p /\ i <= j => Old(i) <= Old(j)
  BY <1>1, <1>2
<1>6. n <= Len(m) /\ \A i \in 1 .. Len(s) : s[i] <= Len(m) BY <1>2
<1>7. s # <<>> => \E k \in Len(s) .. Len(m) : m[k] = s[Len(s)]
  <2> HAVE s # <<>>
  <2>1. PICK k \in Len(s) .. Len(l) : l[k] = s[Len(s)] BY DEF Reaches
  <2>2. CASE k < p BY <1>1, <1>2, <2>1, <2>2
  <2>3. CASE k >= p
    <3>1. k + 1 \in p + 1 .. Len(m) /\ k + 1 \in Len(s) .. Len(m) /\ (k + 1) - 1 = k
      BY <1>1, <1>2, <2>1, <2>3
    <3>2. m[k + 1] = l[k] BY <1>1, <3>1
    <3> QED BY <2>1, <3>1, <3>2
  <2>4. k < p \/ k >= p BY <1>2, <2>1
  <2> QED BY <2>2, <2>3, <2>4
<1>8. ASSUME NEW h \in 1 .. Len(m), h <= Page + 1, s # <<>>, m[h] = s[1]
      PROVE  Gapless(s, more, n, m)
  <2>1. 1 \in 1 .. Len(s) BY <1>2, <1>8
  <2>2. h # p BY <1>4, <1>8, <2>1 DEF In
  <2>3. Old(h) \in 1 .. Len(l) /\ Old(h) <= Page + 1 /\ l[Old(h)] = s[1]
    BY <1>1, <1>3, <1>8, <2>2, AdminPageAssumption
  <2>4. Gapless(s, more, n, l) BY <1>8, <2>3 DEF Reaches
  <2> SUFFICES ASSUME NEW k \in 1 .. Len(m), m[k] <= n, NEW i \in 1 .. k, In(s, m[i]),
                      more => \E j \in k .. Len(m) : In(s, m[j])
               PROVE  In(s, m[k])
    BY DEF Gapless
  <2>5. k # p /\ i # p /\ i \in 1 .. Len(m) BY <1>2, <1>4
  <2>6. /\ Old(k) \in 1 .. Len(l) /\ m[k] = l[Old(k)]
        /\ Old(i) \in 1 .. Old(k) /\ m[i] = l[Old(i)]
    <3>1. Old(i) <= Old(k) BY <1>2, <1>5, <2>5
    <3>2. /\ Old(k) \in 1 .. Len(l) /\ m[k] = l[Old(k)]
          /\ Old(i) \in 1 .. Len(l) /\ m[i] = l[Old(i)]
      BY <1>3, <2>5
    <3> HIDE DEF Old
    <3> QED BY <3>1, <3>2
  <2>7. more => \E j \in Old(k) .. Len(l) : In(s, l[j])
    <3> HAVE more
    <3>1. PICK j \in k .. Len(m) : In(s, m[j]) OBVIOUS
    <3>2. j \in 1 .. Len(m) /\ j # p /\ k <= j BY <1>2, <1>4, <3>1
    <3>3. Old(k) <= Old(j) BY <1>5, <2>5, <3>2
    <3>4. Old(j) \in 1 .. Len(l) /\ m[j] = l[Old(j)] BY <1>3, <3>2
    <3> HIDE DEF Old
    <3>5. Old(j) \in Old(k) .. Len(l) BY <2>6, <3>3, <3>4
    <3> QED BY <3>1, <3>4, <3>5
  <2> HIDE DEF Old
  <2> QED BY <2>4, <2>6, <2>7 DEF Gapless
<1>9. PICK b : b = Gapless(s, more, n, m) OBVIOUS
<1> QED BY <1>6, <1>7, <1>8, Zenon DEF Reaches

\* The next page goes on where the last one ended, or higher up.
LEMMA ReachesMore ==
  ASSUME log \in Seq(Nat), Numbered, NEW s \in Seq(Nat), NEW n \in Nat, n <= Len(log),
         s # <<>> => Reaches(s, TRUE, n, log) /\ Len(s) >= Page,
         NEW p, p = AuditPage(Len(s)), NEW last, last = (Len(p) = Page)
  PROVE  Reaches(s \o p, last, n, log)
<1>0. PICK k, q, size : k = Len(s) /\ q = s \o p /\ size = Len(log) OBVIOUS
<1>1. k \in Nat /\ k <= size /\ Page \in Nat \ {0} /\ size \in Nat
  <2>1. s = <<>> => k <= size BY <1>0
  <2>2. s # <<>> => k <= size BY <1>0 DEF Reaches
  <2> QED BY <1>0, <2>1, <2>2, AdminPageAssumption
<1>2. PICK e : e = IF k + Page <= Len(log) THEN Page ELSE IF k < Len(log) THEN Len(log) - k ELSE 0 OBVIOUS
<1>3. /\ e \in 0 .. Page /\ k + e <= size /\ (e < Page => size <= k + e)
      /\ p \in Seq(Nat) /\ Len(p) = e /\ \A i \in 1 .. e : p[i] = log[k + i]
  BY <1>0, <1>1, <1>2, AuditPageIs
<1>4. /\ q \in Seq(Nat) /\ Len(q) = k + e
      /\ \A i \in 1 .. k : q[i] = s[i]
      /\ \A i \in 1 .. e : q[k + i] = p[i]
  <2>1. /\ q \in Seq(Nat) /\ Len(q) = k + e
        /\ \A j \in 1 .. k + e : q[j] = IF j <= k THEN s[j] ELSE p[j - k]
    BY <1>0, <1>3, ConcatProperties
  <2>2. ASSUME NEW i \in 1 .. e PROVE q[k + i] = p[i]
    <3>1. k + i \in 1 .. k + e /\ ~(k + i <= k) /\ (k + i) - k = i BY <1>1, <1>3
    <3> QED BY <2>1, <3>1
  <2>3. ASSUME NEW i \in 1 .. k PROVE q[i] = s[i]
    <3>1. i \in 1 .. k + e /\ i <= k BY <1>1, <1>3
    <3> QED BY <2>1, <3>1
  <2> QED BY <2>1, <2>2, <2>3
<1>5. \A x : In(q, x) <=> (In(s, x) \/ \E i \in 1 .. e : p[i] = x)
  <2> TAKE x
  <2>1. ASSUME In(q, x) PROVE In(s, x) \/ \E i \in 1 .. e : p[i] = x
    <3>1. PICK i \in 1 .. k + e : q[i] = x BY <1>4, <2>1 DEF In
    <3>2. CASE i <= k BY <1>0, <1>1, <1>4, <3>1, <3>2 DEF In
    <3>3. CASE i > k
      <4>1. i - k \in 1 .. e /\ k + (i - k) = i BY <1>1, <1>3, <3>3
      <4> QED BY <1>4, <3>1, <4>1
    <3> QED BY <1>1, <3>2, <3>3
  <2>2. ASSUME In(s, x) PROVE In(q, x)
    <3>1. PICK i \in 1 .. k : s[i] = x BY <1>0, <2>2 DEF In
    <3>2. i \in 1 .. k + e BY <1>1, <1>3
    <3> QED BY <1>4, <3>1, <3>2 DEF In
  <2>3. ASSUME NEW i \in 1 .. e, p[i] = x PROVE In(q, x)
    <3>1. k + i \in 1 .. k + e BY <1>1, <1>3
    <3> QED BY <1>4, <2>3, <3>1 DEF In
  <2> QED BY <2>1, <2>2, <2>3
<1>6. \A i \in 1 .. size : In(q, log[i]) <=> (In(s, log[i]) \/ i \in k + 1 .. k + e)
  <2> TAKE i \in 1 .. size
  <2>1. ASSUME NEW j \in 1 .. e, p[j] = log[i] PROVE i \in k + 1 .. k + e
    <3>1. k + j \in 1 .. size /\ log[k + j] = log[i] BY <1>1, <1>3, <2>1
    <3>2. i = k + j BY <1>0, <3>1 DEF Numbered
    <3> QED BY <1>1, <1>3, <3>2
  <2>2. ASSUME i \in k + 1 .. k + e PROVE \E j \in 1 .. e : p[j] = log[i]
    <3>1. i - k \in 1 .. e /\ k + (i - k) = i BY <1>1, <1>3, <2>2
    <3> QED BY <1>3, <3>1
  <2> QED BY <1>5, <2>1, <2>2
<1>7. \A i \in 1 .. Len(q) : q[i] <= size
  <2> TAKE i \in 1 .. Len(q)
  <2>1. CASE i <= k
    <3>1. s # <<>> /\ i \in 1 .. k BY <1>0, <1>1, <1>4, <2>1
    <3> QED BY <1>0, <1>4, <3>1 DEF Reaches
  <2>2. CASE i > k
    <3>1. i - k \in 1 .. e /\ k + (i - k) = i /\ i \in 1 .. size BY <1>1, <1>3, <1>4, <2>2
    <3>2. q[i] = log[i] BY <1>3, <1>4, <3>1
    <3>3. log[i] \in 1 .. size BY <1>0, <3>1 DEF Numbered
    <3> QED BY <1>1, <3>2, <3>3
  <2> QED BY <1>1, <1>4, <2>1, <2>2
<1>8. q # <<>> => \E i \in Len(q) .. size : log[i] = q[Len(q)]
  <2> HAVE q # <<>>
  <2>1. CASE e = 0
    <3>1. Len(q) = k /\ k # 0 BY <1>1, <1>4, <2>1
    <3>2. s # <<>> /\ k \in 1 .. k /\ q[k] = s[k] BY <1>0, <1>1, <1>4, <3>1
    <3>3. \E i \in k .. size : log[i] = s[k] BY <1>0, <3>2 DEF Reaches
    <3> QED BY <3>1, <3>2, <3>3
  <2>2. CASE e # 0
    <3>1. e \in 1 .. e /\ k + e \in Len(q) .. size BY <1>1, <1>3, <1>4, <2>2
    <3>2. q[k + e] = log[k + e] BY <1>3, <1>4, <3>1
    <3> QED BY <1>4, <3>1, <3>2
  <2> QED BY <2>1, <2>2
<1>9. ASSUME NEW h \in 1 .. size, h <= Page + 1, q # <<>>, log[h] = q[1]
      PROVE  Gapless(q, last, n, log)
  <2>0. ASSUME s # <<>> PROVE Gapless(s, TRUE, n, log) /\ In(s, log[h])
    <3>1. 1 \in 1 .. k /\ q[1] = s[1] BY <1>0, <1>1, <1>4, <2>0
    <3> QED BY <1>0, <1>9, <2>0, <3>1 DEF Reaches, In
  <2> SUFFICES ASSUME NEW x \in 1 .. size, log[x] <= n, NEW i \in 1 .. x, In(q, log[i]),
                      last => \E j \in x .. size : In(q, log[j])
               PROVE  In(q, log[x])
    BY <1>0 DEF Gapless
  <2>1. CASE x \in k + 1 .. k + e BY <1>6, <2>1
  <2>2. CASE x <= k
    <3>1. i \in 1 .. size /\ i \notin k + 1 .. k + e BY <1>1, <2>2
    <3>2. In(s, log[i]) BY <1>6, <3>1
    <3>3. s # <<>> /\ k \in 1 .. k BY <1>0, <1>1, <2>2
    <3>4. PICK j \in k .. size : log[j] = s[k] BY <1>0, <3>3 DEF Reaches
    <3>5. In(s, log[j]) /\ j \in x .. size BY <1>0, <1>1, <2>2, <3>3, <3>4 DEF In
    <3>6. In(s, log[x]) BY <1>0, <2>0, <3>2, <3>3, <3>5 DEF Gapless
    <3> QED BY <1>6, <3>6
  <2>3. CASE x > k + e
    <3>1. last /\ e = Page
      <4>1. ~(e < Page) BY <1>1, <1>3, <2>3
      <4>2. e = Page BY <1>1, <1>3, <4>1
      <4> QED BY <1>3, <4>2
    <3>2. PICK j \in x .. size : In(q, log[j]) BY <3>1
    <3>3. j \in 1 .. size /\ j \notin k + 1 .. k + e BY <1>1, <1>3, <2>3
    <3>4. In(s, log[j]) BY <1>6, <3>2, <3>3
    <3>5. s # <<>> BY <3>4 DEF In
    <3>6. k >= Page BY <1>0, <3>5
    <3>7. h \in 1 .. x BY <1>1, <1>9, <2>3, <3>1, <3>6
    <3>8. In(s, log[x]) BY <1>0, <2>0, <3>4, <3>5, <3>7 DEF Gapless
    <3> QED BY <1>6, <3>8
  <2> QED BY <1>1, <1>3, <2>1, <2>2, <2>3
<1>10. Reaches(q, last, n, log) BY <1>0, <1>7, <1>8, <1>9, Zenon DEF Reaches
<1> QED BY <1>0, <1>10

\* So does the first page.
LEMMA ReachesFirst ==
  ASSUME log \in Seq(Nat), Numbered, NEW n \in Nat, n <= Len(log),
         NEW p, p = AuditPage(0), NEW last, last = (Len(p) = Page)
  PROVE  Reaches(p, last, n, log)
<1>1. <<>> \in Seq(Nat) /\ Len(<<>>) = 0 OBVIOUS
<1>2. p = AuditPage(Len(<<>>)) BY <1>1
<1>3. Reaches(<<>> \o p, last, n, log) BY <1>1, <1>2, ReachesMore
<1>4. p \in Seq(Nat) BY AuditPageIs
<1>5. <<>> \o p = p BY <1>4
<1> QED BY <1>3, <1>5

\* What is asked for next goes on from what is shown, whatever the page does.
LEMMA AuditFollowsStep ==
  ASSUME AdminTypeOK, OnRows, TokensHome, Numbered, AuditFollows, AdminNext \/ UNCHANGED adminVars
  PROVE  AuditFollows'
<1> USE DEF server, auditing, history
<1>0. /\ log \in Seq(Nat) /\ audit \in Seq(Nat) /\ from \in Nat /\ hasMore \in BOOLEAN
      /\ {tangled} \subseteq BOOLEAN /\ \A c \in calls : AdminCall(c)
      /\ (log' = log \/ Enters(log, log'))
  BY LogMoves DEF AdminTypeOK
<1>00. log' \in Seq(Nat) /\ Len(log) <= Len(log') BY <1>0 DEF Enters
<1> DEFINE Fits(c) == /\ c.kind = "more" => hasMore /\ c.arg = Len(audit)
                      /\ c.kind = "audit" => c.arg = 0
                      /\ c.kind \in AuditLoads => c.since <= Len(log')
           Arrives(c) == c.kind \in AuditLoads /\ c.stage = "ok" =>
                        Reaches(Then(c), Len(c.got) = Page, Since(c), log')
           One == \A c, d \in calls' : {c.kind, d.kind} \subseteq AuditLoads => c = d
<1>1. ASSUME ~tangled, UNCHANGED auditing, One,
             \A c \in calls' : c \in calls \/ (AdminCall(c) /\ Fits(c) /\ Arrives(c))
      PROVE  AuditFollows'
  <2>1. \A s \in Seq(Nat) : \A more : \A n \in Nat : Reaches(s, more, n, log) => Reaches(s, more, n, log')
    BY <1>0, ReachesLater
  <2>2. Reaches(audit, hasMore, from, log) /\ (hasMore /\ audit # <<>> => Len(audit) >= Page)
    BY <1>1 DEF AuditFollows
  <2>3. Reaches(audit, hasMore, from, log') BY <1>0, <2>1, <2>2
  <2>4. ASSUME NEW c \in calls PROVE Fits(c) /\ Arrives(c)
    <3>1. Fits(c)
      <4>1. /\ c.kind = "more" => hasMore /\ c.arg = Len(audit)
            /\ c.kind = "audit" => c.arg = 0
            /\ c.kind \in AuditLoads => c.since <= Len(log)
        BY <1>1 DEF AuditFollows
      <4>2. c.since \in Nat BY <1>0 DEF AdminCall
      <4> QED BY <1>0, <1>00, <4>1, <4>2
    <3>2. ASSUME c.kind \in AuditLoads, c.stage = "ok"
          PROVE  Reaches(Then(c), Len(c.got) = Page, Since(c), log')
      <4>1. PICK s, more, n : s = Then(c) /\ more = (Len(c.got) = Page) /\ n = Since(c) OBVIOUS
      <4>2. Reaches(s, more, n, log) BY <1>1, <3>2, <4>1 DEF AuditFollows
      <4>3. c.got \in Seq(Nat) /\ c.since \in Nat BY <1>0, <3>2 DEF AdminCall
      <4>4. s \in Seq(Nat) /\ n \in Nat
        <5>1. audit \o c.got \in Seq(Nat) BY <1>0, <4>3, ConcatProperties
        <5> QED BY <1>0, <4>1, <4>3, <5>1 DEF Then, Since
      <4>5. Reaches(s, more, n, log') BY <2>1, <4>2, <4>4
      <4> QED BY <4>1, <4>5
    <3> QED BY <3>1, <3>2
  <2>5. \A c \in calls' : Fits(c) /\ Arrives(c) BY <1>1, <2>4
  <2> HIDE DEF Fits, Arrives
  <2>6. audit' = audit /\ hasMore' = hasMore /\ from' = from BY <1>1
  <2>7. \A c \in calls' : /\ c.kind = "more" => hasMore' /\ c.arg = Len(audit')
                          /\ c.kind \in AuditLoads => c.since <= Len(log')
    BY <2>5, <2>6 DEF Fits
  <2>8. \A c \in calls' : c.kind = "audit" => c.arg = 0 BY <2>5 DEF Fits
  <2>9. \A c \in calls' : c.kind \in AuditLoads /\ c.stage = "ok" =>
          Reaches(Then(c)', Len(c.got) = Page, Since(c)', log')
    <3>1. \A c : Then(c)' = Then(c) /\ Since(c)' = Since(c) BY <2>6 DEF Then, Since
    <3> QED BY <2>5, <3>1 DEF Arrives
  <2>10. /\ Reaches(audit', hasMore', from', log')
         /\ hasMore' /\ audit' # <<>> => Len(audit') >= Page
    BY <2>2, <2>3, <2>6
  <2> QED BY <1>1, <2>7, <2>8, <2>9, <2>10 DEF AuditFollows
<1>2. ASSUME tangled' PROVE AuditFollows' BY <1>2 DEF AuditFollows
<1>3. ASSUME ~tangled, UNCHANGED <<log, auditing>>, calls' \subseteq calls PROVE AuditFollows'
  <2>1. One BY <1>3 DEF AuditFollows
  <2>2. \A c \in calls' : c \in calls BY <1>3
  <2> QED BY <1>1, <1>3, <2>1, <2>2
<1>4. ASSUME NEW rest, rest \subseteq calls, Sends(rest), UNCHANGED <<log, auditing>> PROVE AuditFollows'
  <2>1. CASE tangled' BY <1>2, <2>1
  <2>2. CASE ~tangled'
    <3>1. ~tangled BY <1>4, <2>2, SendsIs
    <3>2. One
      <4> SUFFICES ASSUME NEW c \in calls', NEW d \in calls', {c.kind, d.kind} \subseteq AuditLoads
                   PROVE  c = d
        OBVIOUS
      <4>1. CASE c \in rest /\ d \in rest BY <1>4, <3>1, <4>1 DEF AuditFollows
      <4>2. CASE c \notin rest /\ d \in rest BY <1>4, <2>2, <4>2, SendsIs
      <4>3. CASE c \in rest /\ d \notin rest BY <1>4, <2>2, <4>3, SendsIs
      <4>4. CASE c \notin rest /\ d \notin rest BY <1>4, <4>4, SendsIs
      <4> QED BY <4>1, <4>2, <4>3, <4>4
    <3>3. \A c \in calls' : c \in calls \/ Asked(c) BY <1>4, SendsIs
    <3>4. ASSUME NEW c, Asked(c) PROVE AdminCall(c) /\ Fits(c) /\ Arrives(c)
      <4>1. /\ AdminCall(c) /\ c.stage = "sent" /\ c.since = Len(log)
            /\ c.kind = "more" => hasMore /\ c.arg = Len(audit)
            /\ c.kind = "audit" => c.arg = 0
        BY <3>4 DEF Asked
      <4> QED BY <1>00, <4>1
    <3> QED BY <1>1, <1>4, <3>1, <3>2, <3>3, <3>4
  <2> QED BY <2>1, <2>2
<1>5. ASSUME ~tangled, NEW c \in calls, NEW d, calls' = (calls \ {c}) \cup {d}, d.kind = c.kind
      PROVE  One
  <2>1. \A a, b \in calls : {a.kind, b.kind} \subseteq AuditLoads => a = b BY <1>5 DEF AuditFollows
  <2> QED BY <1>5, <2>1
<1>6. CASE Clicks BY <1>4, <1>6, ClicksSend
<1>7. ASSUME NEW c, Serve(c), ~tangled PROVE AuditFollows'
  <2>1. PICK d : /\ calls' = (calls \ {c}) \cup {d} /\ AdminCall(d)
                 /\ d.kind = c.kind /\ d.on = c.on /\ d.arg = c.arg /\ d.since = c.since
                 /\ c.kind \in AuditLoads => log' = log /\ d.got = AuditPage(c.arg)
    <3>1. c.kind \in AuditLoads => c.kind \notin Changes \cup {"revoke", "create"} BY DEF AuditLoads, Changes
    <3> QED BY <1>7, <3>1, ServeIs
  <2>2. c \in calls /\ UNCHANGED auditing BY <1>7, ServeIs
  <2>3. /\ c.kind = "more" => hasMore /\ c.arg = Len(audit)
        /\ c.kind = "audit" => c.arg = 0
        /\ c.kind \in AuditLoads => c.since <= Len(log)
    BY <1>7, <2>2 DEF AuditFollows
  <2>4. Fits(d)
    <3>1. c.since \in Nat BY <1>0, <2>2 DEF AdminCall
    <3> QED BY <1>0, <1>00, <2>1, <2>3, <3>1
  <2>5. Arrives(d)
    <3> SUFFICES ASSUME d.kind \in AuditLoads
                 PROVE  Reaches(Then(d), Len(d.got) = Page, Since(d), log')
      OBVIOUS
    <3>1. log' = log /\ d.got = AuditPage(c.arg) BY <2>1
    <3>2. PICK last, n : last = (Len(d.got) = Page) /\ n = Since(d) OBVIOUS
    <3>0. n \in Nat /\ n <= Len(log)
      <4>1. d.since \in Nat /\ d.since <= Len(log) BY <2>1, <2>3 DEF AdminCall
      <4>2. from <= Len(log) BY <1>7 DEF AuditFollows, Reaches
      <4> QED BY <1>0, <3>2, <4>1, <4>2 DEF Since
    <3>3. CASE d.kind = "audit"
      <4>1. d.got = AuditPage(0) BY <2>1, <2>3, <3>1, <3>3
      <4>2. Reaches(d.got, last, n, log) BY <1>0, <3>0, <3>2, <4>1, ReachesFirst
      <4> QED BY <3>1, <3>2, <3>3, <4>2 DEF Then
    <3>4. CASE d.kind = "more"
      <4>1. d.got = AuditPage(Len(audit)) /\ hasMore BY <2>1, <2>3, <3>1, <3>4
      <4>2. Reaches(audit, TRUE, from, log) /\ (audit # <<>> => Len(audit) >= Page)
        <5>1. hasMore = TRUE BY <1>0, <4>1
        <5>2. Reaches(audit, hasMore, from, log) /\ (audit # <<>> => Len(audit) >= Page)
          BY <1>7, <4>1 DEF AuditFollows
        <5> QED BY <5>1, <5>2
      <4>3. audit # <<>> => n = from BY <3>2, <3>4 DEF Since
      <4>4. Reaches(audit \o d.got, last, n, log) BY <1>0, <3>0, <3>2, <4>1, <4>2, <4>3, ReachesMore
      <4> QED BY <3>1, <3>2, <3>4, <4>4 DEF Then
    <3> QED BY <3>3, <3>4 DEF AuditLoads
  <2>6. One BY <1>5, <1>7, <2>1, <2>2
  <2>7. \A x \in calls' : x \in calls \/ (AdminCall(x) /\ Fits(x) /\ Arrives(x)) BY <2>1, <2>4, <2>5
  <2> QED BY <1>1, <1>7, <2>1, <2>2, <2>6, <2>7
<1>8. ASSUME NEW c, Break(c), ~tangled PROVE AuditFollows'
  <2>1. PICK d : /\ calls' = (calls \ {c}) \cup {d} /\ AdminCall(d)
                 /\ d.kind = c.kind /\ d.on = c.on /\ d.arg = c.arg /\ d.since = c.since /\ d.stage = "failed"
    BY <1>8, BreakIs
  <2>2. c \in calls /\ UNCHANGED <<log, auditing>> BY <1>8, BreakIs
  <2>3. /\ c.kind = "more" => hasMore /\ c.arg = Len(audit)
        /\ c.kind = "audit" => c.arg = 0
        /\ c.kind \in AuditLoads => c.since <= Len(log)
    BY <1>8, <2>2 DEF AuditFollows
  <2>4. Fits(d) /\ Arrives(d) BY <2>1, <2>2, <2>3
  <2>5. One BY <1>5, <1>8, <2>1, <2>2
  <2>6. \A x \in calls' : x \in calls \/ (AdminCall(x) /\ Fits(x) /\ Arrives(x)) BY <2>1, <2>4
  <2> QED BY <1>1, <1>8, <2>2, <2>5, <2>6
<1>9. ASSUME OtherAdmin, ~tangled PROVE AuditFollows'
  <2>1. UNCHANGED <<calls, auditing>> BY <1>9 DEF OtherAdmin
  <2>2. One BY <1>9, <2>1 DEF AuditFollows
  <2> QED BY <1>1, <1>9, <2>1, <2>2
<1>10. ASSUME NEW c, AuditLoaded(c), ~tangled PROVE AuditFollows'
  <2>1. c \in calls /\ c.kind \in AuditLoads /\ calls' = calls \ {c} /\ UNCHANGED <<log, tangled>>
    BY <1>10 DEF AuditLoaded, Take
  <2>2. CASE c.stage # "ok" BY <1>3, <1>10, <2>1, <2>2 DEF AuditLoaded
  <2>3. CASE c.stage = "ok"
    <3>1. \A d \in calls' : d.kind \notin AuditLoads BY <1>10, <2>1 DEF AuditFollows
    <3>2. PICK s, more, n : s = Then(c) /\ more = (Len(c.got) = Page) /\ n = Since(c) OBVIOUS
    <3>3. audit' = s /\ hasMore' = more /\ from' = n
      BY <1>10, <2>3, <3>2 DEF AuditLoaded, Then, Since
    <3>4. Reaches(s, more, n, log) BY <1>10, <2>1, <2>3, <3>2 DEF AuditFollows
    <3>5. more => Len(s) >= Page
      <4>1. c.got \in Seq(Nat) /\ Page \in Nat BY <1>0, <2>1, <2>3, AdminPageAssumption DEF AdminCall
      <4>2. Len(audit \o c.got) = Len(audit) + Len(c.got) BY <1>0, <4>1, ConcatProperties
      <4>3. Len(audit) \in Nat /\ Len(c.got) \in Nat BY <1>0, <4>1
      <4>4. CASE more
        <5>1. Len(c.got) = Page BY <3>2, <4>4
        <5> QED BY <3>2, <4>1, <4>2, <4>3, <5>1 DEF Then
      <4> QED BY <4>4
    <3>6. Reaches(audit', hasMore', from', log') /\ (hasMore' => Len(audit') >= Page)
      BY <2>1, <3>3, <3>4, <3>5
    <3>7. \A d \in calls' : d.kind # "more" /\ d.kind # "audit" BY <3>1 DEF AuditLoads
    <3> QED BY <3>1, <3>6, <3>7 DEF AuditFollows
  <2> QED BY <2>2, <2>3
<1>11. ASSUME NEW c, Listed(c) \/ Patched(c), ~tangled PROVE AuditFollows'
  <2>1. calls' \subseteq calls /\ UNCHANGED <<log, auditing>> BY <1>11 DEF Listed, Patched
  <2> QED BY <1>3, <1>11, <2>1
<1>12. ASSUME NEW c, BotCreated(c), ~tangled PROVE AuditFollows'
  <2>1. CASE Sends(calls \ {c}) BY <1>4, <1>12, <2>1, BotCreatedIs
  <2>2. CASE calls' = calls \ {c} BY <1>3, <1>12, <2>2, BotCreatedIs
  <2> QED BY <1>12, <2>1, <2>2, BotCreatedIs
<1>13. ASSUME NEW c, TokenChanged(c), ~tangled PROVE AuditFollows'
  <2>0. UNCHANGED <<log, auditing>> BY <1>13, TokenChangedIs
  <2>1. CASE Sends(calls \ {c}) BY <1>4, <2>0, <2>1
  <2>2. CASE calls' = calls \ {c} BY <1>3, <1>13, <2>0, <2>2
  <2> QED BY <1>13, <2>1, <2>2, TokenChangedIs
<1>14. ASSUME UNCHANGED <<log, auditing, calls>>, ~tangled PROVE AuditFollows' BY <1>3, <1>14
<1>15. ASSUME NEW r, ToggleTransfer(r), ~tangled PROVE AuditFollows'
  BY <1>14, <1>15 DEF ToggleTransfer
<1>16. CASE ~tangled
  BY <1>6, <1>7, <1>8, <1>9, <1>10, <1>11, <1>12, <1>13, <1>14, <1>15, <1>16
     DEF AdminNext, Clicks, Answer, adminVars
<1>17. CASE tangled
  <2>1. CASE Clicks BY <1>6, <2>1
  <2>2. CASE ~Clicks
    <3>1. ASSUME NEW c, BotCreated(c) PROVE tangled'
      BY <1>17, <3>1, SendsIs, BotCreatedIs
    <3>2. ASSUME NEW c, TokenChanged(c) PROVE tangled'
      BY <1>17, <3>2, SendsIs, TokenChangedIs
    <3>3. ASSUME NEW c, Serve(c) \/ Break(c) \/ Listed(c) \/ Patched(c) \/ AuditLoaded(c) PROVE tangled'
      BY <1>17, <3>3 DEF Serve, Break, Listed, Patched, AuditLoaded
    <3>4. ASSUME NEW r, ToggleTransfer(r) PROVE tangled' BY <1>17, <3>4 DEF ToggleTransfer
    <3>5. CASE OtherAdmin BY <1>2, <1>17, <3>5 DEF OtherAdmin
    <3>6. CASE UNCHANGED history BY <1>2, <1>17, <3>6
    <3> QED BY <1>2, <2>2, <3>1, <3>2, <3>3, <3>4, <3>5, <3>6 DEF AdminNext, Clicks, Answer, adminVars
  <2> QED BY <2>1, <2>2
<1> QED BY <1>0, <1>16, <1>17

(***************************************************************************)
(* What holds of the page                                                  *)
(***************************************************************************)

\* It holds at first,
LEMMA AdminInvInit == AdminInit => AdminInv
<1> SUFFICES ASSUME AdminInit PROVE AdminInv
  OBVIOUS
<1>1. AdminTypeOK BY AdminTypeInit
<1>2. OneAbout /\ ListsCome /\ OnRows BY DEF AdminInit, OneAbout, ListsCome, OnRows
<1>3. RoomsFollow /\ BotsFollow /\ TokensFollow BY DEF AdminInit, RoomsFollow, BotsFollow, TokensFollow
<1>4. TokensHome BY DEF AdminInit, TokensHome
<1>5. Numbered /\ AuditFollows
  <2>1. /\ log = [i \in 1 .. FirstLog |-> FirstLog - i + 1] /\ FirstLog \in Nat
        /\ audit = <<>> /\ hasMore = TRUE /\ from = 0 /\ calls = {}
    BY AdminPageAssumption DEF AdminInit
  <2>2. Len(log) = FirstLog BY <2>1, IsASeq
  <2>3. Numbered BY <2>1, <2>2 DEF Numbered
  <2>4. Reaches(audit, hasMore, from, log) BY <2>1, <2>2, AdminPageAssumption DEF Reaches
  <2> QED BY <2>1, <2>3, <2>4 DEF AuditFollows
<1>6. OnePost /\ PostsFollow /\ FormsFollow
  BY DEF AdminInit, SettingsInit, OnePost, PostsFollow, FormsFollow
<1> QED BY <1>1, <1>2, <1>3, <1>4, <1>5, <1>6 DEF AdminInv

\* and after every step.
LEMMA AdminInvStep == AdminInv /\ [AdminNext]_adminVars => AdminInv'
<1> SUFFICES ASSUME AdminInv, AdminNext \/ UNCHANGED adminVars PROVE AdminInv'
  OBVIOUS
<1> USE DEF AdminInv
<1>1. AdminTypeOK' BY AdminTypeStep
<1>2. OneAbout' /\ ListsCome' BY OneStep
<1>3. OnRows' BY OnRowsStep
<1>4. RoomsFollow' /\ BotsFollow' /\ TokensFollow' BY TablesFollowStep
<1>5. TokensHome' BY TokensHomeStep
<1>6. Numbered' /\ AuditFollows' BY NumberedStep, AuditFollowsStep
<1>7. OnePost' /\ PostsFollow' /\ FormsFollow'
  BY SettingsMoves, SettingsFollowStep DEF SettingsInv, SettingsFollow, AdminTypeOK
<1> QED BY <1>1, <1>2, <1>3, <1>4, <1>5, <1>6, <1>7

\* What is under way on the page, as its tables need it.
THEOREM AdminInvHolds == AdminSpec => []AdminInv
BY AdminInvInit, AdminInvStep, PTL DEF AdminSpec

\* Every variable of the page and of its settings has its type.
THEOREM AdminTypes == AdminSpec => []AdminTypeOK
<1>1. AdminInv => AdminTypeOK BY DEF AdminInv
<1> QED BY <1>1, AdminInvHolds, PTL

\* The audit log is shown without gaps, and "Load more" stays until its oldest
\* entry is shown, for any size of a page and any order in which transactions
\* that overlap are committed.
THEOREM AuditIsComplete == AdminSpec => []AuditComplete
<1>1. AdminInv => AuditComplete
  <2> SUFFICES ASSUME AdminInv, ~tangled, NEW h \in DOMAIN log, h <= Page + 1, audit # <<>>,
                      log[h] = audit[1]
               PROVE  \A k \in DOMAIN log :
                        /\ log[k] <= from
                        /\ \E i \in 1 .. k : \E x \in DOMAIN audit : audit[x] = log[i]
                        /\ hasMore => \E j \in k .. Len(log) : \E x \in DOMAIN audit : audit[x] = log[j]
                        => \E x \in DOMAIN audit : audit[x] = log[k]
    BY DEF AuditComplete
  <2>1. DOMAIN audit = 1 .. Len(audit) /\ DOMAIN log = 1 .. Len(log) BY DEF AdminInv, AdminTypeOK
  <2>2. Gapless(audit, hasMore, from, log) BY <2>1 DEF AdminInv, AuditFollows, Reaches
  <2> QED BY <2>1, <2>2 DEF Gapless, In
<1> QED BY <1>1, AdminInvHolds, PTL

\* A token in view is one of the bot under which it stands.
THEOREM TokenIsItsBots == AdminSpec => []TokenUnderItsBot
<1>1. AdminInit => TokenUnderItsBot BY DEF AdminInit, TokenUnderItsBot
<1>2. AdminInv /\ TokenUnderItsBot /\ [AdminNext]_adminVars => TokenUnderItsBot'
  <2> SUFFICES ASSUME AdminInv, TokenUnderItsBot, AdminNext \/ UNCHANGED adminVars
               PROVE  TokenUnderItsBot'
    OBVIOUS
  <2> USE DEF detail, history
  <2>1. CASE UNCHANGED <<detail, history>> BY <2>1 DEF TokenUnderItsBot
  <2>2. CASE Clicks
    <3>1. /\ moved' = moved
          /\ \/ UNCHANGED <<expanded, created>>
             \/ expanded' = None
             \/ created' = None
      BY <2>2, ClicksSend DEF AdminInv
    <3> QED BY <3>1 DEF TokenUnderItsBot
  <2>3. ASSUME NEW r, ToggleTransfer(r) PROVE TokenUnderItsBot'
    BY <2>3 DEF ToggleTransfer, TokenUnderItsBot
  <2>4. ASSUME NEW c, TokenChanged(c) PROVE TokenUnderItsBot'
    <3>1. PICK b : b = IF c.kind = "issue" THEN c.on ELSE c.arg OBVIOUS
    <3>2. /\ UNCHANGED expanded
          /\ created' = IF c.kind = "issue" /\ c.stage = "ok" THEN [token |-> c.got, bot |-> b] ELSE created
          /\ moved' = (moved \/ (c.kind = "issue" /\ expanded # b))
      BY <2>4, <3>1, TokenChangedIs DEF AdminInv
    <3>3. CASE c.kind = "issue" /\ c.stage = "ok"
      <4>1. created'.bot = b BY <3>2, <3>3
      <4>2. ~moved' => expanded = b BY <3>2, <3>3
      <4> QED BY <3>2, <4>1, <4>2 DEF TokenUnderItsBot
    <3>4. CASE ~(c.kind = "issue" /\ c.stage = "ok")
      <4>1. created' = created /\ (~moved' => ~moved) BY <3>2, <3>4
      <4> QED BY <3>2, <4>1 DEF TokenUnderItsBot
    <3> QED BY <3>3, <3>4
  <2>5. ASSUME NEW c, Serve(c) \/ Break(c) \/ Listed(c) \/ Patched(c) \/ BotCreated(c) \/ AuditLoaded(c)
        PROVE  UNCHANGED <<expanded, created, moved>>
    BY <2>5 DEF Serve, Break, Listed, Patched, BotCreated, AuditLoaded
  <2>6. CASE UNCHANGED <<expanded, created, moved>> BY <2>6 DEF TokenUnderItsBot
  <2>7. OtherAdmin => UNCHANGED <<expanded, created, moved>> BY DEF OtherAdmin
  <2> QED BY <2>1, <2>2, <2>3, <2>4, <2>5, <2>6, <2>7 DEF AdminNext, Clicks, Answer, adminVars
<1> QED BY <1>1, <1>2, AdminInvHolds, PTL DEF AdminSpec

\* A sequence of one.
LEMMA OnlyOne ==
  ASSUME NEW S, NEW s \in Seq(S), Len(s) <= 1, s # <<>>
  PROVE  DOMAIN s = {1}
<1>1. Len(s) \in Nat /\ Len(s) # 0 BY EmptySeq
<1>2. Len(s) = 1 BY <1>1
<1> QED BY <1>2

\* What the page changed itself it shows, once everything is answered.
THEOREM OwnIsShown == AdminSpec => []OwnChangesShown
<1>1. AdminInv => OwnChangesShown
  <2> SUFFICES ASSUME AdminInv PROVE OwnChangesShown
    OBVIOUS
  <2>1. ASSUME calls = {}
        PROVE  /\ \A r \in (own \ crossed) \cap Rooms : rows[r] = room[r]
               /\ \A b \in (own \ crossed) \cap Bots : tokensOf[b] = Of(b)
               /\ "bots" \in own \ crossed => listed = named
    BY <2>1 DEF AdminInv, RoomsFollow, BotsFollow, TokensFollow
  <2>2. SettingsShown
    <3> SUFFICES ASSUME posts = {}, NEW f \in kept \ muddled
                 PROVE  /\ {stored[f][n] : n \in DOMAIN stored[f]} = {current[f]}
                        /\ f \notin edited => field[f] = current[f]
      BY DEF SettingsShown
    <3>1. f \in Forms /\ stored[f] \in Seq(Values) BY DEF AdminInv, AdminTypeOK, SettingsTypeOK
    <3>2. /\ Len(stored[f]) <= 1 /\ stored[f] # <<>> /\ current[f] = FirstRow(f)
          /\ f \notin edited => field[f] = FirstRow(f)
      BY <3>1 DEF AdminInv, FormsFollow
    <3>3. DOMAIN stored[f] = {1} /\ FirstRow(f) = stored[f][1]
      <4>1. DOMAIN stored[f] = {1} BY <3>1, <3>2, OnlyOne
      <4> QED BY <3>2, <4>1 DEF FirstRow
    <3> QED BY <3>2, <3>3
  <2> QED BY <2>1, <2>2 DEF OwnChangesShown
<1> QED BY <1>1, AdminInvHolds, PTL
=============================================================================
