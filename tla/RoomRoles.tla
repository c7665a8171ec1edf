----------------------------- MODULE RoomRoles -----------------------------
(***************************************************************************)
(* Membership, roles and ownership of one room.                            *)
(*                                                                         *)
(* Every HTTP request has a database session of its own (database.py) at   *)
(* PostgreSQL's default isolation: each SELECT is a step that sees what is *)
(* committed, and the writes of the request happen together at its commit. *)
(* Nothing is locked between the two.  SQLAlchemy emits an UPDATE only for *)
(* a value that differs from the one loaded; an UPDATE that finds no row   *)
(* and an INSERT of a row that exists or has no room fail the request; a   *)
(* DELETE of a row that is gone does not.                                  *)
(***************************************************************************)
CONSTANTS
    Users,       \* accounts
    Creator,     \* who creates the room
    SiteAdmins,  \* accounts with is_site_admin
    Requests,    \* requests that can be under way at once
    Ops          \* the operations requested, a subset of AllOps

AllOps == {"join", "add", "remove", "change", "transfer", "adminTransfer",
           "leave", "update", "delete"}
TransferOps == {"transfer", "adminTransfer"}

ASSUME RolesAssumption ==
    /\ Creator \in Users
    /\ SiteAdmins \subseteq Users
    /\ Ops \subseteq AllOps

VARIABLES
    phase,    \* the rooms row: not yet created, there, or deleted
    role,     \* the room_memberships rows
    ownerId,  \* rooms.owner_id
    privacy,  \* rooms.is_private
    req,      \* what each request under way has read so far
    transfers, \* history: "none" or some "begun"
    raced,     \* history: a commit wrote over what had changed since it was read
    abdicated  \* history: the last transfer was of the owner to himself

vars    == <<phase, role, ownerId, privacy, req, transfers, raced, abdicated>>
row     == <<phase, role, ownerId, privacy>>
written == <<raced, abdicated>>

RoomRole == {"member", "admin", "owner"}
Role     == RoomRole \cup {"none"}
Privacy  == {"open", "private"}
Idle     == [op |-> "idle"]

\* _ROLE_RANK, as the roles that reach a minimum
AtLeast(minimum) ==
    CASE minimum = "member" -> RoomRole
      [] minimum = "admin"  -> {"admin", "owner"}
      [] minimum = "owner"  -> {"owner"}

\* The role each endpoint requires of the caller
Required(op) ==
    CASE op = "leave" -> "member"
      [] op \in {"add", "remove", "update"} -> "admin"
      [] op \in {"change", "transfer", "delete"} -> "owner"

\* The order of each endpoint's reads: the room, the caller's membership, the
\* target's, and for a transfer the current owner's.
First(op)       == IF op \in {"remove", "change", "leave"} THEN "auth" ELSE "room"
AfterRoom(op)   == IF op \in {"join", "adminTransfer"} THEN "target" ELSE "auth"
AfterAuth(op)   == IF op \in {"update", "delete"} THEN "commit" ELSE "target"
AfterTarget(op) == IF op \in TransferOps THEN "current" ELSE "commit"

Init ==
    /\ phase = "unborn"
    /\ role = [u \in Users |-> "none"]
    /\ ownerId = Creator
    /\ privacy \in Privacy
    /\ req = [r \in Requests |-> Idle]
    /\ transfers = "none" /\ raced = FALSE /\ abdicated = FALSE

-----------------------------------------------------------------------------
(* Requests                                                                *)

\* create_room: the room and its owner's membership in one transaction
Create ==
    /\ phase = "unborn"
    /\ phase' = "present"
    /\ role' = [role EXCEPT ![Creator] = "owner"]
    /\ UNCHANGED <<ownerId, privacy, req, transfers, written>>

\* What a request asks for: one's own membership, someone else's or the room
Asks(op, by, target, to) ==
    /\ op \in {"join", "leave", "update", "delete"} => target = by
    /\ op = "adminTransfer" => by \in SiteAdmins
    /\ op = "change" => to \in RoomRole
    /\ op = "update" => to \in Privacy
    /\ op \notin {"change", "update"} => to = "-"

Begin(r) ==
    /\ phase = "present"
    /\ req[r] = Idle
    /\ \E op \in Ops, by \in Users, target \in Users, to \in RoomRole \cup Privacy \cup {"-"} :
          /\ Asks(op, by, target, to)
          /\ req' = [req EXCEPT ![r] =
                [op |-> op, by |-> by, target |-> target, to |-> to, stage |-> First(op),
                 acting |-> "none", loaded |-> "none", owner |-> by, privacy |-> "open"]]
          /\ transfers' = IF op \in TransferOps THEN "begun" ELSE transfers
    /\ UNCHANGED <<row, written>>

At(r, stage) == req[r] # Idle /\ req[r].stage = stage

\* A request that is refused or fails leaves no trace.
End(r) == req' = [req EXCEPT ![r] = Idle]

ReadRoom(r) ==
    /\ At(r, "room")
    /\ IF phase = "present" /\ ~(req[r].op = "join" /\ privacy = "private")
          THEN req' = [req EXCEPT ![r].stage = AfterRoom(req[r].op),
                    ![r].owner = IF req[r].op \in TransferOps THEN ownerId ELSE @,
                    ![r].privacy = IF req[r].op = "update" THEN privacy ELSE @]
          ELSE End(r)
    /\ UNCHANGED <<row, transfers, written>>

\* require_room_member, require_room_role; a site admin may update any room
Authorize(r) ==
    /\ At(r, "auth")
    /\ IF \/ role[req[r].by] \in AtLeast(Required(req[r].op))
          \/ req[r].op = "update" /\ req[r].by \in SiteAdmins
          THEN req' = [req EXCEPT ![r].stage = AfterAuth(req[r].op),
                                  ![r].acting = IF req[r].op = "remove" THEN role[req[r].by] ELSE @]
          ELSE End(r)
    /\ UNCHANGED <<row, transfers, written>>

\* Mutant: the owner may leave
AcceptsOwnerLeaving(q, loaded) ==
    /\ q.op \in {"join", "add"} => loaded = "none"
    /\ q.op = "remove" => loaded = "member" \/ (loaded = "admin" /\ q.acting = "owner")
    /\ q.op = "change" => loaded \in {"member", "admin"} /\ q.to # "owner"
    /\ q.op \in TransferOps \cup {"leave"} => loaded # "none"

\* What the operation makes of the target's membership it has loaded: nothing
\* to do or an error (FALSE), or go on
Accepts(q, loaded) ==
    /\ q.op \in {"join", "add"} => loaded = "none"
    /\ q.op = "remove" => loaded = "member" \/ (loaded = "admin" /\ q.acting = "owner")
    /\ q.op = "change" => loaded \in {"member", "admin"} /\ q.to # "owner"
    /\ q.op = "leave" => loaded \in {"member", "admin"}
    /\ q.op \in TransferOps => loaded # "none"

\* remove_member_endpoint still holds the caller's membership, so the session
\* returns that object, as it was loaded, to a caller who targets himself.
ReadTarget(r) ==
    /\ At(r, "target")
    /\ LET q == req[r]
           loaded == IF q.op = "remove" /\ q.target = q.by THEN q.acting ELSE role[q.target]
       IN  IF Accepts(q, loaded)
             THEN req' = [req EXCEPT ![r].stage = AfterTarget(q.op), ![r].loaded = loaded]
             ELSE End(r)
    /\ UNCHANGED <<row, transfers, written>>

\* Mutant: a site admin's transfer demotes the site admin
CurrentCaller(q) == q.by

\* The owner a transfer demotes: the caller, or for a site admin the owner_id
\* the room was loaded with
Current(q) == IF q.op = "transfer" THEN q.by ELSE q.owner

ReadCurrent(r) ==
    /\ At(r, "current")
    /\ LET q == req[r]
           loaded == IF q.target = Current(q) THEN q.loaded ELSE role[Current(q)]
       IN  IF loaded = "none"
             THEN End(r)
             ELSE req' = [req EXCEPT ![r].stage = "commit", ![r].acting = loaded]
    /\ UNCHANGED <<row, transfers, written>>

-----------------------------------------------------------------------------
(* Commits                                                                 *)

Committing(r, ops) == At(r, "commit") /\ req[r].op \in ops

\* What a request has read of memberships and of the owner is no longer so.
Outdated(q) ==
    \/ role[q.target] # q.loaded
    \/ q.op = "transfer" /\ role[q.by] # "owner"
    \/ q.op \in TransferOps /\ (role[Current(q)] # q.acting \/ ownerId # q.owner)

Rewritten   == role' # role \/ ownerId' # ownerId
NoteRace(q) == raced' = (raced \/ (Outdated(q) /\ Rewritten))

\* join_room, add_member
CommitJoin(r) ==
    /\ Committing(r, {"join", "add"})
    /\ role' = IF phase = "present" /\ role[req[r].target] = "none"
                 THEN [role EXCEPT ![req[r].target] = "member"]
                 ELSE role
    /\ End(r)
    /\ UNCHANGED <<phase, ownerId, privacy, transfers, written>>

\* remove_member, leave_room
CommitRemove(r) ==
    /\ Committing(r, {"remove", "leave"})
    /\ role' = [role EXCEPT ![req[r].target] = "none"]
    /\ UNCHANGED <<phase, ownerId, privacy, transfers, abdicated>>
    /\ NoteRace(req[r])
    /\ End(r)

\* change_member_role
CommitChange(r) ==
    /\ Committing(r, {"change"})
    /\ LET q == req[r]
       IN  role' = IF q.to # q.loaded /\ role[q.target] # "none"
                     THEN [role EXCEPT ![q.target] = q.to]
                     ELSE role
    /\ UNCHANGED <<phase, ownerId, privacy, transfers, abdicated>>
    /\ NoteRace(req[r])
    /\ End(r)

\* The role a transfer gives u, and the one u's membership was loaded with
Given(q, u) == IF u = Current(q) THEN "admin" ELSE "owner"
Held(q, u)  == IF u = Current(q) THEN q.acting ELSE q.loaded

\* transfer_ownership, transfer_ownership_admin: the target becomes owner, then
\* the current owner admin, both the same object if they are the same user.
CommitTransfer(r) ==
    /\ Committing(r, TransferOps)
    /\ LET q == req[r]
           changed == {u \in {q.target, Current(q)} : Given(q, u) # Held(q, u)}
       IN  /\ IF phase = "present" /\ \A u \in changed : role[u] # "none"
             THEN /\ role' = [u \in Users |-> IF u \in changed THEN Given(q, u) ELSE role[u]]
                  /\ ownerId' = IF q.target # q.owner THEN q.target ELSE ownerId
             ELSE UNCHANGED <<role, ownerId>>
          /\ abdicated' = IF Rewritten THEN q.target = Current(q) ELSE abdicated
    /\ NoteRace(req[r])
    /\ End(r)
    /\ UNCHANGED <<phase, privacy, transfers>>

\* update_room, as far as is_private goes
CommitUpdate(r) ==
    /\ Committing(r, {"update"})
    /\ privacy' = IF phase = "present" /\ req[r].to # req[r].privacy
                    THEN req[r].to ELSE privacy
    /\ End(r)
    /\ UNCHANGED <<phase, role, ownerId, transfers, written>>

\* delete_room: the memberships go with the room
CommitDelete(r) ==
    /\ Committing(r, {"delete"})
    /\ phase' = "deleted"
    /\ role' = [u \in Users |-> "none"]
    /\ End(r)
    /\ UNCHANGED <<ownerId, privacy, transfers, written>>

Next ==
    \/ Create
    \/ \E r \in Requests :
          \/ Begin(r)
          \/ ReadRoom(r) \/ Authorize(r) \/ ReadTarget(r) \/ ReadCurrent(r)
          \/ CommitJoin(r) \/ CommitRemove(r) \/ CommitChange(r)
          \/ CommitTransfer(r) \/ CommitUpdate(r) \/ CommitDelete(r)

Spec == Init /\ [][Next]_vars
-----------------------------------------------------------------------------
(* Properties                                                              *)

Stage   == {"room", "auth", "target", "current", "commit"}
Request == [op : Ops, by : Users, target : Users,
            to : RoomRole \cup Privacy \cup {"-"}, stage : Stage,
            acting : Role, loaded : Role, owner : Users, privacy : Privacy]

\* Every variable has its type, what a request asks for is something its
\* endpoint accepts, and only a room that exists has members
\* (models/membership.py:17-27, room_service.py:363-417).
TypeOK ==
    /\ phase \in {"unborn", "present", "deleted"}
    /\ role \in [Users -> Role] /\ ownerId \in Users /\ privacy \in Privacy
    /\ req \in [Requests -> Request \cup {Idle}]
    /\ transfers \in {"none", "begun"} /\ raced \in BOOLEAN /\ abdicated \in BOOLEAN
    /\ \A r \in Requests : req[r] # Idle =>
          Asks(req[r].op, req[r].by, req[r].target, req[r].to)
    /\ phase # "present" => \A u \in Users : role[u] = "none"

\* The room has one owner, who is the one the rooms row names: until an
\* ownership is transferred, removals, departures and role changes keep it so
\* however their reads and commits interleave (room_service.py:444-472, 511-517).
OneOwner ==
    transfers = "none" /\ phase = "present" =>
        \A u \in Users : role[u] = "owner" <=> u = ownerId

\* The rooms row and the memberships name the same owner: nobody else has the
\* role, and he has it, over removals, departures, role changes and transfers by
\* owners and site admins that overlap in any way in which no commit writes over
\* what has changed since its request read it.  The one exception is an owner
\* who was made his own successor: the second assignment of transfer_ownership
\* leaves him an admin, and the room without an owner (room_service.py:475-486,
\* admin_service.py:121-144).
OwnerIsRecorded ==
    ~raced /\ phase = "present" =>
        /\ \A u \in Users : role[u] = "owner" => u = ownerId
        /\ role[ownerId] = "owner" \/ abdicated
=============================================================================
