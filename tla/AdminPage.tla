----------------------------- MODULE AdminPage -----------------------------
(***************************************************************************)
(* The tables of the admin page (frontend/src/pages/AdminPage.tsx,         *)
(* api/admin.ts, api/bots.ts) over what they administer (backend           *)
(* services/admin_service.py, bot_service.py, audit.py): rooms to archive  *)
(* and hand over, bots with their API tokens, and the audit log, which     *)
(* every change adds to. The settings tab is AdminSettings.                *)
(*                                                                         *)
(* Each table is a copy made when its tab was opened and patched with the  *)
(* answers that come; nothing numbers the calls, and other admins work on  *)
(* the same rows. One busyId blocks the row acted on last.                 *)
(***************************************************************************)
EXTENDS AdminSettings

CONSTANTS
  Rooms, Bots, Tokens,
  Page,       \* AUDIT_PAGE_SIZE
  FirstLog    \* entries of the audit log at first

Revoked == "revoked"
Owners == {"first", "second"}
Records == [archived : BOOLEAN, owner : Owners]

\* Rooms and bots are told apart by their ids.
ASSUME AdminPageAssumption ==
  /\ None \notin Rooms \cup Bots \cup Tokens \cup Records \cup {Revoked}
  /\ \A S \in SUBSET Tokens : S # None
  /\ Rooms \cap Bots = {} /\ "bots" \notin Rooms \cup Bots /\ Revoked \notin Bots
  /\ Page \in Nat \ {0} /\ FirstLog \in Nat

VARIABLES
  room,       \* the server's rooms
  named,      \* the server's bots
  bot,        \* the bot of a token, None before it is issued, Revoked at last
  log,        \* the audit log, newest created_at first: each entry by its number
              \* in the order of the commits
  tab,
  rows,       \* rooms, as the page has them, None before the first list
  listed,     \* bots, as the page has them
  tokensOf,   \* tokensByBot
  expanded,   \* expandedBotId
  created,    \* justCreatedToken, with the bot it was issued for
  audit,      \* auditLog: the numbers of the entries shown
  hasMore,    \* auditHasMore
  from,       \* history: how many entries there were when the first page was asked for
  picking,    \* transferringRoomId
  busy,       \* busyId
  calls,      \* the calls under way
  own,        \* history: rooms, bots and the list of bots this page changed last
  crossed,    \* history: those with an answer that may be older
  tangled,    \* history: two loads of the audit log were under way at once
  moved       \* history: a token came for a bot no longer expanded

server == <<room, named, bot, log>>
table == <<rows, listed, tokensOf>>
detail == <<tab, expanded, created, picking>>
auditing == <<audit, hasMore, from>>
history == <<own, crossed, tangled, moved>>
adminVars == <<server, table, detail, auditing, busy, calls, history, settings, counts>>

AdminInit ==
  /\ room = [r \in Rooms |-> [archived |-> FALSE, owner |-> "first"]]
  /\ \E b \in Bots : named = {b}
  /\ bot = [t \in Tokens |-> None]
  /\ log = [i \in 1 .. FirstLog |-> FirstLog - i + 1]
  /\ tab = "users"
  /\ rows = [r \in Rooms |-> None] /\ listed = {} /\ tokensOf = [b \in Bots |-> None]
  /\ expanded = None /\ created = None /\ picking = None /\ busy = None
  /\ audit = <<>> /\ hasMore = TRUE /\ from = 0
  /\ calls = {}
  /\ own = {} /\ crossed = {} /\ tangled = FALSE /\ moved = FALSE
  /\ made = 0 /\ others = 0 /\ breaks = 0 /\ SettingsInit

(***************************************************************************)
(* Calls                                                                   *)
(***************************************************************************)

Changes == {"archive", "transfer", "create", "issue", "revoke"}
Lists == {"rooms", "bots", "tokens"}
AuditLoads == {"audit", "more"}

\* The rooms and bots a call is about, or the list of bots.
About(c) ==
  CASE c.kind = "rooms" -> Rooms
    [] c.kind \in {"bots", "create"} -> {"bots"}
    [] c.kind = "revoke" -> {c.arg}
    [] c.kind \in AuditLoads -> {}
    [] OTHER -> {c.on}

\* A call of kind k; "frees" when the row it blocks is free after it. "since"
\* is how many entries had been committed by then.
Ask(k, x, y, frees) ==
  [id |-> CHOOSE n \in 0 .. Cardinality(calls) : \A c \in calls : c.id # n,
   kind |-> k, on |-> x, arg |-> y, frees |-> frees, since |-> Len(log),
   stage |-> "sent", got |-> None]

\* The calls S join the calls "rest". What two of them are about may end up
\* as the older one has it.
Send(S, rest) ==
  /\ calls' = rest \cup S
  /\ crossed' = crossed \cup UNION {About(c) \cap About(d) : c \in S, d \in rest}
  /\ tangled' = (tangled \/ \E c \in S, d \in rest : {c.kind, d.kind} \subseteq AuditLoads)

(***************************************************************************)
(* The admin                                                               *)
(***************************************************************************)

\* The effect on the tab loads its tables anew. (Users and invites: Accounts,
\* OneTimeLinks.)
SetTab(t) ==
  /\ t # tab /\ Act /\ tab' = t
  /\ Send(CASE t = "rooms" -> {Ask("rooms", None, None, FALSE)}
            [] t = "bots" -> {Ask("bots", None, None, FALSE)}
            [] t = "audit" -> {Ask("audit", None, 0, FALSE)}
            [] OTHER -> {}, calls)
  /\ IF t = "settings" THEN LoadAll /\ UNCHANGED <<stored, forms, kept, edited>>
     ELSE UNCHANGED settings
  /\ UNCHANGED <<server, table, expanded, created, picking, auditing, busy, own, moved>>

\* withBusy, for a row.
Start(k, x, y, row) ==
  /\ Act
  /\ busy' = row
  /\ Send({Ask(k, x, y, TRUE)}, calls)
  /\ UNCHANGED <<server, table, detail, auditing, settings, own, moved>>

\* handleToggleArchive: what the row shows decides.
ToggleArchive(r) ==
  /\ tab = "rooms" /\ rows[r] # None /\ busy # r
  /\ Start("archive", r, ~rows[r].archived, r)

\* toggleTransfer, and handleTransferOwnership to another user than the
\* owner shown; the picker is not blocked.
ToggleTransfer(r) ==
  /\ tab = "rooms" /\ rows[r] # None /\ busy # r /\ Act
  /\ picking' = IF picking = r THEN None ELSE r
  /\ UNCHANGED <<server, table, tab, expanded, created, auditing, settings, busy, calls, history>>
TransferOwnership(r) ==
  /\ tab = "rooms" /\ picking = r
  /\ \E o \in Owners \ {rows[r].owner} : Start("transfer", r, o, r)

\* Mutant: the token issued last stays in view.
ToggleExpandKeeping(b) ==
  /\ tab = "bots" /\ b \in listed /\ Act
  /\ expanded' = IF expanded = b THEN None ELSE b
  /\ Send({c \in {Ask("tokens", b, None, FALSE)} : expanded # b /\ tokensOf[b] = None}, calls)
  /\ UNCHANGED <<server, table, tab, created, picking, auditing, settings, busy, own, moved>>

\* toggleExpandBot: the tokens of a bot are listed once.
ToggleExpand(b) ==
  /\ tab = "bots" /\ b \in listed /\ Act
  /\ expanded' = IF expanded = b THEN None ELSE b
  /\ created' = IF expanded = b THEN created ELSE None
  /\ Send({c \in {Ask("tokens", b, None, FALSE)} : expanded # b /\ tokensOf[b] = None}, calls)
  /\ UNCHANGED <<server, table, tab, picking, auditing, settings, busy, own, moved>>

\* handleCreateBot, which no busyId blocks.
CreateBot ==
  /\ tab = "bots" /\ Act
  /\ Send({Ask("create", "bots", None, FALSE)}, calls)
  /\ UNCHANGED <<server, table, detail, auditing, settings, busy, own, moved>>

\* handleIssueToken and handleRevokeToken, up to their first await.
IssueToken ==
  /\ tab = "bots" /\ expanded # None /\ busy # expanded
  /\ Start("issue", expanded, None, expanded)
RevokeToken(t) ==
  /\ tab = "bots" /\ expanded # None /\ busy # t
  /\ tokensOf[expanded] # None /\ t \in tokensOf[expanded]
  /\ Start("revoke", t, expanded, t)

\* Mutant: the offset counts the page that is asked for.
LoadMoreBeyond ==
  /\ tab = "audit" /\ hasMore /\ Act
  /\ Send({Ask("more", None, Len(audit) + Page, FALSE)}, calls)
  /\ UNCHANGED <<server, table, detail, auditing, settings, busy, own, moved>>

\* "Load more"; the button stays while it loads.
LoadMore ==
  /\ tab = "audit" /\ hasMore /\ Act
  /\ Send({Ask("more", None, Len(audit), FALSE)}, calls)
  /\ UNCHANGED <<server, table, detail, auditing, settings, busy, own, moved>>

(***************************************************************************)
(* The server                                                              *)
(***************************************************************************)

Of(b) == {t \in Tokens : bot[t] = b}

\* list_audit_log.
AuditPage(offset) ==
  SubSeq(log, offset + 1, IF offset + Page <= Len(log) THEN offset + Page ELSE Len(log))

\* record_audit_log: created_at is the start of the transaction, so the entry
\* comes below those that began after it, however late it is committed. No
\* transaction begins before its call is sent, after "since" commits.
Enter(since) ==
  \E p \in 1 .. Len(log) + 1 :
    /\ \A i \in 1 .. p - 1 : log[i] > since
    /\ log' = SubSeq(log, 1, p - 1) \o <<Len(log) + 1>> \o SubSeq(log, p, Len(log))

\* A change and the entry it makes are committed together.
Change(c) ==
  CASE c.kind = "archive" ->
         /\ room' = [room EXCEPT ![c.on].archived = c.arg] /\ UNCHANGED <<named, bot>>
    [] c.kind = "transfer" ->
         /\ room' = [room EXCEPT ![c.on].owner = c.arg] /\ UNCHANGED <<named, bot>>
    [] c.kind = "create" ->
         /\ \E b \in Bots \ named : named' = named \cup {b}
         /\ UNCHANGED <<room, bot>>
    [] c.kind = "issue" ->
         /\ \E t \in Tokens : bot[t] = None /\ bot' = [bot EXCEPT ![t] = c.on]
         /\ UNCHANGED <<room, named>>
    [] c.kind = "revoke" ->
         /\ bot' = [bot EXCEPT ![c.on] = Revoked] /\ UNCHANGED <<room, named>>

Answered(c) ==
  CASE c.kind \in {"archive", "transfer"} -> room'[c.on]
    [] c.kind = "issue" -> CHOOSE t \in Tokens : bot'[t] # bot[t]
    [] c.kind = "rooms" -> room
    [] c.kind = "bots" -> named
    [] c.kind = "tokens" -> Of(c.on)
    [] c.kind \in AuditLoads -> AuditPage(c.arg)
    [] OTHER -> None

\* A call is served; a token is revoked once, and a name given once.
Serve(c) ==
  /\ c \in calls /\ c.stage = "sent"
  /\ IF \/ c.kind = "revoke" /\ bot[c.on] = Revoked
        \/ c.kind = "create" /\ named = Bots
     THEN /\ calls' = (calls \ {c}) \cup {[c EXCEPT !.stage = "failed"]}
          /\ UNCHANGED <<server, own>>
     ELSE /\ IF c.kind \in Changes
             THEN Change(c) /\ Enter(c.since) /\ own' = own \cup About(c)
             ELSE UNCHANGED <<server, own>>
          /\ calls' = (calls \ {c}) \cup {[c EXCEPT !.stage = "ok", !.got = Answered(c)]}
  /\ UNCHANGED <<table, detail, auditing, settings, busy, crossed, tangled, moved, counts>>

\* A call is refused, or broken on its way there or back.
Break(c) ==
  /\ c \in calls /\ c.stage # "failed" /\ breaks < MaxBreaks
  /\ breaks' = breaks + 1
  /\ calls' = (calls \ {c}) \cup {[c EXCEPT !.stage = "failed", !.got = None]}
  /\ crossed' = crossed \cup About(c)
  /\ UNCHANGED <<server, table, detail, auditing, settings, busy, own, tangled, moved,
                 made, others>>

\* Other admins, on the same rooms and bots or elsewhere; their transactions
\* may have begun at any time.
OtherAdmin ==
  /\ others < MaxOthers /\ others' = others + 1
  /\ Enter(0)
  /\ \/ \E r \in Rooms : /\ room' = [room EXCEPT ![r].archived = ~@]
                         /\ own' = own \ {r} /\ UNCHANGED <<named, bot>>
     \/ \E b \in Bots \ named : /\ named' = named \cup {b}
                               /\ own' = own \ {"bots"} /\ UNCHANGED <<room, bot>>
     \/ UNCHANGED <<room, named, bot, own>>
  /\ UNCHANGED <<table, detail, auditing, settings, busy, calls, crossed, tangled, moved,
                 made, breaks>>

(***************************************************************************)
(* Answers                                                                 *)
(***************************************************************************)

Take(c, k) == c \in calls /\ c.kind \in k /\ c.stage # "sent"
Free(c) == busy' = IF c.frees THEN None ELSE busy

\* setRooms, setBots, setTokensByBot: whatever the answer says.
Listed(c) ==
  /\ Take(c, Lists)
  /\ rows' = IF c.kind = "rooms" /\ c.stage = "ok" THEN c.got ELSE rows
  /\ listed' = IF c.kind = "bots" /\ c.stage = "ok" THEN c.got ELSE listed
  /\ tokensOf' = IF c.kind = "tokens" /\ c.stage = "ok"
                 THEN [tokensOf EXCEPT ![c.on] = c.got] ELSE tokensOf
  /\ Free(c)
  /\ calls' = calls \ {c}
  /\ UNCHANGED <<server, detail, auditing, settings, history, counts>>

\* Mutant: the row is left as it was.
PatchedNot(c) ==
  /\ Take(c, {"archive", "transfer"})
  /\ picking' = IF c.kind = "transfer" THEN None ELSE picking
  /\ Free(c)
  /\ calls' = calls \ {c}
  /\ UNCHANGED <<server, table, tab, expanded, created, auditing, settings, history, counts>>

\* The row takes the record that came back; the picker of whatever room closes.
Patched(c) ==
  /\ Take(c, {"archive", "transfer"})
  /\ rows' = IF c.stage = "ok" /\ rows[c.on] # None
             THEN [rows EXCEPT ![c.on] = c.got] ELSE rows
  /\ picking' = IF c.kind = "transfer" THEN None ELSE picking
  /\ Free(c)
  /\ calls' = calls \ {c}
  /\ UNCHANGED <<server, listed, tokensOf, tab, expanded, created, auditing, settings, history, counts>>

\* handleCreateBot goes on to list the bots.
BotCreated(c) ==
  /\ Take(c, {"create"})
  /\ IF c.stage = "ok"
     THEN Send({Ask("bots", None, None, FALSE)}, calls \ {c})
     ELSE calls' = calls \ {c} /\ UNCHANGED <<crossed, tangled>>
  /\ UNCHANGED <<server, table, detail, auditing, settings, busy, own, moved, counts>>

\* handleIssueToken and handleRevokeToken go on to list the bot's tokens.
TokenChanged(c) ==
  /\ Take(c, {"issue", "revoke"})
  /\ LET b == IF c.kind = "issue" THEN c.on ELSE c.arg
     IN /\ created' = IF c.kind = "issue" /\ c.stage = "ok"
                      THEN [token |-> c.got, bot |-> b] ELSE created
        /\ moved' = (moved \/ (c.kind = "issue" /\ expanded # b))
        /\ IF c.stage = "ok"
           THEN Send({Ask("tokens", b, None, TRUE)}, calls \ {c}) /\ UNCHANGED busy
           ELSE calls' = calls \ {c} /\ Free(c) /\ UNCHANGED <<crossed, tangled>>
  /\ UNCHANGED <<server, table, tab, expanded, picking, auditing, settings, own, counts>>

\* loadAuditLog replaces what is shown, "Load more" adds to it.
AuditLoaded(c) ==
  /\ Take(c, AuditLoads)
  /\ IF c.stage = "ok"
     THEN /\ audit' = IF c.kind = "audit" THEN c.got ELSE audit \o c.got
          /\ hasMore' = (Len(c.got) = Page)
          /\ from' = IF c.kind = "audit" \/ audit = <<>> THEN c.since ELSE from
     ELSE UNCHANGED auditing
  /\ calls' = calls \ {c}
  /\ UNCHANGED <<server, table, detail, busy, history, settings, counts>>

Answer(c) == Listed(c) \/ Patched(c) \/ BotCreated(c) \/ TokenChanged(c) \/ AuditLoaded(c)

SettingsStep ==
  \/ \E f \in Forms : Type(f) \/ Save(f)
  \/ SendTest
  \/ \E p \in posts : \/ ReadRow(p) \/ WriteRow(p) \/ BreakPost(p)
                      \/ SettingsLoaded(p) \/ SettingsSaved(p) \/ TestSent(p)
  \/ OtherUser

AdminNext ==
  \/ \E t \in {"users", "rooms", "bots", "audit", "settings"} : SetTab(t)
  \/ \E r \in Rooms : ToggleArchive(r) \/ ToggleTransfer(r) \/ TransferOwnership(r)
  \/ \E b \in Bots : ToggleExpand(b)
  \/ CreateBot \/ IssueToken \/ LoadMore
  \/ \E t \in Tokens : RevokeToken(t)
  \/ \E c \in calls : Serve(c) \/ Break(c) \/ Answer(c)
  \/ OtherAdmin
  \/ SettingsStep /\ UNCHANGED <<server, table, detail, auditing, busy, calls, history>>

AdminSpec == AdminInit /\ [][AdminNext]_adminVars

(***************************************************************************)
(* Properties                                                              *)
(***************************************************************************)

\* What the calls of each kind carry, and what they are answered with.
AdminCall(c) ==
  /\ c = [id |-> c.id, kind |-> c.kind, on |-> c.on, arg |-> c.arg,
          frees |-> c.frees, since |-> c.since, stage |-> c.stage, got |-> c.got]
  /\ c.since \in Nat
  /\ c.kind \in Changes \cup Lists \cup AuditLoads /\ c.stage \in {"sent", "ok", "failed"}
  /\ c.kind = "archive" => c.on \in Rooms /\ c.arg \in BOOLEAN
  /\ c.kind = "transfer" => c.on \in Rooms /\ c.arg \in Owners
  /\ c.kind \in {"issue", "tokens"} => c.on \in Bots
  /\ c.kind = "create" => c.on = "bots"
  /\ c.kind = "revoke" => c.on \in Tokens /\ c.arg \in Bots
  /\ c.kind \in AuditLoads => c.arg \in Nat
  /\ c.stage = "ok" =>
       /\ c.kind \in {"archive", "transfer"} => c.got \in Records
       /\ c.kind = "rooms" => c.got \in [Rooms -> Records]
       /\ c.kind = "bots" => c.got \subseteq Bots
       /\ c.kind = "tokens" => c.got \subseteq Tokens
       /\ c.kind = "issue" => c.got \in Tokens
       /\ c.kind \in AuditLoads => c.got \in Seq(Nat)

\* Every variable has its type.
AdminTypeOK ==
  /\ SettingsTypeOK
  /\ room \in [Rooms -> Records] /\ named \subseteq Bots
  /\ bot \in [Tokens -> Bots \cup {None, Revoked}] /\ log \in Seq(Nat)
  /\ tab \in {"users", "rooms", "bots", "audit", "settings"}
  /\ rows \in [Rooms -> Records \cup {None}] /\ listed \subseteq Bots
  /\ tokensOf \in [Bots -> {None} \cup SUBSET Tokens]
  /\ expanded \in Bots \cup {None} /\ picking \in Rooms \cup {None}
  /\ created \in [token : Tokens, bot : Bots] \cup {None}
  /\ audit \in Seq(Nat) /\ hasMore \in BOOLEAN /\ from \in Nat
  /\ busy \in Rooms \cup Bots \cup Tokens \cup {None}
  /\ \A c \in calls : AdminCall(c)
  /\ own \cup crossed \subseteq Rooms \cup Bots \cup {"bots"}
  /\ {tangled, moved} \subseteq BOOLEAN

\* The audit log is shown without gaps, although its offsets count from an
\* end that moves and entries of long transactions come in below: whatever was
\* there when its first page was asked for, at or below an entry shown and at
\* or above another, or anywhere below once "Load more" is gone, is shown.
\* Excepted are loads that overlap (the button is not blocked), and more than
\* a page of new entries above the newest shown.
AuditComplete ==
  LET Shown(k) == \E i \in DOMAIN audit : audit[i] = log[k]
  IN (~tangled /\ \E k \in DOMAIN log : k <= Page + 1 /\ audit # <<>> /\ log[k] = audit[1]) =>
       \A k \in DOMAIN log :
         /\ log[k] <= from
         /\ \E i \in 1 .. k : Shown(i)
         /\ hasMore => \E j \in k .. Len(log) : Shown(j)
         => Shown(k)

\* "Copy it now, it won't be shown again": the token in view is one of the
\* bot it is shown under, unless that bot was left while it was issued.
TokenUnderItsBot ==
  (created # None /\ expanded # None /\ ~moved) => created.bot = expanded

\* Once everything is answered the page shows what it has changed itself, the
\* settings as every reader of them gets them, unless calls about the same row
\* overlapped or one failed.
OwnChangesShown ==
  /\ calls = {} =>
       /\ \A r \in (own \ crossed) \cap Rooms : rows[r] = room[r]
       /\ \A b \in (own \ crossed) \cap Bots : tokensOf[b] = Of(b)
       /\ "bots" \in own \ crossed => listed = named
  /\ SettingsShown
=============================================================================
