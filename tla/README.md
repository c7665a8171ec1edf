# Verification of DS-Chat

TLA+ models of the parts of DS-Chat whose correctness depends on the order of
events or on the boundaries of a text: concurrent connections, browser tabs,
workers, requests and answers, timeouts and crashes, and the transforms and
scans of the composer. TLC checks every model on small instances; TLAPS proves
what matters most of each of them for every value of their constants.

    tlc -config PresenceSweeps.cfg MCPresence     # and so on, see Runs
    tlapm PresenceProofs.tla
    tlapm RoomRolesProofs.tla
    tlapm RoomFeedProofs.tla
    tlapm AccountsProofs.tla
    tlapm ComposerProofs.tla
    tlapm MessageStoreProofs.tla
    tlapm OneTimeLinksProofs.tla
    tlapm RoomPanelProofs.tla

`PROJECT.json` lists the components, the runs, the source lines of every
definition and the hazards of the code with the properties that cover them.

## 1. The system

DS-Chat is a self-hosted chat. A FastAPI backend (one process per worker)
serves HTTP requests and one WebSocket per browser tab; PostgreSQL keeps what
must last, Redis keeps who is present and carries messages between the workers;
a React client shows it.

| Component | State it keeps | Operations | Interacts with | What is hard, and what makes it correct |
| --- | --- | --- | --- | --- |
| Global presence (`ws/expiring_presence.py`, `ws/global_presence.py`, `ws/presence_sweeper.py`) | a sorted set of connections with expiries in Redis, a sweeper lock, one sleeping sweeper per worker | add, remove, refresh, is_live, prune, sweep_once | the WebSocket handler calls it and broadcasts its answers; the sweeper broadcasts on its own | several commands per operation, awaited one by one; dead connections; crashes; key expiry. Nobody must be left shown online |
| Room and focus presence (`ws/presence.py`, `ws/focus_presence.py`) | the same expiring set, keyed by room | join, leave, refresh | read when a message is published, to choose who is notified | read after the publication it decides about |
| WebSocket handler (`ws/chat.py`) | joined rooms, a database session per connection | connect, dispatch of twelve frame types, cleanup | all services, connection manager, broadcaster | a long-lived session with stale objects; cleanup that may fail in part |
| Connection manager and broadcaster (`ws/connection_manager.py`, `ws/broadcaster.py`, `ws/listener_supervisor.py`) | sockets per room and user on this worker, a pub/sub subscription | join, leave, publish, dispatch, restart of the listener | Redis pub/sub | at-most-once delivery; nothing is kept for a socket that joins later |
| Live feed of the client (`ws/useChatSocket.ts`, `components/ChatPane.tsx`) | socket, backoff, zombie timer, history, live tail, request id | reconnect, rejoin, refetch, patch | WebSocket and HTTP, without any order between the two; the service worker answers for the server | answers out of order or out of an old copy, lost envelopes, hidden tabs, zombie connections. What is shown must catch up with the table |
| Unread dots and the room list (`services/message_events.py`, `room_service.mark_room_read`, `ChatShellPage.tsx`, `lib/roomIndicators.ts`) | last_read_at, the list with its dots | post, mark read, list, patch | room presence, the user's channel, the open pane | three unordered sources of one dot. At rest it agrees with the server, and the room on screen is read |
| Messages, reactions, attachments (`services/message_service.py`, uploads and deletion in `routers/rooms.py`, `services/room_service.py`) | rows of four tables, files on disk | create, edit, delete, toggle, upload, delete_room | handler, HTTP, file system | a file and its row cannot change together; rows read before others' commits |
| Composer, the text box (`components/Composer.tsx`, `lib/markdownFormat.ts`) | text, selection, three dropdowns | type, select, complete, format | the list of members, rooms and emoji | offsets that are off by one; a cursor set a frame later than the text. A button pressed twice restores the text |
| Composer, attachments and sending (`components/Composer.tsx`, `ChatShellPage.tsx`) | draft, pending image and file, spinner | attach, drop, remove, send | upload requests, the socket, the room on screen | uploads outlive the composer; a socket dies unnoticed. Nothing is sent twice or to another room |
| Rendering and mention extraction (`components/MessageContent.tsx`, `services/mention_service.py`, `room_reference_service.py`) | none | seven passes over a text; two expressions on the server | composer, notifications | passes reach into each other's output; server and client differ in what is code |
| Rooms: membership, roles, ownership (`services/room_service.py`, `routers/rooms.py`) | rooms and room_memberships rows | create, join, add, remove, change role, transfer, leave, update, delete | HTTP requests, each with its own session | authorisation, reads and commit are apart. A room has one owner, recorded twice |
| Room details panel (`components/RoomInfoPanel.tsx`) | drafts, members, files, webhooks, toggles | open, rename, toggle, leave, delete, add and revoke webhooks | the page's list of rooms, the API | one panel for all rooms; answers for a room left meanwhile |
| Profile, themes (`components/ProfileModal.tsx`, `lib/theme.ts`, `custom_theme_service.py`) | what is painted, the user record, its row | choose, edit, delete, preview, save | several whole-record answers | painted first, saved later, undone on failure |
| Accounts (`services/session_service.py`, `routers/auth.py`, `admin_service.py`, `lib/push.ts`) | users, sessions, push subscriptions, audit log | log in, log out, revoke, activate, promote, subscribe | handshake of the WebSocket; the browser's push service | requests decide on what another takes away; a device outlives its user's session |
| Invites and resets (`site_invite_service.py`, `password_service.py`) | one-time tokens | mail, open, use, revoke, resend, expire | accounts | used by two requests at once; two commits; lost answers; several admins, and one busy mark for all rows of a page |
| Administration page (`pages/AdminPage.tsx`, `admin_service.py`, `bot_service.py`, `*_settings_service.py`) | tables of rooms, bots, tokens, log, settings | archive, transfer, issue, revoke, page, save | accounts, rooms | patched copies of shared tables; a log that grows while it is paged, at its head and below it |
| Direct messages (`room_service.find_or_create_dm`, `hide_dm`) | the same rows, `hidden_at` | find or create, hide, un-hide | a new message un-hides | two people open it at once |
| Push and e-mail (`push_service.py`, `email_service.py`) | subscriptions, a debounce | notify | presence, memberships | two messages at once each see the other |
| Heartbeat (`ws/chat.py`, `useChatSocket.ts`) | last_pong, ping task, zombie timer | ping, pong, close | both ends of a socket | two timers that must agree |
| Link previews (`services/link_preview_service.py`) | a cache table | fetch, store, broadcast | background task per message | concurrent fetches of one URL |
| Service worker (`sw.ts`) | copies of the last answers about rooms, messages, members and invitations; the precached shell | answer a GET from the network, or from the copy after four seconds or a failure | every tab's HTTP requests, pushes | the page takes a copy for the server's answer: it must not replace a newer one, and is right again only with the next answer |
| Custom emoji, webhook delivery, other views, link safety, schema | rows and files; none; none; none; constraints | | | no order of events of their own |

## 2. Modules

| Module | Models | Run |
| --- | --- | --- |
| `Presence`, `PresenceProofs` | global presence, connection handlers and sweepers as far as presence goes | `PresenceSweeps` |
| `RoomFeed`, `RoomFeedProofs` | a writer's commit and publish, the room's channel, the tab's socket and pane, the service worker's copies of the history | `FeedResync` |
| `RoomRoles`, `RoomRolesProofs` | membership, roles, ownership, privacy of a room | `RolesOwner` |
| `MessageStore`, `MessageStoreProofs` | messages, reactions, attachments and the deletion of their room | `StoreSafety` |
| `Completion`, `TextFormat`, `Rendering`, composed by `Editor`; proofs in `ComposerProofs` | the scan for a token, the transforms of the toolbar, the passes over a shown text; the text box that uses them | `EditorSafety` |
| `Composer`, implements `Outbox`; `ComposerProofs`, of both halves of the composer | drafts, uploads, sending, the room on screen, the socket | `ComposerSends` |
| `RoomPanel`, `RoomPanelProofs` | the details panel over the rooms and webhooks it changes, and over lists of rooms that may be old copies | `PanelSafety` |
| `UnreadDots`; proofs in `MessageStoreProofs` | a message's way to a dot, and back by a mark-read; lists of rooms, old copies among them | `DotsAndReads` |
| `Profile`, proofs in `PresenceProofs` | choices of looks, painted ahead, saved, undone | `ProfileThemes` |
| `Accounts`, `AccountsProofs` | site admins, sessions, push subscriptions, the audit log | `AccountsSafety` |
| `AdminSettings`, extended by `AdminPage`; proofs in `RoomRolesProofs` | the forms of the settings tab; the tables of the admin page | `AdminTables` |
| `OneTimeLinks`, `OneTimeLinksProofs` | invites and password resets, the admin's list of invites, other admins | `LinksOnce` |
| `MC...` | the instances TLC checks | |

A definition whose comment begins with "Mutant:" is not part of a model: it is
a plausible wrong version of the definition after it, kept to show that the
properties can tell the two apart.

Three conventions are common to the models of the client. A call is a record
with its stage: `sent`, then served (`got` is the answer), then answered; any
number of them are under way, in any order, and a broken call is one whose
request or answer is lost. The `wish`, `missed`, `astray`, `crossed` and similar
variables marked `history` change nothing: they record that one of the races
the code is exposed to took place, so that a property can say what holds apart
from it. Such a property does not guard against the race itself, which does go wrong: what it
says is that nothing else does. Each such exception is the narrowest that TLC accepts, section 5
says what happens in it, and the note of the hazard in `PROJECT.json` says which part of it is
left to no property. The counters `acts`, `made`, `others`, `lists`, `drops`,
`breaks` only bound a run.

### Presence

A step is one Redis command, because the source awaits each: `AddCheck` is the
`is_live` of `add`, `AddWrite` its `zadd` and `expire`, `RemoveEntry` the `zrem`
of `remove`, `RemoveCheck` its `is_live`; `SweepLock`, `SweepScan`,
`SweepRemove`, `SweepLive`, `SweepTell` are the commands of `sweep_once` and
`prune`. `zadd` and `expire` are one step: nothing between them reads the key's
expiry, and the entry's own score is far shorter.

`score[c]` is the member of connection `c` in the sorted set, `keyUntil` the
expiry of the key; `announced[u]` is what contacts of `u` were told last.
`at[c]` and `swAt[w]` are the clock values an operation read before its first
command; `due[w]` is when the sweeper wakes up. `unreported` and `swallowed` are
history variables: the users whose report a fault cut off, and those whose
entries went with the whole key.

The clock is shared: the models describe workers of one server, or of servers
with synchronised clocks. `Timely` is the scheduling assumption: an operation
that has begun ends within `Delay` ticks, a sweeper that is due starts within
`Delay`, a crashed worker is back within `Outage`. With `Delay = 0` all
commands of an operation fall into one tick, in any interleaving.

Left out: more than one worker crash per run (`MaxFaults`), Redis itself
failing, and the addressees of a broadcast.

### RoomFeed

A message is its version: 0 before it exists, 1 and more with each edit, `Gone`
when deleted. `message_update`, `reaction_update` and `link_preview` are patched
in alike by the pane and are one kind of envelope here. A writer has at most one
envelope between commit and publish, as its handler processes one frame at a
time; two writers are two devices of the author.

`Publish` is the whole way from the publishing worker to the outgoing queue of
the tab's socket: Redis keeps publication order, the listener dispatches in
order and each socket is a FIFO. The listener is taken to be subscribed
(its supervisor is a later module). `Break` is a connection that dies without a
close frame: the browser believes it open until `Watchdog`. `FetchRead` and
`FetchReturn` are the two ends of a history request, any number of which can be
in flight; all that a request is to the pane is whether it is the last one
(`historyRequestIdRef`). The page of 50 messages is not reached, so history is the table.

`FetchCopied` is the service worker: the network takes longer than four seconds or fails,
and the request is answered with a copy, as a success and without a banner. Answers of any
tab, those nobody waits for any more too, are put in the cache in any order, so the copy may be any table
the room has had (`past`). `FetchFail` is what is left: an error of the server, or no answer
and no copy. `copied` says that the history on screen is such a copy; the next answer
of the server ends it.

### MessageStore

A handler's session outlives its operations, and objects survive a commit, so
`held[c]` is a part of the state: what the session would return for each
message without asking the database. Python drops an object as soon as no
variable refers to it, which leaves those of `message` (`msgVar`) and
`target_message` (`tgtVar`) and of the operation under way. `EditLoad`,
`EditCommit`, `EditRefresh` are the three database calls of `edit_message`;
`DeleteLoad` to `DeleteUnlink` those of `delete_message` and its file;
`ReactLoad`, `ReactRead`, `ReactCommit` those of `toggle_reaction`.
`Disconnect` ends the handler anywhere, like a crash of its worker.

Whether a message has text is all that is kept of its content; a reply, a GIF
and a link preview change nothing here. An attachment is an image or a file, both handled
alike; its name is the message that will carry it. Its upload is
`UploadSave`, then `UploadInsert` or `UploadCut`. The deletion of the room is
listed, committed and unlinked in three steps, and may fail at the commit.

### RoomRoles

Each request is a record `req[r]` of what it asks for and has read so far:
`Begin`, then `ReadRoom`, `Authorize`, `ReadTarget`, `ReadCurrent` in the order
of its endpoint, then its commit. Any number of requests may be under way. The
commits follow what SQLAlchemy emits: an `UPDATE` only of values that differ
from those loaded, which fails when it finds no row. The two roles a transfer
assigns are `Given`, in the order of the source.

Three variables are history: `transfers`, whether one has begun; `raced`, whether a commit wrote over a
membership or an owner that had changed since its request read it (`Outdated`), which overlapping
requests need not do; `abdicated`, whether the last transfer was of the owner to himself.
`OwnerIsRecorded` reads both ways: the owner the row names has the role, unless he abdicated, and nobody else has it.

Left out: renaming (`RoomPanel`), archiving (`AdminPage`), `last_read_at`
(`UnreadDots`), `hidden_at`, and the history notes that announce a change.

### Editor, with Completion, TextFormat and Rendering

A text is a sequence of characters; the instance takes one character of each
class the code tells apart. `Detect` is the backward scan of
`detectTriggerQuery` and `detectEmojiQuery`, stated by what it finds. Each
transform of `TextFormat` takes and returns a text with its selection.
`Rendering` composes the seven passes in the source's order, each over the
output of the one before it, and has the server's two extractions beside them.
All of them are recursive functions or folds, never RECURSIVE operators.

In `Editor`, a handler that replaces the text leaves the cursor to `Frame`, the
next animation frame, and the selection event that looks for a token anew to
`SelectEvent`; both are steps that anything may come before.

### Composer and Outbox

`upload[f]` is where the upload of a file stands and the room it goes to. It is
not ended by a change of rooms: the pane of the next room is another composer
(`key={roomId}`), so the answer finds nobody. `socket` is what it is, `connected`
what the page knows. A frame is in `wire` from `send` until the server takes it;
the server posts it or refuses it, as the room may have been archived meanwhile.
`lost` are frames a dead socket swallowed.

`ComposerProofs` extends both `Composer` and `Editor`, so the names the two would share
carry `Composer` here: `ComposerInit`, `ComposerNext`, `ComposerSpec`.

`Outbox` says what a writer may expect: a message is handed over once and ends
once. `handed` is `wire`, `ended` is `posted`, `refused` and `lost` together.

### UnreadDots

`Insert` and the steps after it are the handler of the author: the row with its
`created_at`, the commit, the publication to the room, and only then the reading
of who is present in it, which chooses who gets an `unread_update`. `joined` is
the presence of this connection, `ghost` that of one that died. A mark-read
writes the time its transaction began, so `BeginMark` takes the value and
`CommitMark` writes it. `Copied` is the service worker's answer to a list of rooms, any list
answered before (`copies`). `astray` names the rooms whose dot one of
the races of section 5 may have set wrong, `unsure` those with a mark-read that
broke or met another.

`MessageStoreProofs` extends both `MessageStore` and this module, so the names the two would share
carry `Dots` here: `DotsInit`, `DotsNext`, `DotsSpec`.

### RoomPanel

`draft`, `toggle`, `hooks`, `filesOpen`, `files`, `busy` are the component's
state; `Refill` is the effect that follows the room's id. `list` is the page's,
from which the panel takes name and role. A call carries the room it was made for; `missed`
holds what the last call that was to set it may have got wrong: one broken, refused, answered with an old copy
of the list of rooms (`Copied`, from `copies`), overtaken, or for a room left meanwhile. It is struck off when the
same is asked for again with nothing else under way that sets it. An old copy of a room's members is of that room too,
which is all the panel's `crew` tells.

### Profile

`row` and `palette` are the server's, `user` the page's record, `screen` what was
painted last. A call's record carries what its handler closed over (`was`,
`over`), which is what a failure paints back. `View` is the schema's rule that a
custom theme is delivered while it is worn only.

### Accounts

An admin request is loaded with `LoadUser` and committed with `CommitUser`; what it
writes is decided by SQLAlchemy's comparison with what was loaded. `seen` are
the requests that resolved a session and may still touch its `last_seen_at`.
`LogOut`, `Unsubscribe` and `Leave` are the stages of `logout()`; `device` is the subscription
of the browser itself, which is there whoever is logged in.

### AdminSettings and AdminPage

A table is `None` until it is loaded, then a copy that answers patch. `log` is the audit log as
`list_audit_log` orders it, by `created_at`, the start of the transaction; an entry is its number in the order of
the commits. A change enters its entry below those whose transactions began later (`Enter`): anywhere above the
entries that were committed when its call was sent, and another admin's anywhere at all. `audit` holds
the entries shown, `from` how many there were when its first page was asked for; `LoadMore` asks with the count shown as
offset. Two entries of the very same time, which the source orders in no way, are not modelled. `stored[f]` is the sequence of rows of a settings table
that is meant to have one.

### OneTimeLinks

A link is an invite or a reset with the number of its token: resending an invite
gives it another. `Register` commits the account, `Accept` the invite that was
loaded before; a request that ends between the two is `Stop`, and `cut` remembers it. `page[p]` is a browser page at a
link.

`calls` are the admins': those of the page modelled (`Own`) and those of other admins (`Elsewhere`), whose pages
are not shown but whose invitations, revocations and resends reach the same rows; `foreign` are the
invites they made or revoked since the list was read. `busy` is the page's one `busyId`: a call on
another row, or its end, frees the buttons of this one (`OtherRow` is one on a user, a room or a bot),
so calls about one invite overlap in any way. A lost call may still be served. `tangled` says that a list met another call of the page, or
a call was lost; a list that is loaded alone ends it.

## 3. Runs

TLC exhausts every run within its bounds. Deadlock is checked in the store's run;
in the others the clock, the user's acts or the life of the room ends.

| Run | Question | Instance | Checks |
| --- | --- | --- | --- |
| `PresenceSweeps` | Can an interleaving leave a user shown online for good? Do two workers sweep at once, or too late? | one user, two tabs on two workers, `TTL` 3, `Interval` 1, `Delay` 0, one fault of at most 1 tick, clock up to 8 | `NoSilentOffline`, `OneSweeperAtATime`, `SweptBeforeKeyExpires`, `EventuallyOffline` |
| `FeedResync` | Does the tab catch up? | one message of two versions, two writers, two disturbances, one fetch that fails or is answered with a copy | `NothingMissing`, `ChannelFollowsVisibility`, `EventuallyShown` |
| `RolesOwner` | Does a room keep its one owner, recorded twice, under overlapping requests? | three users, one of them a site admin, two requests of every kind | `OneOwner`, `OwnerIsRecorded` |
| `StoreSafety` | Do rows and files stay together, and tombstones stay tombstones? | two devices, two messages, one attachment, disconnects and the room's deletion | `AttachmentOnDisk`, `FilesAccounted`, `TombstoneStays` |
| `EditorSafety` | Do dropdowns follow the cursor, do buttons take back what they did, do client and server read a text alike? | every text of up to three characters with every selection | `AtMostOneDropdown`, `QueryIsCurrent`, `LineMarksToggle`, `InlineMarksToggle`, `ReferencesAgree`, `CodeIsShownAsWritten` |
| `ComposerSends` | Can an attachment go astray or a message twice? Does the composer keep the promise of an outbox? | two rooms, an image, a file, a text, one death of the socket, three openings | `AttachmentsStayHome`, `NothingSentTwice`, `SpinnerStops`, `ImplementsOutbox` |
| `PanelSafety` | Does what belongs to one room reach another? | two rooms, two event webhooks of the first, one not made yet, four events in all, one of them a broken call or an old list | `NamesStayHome`, `PanelShowsRoom`, `DraftSurvivesList` |
| `DotsAndReads` | Do the dots agree with the server at rest? | two rooms, two messages, four acts, one list, one lost socket, call or old copy of a list; three of acts, lists and drops together once both messages exist | `DotsAgree`, `OnScreenIsRead` |
| `ProfileThemes` | Does what is painted end up as what is stored? | one custom theme, three choices, one broken call | `ScreenIsUsers`, `UserIsServers`, `ChoicesStick` |
| `AccountsSafety` | Does an admin remain, does the log tell, whom do pushes reach? | two users, two browsers, three sessions, six acts | `AdminRemains`, `LogTellsAll`, `PushGoesToUser`, `RevokedStaysRevoked` |
| `AdminTables` | Does the page show what it changed, and the whole log? | two rooms, bots, tokens, three log entries in pages of two, another admin, entries committed out of order, one broken call | `AuditComplete`, `TokenUnderItsBot`, `OwnChangesShown` |
| `LinksOnce` | Does a link work once, and only the last one? | two invites, one mailed, one reset, two pages, another admin, four acts, one lost request or answer | `InvitesSettle`, `LastLinkOnly`, `PendingListed` |

### Why these bounds are enough

The hazards of presence need two connections of a user and a sweep between them;
with eight ticks each entry expires twice, and a crashed worker sweeps again. Users
share nothing in `Presence`, so a second one adds interleavings only, and the proof
covers any number. The lock lives for `Interval - 1` ticks, one at least.
`SweptBeforeKeyExpires` needs a sweep between an entry's expiry and the key's, and every
fault may undo one just before it is due: `Interval + MaxFaults * (Interval + Outage) <= TTL`
with `Delay = 0`. For one fault that is 1 + 2 <= 3 in the run and, in the code's ticks of
15 s, 1 + 5 <= 6. With less (one worker, `TTL` 4, `Interval` 2, `Outage` 1) TLC finds the
crash that loses an entry with its key. A server that is down for longer than the key lives forgets who was online,
and the model says so in `swallowed`.

In `FeedResync` two disturbances suffice for every pair the client handles: a close
during a fetch, a zombie found after an edit, a tab hidden and shown after a reconnect.
One message suffices because the pane treats each by its id. Two requests in `RoomRoles`
are every pair of operations. In `MessageStore` two messages let `message` and
`target_message` refer to different ones, which is what can make the identity map stale.

Three characters hold a trigger with a token and something before it, a marker with
its pair around a character, a fence with its closing line missing; a selection may
start and end anywhere. Longer texts repeat what a scan did.
`Short` lets the lists of members and rooms change under shorter texts only.

The models of the client are bounded by what the user does. Their races are between
two calls, or a call and a change of what is on screen; three or four acts reach every such
pair with what they need before it. The constraints `Calm`, `Apart` and `Bounded` cut only
combinations beyond that:

- `Apart` of `AdminTables` keeps the settings tab and the tables, which share nothing, from being explored as a
  product, and log entries out of the order of their commits from the bots, which have no part in the log's order;
- `Apart` of `LinksOnce` keeps resets, which share nothing with invites but the accounts, to an admin who only loads
  his first list; opened links and expiry to behaviours without other admins, calls that outlive their loss and later lists;
  and has one call of other admins at a time. What is cut is in the theorems, which know no constraint;
- `Bounded` of `RolesOwner` ends a behaviour with a transfer in it at the commit that makes it `raced`, of which neither
  property says anything, and leaves the private room, which only refuses joins, to those without a transfer.

`MaxFailures`, `MaxBreaks` and `MaxDrops` bound failures and old copies together: one of either before or
after every other event is what decides whether what it left is put right.

### Fairness

Three runs use it. In `Presence` time passes, a handler that has begun an
operation continues, a sweeper that is due sweeps, a worker that crashed is
restarted (by gunicorn's arbiter, the whole service by `Restart=on-failure` in
`deploy/systemd/ds-chat.service`): nobody is made to connect, to renew or to
disconnect, and no fault has to happen. In `RoomFeed` the server's handlers and
the browser's timers and events run: `Open` is the reconnect loop, which never
gives up, `Watchdog` the zombie timer. Nobody is made to post, and a failed fetch is not
retried; `EventuallyShown` accepts the error banner that then stands in the pane, and the old copy that
stands there without one. No fetch has to be answered from a copy.
In `Composer` an upload is answered or fails, the server takes the frames that reached
it, a dead socket's close event comes and the page reconnects; nobody is made to
type or to send.

## 4. Proofs

`PresenceProofs`: for any users, connections, workers and times that satisfy
`UsersAssumption` and `TimingAssumption`, `PresenceTypes` (`[]TypeOK`) and
`NoUserStuckOnline` (`[]NoSilentOffline`). The latter is not inductive. `IInv` adds:

- `Prompt`: an operation under way read the clock at most `Delay` ago, so what
  `AddWrite` stores is in the future;
- `AnnouncerStored`: a handler about to announce online has its entry stored, so
  that the announcement cannot outlive its reason;
- `KeyOutlives`: the key outlives every entry stored in it;
- `ScanPast` and `ScanComplete`: a sweep about to delete has scanned the owner
  of every entry that its clock value covers. This is why `prune` must delete
  by the clock value of its scan: with a new reading, another user's entry that
  expired in between would be deleted and nobody told.

`OneSweeper` proves `[]OneSweeperAtATime` when a sweep takes less than half the
lock's life (`2 * Delay < LockTTL`); with `SweepRecent` a worker in a sweep read the clock
recently, so the lock it took has not expired. `SweptInTime` proves `[]SweptBeforeKeyExpires`
if operations fall into one tick (`Delay = 0`) and `Interval + MaxFaults * (Interval + Outage) <= TTL`.
`SweptInv` is a deadline argument: for every entry some worker tries to sweep by `Latest`,
one interval after the entry expires and a cycle more for each fault still to come (`InTime`); whoever
holds the lock meanwhile is such a worker or is sweeping (`LockServes`), and a sweep that has deleted left
nothing expired (`SweptClean`).

`PresenceProofs`, of `Profile`: `ProfileTypes`; `PaintIsUsers` (`[]ScreenIsUsers`), `PageIsServers`
(`[]UserIsServers`) and `ChoicesAreKept` (`[]ChoicesStick`), for any custom themes and any number of calls.
`ProfileInv` says who answers for what is painted: a size that is not the user's is that of
a call (`SizeAnswered`); a look is that of a preset asked for, of a custom theme about to be delivered
with its palette, or a preview that closing the editor or the answer to its save paints over
(`LookAnswered`, `Previewed`). An answer either paints its user or finds the look unchanged (`UserSet`). As long as no call
met another there is one, whose handler knows the page's user (`OneAtATime`), and what it has done to the
server is what the page will learn from it (`Knows`, `ServeOutcome`). The last choice of a setting is stored or its
only call is on its way (`WishKept`).

`RoomRolesProofs`: `RolesTypes`, and `StableRoomHasOneOwner` (`[]OneOwner`) for any
operations and any number of overlapping requests, until a transfer begins. The
strengthening is `PendingHarmless`: a request about to delete or change a
membership loaded one that was not the owner's, which stays true of it because
`ownerId` changes with transfers only (`NoTransfer`). `OwnerRecorded` (`[]OwnerIsRecorded`) goes on over
transfers, any number of them at once: `RecordInv` says that a request about to change or end a membership found a member or
an admin there and makes no owner (`Judged`), so that a commit which writes what is still so leaves the owner in place, and a
transfer which does moves role and row together, or leaves the owner an admin if he is his own successor.

`RoomRolesProofs`, of `AdminPage` with its settings: `AdminTypes`; `AuditIsComplete` (`[]AuditComplete`),
`TokenIsItsBots` (`[]TokenUnderItsBot`) and `OwnIsShown` (`[]OwnChangesShown`), for any rooms, bots, tokens,
values and size of a page. `AdminInv` says of what is shown of the log, and of what it will be with the answer under way, that it leaves no gap among
the entries there were when it was begun and that it reaches down the log at least as far as it is long
(`Reaches`, `Gapless`): the log only grows, wherever, and an entry that comes in above a place only moves it down (`ReachesLater`), so the page
at the offset `Len(audit)` begins no lower than what is shown ends (`ReachesMore`). The entries have their numbers one after the
other (`Numbered`). Of a row that no two
calls were about (`OneAbout`), either what is shown is what the server has, or the answer or list that makes it so is
under way, and no answer about it is older (`RoomsFollow`, `BotsFollow`, `TokensFollow`). Of a form whose
calls did not overlap: its table has at most one row, and what the page saved last is in that row, in its calls or in the
form (`PostsFollow`, `FormsFollow`).

`AccountsProofs`: `Types`; `AdminStays` (`[]AdminRemains`), whose invariant says that a request
names somebody else as its target (`OthersOnly`), so whoever committed it is still there unless
he lost his rights meanwhile (`raced`); `PushStays` (`[]PushGoesToUser`), from
`CookieIsShown` and `DeviceHoldsEndpoint`; `LogTells` (`[]LogTellsAll`), because a commit that changes
a flag writes the last entry about it or marks the flag `overtaken`; `RevokedStays`, an action property: no step revives a
session.

`RoomFeedProofs`: `FeedTypes`; `ChannelFollows` (`[]ChannelFollowsVisibility`), as the last frame on its
way tells what the tab is and nothing is left of a connection that is not open (`Follows`, `Ended`);
`NothingIsMissing` (`[]NothingMissing`), for any messages, writers and requests under way. `FeedInv` says where a
message not shown yet can be (`Covered`): its writer has it still to publish, it is
in an envelope, a `joined` that starts a refetch is coming, the last fetch asked for has not read the
table, has read the message or was given a copy, the banner stands, or the history is a copy that no request is to
replace (`Stale`). An answer of the server misses nothing that the history it
replaces showed (`NoneForgotten`), a copy included, since rows never go, every copy was the table once and the last request is the one
that counts (`OneOfEach`, `ReadFromRows`).

`ComposerProofs`, of `Composer`: `Types`; `AttachmentsStay` (`[]AttachmentsStayHome`), whose invariant follows a
file: one in flight for the composer on screen goes to the room on screen, because the composer is
another for each room, so what is shown or sent was stored for it (`FlyingHome`, `ShownStored`, `SentStored`);
`SentOnce` (`[]NothingSentTwice`), which adds that what the composer still holds is in no message
that was handed over (`Unsent`); `HandsOverOnce`, the safety half of the refinement: initial states of `Composer` are
initial states of `Outbox`, and every step is one of `Outbox` or a stutter.

`ComposerProofs`, of `Editor`: `OneDropdown` (`[]AtMostOneDropdown`) for any characters, lists and texts.
By `OneToken` the characters left of a cursor end in a token of at most one trigger, since no
trigger is a character of a token; `DetectOne` and `CloseOne` carry that over the handlers.
`DropdownIsCurrent` (`[]QueryIsCurrent`): every handler scans at the new cursor, leaves text and
cursor alone, or leaves the selection event to come.

`EditorTypes` (`[]TypeOK`): the invariant adds that an open dropdown has offsets to cut the text at, that every item
of a list has a completion, and that the selection of the next frame is one (`TypeInv`). What the toolbar
returns is a text of the same characters with a selection (`FormatFormed`, from one lemma for each transform). It
assumes `EditorAssumption`: what is typed, picked, offered and put by a button is characters.

`InlineTwiceRestores` (`[]InlineMarksToggle`): in every state, an inline button that adds its marker takes it back when
pressed again.
A press that adds found no such marker inside or around the trimmed selection (`MarkerAdded`);
the second press then either finds the marker inside the new selection, because the part begins and ends
with the marker's character, and takes the same characters away (`PeeledBack`), or finds it around the
part (`FoundAround`), where runs of the character on either side may be longer than the marker. The laws of trimming, cutting
and joining it needs (`LeadLaw`, `TrailLaw`, `CutLaw` and those after them) are lemmas over any sequences.

`LinesTwiceRestore` (`[]LineMarksToggle`): the same of quotes, lists and headings, for any number of lines. `split` and
`join` are recursive functions. `Recursion` builds the function a recursion from each place to a later one
defines, so its equation may be used; their laws (`SplitLaw`, `JoinedLaw`: each undoes the other) follow by the
least place where they fail. The lines touched are a block of the text between two line breaks
(`TouchedBlock`); marking it leaves a block the second press touches in turn, but for empty lines at its
end (`SecondPress`), and finds every mark, a number of several digits included (`NumeralLaw`, `PrefixMarkLaw`, `HeadingFound`).

`CodeStays` (`[]CodeIsShownAsWritten`) is `RenderLaw` at the texts the code buttons make: every pass leaves the code
of every text as it is. A conversion may put for a part outside code only what is `Tame`: with no
more ticks than it has, none at its beginning where it has none, blank where it is blank and without a line break of
its own. Names, glyphs and the brackets of a link hold no tick (`WithLaw`); the inside of `~...~` may, and is kept
whole (`ScriptTame`); a part with its matches replaced is `Tame` if every answer is (`AnswersLaw`).
A line so converted has the same spans and is a fence where it was one (`ConvertedLine`): it is divided at its first
span, which it may have only where two ticks are (`PartsLaw`, `DivideUnique`, `FenceSpanned`), and the rest is shorter.
So the same lines stand within fences, unchanged, and the same spans outside (`CodeKept`). A heading
loses an end without ticks (`HeadingLaw`), a hard break adds two blanks (`BreaksPass`).
It assumes `RenderingAssumption`: names, ids and glyphs hold no tick and no blank.

`MessageStoreProofs`: `StoreTypes`, `TombstonesStay`, `AttachmentsKept` (`[]AttachmentOnDisk`) and
`FilesKept` (`[]FilesAccounted`), for any connections and messages. `StoreInv` adds what the order
of commit and unlink relies on: an upload without a row yet belongs to no message (`SavedFresh`), one
with a row waits on disk for its message (`FilesWait`), an attachment is looked up for deletion only if
the session loaded the message with it (`FoundWasHeld`), a file about to be unlinked is in no row
any more (`ClearedFirst`), and a room that is gone has no rows (`GoneIsEmpty`).

`MessageStoreProofs`, of `UnreadDots`: `DotsTypes`; `DotsAreRight` (`[]DotsAgree`) and `OnScreenRead`
(`[]OnScreenIsRead`), for any rooms and however messages, mark-reads, lists and reconnects overlap.
`DotsInv` has three layers. The frames on their way bring the server to the room on screen and out of every
other: each `leave` of the former is followed by a `join`, each `join` of another by a `leave` (`InStep`).
Of a room no mark-read broke or met another in, at most one is under way and it takes `last_read_at`
no further back (`OneMark`). On these rests what is said of a committed message that waits to be read: its dot is there or still
comes from its author's handler, an envelope or a mark-read (`DotComes`), a dot stands for such a message
(`DotTrue`), and in the room on screen the mark-read is made, or an envelope or a `join` that leads to it is
on its way (`ReadComes`). At rest there is nothing under way, so only the dot itself, or nothing, is left.
A loaded list needs no clause, be it the server's or an old copy: rooms it is wrong about, or that something is on its way about, go to `astray`.

`OneTimeLinksProofs`: `LinkTypes`, `InvitesEnd` (`[]InvitesSettle`) and `OnlyTheLastLink`
(`[]LastLinkOnly`). `LinkInv` says of an invite that no requests overlapped on that at most one
is about to change it, which found it pending, and that its accounts came by its last link
(`InviteFor`); of such a reset that at most one request is about to use it and
it was not used then (`ResetFor`). `ListShowsPending` (`[]PendingListed`), whatever calls of the page overlap on one invite and whatever other
admins do: of the invites no other admin made or revoked since the list was read (`Known`), and as long as no list met another
call, a list on its way is alone and complete (`ListAlone`), a pending invite is shown or a list is coming
(`ListComes`), and a revoked one shown is about to be taken off (`RevokedLeaves`, `RevocationDone`). A list sent while
nothing else is under way makes all four true again.

`RoomPanelProofs`: `PanelTypes`, and `NamesStay` (`[]NamesStayHome`). `PanelInv` says that the draft
belongs to the room the panel is open over (`DraftHome`; it needs the refill to depend
on the room's id), that a call to save carries a name of the room it is for (`CallOK`), and that every
list on its way, and every copy of one, gives each room its own name (`Listing`). `PanelShows` (`[]PanelShowsRoom`) follows
each part of the panel from the click to the answer: what it shows of the room is right, or the one call that
makes it right is under way, or the answer that starts this call is (`CrewFollows`, `HooksFollow`, `FilesFollow`,
`ListFollows`, `ToggleFollows`). What is in `missed` is right again as soon as it is asked for alone (`ClearedIs`),
so an old copy is excused until the next list only. `DraftSurvives` is the action property `DraftSurvivesList`.

The proofs corrected the models where no run did: three `CASE` expressions (`Answered` of `OneTimeLinks`,
`Serve` of `Profile`, `HasMarker` of `TextFormat`) had overlapping arms, so that what they chose was up to TLC;
`PendingListed` needed an exception less and `missed` of `RoomPanel` one act more than the runs had shown;
`ScreenIsUsers` failed after four calls, one more than the run has, which is why `hasty` records a preview over an older save.

Only model-checked:

- liveness (`EventuallyOffline`, `EventuallyShown`, `SpinnerStops`), and with it the fairness half of
  the refinement of `Outbox`: fairness and ENABLED are out of the prover's reach;
- `ReferencesAgree` of `Editor`: that both sides find the same names needs the place of every character
  followed through the output of seven passes, where `CodeStays` needs the code only.

## 5. Where the code does otherwise

What the exceptions of the properties stand for, and where a sentence of the
repository says something else:

- Two tabs of a user, one connecting while the other disconnects, can leave the
  user shown offline while connected (`expiring_presence.py:68-84`; `global_presence.py:13-14`
  promises that he stays online until the last one goes).
- A history fetched before an edit and answered after its envelope puts the older text
  back, and one read after a new message shows it twice (`ChatPane.tsx:46-65`).
- A history, a list of rooms or of members may be the service worker's copy when the network is slow
  (`sw.ts:42-45`, 53-84): a message is missing without a banner, a dot or a switch is old, until the next
  answer (`ChatPane.tsx:43-47` has met it). The properties except exactly what stands on such a copy.
- An owner who transfers a room to himself keeps `owner_id` and loses the role
  (`room_service.py:482`): the room has no owner, where `tests/test_rooms.py:436` expects the one named to have the
  role. `OwnerIsRecorded` excepts it in `abdicated`. One who becomes owner while
  his request to leave is between its check and its commit leaves a room without
  an owner (`room_service.py:513-516`; `rooms.py:267`). Overlapping transfers leave
  two owners. All of these begin with a transfer: `OneOwner` holds until one begins,
  `OwnerIsRecorded` until a commit writes over what has changed since its request read it.
- An edit that loaded a message before it was deleted elsewhere writes its text
  into the deleted row (`message_service.py:74`, against 107-108). The tombstone stays.
- Two devices that toggle the same reaction at once run into the unique
  constraint, which ends one connection (`message_service.py:210`; `backend/README.md:571-572`
  says no upsert is needed).
- `mention_service.py:28` leaves fences in the text it searches, though its docstring
  (13-17) speaks of code: somebody is notified of a mention nobody sees.
- A heading's `{#id}` is destroyed when the id is the name of a room; overlapping marks as in
  `~a^b~c^` are garbled.
- A message that arrives while the socket reconnects leaves no dot: the new connection
  joins the open room and loads no list. A list read before a message or a
  mark-read replaces the newer dots (`ChatShellPage.tsx:41`).
- Leaving a room navigates away even if another was opened meanwhile (`ChatShellPage.tsx:164`);
  the signing secret of a new webhook stays on screen in the next room (`RoomInfoPanel.tsx:212`).
- A webhook made, or an e-mail choice set, from a panel that is closed and opened again before
  the call is served stays unshown until the next load (`RoomInfoPanel.tsx:159-169`, 182-196). It takes
  five acts, one more than the run has; the proof of `PanelShowsRoom` found it.
- A save of a custom theme that was begun before the page wore that theme closes the editor when it is
  answered and leaves a colour picked meanwhile painted (`ProfileModal.tsx:257-276`). It takes four calls,
  one more than the run has; the proof of `ScreenIsUsers` found it.
- Deleting a custom theme that is kept but not worn takes the worn preset back to the
  default (`custom_theme_service.py:78-87`).
- The tables of settings are single-row by their docstrings (`models/upload_settings.py:11`,
  `models/smtp_settings.py:11`); two first requests at once add two rows.
- Deactivation and revocation do not reach an open socket (`ws/chat.py:136`).
- Two site admins who demote each other at once leave none; `AdminRemains` says so in `raced`.
- An admin's list of invites knows nothing of what other admins do until it is loaded again, and a list that was read before
  a revocation and answered after it shows the invite again (`AdminPage.tsx:133-135`, 306-313).
- An entry of the audit log whose transaction began earlier and ended later comes in below newer ones
  (`audit.py:35`, `models/admin_audit_log.py:20-22`): the page shows it only when it is loaded anew. `AuditComplete` speaks of the entries
  there were when the first page was asked for.
- Two completions of one reset, two sign-ups by one invite, or a revocation over a sign-up, when they overlap, each
  find what they were about to change as it was (`password_service.py:76`, `site_invite_service.py:136`).

## 6. Not modelled, and what could follow

- Direct messages: `find_or_create_dm` by both people at once, `hide_dm` against a new
  message; an extension of the memberships of `RoomRoles`.
- Push and e-mail: the debounce under two first messages. The delivery is I/O.
- The listener's supervisor and what is lost without a subscription, composed with
  `RoomFeed`, which takes the listener as given; the timers of the heartbeat over their
  real bounds; `mark_room_read` failing after a commit.
- Link previews, custom emoji: caches, limits and files.
- An old copy of the list of rooms in `Composer`, where it is the same as the list not loaded yet, and of the open rooms and
  invitations; mentions and desktop focus in `UnreadDots`; the drafts of the webhook forms and the user directory
  in `RoomPanel`; the limit on custom themes in `Profile`; the SMTP password in `AdminSettings`.

Not planned: the delivery of webhooks (no state), link safety and file types (pure checks),
the service worker's update and precache (library and browser behaviour), views that only lay out, and the
migrations (never run concurrently with the code).
