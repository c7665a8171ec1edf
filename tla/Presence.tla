------------------------------ MODULE Presence ------------------------------
(***************************************************************************)
(* Global presence: who is shown online.                                   *)
(*                                                                         *)
(* Every WebSocket connection keeps one entry with its own expiry in a     *)
(* Redis sorted set (ws/expiring_presence.py, ws/global_presence.py).  The *)
(* connection's handler (ws/chat.py) adds, renews and removes the entry    *)
(* and broadcasts the transitions it is told about; a sweeper in every     *)
(* worker (ws/presence_sweeper.py) deletes expired entries and broadcasts  *)
(* the transitions nobody else could have seen.                            *)
(*                                                                         *)
(* Each Redis command is one step, so the operations of connections and    *)
(* sweepers interleave between their commands exactly where the source     *)
(* awaits.  A broadcast is one step: it sets what the user's contacts were *)
(* last told (the pub/sub channel keeps publication order).                *)
(***************************************************************************)
EXTENDS Integers

CONSTANTS
    Users,      \* accounts
    Conns,      \* connection ids (uuid4 per connection)
    Workers,    \* application processes
    Owner,      \* Owner[c]: the user who opened connection c
    Host,       \* Host[c]: the worker that runs c's handler
    TTL,        \* PRESENCE_TTL_SECONDS, in clock ticks
    Interval,   \* PRESENCE_SWEEP_INTERVAL_SECONDS, in clock ticks
    Delay,      \* an operation's commands all run within Delay ticks
    Outage,     \* a crashed worker is restarted within Outage ticks
    MaxTime,    \* bound on the clock
    MaxFaults   \* bound on crashes and failed broadcasts

ASSUME UsersAssumption == Owner \in [Conns -> Users] /\ Host \in [Conns -> Workers]
ASSUME TimingAssumption ==
    /\ TTL \in Nat \ {0}
    /\ Interval \in Nat \ {0}
    /\ Delay \in Nat
    /\ Delay < TTL
    /\ Outage \in Nat
    /\ MaxTime \in Nat
    /\ MaxFaults \in Nat

VARIABLES
    now,        \* time.time(), shared by the workers of one server
    score,      \* the sorted set: score[c] is c's expiry, Absent if no entry
    keyUntil,   \* expiry of the Redis key that holds the set
    pc,         \* where c's handler is
    at,         \* the clock value c's pending operation read first
    fresh,      \* came_online of c's pending add()
    inLoop,     \* c's handler has entered its receive loop
    up,         \* up[w]: worker w is running
    lockUntil,  \* expiry of the sweeper lock
    due,        \* when w's sweeper wakes up next (w's crash time while down)
    swPc,       \* where w's sweeper is
    swAt,       \* prune()'s clock value
    swUsers,    \* users of expired entries, then users still to announce
    announced,  \* what u's contacts were last told
    unreported, \* users whose offline broadcast was cut off by a fault
    swallowed,  \* users whose entry went with the whole key
    faults      \* crashes and failed broadcasts so far

store   == <<score, keyUntil>>
handler == <<pc, at, fresh, inLoop>>
sweeper == <<lockUntil, due, swPc, swAt, swUsers>>
told    == <<announced, unreported, swallowed>>
vars    == <<now, store, handler, up, sweeper, told, faults>>

Absent == 0

\* Users with an entry whose score is above the clock: _live_members
Live(u) == \E c \in Conns : Owner[c] = u /\ score[c] > now

HandlerPc == {"off", "open", "closing", "addCheck", "addWrite", "annOn",
              "remCheck", "annOff"}
SweeperPc == {"sleep", "scan", "remove", "live", "tell"}

\* A delivered broadcast supersedes whatever was left unreported.
Tell(u, status) ==
    /\ announced' = [announced EXCEPT ![u] = status]
    /\ unreported' = unreported \ {u}
    /\ swallowed' = swallowed \ {u}

Init ==
    /\ now = 1
    /\ score = [c \in Conns |-> Absent]
    /\ keyUntil = 0
    /\ pc = [c \in Conns |-> "off"]
    /\ at = [c \in Conns |-> 0]
    /\ fresh = [c \in Conns |-> FALSE]
    /\ inLoop = [c \in Conns |-> FALSE]
    /\ up = [w \in Workers |-> TRUE]
    /\ lockUntil = 0
    /\ due = [w \in Workers |-> 1 + Interval]
    /\ swPc = [w \in Workers |-> "sleep"]
    /\ swAt = [w \in Workers |-> 0]
    /\ swUsers = [w \in Workers |-> {}]
    /\ announced = [u \in Users |-> "offline"]
    /\ unreported = {} /\ swallowed = {}
    /\ faults = 0

-----------------------------------------------------------------------------
(* The connection handler: ExpiringPresenceSet.add                         *)

\* connect(): a fresh connection id has no entry, so its score is never live.
Connect(c) ==
    /\ up[Host[c]]
    /\ pc[c] = "off"
    /\ score[c] = Absent
    /\ pc' = [pc EXCEPT ![c] = "addCheck"]
    /\ at' = [at EXCEPT ![c] = now]
    /\ fresh' = [fresh EXCEPT ![c] = FALSE]
    /\ inLoop' = [inLoop EXCEPT ![c] = FALSE]
    /\ UNCHANGED <<now, store, up, sweeper, told, faults>>

\* refresh(): the heartbeat; only a lapsed entry needs the is_live check.
Refresh(c) ==
    /\ pc[c] = "open"
    /\ pc' = [pc EXCEPT ![c] = IF score[c] <= now THEN "addCheck" ELSE "addWrite"]
    /\ at' = [at EXCEPT ![c] = now]
    /\ fresh' = [fresh EXCEPT ![c] = FALSE]
    /\ UNCHANGED <<now, store, inLoop, up, sweeper, told, faults>>

\* came_online = not is_live(user), with a clock reading of its own
AddCheck(c) ==
    /\ pc[c] = "addCheck"
    /\ fresh' = [fresh EXCEPT ![c] = ~Live(Owner[c])]
    /\ pc' = [pc EXCEPT ![c] = "addWrite"]
    /\ UNCHANGED <<now, store, at, inLoop, up, sweeper, told, faults>>

\* The score of an entry whose operation read the clock at t
Expiry(t) == t + TTL

\* zadd and expire; the caller announces a transition it was told about.
AddWrite(c) ==
    /\ pc[c] = "addWrite"
    /\ score' = [score EXCEPT ![c] = Expiry(at[c])]
    /\ keyUntil' = now + 2 * TTL
    /\ pc' = [pc EXCEPT ![c] = IF fresh[c] THEN "annOn" ELSE "open"]
    /\ inLoop' = [inLoop EXCEPT ![c] = inLoop[c] \/ ~fresh[c]]
    /\ at' = [at EXCEPT ![c] = IF fresh[c] THEN @ ELSE 0]
    /\ fresh' = [fresh EXCEPT ![c] = FALSE]
    /\ UNCHANGED <<now, up, sweeper, told, faults>>

AnnounceOnline(c) ==
    /\ pc[c] = "annOn"
    /\ Tell(Owner[c], "online")
    /\ pc' = [pc EXCEPT ![c] = "open"]
    /\ inLoop' = [inLoop EXCEPT ![c] = TRUE]
    /\ at' = [at EXCEPT ![c] = 0]
    /\ UNCHANGED <<now, store, fresh, up, sweeper, faults>>

\* A failed broadcast on connect escapes before the try block: the handler
\* ends without its cleanup and leaves its entry.  After that, the finally
\* block runs.
AnnounceOnlineFails(c) ==
    /\ pc[c] = "annOn"
    /\ faults < MaxFaults
    /\ faults' = faults + 1
    /\ pc' = [pc EXCEPT ![c] = IF inLoop[c] THEN "closing" ELSE "off"]
    /\ at' = [at EXCEPT ![c] = IF inLoop[c] THEN @ ELSE 0]
    /\ UNCHANGED <<now, store, fresh, inLoop, up, sweeper, told>>

-----------------------------------------------------------------------------
(* The connection handler: ExpiringPresenceSet.remove                      *)

\* Mutant: is_live asked before the entry is removed
RemoveEntryAfterCheck(c) ==
    /\ pc[c] \in {"open", "closing"}
    /\ pc' = [pc EXCEPT ![c] =
          IF score[c] = Absent \/ Live(Owner[c]) THEN "off" ELSE "remCheck"]
    /\ score' = [score EXCEPT ![c] = Absent]
    /\ at' = [at EXCEPT ![c] = IF score[c] = Absent \/ Live(Owner[c]) THEN 0 ELSE now]
    /\ UNCHANGED <<now, keyUntil, fresh, inLoop, up, sweeper, told, faults>>

\* The loop ends (close frame, failed send, heartbeat timeout, an error) and
\* cleanup removes the entry; False if it was already gone.
RemoveEntry(c) ==
    /\ pc[c] \in {"open", "closing"}
    /\ pc' = [pc EXCEPT ![c] = IF score[c] = Absent THEN "off" ELSE "remCheck"]
    /\ score' = [score EXCEPT ![c] = Absent]
    /\ at' = [at EXCEPT ![c] = IF score[c] = Absent THEN 0 ELSE now]
    /\ UNCHANGED <<now, keyUntil, fresh, inLoop, up, sweeper, told, faults>>

RemoveCheck(c) ==
    /\ pc[c] = "remCheck"
    /\ pc' = [pc EXCEPT ![c] = IF Live(Owner[c]) THEN "off" ELSE "annOff"]
    /\ at' = [at EXCEPT ![c] = IF Live(Owner[c]) THEN 0 ELSE @]
    /\ UNCHANGED <<now, store, fresh, inLoop, up, sweeper, told, faults>>

AnnounceOffline(c) ==
    /\ pc[c] = "annOff"
    /\ Tell(Owner[c], "offline")
    /\ pc' = [pc EXCEPT ![c] = "off"]
    /\ at' = [at EXCEPT ![c] = 0]
    /\ UNCHANGED <<now, store, fresh, inLoop, up, sweeper, faults>>

\* _best_effort logs the failure and the handler ends
AnnounceOfflineFails(c) ==
    /\ pc[c] = "annOff"
    /\ faults < MaxFaults
    /\ faults' = faults + 1
    /\ unreported' = unreported \cup {Owner[c]}
    /\ pc' = [pc EXCEPT ![c] = "off"]
    /\ at' = [at EXCEPT ![c] = 0]
    /\ UNCHANGED <<now, store, fresh, inLoop, up, sweeper, announced, swallowed>>

-----------------------------------------------------------------------------
(* The sweeper: sweep_once and ExpiringPresenceSet.prune                   *)

\* Mutants: a lock that expires at once, and one set without EX
LockTTLZero  == Interval - 1
LockTTLUnset == MaxTime + 1

LockTTL == IF Interval > 1 THEN Interval - 1 ELSE 1

\* SET NX EX: one sweep per interval over all workers
SweepLock(w) ==
    /\ up[w]
    /\ swPc[w] = "sleep"
    /\ due[w] <= now
    /\ IF lockUntil > now
          THEN /\ due' = [due EXCEPT ![w] = now + Interval]
               /\ UNCHANGED <<lockUntil, swPc, swAt, swUsers>>
          ELSE /\ lockUntil' = now + LockTTL
               /\ swPc' = [swPc EXCEPT ![w] = "scan"]
               /\ swAt' = [swAt EXCEPT ![w] = now]
               /\ UNCHANGED <<due, swUsers>>
    /\ UNCHANGED <<now, store, handler, up, told, faults>>

\* The loop body ended: sleep for another interval
Rest(w) ==
    /\ swPc' = [swPc EXCEPT ![w] = "sleep"]
    /\ due' = [due EXCEPT ![w] = now + Interval]
    /\ swAt' = [swAt EXCEPT ![w] = 0]

Expired(t) == {c \in Conns : score[c] # Absent /\ score[c] <= t}

SweepScan(w) ==
    /\ swPc[w] = "scan"
    /\ swUsers' = [swUsers EXCEPT ![w] = {Owner[c] : c \in Expired(now)}]
    /\ IF Expired(now) = {}
          THEN Rest(w)
          ELSE /\ swPc' = [swPc EXCEPT ![w] = "remove"]
               /\ swAt' = [swAt EXCEPT ![w] = now]
               /\ UNCHANGED due
    /\ UNCHANGED <<now, store, handler, up, lockUntil, told, faults>>

\* zremrangebyscore uses the clock value of the scan
SweepRemove(w) ==
    /\ swPc[w] = "remove"
    /\ score' = [c \in Conns |-> IF c \in Expired(swAt[w]) THEN Absent ELSE score[c]]
    /\ swPc' = [swPc EXCEPT ![w] = "live"]
    /\ UNCHANGED <<now, keyUntil, handler, up, lockUntil, due, swAt, swUsers, told, faults>>

SweepLive(w) ==
    /\ swPc[w] = "live"
    /\ swUsers' = [swUsers EXCEPT ![w] = {u \in @ : ~Live(u)}]
    /\ swPc' = [swPc EXCEPT ![w] = "tell"]
    /\ UNCHANGED <<now, store, handler, up, lockUntil, due, swAt, told, faults>>

SweepTell(w) ==
    /\ swPc[w] = "tell"
    /\ \E u \in swUsers[w] :
          /\ Tell(u, "offline")
          /\ swUsers' = [swUsers EXCEPT ![w] = @ \ {u}]
    /\ UNCHANGED <<now, store, handler, up, lockUntil, due, swPc, swAt, faults>>

\* One user's failed broadcast does not cost the others theirs.
SweepTellFails(w) ==
    /\ swPc[w] = "tell"
    /\ faults < MaxFaults
    /\ faults' = faults + 1
    /\ \E u \in swUsers[w] :
          /\ unreported' = unreported \cup {u}
          /\ swUsers' = [swUsers EXCEPT ![w] = @ \ {u}]
    /\ UNCHANGED <<now, store, handler, up, lockUntil, due, swPc, swAt, announced, swallowed>>

SweepDone(w) ==
    /\ swPc[w] = "tell"
    /\ swUsers[w] = {}
    /\ Rest(w)
    /\ UNCHANGED <<now, store, handler, up, lockUntil, swUsers, told, faults>>

-----------------------------------------------------------------------------
(* The environment: crashes and the clock                                  *)

\* Users whose offline transition only this worker was about to report
Pending(w) ==
    {Owner[c] : c \in {d \in Conns : Host[d] = w /\ pc[d] \in {"remCheck", "annOff"}}}
    \cup (IF swPc[w] \in {"live", "tell"} THEN swUsers[w] ELSE {})

\* No cleanup runs; the entries of w's connections stay in Redis.
Crash(w) ==
    /\ up[w]
    /\ faults < MaxFaults
    /\ faults' = faults + 1
    /\ up' = [up EXCEPT ![w] = FALSE]
    /\ unreported' = unreported \cup Pending(w)
    /\ pc' = [c \in Conns |-> IF Host[c] = w THEN "off" ELSE pc[c]]
    /\ swPc' = [swPc EXCEPT ![w] = "sleep"]
    /\ swUsers' = [swUsers EXCEPT ![w] = {}]
    /\ swAt' = [swAt EXCEPT ![w] = 0]
    /\ due' = [due EXCEPT ![w] = now]
    /\ at' = [c \in Conns |-> IF Host[c] = w THEN 0 ELSE at[c]]
    /\ fresh' = [c \in Conns |-> Host[c] # w /\ fresh[c]]
    /\ UNCHANGED <<now, store, inLoop, lockUntil, announced, swallowed>>

Restart(w) ==
    /\ ~up[w]
    /\ up' = [up EXCEPT ![w] = TRUE]
    /\ due' = [due EXCEPT ![w] = now + Interval]
    /\ UNCHANGED <<now, store, handler, lockUntil, swPc, swAt, swUsers, told, faults>>

\* Scheduling: nothing that is due waits longer than Delay (Outage, if down).
Timely ==
    /\ \A c \in Conns : pc[c] \notin {"off", "open"} => now < at[c] + Delay
    /\ \A w \in Workers :
          IF ~up[w] THEN now < due[w] + Outage
          ELSE IF swPc[w] = "sleep" THEN now < due[w] + Delay
          ELSE now < swAt[w] + Delay

\* Time passes; a key nobody renewed for 2 * TTL disappears as a whole.
Tick ==
    /\ now < MaxTime
    /\ Timely
    /\ now' = now + 1
    /\ LET stored == {c \in Conns : score[c] # Absent}
       IN  IF now' >= keyUntil /\ stored # {}
             THEN /\ score' = [c \in Conns |-> Absent]
                  /\ swallowed' = swallowed \cup {Owner[c] : c \in stored}
             ELSE UNCHANGED <<score, swallowed>>
    /\ UNCHANGED <<keyUntil, handler, up, sweeper, announced, unreported, faults>>

HandlerStep(c) ==
    \/ AddCheck(c) \/ AddWrite(c) \/ AnnounceOnline(c)
    \/ RemoveCheck(c) \/ AnnounceOffline(c)
    \/ (pc[c] = "closing" /\ RemoveEntry(c))

SweeperStep(w) ==
    \/ SweepLock(w) \/ SweepScan(w) \/ SweepRemove(w)
    \/ SweepLive(w) \/ SweepTell(w) \/ SweepDone(w)

Next ==
    \/ \E c \in Conns :
          \/ Connect(c) \/ Refresh(c) \/ AddCheck(c) \/ AddWrite(c)
          \/ AnnounceOnline(c) \/ AnnounceOnlineFails(c)
          \/ RemoveEntry(c) \/ RemoveCheck(c)
          \/ AnnounceOffline(c) \/ AnnounceOfflineFails(c)
    \/ \E w \in Workers :
          \/ SweepLock(w) \/ SweepScan(w) \/ SweepRemove(w) \/ SweepLive(w)
          \/ SweepTell(w) \/ SweepTellFails(w) \/ SweepDone(w)
          \/ Crash(w) \/ Restart(w)
    \/ Tick

\* A running process continues; nobody has to connect, renew or disconnect.
Fairness ==
    /\ WF_vars(Tick)
    /\ \A c \in Conns : WF_vars(HandlerStep(c))
    /\ \A w \in Workers : WF_vars(SweeperStep(w)) /\ WF_vars(Restart(w))

Spec     == Init /\ [][Next]_vars
FairSpec == Spec /\ Fairness
-----------------------------------------------------------------------------
(* Properties                                                              *)

\* Every variable has its type, and no entry expires later than TTL from now:
\* a dead connection ages out (expiring_presence.py:59-74).
TypeOK ==
    /\ now \in Nat
    /\ score \in [Conns -> Nat] /\ keyUntil \in Nat
    /\ \A c \in Conns : score[c] <= now + TTL
    /\ pc \in [Conns -> HandlerPc] /\ at \in [Conns -> Nat]
    /\ fresh \in [Conns -> BOOLEAN] /\ inLoop \in [Conns -> BOOLEAN]
    /\ up \in [Workers -> BOOLEAN] /\ lockUntil \in Nat
    /\ due \in [Workers -> Nat] /\ swPc \in [Workers -> SweeperPc]
    /\ swAt \in [Workers -> Nat] /\ swUsers \in [Workers -> SUBSET Users]
    /\ announced \in [Users -> {"online", "offline"}]
    /\ unreported \in SUBSET Users /\ swallowed \in SUBSET Users /\ faults \in Nat

\* Somebody is about to find out that u went offline.
ReportPending(u) ==
    \/ \E c \in Conns : Owner[c] = u /\ pc[c] \in {"remCheck", "annOff"}
    \/ \E w \in Workers : u \in swUsers[w] /\ swPc[w] \in {"live", "tell"}

\* The stuck-online bug the expiring set was built against: a user last
\* announced online still has an entry that somebody will remove, or the
\* report is on its way, or a fault cut it off, or no sweep came before the
\* key expired -- however the commands of add, remove and prune interleave
\* (expiring_presence.py:22-103).
NoSilentOffline ==
    \A u \in Users :
        announced[u] = "online" =>
            \/ \E c \in Conns : Owner[c] = u /\ score[c] # Absent
            \/ ReportPending(u)
            \/ u \in unreported \cup swallowed

\* A user shown online without a live connection is shown offline before the
\* clock's bound, or is back, or a fault cut the report off: the sweep comes
\* round (presence_sweeper.py:19-68).
Horizon == MaxTime - (2 * Interval + 4 * Delay + Outage)
EventuallyOffline ==
    \A u \in Users :
        (announced[u] = "online" /\ ~Live(u) /\ now <= Horizon)
            ~> (announced[u] = "offline" \/ Live(u) \/ u \in unreported)

\* The key outlives its entries long enough: a sweep removes and reports every
\* expired entry before Redis drops the key that holds it (expire(2 * ttl),
\* expiring_presence.py:71-73), a restart within Outage included.  Needs
\* Delay = 0 and room for the faults: one interval, and an interval and an
\* Outage more for each, fit in TTL.
SweptBeforeKeyExpires == swallowed = {}

\* Two workers never sweep at once, so one expiry is not reported by both:
\* the lock outlives the sweep it guards (presence_sweeper.py:30-37).  Needs
\* sweeps shorter than the lock, 2 * Delay < LockTTL.
OneSweeperAtATime ==
    \A v, w \in Workers :
        swPc[v] # "sleep" /\ swPc[w] # "sleep" => v = w
=============================================================================
