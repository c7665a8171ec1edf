--------------------------- MODULE PresenceProofs ---------------------------
(***************************************************************************)
(* NoSilentOffline for any number of users, connections and workers, any   *)
(* TTL and interval, provided an operation's commands run within Delay     *)
(* ticks and Delay < TTL.                                                  *)
(*                                                                         *)
(* The invariant is not inductive alone.  Two things can go wrong in one   *)
(* step: a sweep deletes an entry its scan did not see, and a connection   *)
(* announces "online" after its entry is gone.  The first is excluded      *)
(* because a sweep deletes by its scan's clock value and everything        *)
(* written later expires after it (ScanComplete); the second because an    *)
(* add writes, and announces, within Delay < TTL of reading the clock      *)
(* (Prompt, AnnouncerStored), and the whole key outlives its entries       *)
(* (KeyOutlives).                                                          *)
(*                                                                         *)
(* OneSweeperAtATime likewise, provided two Delays fit in the lock.        *)
(*                                                                         *)
(* SweptBeforeKeyExpires, provided Delay = 0 and the TTL has room for one  *)
(* interval and, for every fault, an interval and an outage: each fault    *)
(* may cost the sweeper that was to come in time a whole cycle (InTime),   *)
(* and whoever holds the lock that sends another away serves just as well  *)
(* (LockServes).                                                           *)
(*                                                                         *)
(* The last part is about Profile: what the page paints, its user and what *)
(* the server stores, for any custom themes and any number of calls.       *)
(***************************************************************************)
EXTENDS Presence, Profile, TLAPS

Prompt ==
    \A c \in Conns :
        pc[c] \notin {"off", "open"} => at[c] <= now /\ now <= at[c] + Delay

AnnouncerStored ==
    \A c \in Conns : pc[c] = "annOn" => score[c] = at[c] + TTL

KeyOutlives ==
    /\ \A c \in Conns : score[c] <= keyUntil
    /\ keyUntil <= now + 2 * TTL

ScanPast == \A w \in Workers : swAt[w] <= now

ScanComplete ==
    \A w \in Workers, c \in Conns :
        swPc[w] = "remove" /\ score[c] # Absent /\ score[c] <= swAt[w]
            => Owner[c] \in swUsers[w]

Timing == Prompt /\ AnnouncerStored /\ KeyOutlives /\ ScanPast
IInv   == TypeOK /\ Timing /\ ScanComplete /\ NoSilentOffline

ConnStep(c) ==
    \/ Connect(c) \/ Refresh(c) \/ AddCheck(c) \/ AddWrite(c)
    \/ AnnounceOnline(c) \/ AnnounceOnlineFails(c)
    \/ RemoveEntry(c) \/ RemoveCheck(c)
    \/ AnnounceOffline(c) \/ AnnounceOfflineFails(c)

WorkerStep(w) ==
    \/ SweepLock(w) \/ SweepScan(w) \/ SweepRemove(w) \/ SweepLive(w)
    \/ SweepTell(w) \/ SweepTellFails(w) \/ SweepDone(w)
    \/ Crash(w) \/ Restart(w)

-----------------------------------------------------------------------------
\* The initial state: no entries, nobody online, nothing under way.
LEMMA InitIInv == Init => IInv
<1> SUFFICES ASSUME Init PROVE IInv
  OBVIOUS
<1> USE UsersAssumption, TimingAssumption DEF Init, Absent
<1>1. TypeOK
  BY DEF TypeOK, HandlerPc, SweeperPc
<1>2. Timing
  BY DEF Timing, Prompt, AnnouncerStored, KeyOutlives, ScanPast
<1>3. ScanComplete /\ NoSilentOffline
  BY DEF ScanComplete, NoSilentOffline
<1>4. QED
  BY <1>1, <1>2, <1>3 DEF IInv

-----------------------------------------------------------------------------
\* Every step keeps the types and the bound on scores (TypeOK).
LEMMA TypeStep == TypeOK /\ Timing /\ [Next]_vars => TypeOK'
<1> SUFFICES ASSUME TypeOK, Timing, [Next]_vars PROVE TypeOK'
  OBVIOUS
<1> USE UsersAssumption, TimingAssumption DEF TypeOK, HandlerPc, SweeperPc, Absent,
        store, handler, sweeper, told
<1>1. ASSUME NEW c \in Conns, ConnStep(c) PROVE TypeOK'
  <2>1. CASE Connect(c)
    BY <2>1 DEF Connect
  <2>2. CASE Refresh(c)
    BY <2>2 DEF Refresh
  <2>3. CASE AddCheck(c)
    <3>1. fresh' \in [Conns -> BOOLEAN]
      <4>1. fresh \in [Conns -> BOOLEAN] /\ (~Live(Owner[c])) \in BOOLEAN
        BY DEF Live
      <4>2. fresh' = [fresh EXCEPT ![c] = ~Live(Owner[c])]
        BY <2>3 DEF AddCheck
      <4>3. QED
        BY <4>1, <4>2
    <3>2. QED
      BY <2>3, <3>1 DEF AddCheck
  <2>4. CASE AddWrite(c)
    <3>1. inLoop' \in [Conns -> BOOLEAN]
      <4>1. inLoop \in [Conns -> BOOLEAN] /\ (inLoop[c] \/ ~fresh[c]) \in BOOLEAN
        OBVIOUS
      <4>2. inLoop' = [inLoop EXCEPT ![c] = inLoop[c] \/ ~fresh[c]]
        BY <2>4 DEF AddWrite, Expiry
      <4>3. QED
        BY <4>1, <4>2
    <3>2. fresh' \in [Conns -> BOOLEAN] /\ at' \in [Conns -> Nat]
      BY <2>4 DEF AddWrite, Expiry
    <3>3. /\ score' \in [Conns -> Nat] /\ keyUntil' \in Nat
          /\ \A d \in Conns : score'[d] <= now + TTL
      BY <2>4 DEF AddWrite, Expiry, Timing, Prompt
    <3>4. pc' \in [Conns -> HandlerPc]
      BY <2>4 DEF AddWrite, Expiry
    <3>5. QED
      BY <2>4, <3>1, <3>2, <3>3, <3>4 DEF AddWrite, Expiry
  <2>5. CASE AnnounceOnline(c)
    BY <2>5 DEF AnnounceOnline, Tell
  <2>6. CASE AnnounceOnlineFails(c)
    BY <2>6 DEF AnnounceOnlineFails
  <2>7. CASE RemoveEntry(c)
    BY <2>7 DEF RemoveEntry
  <2>8. CASE RemoveCheck(c)
    BY <2>8 DEF RemoveCheck
  <2>9. CASE AnnounceOffline(c)
    BY <2>9 DEF AnnounceOffline, Tell
  <2>10. CASE AnnounceOfflineFails(c)
    BY <2>10 DEF AnnounceOfflineFails
  <2>11. QED
    BY <1>1, <2>1, <2>2, <2>3, <2>4, <2>5, <2>6, <2>7, <2>8, <2>9, <2>10 DEF ConnStep
<1>2. ASSUME NEW w \in Workers, WorkerStep(w) PROVE TypeOK'
  <2>1. CASE SweepLock(w)
    BY <2>1 DEF SweepLock, LockTTL
  <2>2. CASE SweepScan(w)
    BY <2>2 DEF SweepScan, Rest, Expired
  <2>3. CASE SweepRemove(w)
    BY <2>3 DEF SweepRemove, Expired
  <2>4. CASE SweepLive(w)
    BY <2>4 DEF SweepLive
  <2>5. CASE SweepTell(w)
    BY <2>5 DEF SweepTell, Tell
  <2>6. CASE SweepTellFails(w)
    BY <2>6 DEF SweepTellFails
  <2>7. CASE SweepDone(w)
    BY <2>7 DEF SweepDone, Rest
  <2>8. CASE Crash(w)
    BY <2>8 DEF Crash, Pending
  <2>9. CASE Restart(w)
    BY <2>9 DEF Restart
  <2>10. QED
    BY <1>2, <2>1, <2>2, <2>3, <2>4, <2>5, <2>6, <2>7, <2>8, <2>9 DEF WorkerStep
<1>3. CASE Tick
  BY <1>3 DEF Tick
<1>4. CASE UNCHANGED vars
  BY <1>4 DEF vars
<1>5. QED
  BY <1>1, <1>2, <1>3, <1>4 DEF Next, ConnStep, WorkerStep

-----------------------------------------------------------------------------
\* Every step keeps the clock bounds.  A tick needs Timely; a write of an entry
\* needs that its operation is recent; a deletion spares an announcer's entry,
\* which expires after the sweep's clock value.
LEMMA TimingStep == TypeOK /\ Timing /\ [Next]_vars => Timing'
<1> SUFFICES ASSUME TypeOK, Timing, [Next]_vars PROVE Timing'
  OBVIOUS
<1> USE UsersAssumption, TimingAssumption DEF Absent, store, handler, sweeper, told,
        TypeOK, HandlerPc, SweeperPc, Timing, Prompt, AnnouncerStored, KeyOutlives, ScanPast
<1>1. ASSUME NEW c \in Conns, ConnStep(c) PROVE Timing'
  <2>1. CASE Connect(c)
    BY <2>1 DEF Connect
  <2>2. CASE Refresh(c)
    BY <2>2 DEF Refresh
  <2>3. CASE AddCheck(c)
    BY <2>3 DEF AddCheck
  <2>4. CASE AddWrite(c)
    BY <2>4 DEF AddWrite, Expiry
  <2>5. CASE AnnounceOnline(c)
    BY <2>5 DEF AnnounceOnline
  <2>6. CASE AnnounceOnlineFails(c)
    BY <2>6 DEF AnnounceOnlineFails
  <2>7. CASE RemoveEntry(c)
    BY <2>7 DEF RemoveEntry
  <2>8. CASE RemoveCheck(c)
    BY <2>8 DEF RemoveCheck
  <2>9. CASE AnnounceOffline(c)
    BY <2>9 DEF AnnounceOffline
  <2>10. CASE AnnounceOfflineFails(c)
    BY <2>10 DEF AnnounceOfflineFails
  <2>11. QED
    BY <1>1, <2>1, <2>2, <2>3, <2>4, <2>5, <2>6, <2>7, <2>8, <2>9, <2>10 DEF ConnStep
<1>2. ASSUME NEW w \in Workers, WorkerStep(w) PROVE Timing'
  <2>1. CASE SweepLock(w)
    BY <2>1 DEF SweepLock, LockTTL
  <2>2. CASE SweepScan(w)
    BY <2>2 DEF SweepScan, Rest
  <2>3. CASE SweepRemove(w)
    BY <2>3 DEF SweepRemove, Expired
  <2>4. CASE SweepLive(w)
    BY <2>4 DEF SweepLive
  <2>5. CASE SweepTell(w)
    BY <2>5 DEF SweepTell
  <2>6. CASE SweepTellFails(w)
    BY <2>6 DEF SweepTellFails
  <2>7. CASE SweepDone(w)
    BY <2>7 DEF SweepDone, Rest
  <2>8. CASE Crash(w)
    BY <2>8 DEF Crash
  <2>9. CASE Restart(w)
    BY <2>9 DEF Restart
  <2>10. QED
    BY <1>2, <2>1, <2>2, <2>3, <2>4, <2>5, <2>6, <2>7, <2>8, <2>9 DEF WorkerStep
<1>3. CASE Tick
  <2>1. \A c \in Conns : pc[c] \notin {"off", "open"} => now + 1 <= at[c] + Delay
    BY <1>3 DEF Tick, Timely
  <2>2. Prompt'
    BY <1>3, <2>1 DEF Tick
  <2>3. KeyOutlives' /\ ScanPast'
    BY <1>3 DEF Tick
  <2>4. AnnouncerStored'
    BY <1>3, <2>1 DEF Tick
  <2>5. QED
    BY <2>2, <2>3, <2>4
<1>4. CASE UNCHANGED vars
  BY <1>4 DEF vars
<1>5. QED
  BY <1>1, <1>2, <1>3, <1>4 DEF Next, ConnStep, WorkerStep

-----------------------------------------------------------------------------
\* A sweep about to delete has seen everything it will delete: entries written
\* since its scan expire after the scan's clock value.
LEMMA ScanStep == TypeOK /\ Timing /\ ScanComplete /\ [Next]_vars => ScanComplete'
<1> SUFFICES ASSUME TypeOK, Timing, ScanComplete, [Next]_vars PROVE ScanComplete'
  OBVIOUS
<1> USE UsersAssumption, TimingAssumption DEF Absent, store, handler, sweeper, told,
        TypeOK, ScanComplete
<1>1. ASSUME NEW c \in Conns, ConnStep(c) PROVE ScanComplete'
  <2>1. CASE AddWrite(c)
    <3>1. at[c] + TTL > now
      BY <2>1 DEF AddWrite, Expiry, Timing, Prompt
    <3>2. QED
      BY <2>1, <3>1 DEF AddWrite, Expiry, Timing, ScanPast
  <2>2. CASE RemoveEntry(c)
    BY <2>2 DEF RemoveEntry
  <2>3. ASSUME ConnStep(c), ~AddWrite(c), ~RemoveEntry(c)
        PROVE  UNCHANGED <<score, sweeper>>
    BY <2>3 DEF ConnStep, Connect, Refresh, AddCheck, AnnounceOnline,
       AnnounceOnlineFails, RemoveCheck, AnnounceOffline, AnnounceOfflineFails
  <2>4. QED
    BY <1>1, <2>1, <2>2, <2>3
<1>2. ASSUME NEW w \in Workers, WorkerStep(w) PROVE ScanComplete'
  <2>1. CASE SweepLock(w)
    BY <2>1 DEF SweepLock, LockTTL
  <2>2. CASE SweepScan(w)
    BY <2>2 DEF SweepScan, Rest, Expired
  <2>3. CASE SweepRemove(w)
    BY <2>3 DEF SweepRemove, Expired
  <2>4. CASE SweepLive(w)
    BY <2>4 DEF SweepLive
  <2>5. CASE SweepTell(w)
    BY <2>5 DEF SweepTell
  <2>6. CASE SweepTellFails(w)
    BY <2>6 DEF SweepTellFails
  <2>7. CASE SweepDone(w)
    BY <2>7 DEF SweepDone, Rest
  <2>8. CASE Crash(w)
    BY <2>8 DEF Crash
  <2>9. CASE Restart(w)
    BY <2>9 DEF Restart
  <2>10. QED
    BY <1>2, <2>1, <2>2, <2>3, <2>4, <2>5, <2>6, <2>7, <2>8, <2>9 DEF WorkerStep
<1>3. CASE Tick
  BY <1>3 DEF Tick
<1>4. CASE UNCHANGED vars
  BY <1>4 DEF vars
<1>5. QED
  BY <1>1, <1>2, <1>3, <1>4 DEF Next, ConnStep, WorkerStep

-----------------------------------------------------------------------------
\* No step loses the last trace of a user who is shown online.
LEMMA SilentStep == IInv /\ [Next]_vars => NoSilentOffline'
<1> SUFFICES ASSUME IInv, [Next]_vars, NEW u \in Users, announced'[u] = "online"
             PROVE  \/ \E d \in Conns : Owner[d] = u /\ score'[d] # Absent
                    \/ ReportPending(u)'
                    \/ u \in (unreported \cup swallowed)'
  BY DEF NoSilentOffline
<1> DEFINE Stored == \E d \in Conns : Owner[d] = u /\ score[d] # Absent
           Covered == Stored \/ ReportPending(u) \/ u \in unreported \cup swallowed
<1> USE UsersAssumption, TimingAssumption DEF IInv, TypeOK, store, handler, sweeper, told
<1>0. announced[u] = "online" => Covered
  BY DEF NoSilentOffline
<1>1. ASSUME NEW c \in Conns, ConnStep(c) PROVE Covered'
  <2>1. CASE AnnounceOnline(c)
    <3>1. score[c] # Absent /\ score' = score
      BY <2>1 DEF AnnounceOnline, Timing, AnnouncerStored, Absent
    <3>2. CASE Owner[c] = u
      BY <3>1, <3>2
    <3>3. CASE Owner[c] # u
      BY <2>1, <3>3, <1>0 DEF AnnounceOnline, Tell, ReportPending
    <3>4. QED
      BY <3>2, <3>3
  <2>2. CASE AnnounceOffline(c)
    <3>1. Owner[c] # u
      BY <2>2 DEF AnnounceOffline, Tell
    <3>2. QED
      BY <2>2, <3>1, <1>0 DEF AnnounceOffline, Tell, ReportPending
  <2>3. CASE RemoveEntry(c)
    <3>1. CASE Owner[c] = u /\ score[c] # Absent
      BY <2>3, <3>1 DEF RemoveEntry, ReportPending
    <3>2. CASE ~(Owner[c] = u /\ score[c] # Absent)
      BY <2>3, <3>2, <1>0 DEF RemoveEntry, ReportPending
    <3>3. QED
      BY <3>1, <3>2
  <2>4. CASE RemoveCheck(c)
    <3>1. CASE Owner[c] = u /\ Live(u)
      BY <2>4, <3>1 DEF RemoveCheck, Live, Absent
    <3>2. CASE Owner[c] = u /\ ~Live(u)
      BY <2>4, <3>2 DEF RemoveCheck, ReportPending
    <3>3. CASE Owner[c] # u
      BY <2>4, <3>3, <1>0 DEF RemoveCheck, ReportPending
    <3>4. QED
      BY <3>1, <3>2, <3>3
  <2>5. CASE AddWrite(c)
    BY <2>5, <1>0 DEF AddWrite, Expiry, ReportPending, Absent
  <2>6. CASE AnnounceOfflineFails(c)
    BY <2>6, <1>0 DEF AnnounceOfflineFails, ReportPending
  <2>7. CASE Connect(c) \/ Refresh(c) \/ AddCheck(c) \/ AnnounceOnlineFails(c)
    BY <2>7, <1>0 DEF Connect, Refresh, AddCheck, AnnounceOnlineFails, ReportPending
  <2>8. QED
    BY <1>1, <2>1, <2>2, <2>3, <2>4, <2>5, <2>6, <2>7 DEF ConnStep
<1>2. ASSUME NEW w \in Workers, WorkerStep(w) PROVE Covered'
  <2>1. CASE SweepRemove(w)
    <3>1. CASE \E c \in Conns : Owner[c] = u /\ c \in Expired(swAt[w])
      <4>1. PICK c \in Conns : Owner[c] = u /\ c \in Expired(swAt[w])
        BY <3>1
      <4>2. u \in swUsers[w]
        BY <2>1, <4>1 DEF SweepRemove, Expired, ScanComplete
      <4>3. QED
        BY <2>1, <4>2 DEF SweepRemove, ReportPending
    <3>2. CASE ~\E c \in Conns : Owner[c] = u /\ c \in Expired(swAt[w])
      BY <2>1, <3>2, <1>0 DEF SweepRemove, ReportPending
    <3>3. QED
      BY <3>1, <3>2
  <2>2. CASE SweepLive(w)
    <3>1. CASE Live(u)
      BY <2>2, <3>1 DEF SweepLive, Live, Absent
    <3>2. CASE ~Live(u)
      BY <2>2, <3>2, <1>0 DEF SweepLive, ReportPending
    <3>3. QED
      BY <3>1, <3>2
  <2>3. CASE SweepTell(w)
    BY <2>3, <1>0 DEF SweepTell, Tell, ReportPending
  <2>4. CASE SweepTellFails(w)
    BY <2>4, <1>0 DEF SweepTellFails, ReportPending
  <2>5. CASE SweepDone(w)
    BY <2>5, <1>0 DEF SweepDone, Rest, ReportPending
  <2>6. CASE Crash(w)
    BY <2>6, <1>0 DEF Crash, Pending, ReportPending
  <2>7. CASE SweepLock(w)
    BY <2>7, <1>0 DEF SweepLock, LockTTL, ReportPending
  <2>8. CASE SweepScan(w)
    BY <2>8, <1>0 DEF SweepScan, Rest, ReportPending
  <2>9. CASE Restart(w)
    BY <2>9, <1>0 DEF Restart, ReportPending
  <2>10. QED
    BY <1>2, <2>1, <2>2, <2>3, <2>4, <2>5, <2>6, <2>7, <2>8, <2>9 DEF WorkerStep
<1>3. CASE Tick
  BY <1>3, <1>0 DEF Tick, ReportPending
<1>4. CASE UNCHANGED vars
  BY <1>4, <1>0 DEF vars, ReportPending
<1>5. Covered'
  BY <1>1, <1>2, <1>3, <1>4 DEF Next, ConnStep, WorkerStep
<1>6. QED
  BY <1>5

-----------------------------------------------------------------------------
\* Every reachable state is well typed, and no entry expires later than TTL
\* from now: a dead connection ages out.
THEOREM PresenceTypes == Spec => []TypeOK
<1>1. Init => IInv
  BY InitIInv
<1>2. IInv /\ [Next]_vars => IInv'
  BY TypeStep, TimingStep, ScanStep, SilentStep DEF IInv
<1>3. IInv => TypeOK
  BY DEF IInv
<1>4. QED
  BY <1>1, <1>2, <1>3, PTL DEF Spec

\* A user shown online always has a stored entry, a report on its way, or a
\* report that a fault cut off: the stuck-online bug (#77) cannot come back by
\* any interleaving of add, remove and prune.
THEOREM NoUserStuckOnline == Spec => []NoSilentOffline
<1>1. Init => IInv
  BY InitIInv
<1>2. IInv /\ [Next]_vars => IInv'
  BY TypeStep, TimingStep, ScanStep, SilentStep DEF IInv
<1>3. IInv => NoSilentOffline
  BY DEF IInv
<1>4. QED
  BY <1>1, <1>2, <1>3, PTL DEF Spec

-----------------------------------------------------------------------------
(* One sweeper                                                             *)

\* A sweep under way belongs to a running worker and is recent, and the lock
\* it took, LockTTL ahead of a clock value that is at most Delay older than the
\* scan's, has not been taken by another.
SweepRecent ==
    \A w \in Workers : swPc[w] # "sleep" =>
        /\ up[w] /\ now <= swAt[w] + Delay
        /\ swAt[w] + LockTTL <= lockUntil + (IF swPc[w] = "scan" THEN 0 ELSE Delay)

\* Every step keeps it: a second worker finds the lock of the first alive.
LEMMA SweepRecentStep ==
  ASSUME 2 * Delay < LockTTL, TypeOK, SweepRecent, OneSweeperAtATime, [Next]_vars
  PROVE  SweepRecent' /\ OneSweeperAtATime'
<1> DEFINE Goal == SweepRecent /\ OneSweeperAtATime
<1> USE TimingAssumption DEF TypeOK, SweeperPc, store, handler, sweeper, told,
        SweepRecent, OneSweeperAtATime
<1>0. LockTTL \in Nat
  BY DEF LockTTL
<1>1. ASSUME NEW c \in Conns, ConnStep(c) PROVE Goal'
  <2>1. UNCHANGED <<now, up, sweeper>>
    BY <1>1 DEF ConnStep, Connect, Refresh, AddCheck, AddWrite, AnnounceOnline,
       AnnounceOnlineFails, RemoveEntry, RemoveCheck, AnnounceOffline, AnnounceOfflineFails
  <2> QED
    BY <2>1 DEF LockTTL
<1>2. ASSUME NEW w \in Workers, WorkerStep(w) PROVE Goal'
  <2>0. LockTTL' = LockTTL
    BY DEF LockTTL
  <2>1. CASE SweepLock(w)
    <3>1. CASE lockUntil > now
      BY <1>0, <2>0, <2>1, <3>1 DEF SweepLock
    <3>2. CASE ~(lockUntil > now)
      <4>1. \A v \in Workers : swPc[v] = "sleep"
        BY <1>0, <3>2
      <4> QED
        BY <1>0, <2>0, <2>1, <3>2, <4>1 DEF SweepLock
    <3> QED
      BY <3>1, <3>2
  <2>2. CASE SweepScan(w)
    BY <1>0, <2>0, <2>2 DEF SweepScan, Rest
  <2>3. CASE SweepRemove(w)
    BY <1>0, <2>0, <2>3 DEF SweepRemove
  <2>4. CASE SweepLive(w)
    BY <1>0, <2>0, <2>4 DEF SweepLive
  <2>5. CASE SweepTell(w) \/ SweepTellFails(w)
    BY <1>0, <2>0, <2>5 DEF SweepTell, SweepTellFails
  <2>6. CASE SweepDone(w)
    BY <1>0, <2>0, <2>6 DEF SweepDone, Rest
  <2>7. CASE Crash(w)
    BY <1>0, <2>0, <2>7 DEF Crash
  <2>8. CASE Restart(w)
    BY <1>0, <2>0, <2>8 DEF Restart
  <2> QED
    BY <1>2, <2>1, <2>2, <2>3, <2>4, <2>5, <2>6, <2>7, <2>8 DEF WorkerStep
<1>3. CASE Tick
  <2>1. \A w \in Workers : swPc[w] # "sleep" => now < swAt[w] + Delay
    BY <1>3 DEF Tick, Timely
  <2> QED
    BY <1>0, <1>3, <2>1 DEF Tick, LockTTL
<1>4. CASE UNCHANGED vars
  BY <1>4 DEF vars, LockTTL
<1> QED
  BY <1>1, <1>2, <1>3, <1>4 DEF Next, ConnStep, WorkerStep

\* No two workers sweep at once, whatever the interval, the number of workers
\* and the crashes, as long as the commands of a sweep run within the lifetime
\* of the lock that guards it.
THEOREM OneSweeper == 2 * Delay < LockTTL => (Spec => []OneSweeperAtATime)
<1> SUFFICES ASSUME 2 * Delay < LockTTL PROVE Spec => []OneSweeperAtATime
  OBVIOUS
<1> DEFINE Inv == IInv /\ SweepRecent /\ OneSweeperAtATime
<1>1. Init => Inv
  BY InitIInv DEF Init, SweepRecent, OneSweeperAtATime
<1>2. Inv /\ [Next]_vars => Inv'
  <2> SUFFICES ASSUME Inv, [Next]_vars PROVE Inv'
    OBVIOUS
  <2>1. IInv'
    BY TypeStep, TimingStep, ScanStep, SilentStep DEF IInv
  <2>2. SweepRecent' /\ OneSweeperAtATime'
    BY SweepRecentStep DEF IInv
  <2> QED
    BY <2>1, <2>2
<1>3. Inv => OneSweeperAtATime
  OBVIOUS
<1> QED
  BY <1>1, <1>2, <1>3, PTL DEF Spec

-----------------------------------------------------------------------------
(* Swept before the key expires                                            *)

\* When w's sweeper tries next, at the latest, if w does not crash again.
Attempt(w) == IF up[w] THEN due[w] ELSE due[w] + Outage + Interval

\* The tick in which c's entry is swept at the latest: one interval after the
\* last sweep that came too early for it, and a whole cycle for every fault.
Cost(n) == n * (Interval + Outage)
Latest(c) == score[c] - 1 + Interval + Cost(faults)

\* With Delay = 0 a sweeper wakes in the tick it is due, and a worker that is
\* down comes back within Outage.
OnTime ==
    \A w \in Workers :
        IF up[w]
          THEN /\ now <= due[w] /\ due[w] <= now + Interval
               /\ swPc[w] # "sleep" => due[w] = now
          ELSE faults > 0 /\ due[w] <= now /\ now <= due[w] + Outage

\* The key was renewed with the last of its entries.
KeyFar == \A c \in Conns : score[c] # Absent => score[c] + TTL <= keyUntil

\* A sweep that has deleted what had expired has left nothing that had.
SweptClean ==
    \A w \in Workers : swPc[w] \in {"live", "tell"} =>
        \A c \in Conns : score[c] # Absent => score[c] > swAt[w]

\* Somebody sweeps in time for every entry.
InTime == \A c \in Conns : score[c] # Absent => \E w \in Workers : Attempt(w) <= Latest(c)

\* So does the one whose lock keeps the others from sweeping.
LockServes ==
    lockUntil > now => \E w \in Workers :
        \/ swPc[w] # "sleep"
        \/ /\ up[w] => due[w] >= lockUntil
           /\ \A c \in Conns : score[c] # Absent => Attempt(w) <= Latest(c)

SweptInv ==
    /\ IInv /\ SweepRecent /\ OneSweeperAtATime
    /\ faults <= MaxFaults /\ lockUntil <= now + LockTTL
    /\ OnTime /\ KeyFar /\ SweptClean /\ InTime /\ LockServes
    /\ SweptBeforeKeyExpires

\* The cost of faults: whole cycles, one for each.
LEMMA CostGrows ==
  ASSUME NEW n \in Nat
  PROVE  /\ Cost(n) \in Nat /\ Cost(n + 1) = Cost(n) + Interval + Outage
         /\ n > 0 => Interval + Outage <= Cost(n)
         /\ \A m \in Nat : n <= m => Cost(n) <= Cost(m)
<1> DEFINE K == Interval + Outage
<1>0. K \in Nat
  BY TimingAssumption
<1>1. Cost(n) \in Nat /\ Cost(n + 1) = Cost(n) + K
  BY <1>0 DEF Cost
<1>2. ASSUME NEW d \in Nat PROVE Cost(n) <= Cost(n + d)
  <2> HIDE DEF K
  <2>1. (n + d) * K = n * K + d * K /\ d * K \in Nat /\ n * K \in Nat
    BY <1>0
  <2> QED
    BY <2>1 DEF Cost, K
<1>3. \A m \in Nat : n <= m => Cost(n) <= Cost(m)
  <2> SUFFICES ASSUME NEW m \in Nat, n <= m PROVE Cost(n) <= Cost(m)
    OBVIOUS
  <2>1. m - n \in Nat /\ n + (m - n) = m
    OBVIOUS
  <2> QED
    BY <1>2, <2>1
<1>4. n > 0 => K <= Cost(n)
  <2> SUFFICES ASSUME n > 0 PROVE K <= Cost(n)
    OBVIOUS
  <2> HIDE DEF K
  <2>1. n - 1 \in Nat /\ n = (n - 1) + 1
    OBVIOUS
  <2>2. n * K = (n - 1) * K + K /\ (n - 1) * K \in Nat
    BY <1>0, <2>1
  <2> QED
    BY <1>0, <2>2 DEF Cost, K
<1> QED
  BY <1>1, <1>3, <1>4, TimingAssumption

\* Every step keeps the sweepers' clocks and the number of faults in bounds.
LEMMA OnTimeStep ==
  ASSUME Delay = 0, SweptInv, [Next]_vars
  PROVE  OnTime' /\ (faults <= MaxFaults)' /\ (lockUntil <= now + LockTTL)'
<1> DEFINE Goal == OnTime /\ faults <= MaxFaults /\ lockUntil <= now + LockTTL
<1> USE TimingAssumption DEF SweptInv, IInv, TypeOK, SweeperPc, store, handler, sweeper,
        told, OnTime
<1>0. LockTTL \in Nat /\ LockTTL' = LockTTL
  BY DEF LockTTL
<1>1. ASSUME NEW c \in Conns, ConnStep(c) PROVE Goal'
  <2>1. /\ UNCHANGED <<now, up, sweeper>> /\ faults' \in Nat
        /\ faults <= faults' /\ faults' <= MaxFaults
    BY <1>1 DEF ConnStep, Connect, Refresh, AddCheck, AddWrite, AnnounceOnline,
       AnnounceOnlineFails, RemoveEntry, RemoveCheck, AnnounceOffline, AnnounceOfflineFails
  <2> QED
    BY <1>0, <2>1
<1>2. ASSUME NEW w \in Workers, WorkerStep(w) PROVE Goal'
  <2>1. CASE SweepLock(w)
    BY <1>0, <2>1 DEF SweepLock
  <2>2. CASE SweepScan(w)
    BY <1>0, <2>2 DEF SweepScan, Rest, SweepRecent
  <2>3. CASE SweepRemove(w)
    BY <1>0, <2>3 DEF SweepRemove
  <2>4. CASE SweepLive(w)
    BY <1>0, <2>4 DEF SweepLive
  <2>5. CASE SweepTell(w) \/ SweepTellFails(w)
    BY <1>0, <2>5 DEF SweepTell, SweepTellFails
  <2>6. CASE SweepDone(w)
    BY <1>0, <2>6 DEF SweepDone, Rest, SweepRecent
  <2>7. CASE Crash(w)
    BY <1>0, <2>7 DEF Crash
  <2>8. CASE Restart(w)
    BY <1>0, <2>8 DEF Restart, SweepRecent
  <2> QED
    BY <1>2, <2>1, <2>2, <2>3, <2>4, <2>5, <2>6, <2>7, <2>8 DEF WorkerStep
<1>3. CASE Tick
  <2>1. \A w \in Workers : IF up[w] THEN swPc[w] = "sleep" /\ now < due[w]
                                    ELSE now < due[w] + Outage
    BY <1>3 DEF Tick, Timely, Timing, ScanPast
  <2> QED
    BY <1>0, <1>3, <2>1 DEF Tick
<1>4. CASE UNCHANGED vars
  BY <1>0, <1>4 DEF vars
<1> QED
  BY <1>1, <1>2, <1>3, <1>4 DEF Next, ConnStep, WorkerStep

\* Every step keeps the key a whole TTL ahead of its entries, and what a sweep
\* has cleaned stays clean: an entry written during it expires after it.
LEMMA KeyFarStep ==
  ASSUME Delay = 0, SweptInv, [Next]_vars
  PROVE  KeyFar' /\ SweptClean'
<1> DEFINE Goal == KeyFar /\ SweptClean
<1> USE TimingAssumption DEF SweptInv, IInv, TypeOK, SweeperPc, store, handler, sweeper,
        told, KeyFar, SweptClean, Absent
<1>1. ASSUME NEW c \in Conns, ConnStep(c) PROVE Goal'
  <2>1. CASE AddWrite(c)
    <3>1. at[c] = now
      BY <2>1 DEF AddWrite, Timing, Prompt
    <3> QED
      BY <2>1, <3>1 DEF AddWrite, Expiry, Timing, ScanPast
  <2>2. CASE RemoveEntry(c)
    BY <2>2 DEF RemoveEntry
  <2>3. ASSUME ~AddWrite(c), ~RemoveEntry(c)
        PROVE  UNCHANGED <<store, sweeper>>
    BY <1>1, <2>3 DEF ConnStep, Connect, Refresh, AddCheck, AnnounceOnline,
       AnnounceOnlineFails, RemoveCheck, AnnounceOffline, AnnounceOfflineFails
  <2> QED
    BY <2>1, <2>2, <2>3
<1>2. ASSUME NEW w \in Workers, WorkerStep(w) PROVE Goal'
  <2>1. CASE SweepLock(w)
    BY <2>1 DEF SweepLock
  <2>2. CASE SweepScan(w)
    BY <2>2 DEF SweepScan, Rest
  <2>3. CASE SweepRemove(w)
    BY <2>3 DEF SweepRemove, Expired
  <2>4. CASE SweepLive(w)
    BY <2>4 DEF SweepLive
  <2>5. CASE SweepTell(w) \/ SweepTellFails(w)
    BY <2>5 DEF SweepTell, SweepTellFails
  <2>6. CASE SweepDone(w)
    BY <2>6 DEF SweepDone, Rest
  <2>7. CASE Crash(w)
    BY <2>7 DEF Crash
  <2>8. CASE Restart(w)
    BY <2>8 DEF Restart
  <2> QED
    BY <1>2, <2>1, <2>2, <2>3, <2>4, <2>5, <2>6, <2>7, <2>8 DEF WorkerStep
<1>3. CASE Tick
  BY <1>3 DEF Tick
<1>4. CASE UNCHANGED vars
  BY <1>4 DEF vars
<1> QED
  BY <1>1, <1>2, <1>3, <1>4 DEF Next, ConnStep, WorkerStep

\* Nobody is late: a sweeper's next attempt is not in the past, so an entry's
\* last tick is not either.
LEMMA NotLate ==
  ASSUME SweptInv
  PROVE  /\ \A w \in Workers : Attempt(w) \in Nat /\ now <= Attempt(w)
         /\ \A c \in Conns : /\ Latest(c) \in Int
                             /\ score[c] # Absent => now <= Latest(c)
<1> USE TimingAssumption DEF SweptInv, IInv, TypeOK, OnTime, Attempt
<1>1. \A w \in Workers : Attempt(w) \in Nat /\ now <= Attempt(w)
  OBVIOUS
<1>2. Cost(faults) \in Nat
  BY CostGrows
<1>3. \A c \in Conns : Latest(c) \in Int
  BY <1>2 DEF Latest
<1>4. \A c \in Conns : score[c] # Absent => now <= Latest(c)
  BY <1>1, <1>3 DEF InTime
<1> QED
  BY <1>1, <1>3, <1>4

\* A sweeper that has just finished with nothing expired left tries again in
\* time for everything that is stored.
LEMMA RestServes ==
  ASSUME SweptInv, [Next]_vars, NEW w \in Workers, up[w], Rest(w),
         UNCHANGED <<now, score, up, lockUntil, faults>>,
         \A c \in Conns : score[c] # Absent => score[c] > now
  PROVE  InTime' /\ LockServes'
<1> USE TimingAssumption DEF SweptInv, IInv, TypeOK
<1>1. Attempt(w)' = now + Interval /\ due'[w] = now + Interval /\ up'[w]
  BY DEF Rest, Attempt
<1>2. Cost(faults) \in Nat /\ Cost(faults)' = Cost(faults)
  BY CostGrows DEF Cost
<1>3. \A c \in Conns : score'[c] # Absent => Attempt(w)' <= Latest(c)'
  BY <1>1, <1>2 DEF Latest
<1>4. LockTTL \in Nat /\ LockTTL <= Interval
  BY DEF LockTTL
<1>5. due'[w] >= lockUntil'
  BY <1>1, <1>4
<1> QED
  BY <1>3, <1>5, <1>1 DEF InTime, LockServes

\* Every step keeps a sweeper in time for every entry, and the lock with one.
LEMMA InTimeStep ==
  ASSUME Delay = 0, SweptInv, [Next]_vars
  PROVE  InTime' /\ LockServes'
<1> DEFINE Goal == InTime' /\ LockServes'
<1> USE TimingAssumption DEF SweptInv, IInv, TypeOK, SweeperPc, store, handler, sweeper, told
<1>0. LockTTL \in Nat /\ LockTTL <= Interval /\ LockTTL' = LockTTL
  BY DEF LockTTL
<1>a. /\ Cost(faults) \in Nat /\ Cost(faults + 1) = Cost(faults) + Interval + Outage
      /\ faults > 0 => Interval + Outage <= Cost(faults)
  BY CostGrows
<1>b. /\ \A w \in Workers : Attempt(w) \in Nat /\ now <= Attempt(w)
      /\ \A c \in Conns : Latest(c) \in Int /\ (score[c] # Absent => now <= Latest(c))
  BY NotLate
<1>c. Cost(faults)' = Cost(faults')
  BY DEF Cost
<1>1. ASSUME NEW c \in Conns, ConnStep(c) PROVE Goal
  <2>1. UNCHANGED <<now, up, sweeper>> /\ faults' \in {faults, faults + 1}
    BY <1>1 DEF ConnStep, Connect, Refresh, AddCheck, AddWrite, AnnounceOnline,
       AnnounceOnlineFails, RemoveEntry, RemoveCheck, AnnounceOffline, AnnounceOfflineFails
  <2>2. \A w \in Workers : Attempt(w)' = Attempt(w)
    BY <2>1 DEF Attempt
  <2>3. CASE AddWrite(c)
    <3>1. at[c] = now
      BY <2>3 DEF AddWrite, Timing, Prompt
    <3>2. /\ faults' = faults /\ score'[c] = now + TTL
          /\ \A d \in Conns : d # c => score'[d] = score[d]
      BY <2>3, <3>1 DEF AddWrite, Expiry
    <3>3. Latest(c)' = now + TTL - 1 + Interval + Cost(faults)
      BY <1>c, <3>2 DEF Latest
    <3>4. \A d \in Conns : d # c => Latest(d)' = Latest(d)
      BY <1>c, <3>2 DEF Latest
    <3>5. \A w \in Workers : Attempt(w) <= Latest(c)'
      BY <1>a, <3>3 DEF Attempt, OnTime
    <3>6. Host[c] \in Workers
      BY UsersAssumption
    <3>7. InTime'
      BY <2>2, <3>2, <3>4, <3>5, <3>6 DEF InTime
    <3>8. LockServes'
      BY <2>1, <2>2, <3>2, <3>4, <3>5 DEF LockServes
    <3> QED
      BY <3>7, <3>8
  <2>4. CASE ~AddWrite(c)
    <3>1. \A d \in Conns : score'[d] # Absent => score'[d] = score[d] /\ score[d] # Absent
      BY <1>1, <2>4 DEF ConnStep, Connect, Refresh, AddCheck, AnnounceOnline, RemoveEntry,
         AnnounceOnlineFails, RemoveCheck, AnnounceOffline, AnnounceOfflineFails, Absent
    <3>2. \A d \in Conns : score'[d] # Absent => Latest(d) <= Latest(d)' /\ Latest(d)' \in Int
      BY <1>a, <1>c, <2>1, <3>1 DEF Latest
    <3> QED
      BY <1>b, <2>1, <2>2, <3>1, <3>2 DEF InTime, LockServes
  <2> QED
    BY <2>3, <2>4
<1>2. ASSUME NEW w \in Workers, WorkerStep(w) PROVE Goal
  <2>1. CASE SweepLock(w)
    <3>1. \A c \in Conns : score' = score /\ Latest(c)' = Latest(c)
      BY <1>c, <2>1 DEF SweepLock, Latest
    <3>2. CASE lockUntil > now
      <4>1. \A v \in Workers : v # w => Attempt(v)' = Attempt(v)
        BY <2>1 DEF SweepLock, Attempt
      <4>2. PICK x \in Workers :
              \/ swPc[x] # "sleep"
              \/ /\ up[x] => due[x] >= lockUntil
                 /\ \A c \in Conns : score[c] # Absent => Attempt(x) <= Latest(c)
        BY <3>2 DEF LockServes
      <4>3. x # w
        BY <2>1, <3>2, <4>2 DEF SweepLock
      <4>4. \A c \in Conns : score[c] # Absent => Attempt(x) <= Latest(c)
        BY <1>b, <4>2 DEF SweepRecent, OnTime, Attempt
      <4>5. InTime'
        BY <3>1, <4>1, <4>3, <4>4 DEF InTime
      <4>6. UNCHANGED <<now, lockUntil, swPc, up>> /\ due'[x] = due[x]
        BY <2>1, <3>2, <4>3 DEF SweepLock
      <4>7. LockServes'
        BY <3>1, <4>1, <4>2, <4>3, <4>6 DEF LockServes
      <4> QED
        BY <4>5, <4>7
    <3>3. CASE ~(lockUntil > now)
      <4>1. swPc'[w] = "scan" /\ \A v \in Workers : Attempt(v)' = Attempt(v)
        BY <2>1, <3>3 DEF SweepLock, Attempt
      <4> QED
        BY <3>1, <4>1 DEF InTime, LockServes
    <3> QED
      BY <3>2, <3>3
  <2>2. CASE SweepScan(w)
    <3>1. CASE Expired(now) = {}
      BY <2>2, <3>1, RestServes DEF SweepScan, Expired, SweepRecent
    <3>2. CASE Expired(now) # {}
      <4>1. /\ UNCHANGED <<now, score, up, due, lockUntil, faults>>
            /\ \A v \in Workers : swPc[v] # "sleep" => swPc'[v] # "sleep"
        BY <2>2, <3>2 DEF SweepScan
      <4> QED
        BY <1>c, <4>1 DEF InTime, LockServes, Attempt, Latest
    <3> QED
      BY <3>1, <3>2
  <2>3. CASE SweepRemove(w)
    <3>1. /\ UNCHANGED <<now, up, due, lockUntil, faults>>
          /\ \A v \in Workers : swPc[v] # "sleep" => swPc'[v] # "sleep"
          /\ \A c \in Conns : score'[c] # Absent => score'[c] = score[c]
      BY <2>3 DEF SweepRemove
    <3> QED
      BY <1>c, <3>1 DEF InTime, LockServes, Attempt, Latest
  <2>4. CASE SweepLive(w) \/ SweepTell(w) \/ SweepTellFails(w)
    <3>1. /\ UNCHANGED <<now, score, up, due, lockUntil>> /\ faults' \in {faults, faults + 1}
          /\ \A v \in Workers : swPc[v] # "sleep" => swPc'[v] # "sleep"
      BY <2>4 DEF SweepLive, SweepTell, SweepTellFails
    <3>2. \A c \in Conns : Latest(c) <= Latest(c)' /\ Latest(c)' \in Int
      BY <1>a, <1>c, <3>1 DEF Latest
    <3>3. \A v \in Workers : Attempt(v)' = Attempt(v)
      BY <3>1 DEF Attempt
    <3> QED
      BY <1>b, <3>1, <3>2, <3>3 DEF InTime, LockServes
  <2>5. CASE SweepDone(w)
    <3>1. swAt[w] = now
      BY <2>5 DEF SweepDone, SweepRecent, Timing, ScanPast
    <3> QED
      BY <2>5, <3>1, RestServes DEF SweepDone, SweepRecent, SweptClean
  <2>6. CASE Crash(w)
    <3>1. \A c \in Conns : /\ score' = score /\ Latest(c)' \in Int
                           /\ Latest(c)' = Latest(c) + Interval + Outage
      BY <1>a, <1>c, <2>6 DEF Crash, Latest
    <3>2. Attempt(w)' = now + Outage + Interval
      BY <2>6 DEF Crash, Attempt
    <3>3. \A v \in Workers : v # w => Attempt(v)' = Attempt(v)
      BY <2>6 DEF Crash, Attempt
    <3>4. \A c \in Conns : score[c] # Absent => Attempt(w)' <= Latest(c)'
      BY <1>b, <3>1, <3>2
    <3>5. InTime'
      BY <1>b, <3>1, <3>4 DEF InTime
    <3>6. /\ UNCHANGED <<now, lockUntil>> /\ ~up'[w]
          /\ \A v \in Workers : v # w => UNCHANGED <<swPc[v], up[v], due[v]>>
      BY <2>6 DEF Crash
    <3>7. LockServes'
      <4> SUFFICES ASSUME lockUntil > now PROVE LockServes'
        BY <3>6 DEF LockServes
      <4>1. \E x \in Workers :
              \/ swPc'[x] # "sleep"
              \/ /\ up'[x] => due'[x] >= lockUntil
                 /\ \A c \in Conns : score'[c] # Absent => Attempt(x)' <= Latest(c)'
        BY <3>1, <3>4, <3>6
      <4> QED
        BY <3>6, <4>1 DEF LockServes
    <3> QED
      BY <3>5, <3>7
  <2>7. CASE Restart(w)
    <3>1. UNCHANGED <<now, score, lockUntil, swPc, faults>>
      BY <2>7 DEF Restart
    <3>2. \A c \in Conns : Latest(c)' = Latest(c)
      BY <1>c, <3>1 DEF Latest
    <3>3. due'[w] >= lockUntil
      BY <1>0, <2>7 DEF Restart
    <3>4. \A v \in Workers : v # w => up'[v] = up[v] /\ due'[v] = due[v]
      BY <2>7 DEF Restart
    <3>5. Attempt(w)' = now + Interval /\ Attempt(w) = due[w] + Outage + Interval
      BY <2>7 DEF Restart, Attempt
    <3>6. \A v \in Workers : Attempt(v)' <= Attempt(v) /\ Attempt(v)' \in Nat
      <4>1. ~up[w] /\ now <= due[w] + Outage
        BY <2>7 DEF Restart, OnTime
      <4> QED
        BY <1>b, <3>4, <3>5, <4>1 DEF Attempt
    <3>7. InTime'
      BY <1>b, <3>1, <3>2, <3>6 DEF InTime
    <3>8. LockServes'
      BY <1>b, <3>1, <3>2, <3>3, <3>4, <3>6 DEF LockServes
    <3> QED
      BY <3>7, <3>8
  <2> QED
    BY <1>2, <2>1, <2>2, <2>3, <2>4, <2>5, <2>6, <2>7 DEF WorkerStep
<1>3. CASE Tick
  <2>1. /\ UNCHANGED <<up, due, swPc, lockUntil, faults>> /\ now' = now + 1
        /\ \A c \in Conns : score'[c] # Absent => score'[c] = score[c]
    BY <1>3 DEF Tick
  <2> QED
    BY <1>c, <2>1 DEF InTime, LockServes, Attempt, Latest
<1>4. CASE UNCHANGED vars
  BY <1>c, <1>4 DEF vars, InTime, LockServes, Attempt, Latest
<1> QED
  BY <1>1, <1>2, <1>3, <1>4 DEF Next, ConnStep, WorkerStep

\* The key is never dropped with an entry in it: before it expires, whoever
\* sweeps that entry in time would have to be late.
LEMMA KeyStaysStep ==
  ASSUME Delay = 0, Interval + Cost(MaxFaults) <= TTL, SweptInv, [Next]_vars
  PROVE  SweptBeforeKeyExpires'
<1> USE TimingAssumption DEF SweptInv, IInv, TypeOK, SweeperPc, store, handler, sweeper,
        told, SweptBeforeKeyExpires
<1>1. ASSUME NEW c \in Conns, ConnStep(c) PROVE SweptBeforeKeyExpires'
  BY <1>1 DEF ConnStep, Connect, Refresh, AddCheck, AddWrite, AnnounceOnline, Tell,
     AnnounceOnlineFails, RemoveEntry, RemoveCheck, AnnounceOffline, AnnounceOfflineFails
<1>2. ASSUME NEW w \in Workers, WorkerStep(w) PROVE SweptBeforeKeyExpires'
  BY <1>2 DEF WorkerStep, SweepLock, SweepScan, SweepRemove, SweepLive, SweepTell, Tell,
     SweepTellFails, SweepDone, Crash, Restart
<1>3. CASE Tick
  <2>1. \A w \in Workers : now + 1 <= Attempt(w)
    BY <1>3 DEF Tick, Timely, Timing, ScanPast, Attempt, OnTime
  <2>2. Cost(faults) \in Nat /\ Cost(MaxFaults) \in Nat /\ Cost(faults) <= Cost(MaxFaults)
    BY CostGrows
  <2>3. ASSUME NEW c \in Conns, score[c] # Absent PROVE now + 1 < keyUntil
    <3>1. PICK w \in Workers : Attempt(w) <= Latest(c)
      BY <2>3 DEF InTime
    <3>2. Attempt(w) \in Nat /\ Latest(c) \in Int
      BY NotLate
    <3>3. now + 1 <= score[c] - 1 + Interval + Cost(faults)
      BY <2>1, <3>1, <3>2 DEF Latest
    <3>4. score[c] + TTL <= keyUntil
      BY <2>3 DEF KeyFar
    <3> QED
      BY <2>2, <3>3, <3>4
  <2> QED
    BY <1>3, <2>3 DEF Tick
<1>4. CASE UNCHANGED vars
  BY <1>4 DEF vars
<1> QED
  BY <1>1, <1>2, <1>3, <1>4 DEF Next, ConnStep, WorkerStep

\* No entry ever goes with the whole key: however many users, connections and
\* workers, and in any order of their commands, a sweep reports every expired
\* entry before Redis drops the key -- as long as the TTL has room for one
\* interval and, for every fault, an interval and an outage.
THEOREM SweptInTime ==
  Delay = 0 /\ Interval + MaxFaults * (Interval + Outage) <= TTL
      => (Spec => []SweptBeforeKeyExpires)
<1> SUFFICES ASSUME Delay = 0, Interval + MaxFaults * (Interval + Outage) <= TTL
             PROVE  Spec => []SweptBeforeKeyExpires
  OBVIOUS
<1>0. Interval + Cost(MaxFaults) <= TTL /\ 2 * Delay < LockTTL
  BY TimingAssumption DEF Cost, LockTTL
<1>1. Init => SweptInv
  <2> SUFFICES ASSUME Init PROVE SweptInv
    OBVIOUS
  <2>1. IInv
    BY InitIInv
  <2>2. SweepRecent /\ OneSweeperAtATime /\ SweptClean /\ SweptBeforeKeyExpires
    BY DEF Init, SweepRecent, OneSweeperAtATime, SweptClean, SweptBeforeKeyExpires
  <2>3. faults <= MaxFaults /\ lockUntil <= now + LockTTL /\ OnTime
    BY TimingAssumption DEF Init, LockTTL, OnTime
  <2>4. KeyFar /\ InTime /\ LockServes
    BY DEF Init, KeyFar, InTime, LockServes
  <2> QED
    BY <2>1, <2>2, <2>3, <2>4 DEF SweptInv
<1>2. SweptInv /\ [Next]_vars => SweptInv'
  <2> SUFFICES ASSUME SweptInv, [Next]_vars PROVE SweptInv'
    OBVIOUS
  <2>1. IInv'
    BY TypeStep, TimingStep, ScanStep, SilentStep DEF SweptInv, IInv
  <2>2. SweepRecent' /\ OneSweeperAtATime'
    BY <1>0, SweepRecentStep DEF SweptInv, IInv
  <2>3. OnTime' /\ (faults <= MaxFaults)' /\ (lockUntil <= now + LockTTL)'
    BY OnTimeStep
  <2>4. KeyFar' /\ SweptClean'
    BY KeyFarStep
  <2>5. InTime' /\ LockServes'
    BY InTimeStep
  <2>6. SweptBeforeKeyExpires'
    BY <1>0, KeyStaysStep
  <2> QED
    BY <2>1, <2>2, <2>3, <2>4, <2>5, <2>6 DEF SweptInv
<1>3. SweptInv => SweptBeforeKeyExpires
  BY DEF SweptInv
<1> QED
  BY <1>1, <1>2, <1>3, PTL DEF Spec

(***************************************************************************)
(* Profile: what the page and the server are at any time                   *)
(***************************************************************************)

\* A table of custom themes: every palette is its own theme's.
IsTable(m) ==
  /\ m \in [Themes -> Palettes \cup {None}]
  /\ \A t \in Themes : m[t] # None => m[t][1] = t

\* A user record with its custom theme when it wears one.
IsUser(u) == u \in UserRecords /\ (u.theme = "custom" <=> u.active # None)

CallKinds == {"preset", "size", "face", "activate", "create", "delete", "edit", "me", "list"}

\* A call is a record with these fields.
IsCall(c) ==
  c = [id |-> c.id, kind |-> c.kind, arg |-> c.arg, colors |-> c.colors, was |-> c.was,
       over |-> c.over, then |-> c.then, stage |-> c.stage, got |-> c.got]

\* What a call asks for.
AsksRight(c) ==
  /\ c.kind \in CallKinds /\ c.stage \in {"sent", "ok", "failed"}
  /\ c.kind = "preset" => c.arg \in Presets
  /\ c.kind = "size" => c.arg \in Sizes
  /\ c.kind = "face" => c.arg \in Faces
  /\ c.kind \in {"activate", "delete", "edit"} => c.arg \in Themes
  /\ c.kind = "edit" => c.colors \in Palettes /\ c.colors[1] = c.arg
  /\ c.kind \in {"preset", "size", "activate", "create", "delete", "edit"} =>
       IsUser(c.was)

\* What it is answered: the user, with what it asked for, or the themes.
AnswersRight(c) ==
  c.stage = "ok" =>
    /\ c.kind = "list" => IsTable(c.got)
    /\ c.kind = "create" => c.got \in Palettes
    /\ c.kind \in {"preset", "size", "face", "activate", "me"} => IsUser(c.got)
    /\ c.kind = "size" => c.got.size = c.arg
    /\ c.kind = "preset" => c.got.theme = c.arg /\ c.got.active = None
    /\ c.kind = "activate" => c.got.active # None

CallsRight == \A c \in calls : IsCall(c) /\ AsksRight(c) /\ AnswersRight(c)

RecordsRight ==
  /\ ProfileTypeOK
  /\ IsUser(user) /\ IsTable(palette) /\ IsTable(swatches)
  /\ editing # None => draft # None /\ draft[1] = editing
  /\ wish \in [{"size", "face"} -> Sizes \cup Faces \cup {None}]
  /\ overlapped \in BOOLEAN /\ failed \in BOOLEAN /\ lost \in BOOLEAN
  /\ hasty \in BOOLEAN /\ fell \in BOOLEAN
  /\ made \in Nat /\ breaks \in Nat

\* As long as no call met another there is one at most, and its handler knows
\* the user the page has.
OneAtATime ==
  ~overlapped => \A c \in Others : /\ \A d \in Others : c = d
                                   /\ c.kind \notin {"face", "me"} => c.was = user

FailuresTell ==
  \A c \in calls : /\ c.stage = "failed" => failed
                   /\ c.kind = "me" /\ c.stage = "failed" => lost

\* What the page knows of the server when c is its only call.
Knows(c) ==
  LET latest == View(row, palette)
  IN CASE c.stage = "ok" /\ c.kind = "delete" -> user = latest \/ Wears(user, c.arg)
       [] c.stage = "ok" /\ c.kind = "edit" ->
            latest = IF Wears(user, c.arg) THEN [user EXCEPT !.active = c.colors] ELSE user
       [] c.stage = "ok" /\ c.kind \notin {"create", "delete", "edit"} -> c.got = latest
       [] c.stage # "ok" /\ c.kind = "me" -> TRUE
       [] OTHER -> user = latest

InStep ==
  (~overlapped /\ ~lost /\ ~fell) =>
    /\ \A c \in Others : Knows(c)
    /\ Others = {} => user = View(row, palette)

\* A text size that is not the user's is that of a call.
SizeAnswered ==
  ~(overlapped /\ failed) =>
    \/ screen.size = user.size
    \/ \E c \in calls : c.kind = "size" /\ c.arg = screen.size

\* A look that is not the user's is that of a call, or a preview that a save
\* under way repaints.
Previewed ==
  /\ editing # None /\ Wears(user, editing)
  /\ \A c \in calls : c.kind = "edit" => Wears(c.was, c.arg)
LookAnswered ==
  (~hasty /\ ~(overlapped /\ failed)) =>
    \/ screen.look = Look(user)
    \/ \E c \in calls : c.kind = "activate"
    \/ \E c \in calls : c.kind = "preset" /\ screen.look = <<c.arg, 0>>
    \/ Previewed

DeletesInTheOpen == ~hasty => \A c \in calls : c.kind = "delete" => c.over = None

\* The last choice of a setting is stored, or its only call is on its way.
WishKept ==
  \A k \in {"size", "face"} :
    \/ wish[k] = None
    \/ wish[k] = row[k] /\ \A c \in calls : c.kind = k => c.stage # "sent"
    \/ \E c \in calls : /\ c.kind = k /\ c.arg = wish[k] /\ c.stage = "sent"
                        /\ \A d \in calls : d.kind = k => d = c

ProfileInv ==
  /\ RecordsRight /\ CallsRight /\ OneAtATime /\ FailuresTell /\ InStep
  /\ SizeAnswered /\ LookAnswered /\ DeletesInTheOpen /\ WishKept

(***************************************************************************)
(* Records and looks                                                       *)
(***************************************************************************)

\* None is neither a theme nor a palette, so tests for it tell.
LEMMA NoneIsApart == None \notin Themes /\ None \notin Palettes
BY ProfileAssumption

\* A palette is its theme's and is known by its theme.
LEMMA PaletteOf ==
  ASSUME NEW t \in Themes, NEW n \in {1, 2}
  PROVE  <<t, n>> \in Palettes /\ <<t, n>>[1] = t
BY DEF Palettes

\* UserRead delivers a user record (schemas/user.py).
LEMMA ViewTyped ==
  ASSUME NEW p, NEW r \in [theme : Presets \cup {"custom"}, kept : Themes \cup {None},
                           size : Sizes, face : Faces],
         IsTable(p),
         r.theme = "custom" => r.kept # None /\ p[r.kept] # None
  PROVE  /\ IsUser(View(r, p))
         /\ View(r, p).theme = r.theme /\ View(r, p).size = r.size
         /\ View(r, p).active = IF r.theme = "custom" THEN p[r.kept] ELSE None
<1> DEFINE a == IF r.theme = "custom" THEN p[r.kept] ELSE None
<1>1. View(r, p) = [theme |-> r.theme, size |-> r.size, face |-> r.face, active |-> a]
  BY DEF View
<1>2. a \in Palettes \cup {None} /\ (r.theme = "custom" <=> a # None)
  BY DEF IsTable
<1> HIDE DEF a
<1>3. View(r, p) \in UserRecords
  BY <1>1, <1>2 DEF UserRecords
<1> QED
  BY <1>1, <1>2, <1>3 DEF IsUser, a

\* applyTheme paints a look (lib/theme.ts).
LEMMA LookTyped ==
  ASSUME NEW u, IsUser(u)
  PROVE  Look(u) \in Looks
<1>1. CASE u.theme = "custom"
  BY <1>1 DEF IsUser, Look, Looks, UserRecords
<1>2. CASE u.theme # "custom"
  <2>1. u.theme \in Presets
    BY <1>2 DEF IsUser, UserRecords
  <2> QED
    BY <1>2, <2>1 DEF Look, Looks
<1> QED
  BY <1>1, <1>2

\* What updateUser paints is the new user's look, unless nothing said so.
LEMMA UserSet ==
  ASSUME NEW u, IsUser(u), NEW anew \in BOOLEAN, ProfileTypeOK, SetUser(u, anew)
  PROVE  /\ user' = u /\ IsUser(user')
         /\ screen' \in [look : Looks, size : Sizes]
         /\ screen'.size = user'.size \/ (screen'.size = screen.size /\ u.size = user.size)
         /\ \/ screen'.look = Look(user')
            \/ /\ screen'.look = screen.look /\ u.theme = user.theme
               /\ u.active = None /\ user.active = None
<1> DEFINE l == IF anew \/ u.theme # user.theme \/ u.active # None \/ user.active # None
                THEN Look(u) ELSE screen.look
           s == IF u.size # user.size THEN u.size ELSE screen.size
<1>1. user' = u /\ screen' = [look |-> l, size |-> s]
  BY DEF SetUser
<1>2. Look(u) \in Looks /\ u.size \in Sizes
  BY LookTyped DEF IsUser, UserRecords
<1>3. screen.look \in Looks /\ screen.size \in Sizes
  BY DEF ProfileTypeOK
<1>4. l \in Looks /\ s \in Sizes
  BY <1>2, <1>3
<1>5. screen'.look = l /\ screen'.size = s
  BY <1>1
<1> QED
  BY <1>1, <1>3, <1>4, <1>5

(***************************************************************************)
(* The user's actions                                                      *)
(***************************************************************************)

\* A handler that makes a call adds the only one, or two calls have met.
LEMMA StartKeeps ==
  ASSUME ProfileInv, user' = user,
         NEW k \in {"preset", "size", "face", "activate", "create", "delete", "edit"},
         NEW x, NEW p, Start(k, x, p),
         k = "preset" => x \in Presets, k = "size" => x \in Sizes, k = "face" => x \in Faces,
         k \in {"activate", "delete", "edit"} => x \in Themes,
         k = "edit" => p \in Palettes /\ p[1] = x
  PROVE  /\ CallsRight' /\ OneAtATime' /\ FailuresTell' /\ InStep'
         /\ made' \in Nat /\ overlapped' \in BOOLEAN /\ (overlapped => overlapped')
         /\ \E d : /\ calls' = calls \cup {d} /\ d.kind = k /\ d.arg = x /\ d.stage = "sent"
                   /\ d.was = IF k = "face" THEN None ELSE user
                   /\ d.over = IF k = "delete" THEN editing ELSE None
<1>0. PICK d : d = Ask(k, x, p, FALSE)
  OBVIOUS
<1>1. /\ calls' = calls \cup {d} /\ overlapped' = (overlapped \/ Others # {})
      /\ UNCHANGED <<row, palette, failed, lost, fell, breaks>> /\ made' = made + 1
  BY <1>0 DEF Start, server
<1>2. /\ IsCall(d) /\ d.kind = k /\ d.arg = x /\ d.colors = p /\ d.stage = "sent"
      /\ d.was = IF k = "face" THEN None ELSE user
      /\ d.over = IF k = "delete" THEN editing ELSE None
  BY <1>0 DEF Ask, IsCall
<1>3. IsUser(user) /\ made \in Nat /\ overlapped \in BOOLEAN
  BY DEF ProfileInv, RecordsRight, ProfileTypeOK
<1>4. AsksRight(d) /\ AnswersRight(d)
  BY <1>2, <1>3 DEF AsksRight, AnswersRight, CallKinds
<1>5. CallsRight'
  BY <1>1, <1>2, <1>4 DEF ProfileInv, CallsRight, IsCall, AsksRight, AnswersRight, IsTable, IsUser
<1>6. FailuresTell'
  BY <1>1, <1>2 DEF ProfileInv, FailuresTell
<1>7. ASSUME ~overlapped'
      PROVE  ~overlapped /\ Others = {} /\ Others' = {d}
  BY <1>1, <1>2, <1>7 DEF Others
<1>8. OneAtATime'
  BY <1>1, <1>2, <1>7 DEF OneAtATime
<1>9. InStep'
  <2>1. SUFFICES ASSUME ~overlapped', ~lost', ~fell'
                 PROVE  /\ \A c \in Others' : Knows(c)'
                        /\ Others' = {} => user' = View(row, palette)'
    BY DEF InStep
  <2>2. user = View(row, palette) /\ Others' = {d}
    BY <1>1, <1>7, <2>1 DEF ProfileInv, InStep
  <2>3. user' = View(row, palette)'
    BY <1>1, <2>2 DEF View
  <2>4. Knows(d)'
    BY <1>2, <2>3 DEF Knows
  <2> QED
    BY <2>2, <2>3, <2>4
<1> QED
  BY <1>1, <1>2, <1>3, <1>5, <1>6, <1>8, <1>9

\* A new choice of a setting is the wish of its only call, or no wish.
LEMMA WishStarts ==
  ASSUME ProfileInv, NEW k, NEW x, NEW d, calls' = calls \cup {d}, d.kind = k, d.arg = x,
         d.stage = "sent", UNCHANGED row,
         IF k \in {"size", "face"} THEN Wish(k, x) /\ x \in Sizes \cup Faces
                                   ELSE UNCHANGED wish
  PROVE  WishKept' /\ wish' \in [{"size", "face"} -> Sizes \cup Faces \cup {None}]
<1>1. wish \in [{"size", "face"} -> Sizes \cup Faces \cup {None}]
  BY DEF ProfileInv, RecordsRight
<1>2. CASE k \in {"size", "face"}
  <2> DEFINE y == IF \E c \in calls : c.kind = k THEN None ELSE x
  <2>1. wish' = [wish EXCEPT ![k] = y]
    BY <1>2 DEF Wish
  <2>2. y \in Sizes \cup Faces \cup {None}
    BY <1>2
  <2>3. y # None => \A c \in calls : c.kind # k
    OBVIOUS
  <2>4. y # None => y = x
    OBVIOUS
  <2> HIDE DEF y
  <2>5. wish' \in [{"size", "face"} -> Sizes \cup Faces \cup {None}] /\ wish'[k] = y
    BY <1>1, <1>2, <2>1, <2>2
  <2>6. ASSUME NEW j \in {"size", "face"}
        PROVE  \/ wish'[j] = None
               \/ wish'[j] = row'[j] /\ \A c \in calls' : c.kind = j => c.stage # "sent"
               \/ \E c \in calls' : /\ c.kind = j /\ c.arg = wish'[j] /\ c.stage = "sent"
                                    /\ \A e \in calls' : e.kind = j => e = c
    <3>1. CASE j = k
      BY <2>3, <2>4, <2>5, <3>1
    <3>2. CASE j # k
      <4>1. wish'[j] = wish[j]
        BY <1>1, <2>1, <3>2
      <4> QED
        BY <3>2, <4>1 DEF ProfileInv, WishKept
    <3> QED
      BY <3>1, <3>2
  <2> QED
    BY <2>5, <2>6 DEF WishKept
<1>3. CASE k \notin {"size", "face"}
  BY <1>1, <1>3 DEF ProfileInv, WishKept
<1> QED
  BY <1>2, <1>3

\* handleSelectPreset keeps the invariant: its call answers for the look.
LEMMA SelectPresetKeeps ==
  ASSUME ProfileInv, NEW p \in Presets, SelectPreset(p)
  PROVE  ProfileInv'
<1>1. /\ Start("preset", p, None) /\ screen' = [screen EXCEPT !.look = <<p, 0>>]
      /\ hasty' = (hasty \/ editing # None) /\ UNCHANGED <<wish, user, swatches, editing, draft>>
  BY DEF SelectPreset, Haste
<1>2. UNCHANGED <<row, palette, failed, lost, fell, breaks>>
  BY <1>1 DEF Start, server
<1>3. /\ CallsRight' /\ OneAtATime' /\ FailuresTell' /\ InStep'
      /\ made' \in Nat /\ overlapped' \in BOOLEAN /\ (overlapped => overlapped')
  BY <1>1, StartKeeps
<1>4. PICK d : /\ calls' = calls \cup {d} /\ d.kind = "preset" /\ d.arg = p /\ d.stage = "sent"
  BY <1>1, StartKeeps
<1>5. screen \in [look : Looks, size : Sizes]
  BY DEF ProfileInv, RecordsRight, ProfileTypeOK
<1>6. <<p, 0>> \in Looks
  BY DEF Looks
<1>7. /\ screen' \in [look : Looks, size : Sizes]
      /\ screen'.look = <<p, 0>> /\ screen'.size = screen.size
  BY <1>1, <1>5, <1>6
<1>8. WishKept' /\ wish' \in [{"size", "face"} -> Sizes \cup Faces \cup {None}]
  BY <1>1, <1>2, <1>4, WishStarts
<1>9. RecordsRight'
  BY <1>1, <1>2, <1>3, <1>7, <1>8 DEF ProfileInv, RecordsRight, ProfileTypeOK, IsTable, IsUser
<1>10. SizeAnswered'
  BY <1>1, <1>2, <1>3, <1>4, <1>7 DEF ProfileInv, SizeAnswered
<1>11. LookAnswered'
  BY <1>4, <1>7 DEF LookAnswered
<1>12. DeletesInTheOpen'
  BY <1>1, <1>4 DEF ProfileInv, DeletesInTheOpen
<1> QED
  BY <1>3, <1>8, <1>9, <1>10, <1>11, <1>12 DEF ProfileInv

\* handleSelectTextScale: its call answers for the size.
LEMMA SelectSizeKeeps ==
  ASSUME ProfileInv, NEW s \in Sizes, SelectSize(s)
  PROVE  ProfileInv'
<1>1. /\ Start("size", s, None) /\ screen' = [screen EXCEPT !.size = s] /\ Wish("size", s)
      /\ UNCHANGED <<hasty, user, swatches, editing, draft>>
  BY DEF SelectSize
<1>2. UNCHANGED <<row, palette, failed, lost, fell, breaks>>
  BY <1>1 DEF Start, server
<1>3. /\ CallsRight' /\ OneAtATime' /\ FailuresTell' /\ InStep'
      /\ made' \in Nat /\ overlapped' \in BOOLEAN /\ (overlapped => overlapped')
  BY <1>1, StartKeeps
<1>4. PICK d : /\ calls' = calls \cup {d} /\ d.kind = "size" /\ d.arg = s /\ d.stage = "sent"
  BY <1>1, StartKeeps
<1>5. screen \in [look : Looks, size : Sizes]
  BY DEF ProfileInv, RecordsRight, ProfileTypeOK
<1>6. /\ screen' \in [look : Looks, size : Sizes]
      /\ screen'.look = screen.look /\ screen'.size = s
  BY <1>1, <1>5
<1>7. WishKept' /\ wish' \in [{"size", "face"} -> Sizes \cup Faces \cup {None}]
  BY <1>1, <1>2, <1>4, WishStarts
<1>8. RecordsRight'
  BY <1>1, <1>2, <1>3, <1>6, <1>7 DEF ProfileInv, RecordsRight, ProfileTypeOK, IsTable, IsUser
<1>9. SizeAnswered'
  BY <1>4, <1>6 DEF SizeAnswered
<1>10. LookAnswered'
  BY <1>1, <1>2, <1>3, <1>4, <1>6 DEF ProfileInv, LookAnswered, Previewed, Look
<1>11. DeletesInTheOpen'
  BY <1>1, <1>4 DEF ProfileInv, DeletesInTheOpen
<1> QED
  BY <1>3, <1>7, <1>8, <1>9, <1>10, <1>11 DEF ProfileInv

\* handleSaveName and its like paint nothing.
LEMMA SaveFaceKeeps ==
  ASSUME ProfileInv, NEW f \in Faces, SaveFace(f)
  PROVE  ProfileInv'
<1>1. /\ Start("face", f, None) /\ Wish("face", f)
      /\ UNCHANGED <<hasty, screen, user, swatches, editing, draft>>
  BY DEF SaveFace, page
<1>2. UNCHANGED <<row, palette, failed, lost, fell, breaks>>
  BY <1>1 DEF Start, server
<1>3. /\ CallsRight' /\ OneAtATime' /\ FailuresTell' /\ InStep'
      /\ made' \in Nat /\ overlapped' \in BOOLEAN /\ (overlapped => overlapped')
  BY <1>1, StartKeeps
<1>4. PICK d : /\ calls' = calls \cup {d} /\ d.kind = "face" /\ d.arg = f /\ d.stage = "sent"
  BY <1>1, StartKeeps
<1>5. WishKept' /\ wish' \in [{"size", "face"} -> Sizes \cup Faces \cup {None}]
  BY <1>1, <1>2, <1>4, WishStarts
<1>6. RecordsRight'
  BY <1>1, <1>2, <1>3, <1>5 DEF ProfileInv, RecordsRight, ProfileTypeOK, IsTable, IsUser
<1>7. SizeAnswered'
  BY <1>1, <1>2, <1>3, <1>4 DEF ProfileInv, SizeAnswered
<1>8. LookAnswered'
  BY <1>1, <1>2, <1>3, <1>4 DEF ProfileInv, LookAnswered, Previewed, Look
<1>9. DeletesInTheOpen'
  BY <1>1, <1>4 DEF ProfileInv, DeletesInTheOpen
<1> QED
  BY <1>3, <1>5, <1>6, <1>7, <1>8, <1>9 DEF ProfileInv

\* handleActivateCustomTheme: its call answers for the look.
LEMMA ActivateKeeps ==
  ASSUME ProfileInv, NEW t \in Themes, Activate(t)
  PROVE  ProfileInv'
<1>1. /\ Start("activate", t, None) /\ swatches[t] # None
      /\ screen' = [screen EXCEPT !.look = swatches[t]]
      /\ hasty' = (hasty \/ editing # None) /\ UNCHANGED <<wish, user, swatches, editing, draft>>
  BY DEF Activate, Haste
<1>2. UNCHANGED <<row, palette, failed, lost, fell, breaks>>
  BY <1>1 DEF Start, server
<1>3. /\ CallsRight' /\ OneAtATime' /\ FailuresTell' /\ InStep'
      /\ made' \in Nat /\ overlapped' \in BOOLEAN /\ (overlapped => overlapped')
  BY <1>1, StartKeeps
<1>4. PICK d : /\ calls' = calls \cup {d} /\ d.kind = "activate" /\ d.arg = t /\ d.stage = "sent"
  BY <1>1, StartKeeps
<1>5. screen \in [look : Looks, size : Sizes] /\ IsTable(swatches)
  BY DEF ProfileInv, RecordsRight, ProfileTypeOK
<1>6. swatches[t] \in Looks
  BY <1>1, <1>5 DEF Looks, IsTable
<1>7. /\ screen' \in [look : Looks, size : Sizes] /\ screen'.size = screen.size
  BY <1>1, <1>5, <1>6
<1>8. WishKept' /\ wish' \in [{"size", "face"} -> Sizes \cup Faces \cup {None}]
  BY <1>1, <1>2, <1>4, WishStarts
<1>9. RecordsRight'
  BY <1>1, <1>2, <1>3, <1>7, <1>8 DEF ProfileInv, RecordsRight, ProfileTypeOK, IsTable, IsUser
<1>10. SizeAnswered'
  BY <1>1, <1>2, <1>3, <1>4, <1>7 DEF ProfileInv, SizeAnswered
<1>11. LookAnswered'
  BY <1>4 DEF LookAnswered
<1>12. DeletesInTheOpen'
  BY <1>1, <1>4 DEF ProfileInv, DeletesInTheOpen
<1> QED
  BY <1>3, <1>8, <1>9, <1>10, <1>11, <1>12 DEF ProfileInv

\* The calls that leave the page as it is: a theme is created or deleted, a
\* palette saved. A save repaints a preview when it is answered.
LEMMA QuietStartKeeps ==
  ASSUME ProfileInv, NEW k \in {"create", "delete", "edit"}, NEW x, NEW p, Start(k, x, p),
         UNCHANGED <<page, wish>>, hasty' \in BOOLEAN, hasty => hasty',
         k \in {"delete", "edit"} => x \in Themes,
         k = "edit" => p \in Palettes /\ p[1] = x /\ x = editing,
         k = "delete" /\ editing # None => hasty'
  PROVE  ProfileInv'
<1>1. UNCHANGED <<screen, user, swatches, editing, draft>>
  BY DEF page
<1>2. UNCHANGED <<row, palette, failed, lost, fell, breaks>>
  BY DEF Start, server
<1>3. /\ CallsRight' /\ OneAtATime' /\ FailuresTell' /\ InStep'
      /\ made' \in Nat /\ overlapped' \in BOOLEAN /\ (overlapped => overlapped')
  BY <1>1, StartKeeps
<1>4. PICK d : /\ calls' = calls \cup {d} /\ d.kind = k /\ d.arg = x /\ d.stage = "sent"
               /\ d.was = user
               /\ d.over = IF k = "delete" THEN editing ELSE None
  BY <1>1, StartKeeps
<1>5. WishKept' /\ wish' \in [{"size", "face"} -> Sizes \cup Faces \cup {None}]
  BY <1>1, <1>2, <1>4, WishStarts
<1>6. RecordsRight'
  BY <1>1, <1>2, <1>3, <1>5 DEF ProfileInv, RecordsRight, ProfileTypeOK, IsTable, IsUser
<1>7. SizeAnswered'
  BY <1>1, <1>2, <1>3, <1>4 DEF ProfileInv, SizeAnswered
<1>8. LookAnswered'
  BY <1>1, <1>2, <1>3, <1>4 DEF ProfileInv, LookAnswered, Previewed, Look, Wears
<1>9. DeletesInTheOpen'
  BY <1>1, <1>4 DEF ProfileInv, DeletesInTheOpen
<1> QED
  BY <1>3, <1>5, <1>6, <1>7, <1>8, <1>9 DEF ProfileInv

\* handleCreateCustomTheme up to its first await.
LEMMA CreateKeeps ==
  ASSUME ProfileInv, Create
  PROVE  ProfileInv'
<1>1. hasty \in BOOLEAN
  BY DEF ProfileInv, RecordsRight
<1>2. /\ Start("create", None, None) /\ UNCHANGED <<page, wish>>
      /\ hasty' \in BOOLEAN /\ (hasty => hasty')
  BY <1>1 DEF Create, Haste
<1> QED
  BY <1>2, QuietStartKeeps

\* handleDeleteCustomTheme up to its first await.
LEMMA DeleteKeeps ==
  ASSUME ProfileInv, NEW t \in Themes, Delete(t)
  PROVE  ProfileInv'
<1>1. hasty \in BOOLEAN
  BY DEF ProfileInv, RecordsRight
<1>2. /\ Start("delete", t, None) /\ UNCHANGED <<page, wish>> /\ hasty' \in BOOLEAN
      /\ (hasty => hasty') /\ (editing # None => hasty')
  BY <1>1 DEF Delete, Haste
<1> QED
  BY <1>2, QuietStartKeeps

\* handleSaveThemeEdit up to its first await.
LEMMA SaveEditKeeps ==
  ASSUME ProfileInv, SaveEdit
  PROVE  ProfileInv'
<1>1. /\ hasty \in BOOLEAN /\ editing \in Themes \cup {None} /\ draft \in Palettes \cup {None}
      /\ editing # None => draft # None /\ draft[1] = editing
  BY DEF ProfileInv, RecordsRight, ProfileTypeOK
<1>2. /\ editing # None /\ Start("edit", editing, draft) /\ UNCHANGED <<page, wish>>
      /\ hasty' = hasty
  BY DEF SaveEdit
<1>3. editing \in Themes /\ draft \in Palettes /\ draft[1] = editing
  BY <1>1, <1>2
<1> QED
  BY <1>1, <1>2, <1>3, QuietStartKeeps

\* What the editor does while no call starts or ends.
LEMMA EditorKeeps ==
  ASSUME ProfileInv,
         UNCHANGED <<server, user, swatches, calls, wish, overlapped, failed, lost, fell,
                     made, breaks>>,
         hasty' \in BOOLEAN, hasty => hasty',
         screen' \in [look : Looks, size : Sizes], screen'.size = screen.size,
         editing' \in Themes \cup {None}, draft' \in Palettes \cup {None},
         editing' # None => draft' # None /\ draft'[1] = editing',
         LookAnswered'
  PROVE  ProfileInv'
<1>1. UNCHANGED <<row, palette>>
  BY DEF server
<1>2. RecordsRight'
  BY <1>1 DEF ProfileInv, RecordsRight, ProfileTypeOK, IsTable, IsUser
<1>3. CallsRight'
  BY DEF ProfileInv, CallsRight, IsCall, AsksRight, AnswersRight, IsTable, IsUser
<1>4. OneAtATime' /\ FailuresTell'
  BY DEF ProfileInv, OneAtATime, FailuresTell, Others
<1>5. InStep'
  BY <1>1 DEF ProfileInv, InStep, Knows, Others, View, Wears
<1>6. SizeAnswered' /\ DeletesInTheOpen'
  BY DEF ProfileInv, SizeAnswered, DeletesInTheOpen
<1>7. WishKept'
  BY <1>1 DEF ProfileInv, WishKept
<1> QED
  BY <1>2, <1>3, <1>4, <1>5, <1>6, <1>7 DEF ProfileInv

\* openEditor: over an open editor or an unanswered call it is hasty.
LEMMA OpenEditorKeeps ==
  ASSUME ProfileInv, NEW t \in Themes, OpenEditor(t)
  PROVE  ProfileInv'
<1>1. /\ swatches[t] # None /\ editing' = t /\ draft' = swatches[t]
      /\ hasty' = (hasty \/ editing # None \/ calls # {})
      /\ UNCHANGED <<server, user, screen, swatches, calls, wish, overlapped,
                     failed, lost, fell, made, breaks>>
  BY DEF OpenEditor, Open, Haste
<1>2. /\ IsTable(swatches) /\ hasty \in BOOLEAN
      /\ screen \in [look : Looks, size : Sizes]
  BY DEF ProfileInv, RecordsRight, ProfileTypeOK
<1>3. draft' \in Palettes /\ draft'[1] = t
  BY <1>1, <1>2 DEF IsTable
<1>4. LookAnswered'
  BY <1>1, <1>2 DEF ProfileInv, LookAnswered, Previewed, Look
<1>5. editing' \in Themes \cup {None} /\ draft' # None
  BY <1>1, <1>3, NoneIsApart
<1>6. hasty' \in BOOLEAN /\ (hasty => hasty')
  BY <1>1, <1>2
<1> QED
  BY <1>1, <1>2, <1>3, <1>4, <1>5, <1>6, EditorKeeps

\* closeEditor paints what is saved over the preview.
LEMMA CloseEditorKeeps ==
  ASSUME ProfileInv, CloseEditor
  PROVE  ProfileInv'
<1>1. /\ editing # None /\ editing' = None
      /\ screen' = IF Wears(user, editing) THEN [screen EXCEPT !.look = Look(user)] ELSE screen
      /\ UNCHANGED <<server, user, swatches, draft, calls, history, made, breaks>>
  BY DEF CloseEditor
<1>2. UNCHANGED <<wish, overlapped, failed, lost, hasty, fell>>
  BY <1>1 DEF history
<1>3. /\ screen \in [look : Looks, size : Sizes] /\ draft \in Palettes \cup {None}
      /\ Look(user) \in Looks /\ hasty \in BOOLEAN
  BY LookTyped DEF ProfileInv, RecordsRight, ProfileTypeOK
<1>4. /\ screen' \in [look : Looks, size : Sizes] /\ screen'.size = screen.size
      /\ screen'.look = IF Wears(user, editing) THEN Look(user) ELSE screen.look
  BY <1>1, <1>3
<1>5. LookAnswered'
  BY <1>1, <1>2, <1>4 DEF ProfileInv, LookAnswered, Previewed, Look
<1> QED
  BY <1>1, <1>2, <1>3, <1>4, <1>5, EditorKeeps

\* handleEditColorChange: every save under way repaints what it previews.
LEMMA PickColourKeeps ==
  ASSUME ProfileInv, PickColour
  PROVE  ProfileInv'
<1>1. /\ editing # None
      /\ screen' = IF Wears(user, editing) THEN [screen EXCEPT !.look = draft'] ELSE screen
      /\ hasty' = (hasty \/ /\ Wears(user, editing)
                            /\ \E c \in calls : c.kind = "edit" /\ ~Wears(c.was, c.arg))
      /\ UNCHANGED <<server, user, swatches, editing, calls, wish, overlapped, failed,
                     lost, fell, made, breaks>>
  BY DEF PickColour
<1>2. PICK n \in {1, 2} : draft' = <<editing, n>>
  BY DEF PickColour
<1>3. /\ screen \in [look : Looks, size : Sizes] /\ editing \in Themes \cup {None}
      /\ hasty \in BOOLEAN
  BY DEF ProfileInv, RecordsRight, ProfileTypeOK
<1>4. draft' \in Palettes /\ draft'[1] = editing /\ draft' # None /\ draft' \in Looks
  <2>1. editing \in Themes
    BY <1>1, <1>3
  <2>2. <<editing, n>> \in Palettes /\ <<editing, n>>[1] = editing
    BY <2>1 DEF Palettes
  <2> QED
    BY <1>2, <2>2, NoneIsApart DEF Looks
<1>5. /\ screen' \in [look : Looks, size : Sizes] /\ screen'.size = screen.size
      /\ screen'.look = IF Wears(user, editing) THEN draft' ELSE screen.look
  BY <1>1, <1>3, <1>4
<1>6. LookAnswered'
  BY <1>1, <1>3, <1>5 DEF ProfileInv, LookAnswered, Previewed, Look, Wears
<1>7. hasty' \in BOOLEAN /\ (hasty => hasty')
  BY <1>1, <1>3
<1> QED
  BY <1>1, <1>3, <1>4, <1>5, <1>6, <1>7, EditorKeeps

(***************************************************************************)
(* The server's actions                                                    *)
(***************************************************************************)

\* The look, the size and the wishes of the page do not depend on how far a
\* call has got; the last choice of a setting does.
LEMMA StagedKeeps ==
  ASSUME ProfileInv, NEW c \in calls, NEW d, calls' = (calls \ {c}) \cup {d},
         IsCall(d), AsksRight(d), AnswersRight(d),
         d.kind = c.kind, d.arg = c.arg, d.was = c.was, d.over = c.over,
         UNCHANGED <<page, overlapped, hasty>>, failed => failed', lost => lost',
         d.stage = "failed" => failed', d.kind = "me" /\ d.stage = "failed" => lost'
  PROVE  /\ CallsRight' /\ OneAtATime' /\ FailuresTell'
         /\ SizeAnswered' /\ LookAnswered' /\ DeletesInTheOpen'
<1>1. UNCHANGED <<screen, user, swatches, editing, draft>>
  BY DEF page
<1>2. CallsRight'
  BY DEF ProfileInv, CallsRight, IsCall, AsksRight, AnswersRight, IsTable, IsUser
<1>3. OneAtATime'
  BY <1>1 DEF ProfileInv, OneAtATime, Others
<1>4. FailuresTell'
  BY DEF ProfileInv, FailuresTell
<1>5. SizeAnswered'
  BY <1>1 DEF ProfileInv, SizeAnswered
<1>6. LookAnswered'
  BY <1>1 DEF ProfileInv, LookAnswered, Previewed, Look, Wears
<1>7. DeletesInTheOpen'
  BY DEF ProfileInv, DeletesInTheOpen
<1> QED
  BY <1>2, <1>3, <1>4, <1>5, <1>6, <1>7

\* A call the network breaks fails; what it wanted is no wish any more.
LEMMA BreakKeeps ==
  ASSUME ProfileInv, NEW c \in calls, Break(c)
  PROVE  ProfileInv'
<1>1. /\ c.stage # "failed"
      /\ breaks' = breaks + 1 /\ failed' = TRUE
      /\ lost' = (lost \/ c.stage = "ok" \/ c.kind = "me")
      /\ wish' = [k \in {"size", "face"} |-> IF k = c.kind THEN None ELSE wish[k]]
      /\ UNCHANGED <<server, page, overlapped, hasty, fell, made>>
  BY DEF Break
<1>2. PICK d : d = [c EXCEPT !.stage = "failed", !.got = None]
  OBVIOUS
<1>3. calls' = (calls \ {c}) \cup {d}
  BY <1>2 DEF Break
<1>4. IsCall(c) /\ AsksRight(c)
  BY DEF ProfileInv, CallsRight
<1>5. /\ IsCall(d) /\ d.stage = "failed" /\ d.kind = c.kind /\ d.arg = c.arg
      /\ d.colors = c.colors /\ d.was = c.was /\ d.over = c.over
  BY <1>2, <1>4 DEF IsCall
<1>6. AsksRight(d) /\ AnswersRight(d)
  BY <1>4, <1>5 DEF AsksRight, AnswersRight
<1>7. /\ CallsRight' /\ OneAtATime' /\ FailuresTell'
      /\ SizeAnswered' /\ LookAnswered' /\ DeletesInTheOpen'
  BY <1>1, <1>3, <1>5, <1>6, StagedKeeps
<1>8. UNCHANGED <<row, palette, user, screen, swatches, editing, draft>>
  BY <1>1 DEF server, page
<1>9. RecordsRight'
  <2>1. wish' \in [{"size", "face"} -> Sizes \cup Faces \cup {None}]
    BY <1>1 DEF ProfileInv, RecordsRight
  <2>2. lost' \in BOOLEAN /\ breaks' \in Nat
    BY <1>1 DEF ProfileInv, RecordsRight
  <2> QED
    BY <1>1, <1>8, <2>1, <2>2 DEF ProfileInv, RecordsRight, ProfileTypeOK, IsTable, IsUser
<1>10. InStep'
  <2>1. SUFFICES ASSUME ~overlapped', ~lost', ~fell'
                 PROVE  /\ \A e \in Others' : Knows(e)'
                        /\ Others' = {} => user' = View(row, palette)'
    BY DEF InStep
  <2>2. c.stage = "sent" /\ c.kind # "me" /\ ~overlapped /\ ~lost /\ ~fell
    BY <1>1, <1>4, <2>1 DEF AsksRight
  <2>3. View(row, palette)' = View(row, palette)
    BY <1>8 DEF View
  <2>4. CASE c \in Others
    <3>1. Others' = {d} /\ Knows(c)
      BY <1>3, <1>5, <2>2, <2>4 DEF ProfileInv, OneAtATime, InStep, Others
    <3>2. user = View(row, palette)
      BY <2>2, <3>1 DEF Knows
    <3>3. Knows(d)'
      BY <1>5, <1>8, <2>2, <2>3, <3>2 DEF Knows
    <3> QED
      BY <3>1, <3>3
  <2>5. CASE c \notin Others
    <3>1. Others' = Others
      BY <1>3, <1>5, <2>5 DEF Others
    <3>2. ASSUME NEW e \in Others
          PROVE  Knows(e)'
      BY <1>8, <2>2, <2>3, <3>2 DEF ProfileInv, InStep, Knows, Wears
    <3> QED
      BY <1>8, <2>2, <2>3, <3>1, <3>2 DEF ProfileInv, InStep
  <2> QED
    BY <2>4, <2>5
<1>11. WishKept'
  <2>1. SUFFICES ASSUME NEW k \in {"size", "face"}
                 PROVE  \/ wish'[k] = None
                        \/ wish'[k] = row'[k] /\ \A e \in calls' : e.kind = k => e.stage # "sent"
                        \/ \E e \in calls' : /\ e.kind = k /\ e.arg = wish'[k] /\ e.stage = "sent"
                                             /\ \A f \in calls' : f.kind = k => f = e
    BY DEF WishKept
  <2>2. CASE k = c.kind
    BY <1>1, <2>2
  <2>3. CASE k # c.kind
    <3>1. wish'[k] = wish[k]
      BY <1>1, <2>3
    <3> QED
      BY <1>3, <1>5, <1>8, <2>3, <3>1 DEF ProfileInv, WishKept
  <2> QED
    BY <2>2, <2>3
<1> QED
  BY <1>7, <1>9, <1>10, <1>11 DEF ProfileInv

UserRows == [theme : Presets \cup {"custom"}, kept : Themes \cup {None},
             size : Sizes, face : Faces]

\* A row and its themes: what it wears or keeps is there (delete_custom_theme).
StoredRight(r, p) ==
  /\ r \in UserRows /\ IsTable(p)
  /\ r.theme = "custom" => r.kept # None
  /\ r.kept # None => p[r.kept] # None

\* What the user looks like after the call d was served, when they looked like
\* old before.
Outcome(d, old, latest) ==
  /\ d.stage = "failed" => latest = old
  /\ d.stage = "ok" /\ d.kind \in {"preset", "size", "face", "activate", "me"} => d.got = latest
  /\ d.kind \in {"create", "list"} => latest = old
  /\ d.stage = "ok" /\ d.kind = "edit" =>
       latest = IF Wears(old, d.arg) THEN [old EXCEPT !.active = d.colors] ELSE old
  /\ d.stage = "ok" /\ d.kind = "delete" /\ ~fell' => latest = old \/ Wears(old, d.arg)

\* What the server makes of a call (custom_theme_service.py, update_profile).
LEMMA ServeOutcome ==
  ASSUME ProfileInv, NEW c \in calls, Serve(c)
  PROVE  /\ StoredRight(row', palette')
         /\ row'.size = IF c.kind = "size" THEN c.arg ELSE row.size
         /\ row'.face = IF c.kind = "face" THEN c.arg ELSE row.face
         /\ fell' \in BOOLEAN /\ failed' \in BOOLEAN /\ (fell => fell') /\ (failed => failed')
         /\ \E d : /\ calls' = (calls \ {c}) \cup {d}
                   /\ IsCall(d) /\ AsksRight(d) /\ AnswersRight(d)
                   /\ d.kind = c.kind /\ d.arg = c.arg /\ d.colors = c.colors
                   /\ d.was = c.was /\ d.over = c.over
                   /\ d.stage \in {"ok", "failed"} /\ (d.stage = "failed" => failed')
                   /\ (d.kind \in {"me", "size", "face"} => d.stage = "ok")
                   /\ Outcome(d, View(row, palette), View(row', palette'))
<1> DEFINE New == IF c.kind = "create" /\ Allowed(c) THEN {t \in Themes : ~Exists(t)}
                  ELSE {None}
           R == IF Allowed(c) THEN Written(c) ELSE row
           P(new) == IF ~Allowed(c) THEN palette
                     ELSE CASE c.kind = "create" -> [palette EXCEPT ![new] = <<new, 1>>]
                            [] c.kind = "edit" -> [palette EXCEPT ![c.arg] = c.colors]
                            [] c.kind = "delete" -> [palette EXCEPT ![c.arg] = None]
                            [] OTHER -> palette
           Got(new) == IF ~Allowed(c) THEN None
                       ELSE CASE c.kind = "list" -> P(new)
                              [] c.kind = "create" -> P(new)[new]
                              [] c.kind \in {"delete", "edit"} -> None
                              [] OTHER -> View(R, P(new))
<1>1. PICK new \in New :
        /\ row' = R /\ palette' = P(new)
        /\ calls' = (calls \ {c}) \cup
             {[c EXCEPT !.stage = IF Allowed(c) THEN "ok" ELSE "failed", !.got = Got(new)]}
        /\ fell' = (fell \/ (R.theme # row.theme /\ row.theme # "custom" /\ c.kind = "delete"))
        /\ failed' = (failed \/ ~Allowed(c))
  BY DEF Serve
<1> DEFINE got == Got(new)
<1>2. PICK d : d = [c EXCEPT !.stage = IF Allowed(c) THEN "ok" ELSE "failed", !.got = got]
  OBVIOUS
<1>3. calls' = (calls \ {c}) \cup {d}
  BY <1>1, <1>2
<1>4. got = IF ~Allowed(c) THEN None
            ELSE CASE c.kind = "list" -> palette'
                   [] c.kind = "create" -> palette'[new]
                   [] c.kind \in {"delete", "edit"} -> None
                   [] OTHER -> View(row', palette')
  BY <1>1
<1>5. IsCall(c) /\ AsksRight(c)
  BY DEF ProfileInv, CallsRight
<1> HIDE DEF got
<1>6. /\ IsCall(d) /\ d.stage = (IF Allowed(c) THEN "ok" ELSE "failed") /\ d.got = got
      /\ d.kind = c.kind /\ d.arg = c.arg /\ d.colors = c.colors
      /\ d.was = c.was /\ d.over = c.over
  BY <1>2, <1>5 DEF IsCall
<1>7. AsksRight(d)
  BY <1>5, <1>6 DEF AsksRight
<1>8. StoredRight(row, palette) /\ fell \in BOOLEAN /\ failed \in BOOLEAN
  BY DEF ProfileInv, RecordsRight, ProfileTypeOK, StoredRight, UserRows
<1>9. /\ fell' \in BOOLEAN /\ failed' \in BOOLEAN /\ (fell => fell') /\ (failed => failed')
      /\ (d.stage = "failed" => failed')
  BY <1>1, <1>6, <1>8
<1> DEFINE Done == /\ StoredRight(row', palette')
                   /\ row'.size = IF c.kind = "size" THEN c.arg ELSE row.size
                   /\ row'.face = IF c.kind = "face" THEN c.arg ELSE row.face
                   /\ AnswersRight(d)
                   /\ d.kind \in {"me", "size", "face"} => d.stage = "ok"
                   /\ Outcome(d, View(row, palette), View(row', palette'))
<1>10. ASSUME ~Allowed(c)
       PROVE  Done
  <2>1. row' = row /\ palette' = palette /\ d.stage = "failed"
    BY <1>1, <1>6, <1>10
  <2>2. c.kind \in {"create", "activate", "delete", "edit"}
    BY <1>5, <1>10 DEF Allowed, AsksRight, CallKinds
  <2> QED
    BY <1>6, <1>8, <2>1, <2>2 DEF AnswersRight, Outcome
<1>11. ASSUME Allowed(c), c.kind \in {"preset", "size", "face", "me", "activate"}
       PROVE  Done
  <2>1. /\ palette' = palette /\ d.stage = "ok" /\ d.got = View(row', palette')
        /\ row' = Written(c)
    BY <1>1, <1>4, <1>6, <1>11
  <2>2. /\ StoredRight(row', palette')
        /\ row'.size = IF c.kind = "size" THEN c.arg ELSE row.size
        /\ row'.face = IF c.kind = "face" THEN c.arg ELSE row.face
        /\ c.kind = "preset" => row'.theme = c.arg /\ c.arg # "custom"
        /\ c.kind = "activate" => row'.theme = "custom"
    <3>1. CASE c.kind = "preset"
      BY <1>5, <1>8, <2>1, <3>1 DEF Written, StoredRight, UserRows, AsksRight, Presets
    <3>2. CASE c.kind = "size"
      BY <1>5, <1>8, <2>1, <3>2 DEF Written, StoredRight, UserRows, AsksRight
    <3>3. CASE c.kind = "face"
      BY <1>5, <1>8, <2>1, <3>3 DEF Written, StoredRight, UserRows, AsksRight
    <3>4. CASE c.kind = "me"
      BY <1>8, <2>1, <3>4 DEF Written
    <3>5. CASE c.kind = "activate"
      BY <1>5, <1>8, <1>11, <2>1, <3>5, NoneIsApart
         DEF Written, StoredRight, UserRows, AsksRight, Allowed, Exists
    <3> QED
      BY <1>11, <3>1, <3>2, <3>3, <3>4, <3>5
  <2>3. /\ IsUser(d.got) /\ d.got.theme = row'.theme /\ d.got.size = row'.size
        /\ d.got.active = IF row'.theme = "custom" THEN palette'[row'.kept] ELSE None
    BY <2>1, <2>2, ViewTyped DEF StoredRight, UserRows
  <2>4. AnswersRight(d)
    BY <1>6, <1>11, <2>2, <2>3 DEF AnswersRight, StoredRight
  <2>5. Outcome(d, View(row, palette), View(row', palette'))
    BY <1>6, <1>11, <2>1 DEF Outcome
  <2> QED
    BY <2>1, <2>2, <2>4, <2>5
<1>12. ASSUME Allowed(c), c.kind = "list"
       PROVE  Done
  <2>1. palette' = palette /\ d.got = palette' /\ row' = row /\ d.stage = "ok"
    BY <1>1, <1>4, <1>6, <1>12 DEF Written
  <2> QED
    BY <1>6, <1>8, <1>12, <2>1 DEF AnswersRight, Outcome, StoredRight
<1>13. ASSUME Allowed(c), c.kind = "create"
       PROVE  Done
  <2>1. /\ palette' = [palette EXCEPT ![new] = <<new, 1>>] /\ d.got = palette'[new]
        /\ row' = row /\ d.stage = "ok"
    BY <1>1, <1>4, <1>6, <1>13 DEF Written
  <2>2. new \in Themes /\ palette[new] = None
    BY <1>13 DEF Exists
  <2>3. <<new, 1>> \in Palettes /\ <<new, 1>>[1] = new
    BY <2>2, PaletteOf
  <2>4. IsTable(palette') /\ palette'[new] = <<new, 1>>
        /\ \A t \in Themes : t # new => palette'[t] = palette[t]
    BY <1>8, <2>1, <2>2, <2>3 DEF StoredRight, IsTable
  <2>5. StoredRight(row', palette') /\ View(row', palette') = View(row, palette)
    BY <1>8, <2>1, <2>2, <2>4 DEF StoredRight, UserRows, View
  <2> QED
    BY <1>6, <1>13, <2>1, <2>3, <2>4, <2>5 DEF AnswersRight, Outcome
<1>14. ASSUME Allowed(c), c.kind = "edit"
       PROVE  Done
  <2>1. /\ palette' = [palette EXCEPT ![c.arg] = c.colors] /\ row' = row /\ d.stage = "ok"
    BY <1>1, <1>6, <1>14 DEF Written
  <2>2. c.arg \in Themes /\ c.colors \in Palettes /\ c.colors[1] = c.arg
    BY <1>5, <1>14 DEF AsksRight
  <2>3. IsTable(palette') /\ palette'[c.arg] = c.colors
        /\ \A t \in Themes : t # c.arg => palette'[t] = palette[t]
    BY <1>8, <2>1, <2>2 DEF StoredRight, IsTable
  <2>4. StoredRight(row', palette')
    BY <1>8, <2>1, <2>2, <2>3, NoneIsApart DEF StoredRight
  <2> DEFINE old == View(row, palette)
             latest == View(row', palette')
  <2>5. Wears(old, c.arg) <=> row.theme = "custom" /\ row.kept = c.arg
    BY <1>8, <2>2, ViewTyped DEF StoredRight, UserRows, IsTable, Wears
  <2>6. CASE row.theme = "custom" /\ row.kept = c.arg
    <3>1. latest = [old EXCEPT !.active = c.colors]
      BY <2>1, <2>3, <2>6 DEF View
    <3> QED
      BY <1>6, <1>14, <2>1, <2>4, <2>5, <2>6, <3>1 DEF AnswersRight, Outcome
  <2>7. CASE ~(row.theme = "custom" /\ row.kept = c.arg)
    <3>1. latest = old
      BY <1>8, <2>1, <2>3, <2>7 DEF View, StoredRight, UserRows
    <3> QED
      BY <1>6, <1>14, <2>1, <2>4, <2>5, <2>7, <3>1 DEF AnswersRight, Outcome
  <2> QED
    BY <2>6, <2>7
<1>15. ASSUME Allowed(c), c.kind = "delete"
       PROVE  Done
  <2>1. /\ palette' = [palette EXCEPT ![c.arg] = None] /\ d.stage = "ok"
        /\ row' = IF row.kept = c.arg THEN [row EXCEPT !.theme = "dark", !.kept = None]
                  ELSE row
    BY <1>1, <1>6, <1>15 DEF Written
  <2>2. c.arg \in Themes
    BY <1>5, <1>15 DEF AsksRight
  <2>3. IsTable(palette') /\ \A t \in Themes : t # c.arg => palette'[t] = palette[t]
    BY <1>8, <2>1, <2>2 DEF StoredRight, IsTable
  <2>4. CASE row.kept = c.arg
    <3>1. /\ row' \in UserRows /\ row'.kept = None /\ row'.theme = "dark"
          /\ row'.size = row.size /\ row'.face = row.face
      BY <1>8, <2>1, <2>4 DEF StoredRight, UserRows, Presets
    <3>2. StoredRight(row', palette')
      BY <2>3, <3>1 DEF StoredRight
    <3>3. CASE row.theme = "custom"
      <4>1. Wears(View(row, palette), c.arg)
        BY <1>8, <2>2, <2>4, <3>3, ViewTyped DEF StoredRight, UserRows, IsTable, Wears
      <4> QED
        BY <1>6, <1>15, <2>1, <3>1, <3>2, <4>1 DEF AnswersRight, Outcome
    <3>4. CASE row.theme = "dark"
      <4>1. View(row', palette') = View(row, palette)
        BY <3>1, <3>4 DEF View
      <4> QED
        BY <1>6, <1>15, <2>1, <3>1, <3>2, <4>1 DEF AnswersRight, Outcome
    <3>5. CASE row.theme \notin {"custom", "dark"}
      <4>1. fell'
        BY <1>1, <1>15, <3>1, <3>5
      <4> QED
        BY <1>6, <1>15, <2>1, <3>1, <3>2, <4>1 DEF AnswersRight, Outcome
    <3> QED
      BY <3>3, <3>4, <3>5
  <2>5. CASE row.kept # c.arg
    <3>1. row' = row
      BY <2>1, <2>5
    <3>2. StoredRight(row', palette') /\ View(row', palette') = View(row, palette)
      BY <1>8, <2>3, <2>5, <3>1 DEF StoredRight, UserRows, View
    <3> QED
      BY <1>6, <1>15, <2>1, <3>1, <3>2 DEF AnswersRight, Outcome
  <2> QED
    BY <2>4, <2>5
<1>16. Done
  BY <1>5, <1>10, <1>11, <1>12, <1>13, <1>14, <1>15 DEF AsksRight, CallKinds
<1> QED
  <2>1. d.stage \in {"ok", "failed"}
    BY <1>6
  <2> QED
    BY <1>3, <1>6, <1>7, <1>9, <1>16, <2>1

\* A call served is answered with what the server has become.
LEMMA ServeKeeps ==
  ASSUME ProfileInv, NEW c \in calls, Serve(c)
  PROVE  ProfileInv'
<1>1. /\ StoredRight(row', palette')
      /\ row'.size = IF c.kind = "size" THEN c.arg ELSE row.size
      /\ row'.face = IF c.kind = "face" THEN c.arg ELSE row.face
      /\ fell' \in BOOLEAN /\ failed' \in BOOLEAN /\ (fell => fell') /\ (failed => failed')
  BY ServeOutcome
<1>2. PICK d : /\ calls' = (calls \ {c}) \cup {d}
               /\ IsCall(d) /\ AsksRight(d) /\ AnswersRight(d)
               /\ d.kind = c.kind /\ d.arg = c.arg /\ d.colors = c.colors
               /\ d.was = c.was /\ d.over = c.over
               /\ d.stage \in {"ok", "failed"} /\ (d.stage = "failed" => failed')
               /\ (d.kind \in {"me", "size", "face"} => d.stage = "ok")
               /\ Outcome(d, View(row, palette), View(row', palette'))
  BY ServeOutcome
<1>3. c.stage = "sent" /\ UNCHANGED <<page, wish, overlapped, lost, hasty, made, breaks>>
  BY DEF Serve
<1>4. UNCHANGED <<screen, user, swatches, editing, draft>>
  BY <1>3 DEF page
<1>5. /\ CallsRight' /\ OneAtATime' /\ FailuresTell'
      /\ SizeAnswered' /\ LookAnswered' /\ DeletesInTheOpen'
  BY <1>1, <1>2, <1>3, StagedKeeps
<1>6. RecordsRight'
  BY <1>1, <1>3, <1>4
     DEF ProfileInv, RecordsRight, ProfileTypeOK, IsTable, IsUser, StoredRight, UserRows
<1>7. InStep'
  <2>1. SUFFICES ASSUME ~overlapped', ~lost', ~fell'
                 PROVE  /\ \A e \in Others' : Knows(e)'
                        /\ Others' = {} => user' = View(row, palette)'
    BY DEF InStep
  <2>2. ~overlapped /\ ~lost /\ ~fell
    BY <1>1, <1>3, <2>1
  <2> DEFINE old == View(row, palette)
             latest == View(row', palette')
  <2>3. CASE c \in Others
    <3>1. Others' = {d} /\ Knows(c)
      BY <1>2, <2>2, <2>3 DEF ProfileInv, OneAtATime, InStep, Others
    <3>2. CASE c.kind = "me"
      <4>1. Knows(d)'
        BY <1>2, <3>2 DEF Outcome, Knows
      <4> QED
        BY <3>1, <4>1
    <3>3. CASE c.kind # "me"
      <4>1. user' = old
        BY <1>3, <1>4, <3>1, <3>3 DEF Knows
      <4>2. c.kind \in CallKinds \ {"list", "me"}
        BY <1>2, <2>3, <3>3 DEF Others, AsksRight
      <4>3. Knows(d)'
        BY <1>2, <2>1, <4>1, <4>2 DEF Outcome, Knows, CallKinds
      <4> QED
        BY <3>1, <4>3
    <3> QED
      BY <3>2, <3>3
  <2>4. CASE c \notin Others
    <3>1. Others' = Others /\ latest = old
      BY <1>2, <2>4 DEF Others, Outcome
    <3>2. ASSUME NEW e \in Others
          PROVE  Knows(e)'
      BY <1>4, <2>2, <3>1, <3>2 DEF ProfileInv, InStep, Knows, Wears
    <3> QED
      BY <1>4, <2>2, <3>1, <3>2 DEF ProfileInv, InStep
  <2> QED
    BY <2>3, <2>4
<1>8. WishKept'
  <2>1. SUFFICES ASSUME NEW k \in {"size", "face"}
                 PROVE  \/ wish'[k] = None
                        \/ wish'[k] = row'[k] /\ \A e \in calls' : e.kind = k => e.stage # "sent"
                        \/ \E e \in calls' : /\ e.kind = k /\ e.arg = wish'[k] /\ e.stage = "sent"
                                             /\ \A f \in calls' : f.kind = k => f = e
    BY DEF WishKept
  <2>2. row'[k] = IF c.kind = k THEN c.arg ELSE row[k]
    BY <1>1
  <2>3. \/ wish[k] = None
        \/ wish[k] = row[k] /\ \A e \in calls : e.kind = k => e.stage # "sent"
        \/ \E e \in calls : /\ e.kind = k /\ e.arg = wish[k] /\ e.stage = "sent"
                            /\ \A f \in calls : f.kind = k => f = e
    BY DEF ProfileInv, WishKept
  <2>4. CASE c.kind = k
    BY <1>2, <1>3, <2>2, <2>3, <2>4
  <2>5. CASE c.kind # k
    BY <1>2, <1>3, <2>2, <2>3, <2>5
  <2> QED
    BY <2>4, <2>5
<1> QED
  BY <1>5, <1>6, <1>7, <1>8 DEF ProfileInv

(***************************************************************************)
(* Answers                                                                 *)
(***************************************************************************)

\* A call that is over leaves the others; the user it leaves is the server's
\* when it was the only one.
LEMMA DroppedKeeps ==
  ASSUME ProfileInv, NEW c \in calls, c.stage # "sent", calls' = calls \ {c},
         UNCHANGED <<server, wish, overlapped, failed, lost, fell>>, hasty => hasty',
         c.kind = "list" => user' = user,
         c.kind # "list" /\ ~overlapped /\ ~lost /\ ~fell => user' = View(row, palette)
  PROVE  /\ CallsRight' /\ OneAtATime' /\ FailuresTell' /\ InStep'
         /\ DeletesInTheOpen' /\ WishKept'
<1>1. UNCHANGED <<row, palette>>
  BY DEF server
<1>2. View(row, palette)' = View(row, palette)
  BY <1>1 DEF View
<1>3. CallsRight' /\ FailuresTell' /\ DeletesInTheOpen'
  BY DEF ProfileInv, CallsRight, FailuresTell, DeletesInTheOpen, IsCall, AsksRight,
         AnswersRight, IsTable, IsUser
<1>4. ASSUME ~overlapped
      PROVE  Others' = {} \/ (c.kind = "list" /\ Others' = Others)
  BY <1>4 DEF ProfileInv, OneAtATime, Others
<1>5. OneAtATime'
  BY <1>4 DEF ProfileInv, OneAtATime
<1>6. InStep'
  <2>1. SUFFICES ASSUME ~overlapped', ~lost', ~fell'
                 PROVE  /\ \A e \in Others' : Knows(e)'
                        /\ Others' = {} => user' = View(row, palette)'
    BY DEF InStep
  <2>2. CASE c.kind = "list"
    <3>1. Others' = Others
      BY <2>2 DEF Others
    <3>2. ASSUME NEW e \in Others
          PROVE  Knows(e)'
      BY <1>2, <2>1, <2>2, <3>2 DEF ProfileInv, InStep, Knows, Wears
    <3> QED
      BY <1>2, <2>1, <2>2, <3>1, <3>2 DEF ProfileInv, InStep
  <2>3. CASE c.kind # "list"
    BY <1>2, <1>4, <2>1, <2>3
  <2> QED
    BY <2>2, <2>3
<1>7. WishKept'
  BY <1>1 DEF ProfileInv, WishKept
<1> QED
  BY <1>3, <1>5, <1>6, <1>7

\* A call that did not paint leaves what the others answer for.
LEMMA UnpaintedKeeps ==
  ASSUME ProfileInv, NEW c \in calls, c.kind \notin {"preset", "size", "activate"},
         calls' = calls \ {c}, UNCHANGED <<user, screen, overlapped, failed>>,
         hasty => hasty', ~hasty' => editing' = editing
  PROVE  SizeAnswered' /\ LookAnswered'
<1>1. SizeAnswered'
  BY DEF ProfileInv, SizeAnswered
<1>2. LookAnswered'
  BY DEF ProfileInv, LookAnswered, Previewed, Look, Wears
<1> QED
  BY <1>1, <1>2

\* An answer paints its user, or leaves what the other calls answer for.
LEMMA RepaintedKeeps ==
  ASSUME ProfileInv, NEW c \in calls, calls' = calls \ {c}, NEW u, IsUser(u),
         NEW anew \in BOOLEAN, SetUser(u, anew),
         UNCHANGED <<overlapped, failed>>, hasty => hasty',
         c.kind = "size" => u.size = c.arg,
         c.kind = "preset" => u.theme = c.arg /\ u.active = None,
         c.kind = "activate" => u.active # None
  PROVE  SizeAnswered' /\ LookAnswered' /\ IsUser(user') /\ user' = u
         /\ screen' \in [look : Looks, size : Sizes]
<1>1. ProfileTypeOK
  BY DEF ProfileInv, RecordsRight
<1>2. /\ user' = u /\ IsUser(user') /\ screen' \in [look : Looks, size : Sizes]
      /\ screen'.size = user'.size \/ (screen'.size = screen.size /\ u.size = user.size)
      /\ \/ screen'.look = Look(user')
         \/ /\ screen'.look = screen.look /\ u.theme = user.theme
            /\ u.active = None /\ user.active = None
  BY <1>1, UserSet
<1>3. SizeAnswered'
  BY <1>2 DEF ProfileInv, SizeAnswered
<1>4. LookAnswered'
  <2>1. CASE screen'.look = Look(user')
    BY <2>1 DEF LookAnswered, Look
  <2>2. CASE /\ screen'.look = screen.look /\ u.theme = user.theme
             /\ u.active = None /\ user.active = None
    <3>1. Look(user) = <<u.theme, 0>> /\ Look(user') = <<u.theme, 0>>
      BY <1>2, <2>2 DEF Look
    <3>2. Look(user)' = Look(user')
      BY DEF Look
    <3> QED
      BY <2>2, <3>1, <3>2 DEF ProfileInv, LookAnswered, Previewed, Wears
  <2> QED
    BY <1>2, <2>1, <2>2
<1> QED
  BY <1>2, <1>3, <1>4

\* The list of themes is another table of them.
LEMMA ListedKeeps ==
  ASSUME ProfileInv, NEW c \in calls, Listed(c)
  PROVE  ProfileInv'
<1>1. /\ c.kind = "list" /\ c.stage # "sent" /\ calls' = calls \ {c}
      /\ swatches' = (IF c.stage = "ok" THEN c.got ELSE swatches)
      /\ UNCHANGED <<server, user, screen, editing, draft, history, made, breaks>>
  BY DEF Listed, Take, Drop
<1>2. UNCHANGED <<row, palette, wish, overlapped, failed, lost, hasty, fell>>
  BY <1>1 DEF server, history
<1>3. IsTable(swatches')
  BY <1>1 DEF ProfileInv, RecordsRight, CallsRight, AnswersRight
<1>4. RecordsRight'
  BY <1>1, <1>2, <1>3 DEF ProfileInv, RecordsRight, ProfileTypeOK, IsTable, IsUser
<1>5. SizeAnswered' /\ LookAnswered'
  BY <1>1, <1>2, UnpaintedKeeps
<1>6. /\ CallsRight' /\ OneAtATime' /\ FailuresTell' /\ InStep'
      /\ DeletesInTheOpen' /\ WishKept'
  BY <1>1, <1>2, DroppedKeeps
<1> QED
  BY <1>4, <1>5, <1>6 DEF ProfileInv

\* Who answers alone knows the page's user.
LEMMA AloneKnows ==
  ASSUME ProfileInv, NEW c \in calls, c.kind # "list"
  PROVE  /\ ~overlapped => \A d \in calls : d.kind # "list" => d = c
         /\ ~overlapped /\ c.kind \notin {"face", "me"} => c.was = user
         /\ ~overlapped /\ ~lost /\ ~fell => Knows(c)
         /\ c.stage = "failed" => failed
         /\ c.kind = "me" /\ c.stage = "failed" => lost
         /\ IsCall(c) /\ AsksRight(c) /\ AnswersRight(c)
BY DEF ProfileInv, OneAtATime, InStep, FailuresTell, CallsRight, Others

\* The answer to a choice, or its roll-back to the user its handler knew.
LEMMA ChosenKeeps ==
  ASSUME ProfileInv, NEW c \in calls, Chosen(c)
  PROVE  ProfileInv'
<1>1. /\ c.kind \in {"preset", "size", "face", "me"} /\ c.stage # "sent"
      /\ calls' = calls \ {c}
      /\ UNCHANGED <<server, swatches, editing, draft, history, made, breaks>>
  BY DEF Chosen, Take, Drop
<1>2. UNCHANGED <<row, palette, wish, overlapped, failed, lost, hasty, fell>>
  BY <1>1 DEF server, history
<1>3. AsksRight(c) /\ AnswersRight(c)
  BY DEF ProfileInv, CallsRight
<1>4. /\ screen \in [look : Looks, size : Sizes] /\ IsUser(user)
  BY DEF ProfileInv, RecordsRight, ProfileTypeOK
<1>5. /\ SizeAnswered' /\ LookAnswered' /\ IsUser(user')
      /\ screen' \in [look : Looks, size : Sizes]
      /\ ~overlapped /\ ~lost /\ ~fell => user' = View(row, palette)
  <2>1. CASE c.stage = "ok"
    <3> DEFINE me == c.kind = "me"
    <3>1. PICK anew \in BOOLEAN : anew = me
      OBVIOUS
    <3>2. SetUser(c.got, anew)
      <4>1. SetUser(c.got, me)
        BY <2>1 DEF Chosen
      <4> QED
        BY <3>1, <4>1
    <3>3. /\ IsUser(c.got)
          /\ c.kind = "size" => c.got.size = c.arg
          /\ c.kind = "preset" => c.got.theme = c.arg /\ c.got.active = None
      BY <1>1, <1>3, <2>1 DEF AnswersRight
    <3>4. /\ SizeAnswered' /\ LookAnswered' /\ IsUser(user') /\ user' = c.got
          /\ screen' \in [look : Looks, size : Sizes]
      BY <1>1, <1>2, <3>2, <3>3, RepaintedKeeps
    <3>5. ~overlapped /\ ~lost /\ ~fell => c.got = View(row, palette)
      BY <1>1, <2>1, AloneKnows DEF Knows
    <3> QED
      BY <3>4, <3>5
  <2>2. CASE c.stage = "failed"
    <3>1. /\ user' = user
          /\ screen' = CASE c.kind = "preset" -> [screen EXCEPT !.look = Look(c.was)]
                         [] c.kind = "size" -> [screen EXCEPT !.size = c.was.size]
                         [] OTHER -> screen
      BY <2>2 DEF Chosen
    <3>2. /\ failed /\ (c.kind = "me" => lost)
          /\ ~overlapped => \A d \in calls : d.kind # "list" => d = c
          /\ ~overlapped /\ c.kind \in {"preset", "size"} => c.was = user
          /\ ~overlapped /\ ~lost /\ ~fell => Knows(c)
      BY <1>1, <2>2, AloneKnows
    <3>3. ~overlapped /\ ~lost /\ ~fell => user' = View(row, palette)
      BY <1>1, <2>2, <3>1, <3>2 DEF Knows
    <3>4. c.kind \in {"preset", "size"} => Look(c.was) \in Looks /\ c.was.size \in Sizes
      BY <1>3, LookTyped DEF AsksRight, IsUser, UserRecords
    <3>5. /\ screen' \in [look : Looks, size : Sizes]
          /\ screen'.look = IF c.kind = "preset" THEN Look(c.was) ELSE screen.look
          /\ screen'.size = IF c.kind = "size" THEN c.was.size ELSE screen.size
      <4>1. CASE c.kind = "preset"
        BY <1>4, <3>1, <3>4, <4>1
      <4>2. CASE c.kind = "size"
        BY <1>4, <3>1, <3>4, <4>2
      <4>3. CASE c.kind \notin {"preset", "size"}
        BY <1>4, <3>1, <4>3
      <4> QED
        BY <4>1, <4>2, <4>3
    <3>6. SizeAnswered'
      BY <1>1, <1>2, <3>1, <3>2, <3>5 DEF ProfileInv, SizeAnswered
    <3>7. LookAnswered'
      <4>1. Look(user)' = Look(user)
        BY <3>1 DEF Look
      <4>2. SUFFICES ASSUME ~hasty', ~overlapped'
                     PROVE  screen'.look = Look(user)' \/ Previewed'
        BY <1>2, <3>2 DEF LookAnswered
      <4>3. CASE c.kind = "preset"
        BY <1>2, <3>2, <3>5, <4>1, <4>2, <4>3
      <4>4. CASE c.kind # "preset"
        <5>1. screen.look = Look(user) \/ Previewed
          BY <1>1, <1>2, <3>2, <4>2, <4>4 DEF ProfileInv, LookAnswered
        <5>2. Previewed => Previewed'
          BY <1>1, <3>1 DEF Previewed, Wears
        <5> QED
          BY <3>5, <4>1, <4>4, <5>1, <5>2
      <4> QED
        BY <4>3, <4>4
    <3> QED
      BY <1>4, <3>1, <3>3, <3>5, <3>6, <3>7
  <2> QED
    BY <1>1, <1>3, <2>1, <2>2 DEF AsksRight
<1>6. RecordsRight'
  BY <1>1, <1>2, <1>5 DEF ProfileInv, RecordsRight, ProfileTypeOK, IsTable, IsUser
<1>7. /\ CallsRight' /\ OneAtATime' /\ FailuresTell' /\ InStep'
      /\ DeletesInTheOpen' /\ WishKept'
  BY <1>1, <1>2, <1>5, DroppedKeeps
<1> QED
  BY <1>5, <1>6, <1>7 DEF ProfileInv

\* The answer to a custom theme, or its roll-back; a new theme is then opened.
LEMMA ActivatedKeeps ==
  ASSUME ProfileInv, NEW c \in calls, Activated(c)
  PROVE  ProfileInv'
<1>1. /\ c.kind = "activate" /\ c.stage # "sent" /\ calls' = calls \ {c}
      /\ UNCHANGED <<server, swatches, wish, overlapped, failed, lost, fell, made, breaks>>
  BY DEF Activated, Take, Drop
<1>2. UNCHANGED <<row, palette>>
  BY <1>1 DEF server
<1>3. AsksRight(c) /\ AnswersRight(c)
  BY DEF ProfileInv, CallsRight
<1>4. /\ screen \in [look : Looks, size : Sizes] /\ IsUser(user) /\ hasty \in BOOLEAN
      /\ editing \in Themes \cup {None} /\ draft \in Palettes \cup {None}
      /\ editing # None => draft # None /\ draft[1] = editing
  BY DEF ProfileInv, RecordsRight, ProfileTypeOK
<1>5. /\ hasty' \in BOOLEAN /\ (hasty => hasty')
      /\ editing' \in Themes \cup {None} /\ draft' \in Palettes \cup {None}
      /\ editing' # None => draft' # None /\ draft'[1] = editing'
  <2>1. CASE c.then
    <3>1. /\ editing' = c.arg /\ draft' = <<c.arg, 1>>
          /\ hasty' = (hasty \/ editing # None \/ calls \ {c} # {})
      BY <2>1 DEF Activated, Open, Haste
    <3>2. c.arg \in Themes
      BY <1>1, <1>3 DEF AsksRight
    <3>3. <<c.arg, 1>> \in Palettes /\ <<c.arg, 1>>[1] = c.arg
      BY <3>2, PaletteOf
    <3> QED
      BY <1>4, <3>1, <3>2, <3>3, NoneIsApart
  <2>2. CASE ~c.then
    BY <1>4, <2>2 DEF Activated
  <2> QED
    BY <2>1, <2>2
<1>6. /\ SizeAnswered' /\ LookAnswered' /\ IsUser(user')
      /\ screen' \in [look : Looks, size : Sizes]
      /\ ~overlapped /\ ~lost /\ ~fell => user' = View(row, palette)
  <2>1. CASE c.stage = "ok"
    <3>1. SetUser(c.got, FALSE) /\ IsUser(c.got) /\ c.got.active # None
      BY <1>1, <1>3, <2>1 DEF Activated, AnswersRight
    <3>2. PICK anew \in BOOLEAN : anew = FALSE
      OBVIOUS
    <3>3. SetUser(c.got, anew)
      BY <3>1, <3>2
    <3>4. /\ SizeAnswered' /\ LookAnswered' /\ IsUser(user') /\ user' = c.got
          /\ screen' \in [look : Looks, size : Sizes]
      BY <1>1, <1>5, <3>1, <3>3, RepaintedKeeps
    <3>5. ~overlapped /\ ~lost /\ ~fell => c.got = View(row, palette)
      BY <1>1, <2>1, AloneKnows DEF Knows
    <3> QED
      BY <3>4, <3>5
  <2>2. CASE c.stage = "failed"
    <3>1. user' = user /\ screen' = [screen EXCEPT !.look = Look(c.was)]
      BY <2>2 DEF Activated
    <3>2. /\ failed
          /\ ~overlapped => \A d \in calls : d.kind # "list" => d = c
          /\ ~overlapped => c.was = user
          /\ ~overlapped /\ ~lost /\ ~fell => Knows(c)
      BY <1>1, <2>2, AloneKnows
    <3>3. ~overlapped /\ ~lost /\ ~fell => user' = View(row, palette)
      BY <1>1, <2>2, <3>1, <3>2 DEF Knows
    <3>4. Look(c.was) \in Looks
      BY <1>1, <1>3, LookTyped DEF AsksRight
    <3>5. /\ screen' \in [look : Looks, size : Sizes]
          /\ screen'.look = Look(c.was) /\ screen'.size = screen.size
      BY <1>4, <3>1, <3>4
    <3>6. SizeAnswered'
      BY <1>1, <3>1, <3>5 DEF ProfileInv, SizeAnswered
    <3>7. LookAnswered'
      <4>1. Look(user)' = Look(user)
        BY <3>1 DEF Look
      <4> QED
        BY <1>1, <3>2, <3>5, <4>1 DEF LookAnswered
    <3> QED
      BY <1>4, <3>1, <3>3, <3>5, <3>6, <3>7
  <2> QED
    BY <1>1, <1>3, <2>1, <2>2 DEF AsksRight
<1>7. RecordsRight'
  BY <1>1, <1>2, <1>5, <1>6 DEF ProfileInv, RecordsRight, ProfileTypeOK, IsTable, IsUser
<1>8. /\ CallsRight' /\ OneAtATime' /\ FailuresTell' /\ InStep'
      /\ DeletesInTheOpen' /\ WishKept'
  BY <1>1, <1>5, <1>6, DroppedKeeps
<1> QED
  BY <1>6, <1>7, <1>8 DEF ProfileInv

\* A new theme joins the table, and its activation takes the call's place.
LEMMA CreatedKeeps ==
  ASSUME ProfileInv, NEW c \in calls, Created(c)
  PROVE  ProfileInv'
<1>1. /\ c.kind = "create" /\ c.stage # "sent"
      /\ UNCHANGED <<server, user, editing, draft, history, made, breaks>>
  BY DEF Created, Take
<1>2. UNCHANGED <<row, palette, wish, overlapped, failed, lost, hasty, fell>>
  BY <1>1 DEF server, history
<1>3. /\ ~overlapped => \A d \in calls : d.kind # "list" => d = c
      /\ ~overlapped => c.was = user
      /\ ~overlapped /\ ~lost /\ ~fell => Knows(c)
      /\ AsksRight(c) /\ AnswersRight(c)
  BY <1>1, AloneKnows
<1>4. ~overlapped /\ ~lost /\ ~fell => user = View(row, palette)
  BY <1>1, <1>3 DEF Knows
<1>5. CASE c.stage = "failed"
  <2>1. calls' = calls \ {c} /\ UNCHANGED <<screen, swatches>>
    BY <1>5 DEF Created, Drop
  <2>2. RecordsRight'
    BY <1>1, <1>2, <2>1 DEF ProfileInv, RecordsRight, ProfileTypeOK, IsTable, IsUser
  <2>3. SizeAnswered' /\ LookAnswered'
    BY <1>1, <1>2, <2>1, UnpaintedKeeps
  <2>4. /\ CallsRight' /\ OneAtATime' /\ FailuresTell' /\ InStep'
        /\ DeletesInTheOpen' /\ WishKept'
    BY <1>1, <1>2, <1>4, <2>1, DroppedKeeps
  <2> QED
    BY <2>2, <2>3, <2>4 DEF ProfileInv
<1>6. CASE c.stage = "ok"
  <2>1. PICK d : d = [Ask("activate", c.got[1], None, TRUE) EXCEPT !.was = c.was]
    OBVIOUS
  <2>2. /\ calls' = (calls \ {c}) \cup {d}
        /\ swatches' = [swatches EXCEPT ![c.got[1]] = c.got]
        /\ screen' = [screen EXCEPT !.look = c.got]
    BY <1>6, <2>1 DEF Created
  <2>3. c.got \in Palettes /\ c.got[1] \in Themes
    BY <1>1, <1>3, <1>6 DEF AnswersRight, Palettes
  <2>4. /\ IsCall(d) /\ d.kind = "activate" /\ d.arg = c.got[1] /\ d.was = c.was
        /\ d.stage = "sent"
    BY <2>1 DEF Ask, IsCall
  <2>5. AsksRight(d) /\ AnswersRight(d)
    BY <1>1, <1>3, <2>3, <2>4 DEF AsksRight, AnswersRight, CallKinds
  <2>6. CallsRight'
    BY <2>2, <2>4, <2>5
       DEF ProfileInv, CallsRight, IsCall, AsksRight, AnswersRight, IsTable, IsUser
  <2>7. /\ screen' \in [look : Looks, size : Sizes] /\ screen'.size = screen.size
        /\ IsTable(swatches')
    <3>1. screen \in [look : Looks, size : Sizes] /\ IsTable(swatches) /\ c.got \in Looks
      BY <2>3 DEF ProfileInv, RecordsRight, ProfileTypeOK, Looks
    <3> QED
      BY <2>2, <2>3, <3>1 DEF IsTable
  <2>8. RecordsRight'
    BY <1>1, <1>2, <2>7 DEF ProfileInv, RecordsRight, ProfileTypeOK, IsTable, IsUser
  <2>9. ASSUME ~overlapped
        PROVE  Others' = {d}
    BY <1>1, <1>3, <2>2, <2>4, <2>9 DEF Others
  <2>10. OneAtATime'
    BY <1>1, <1>2, <1>3, <2>4, <2>9 DEF OneAtATime
  <2>11. FailuresTell' /\ DeletesInTheOpen'
    BY <1>2, <2>2, <2>4 DEF ProfileInv, FailuresTell, DeletesInTheOpen
  <2>12. InStep'
    <3>1. SUFFICES ASSUME ~overlapped', ~lost', ~fell'
                   PROVE  Knows(d)'
      BY <1>2, <2>9 DEF InStep
    <3>2. user' = View(row, palette)'
      BY <1>1, <1>2, <1>4, <3>1 DEF View
    <3> QED
      BY <2>4, <3>2 DEF Knows
  <2>13. SizeAnswered' /\ LookAnswered'
    BY <1>1, <1>2, <2>2, <2>4, <2>7 DEF ProfileInv, SizeAnswered, LookAnswered
  <2>14. WishKept'
    BY <1>1, <1>2, <2>2, <2>4 DEF ProfileInv, WishKept
  <2> QED
    BY <2>6, <2>8, <2>10, <2>11, <2>12, <2>13, <2>14 DEF ProfileInv
<1> QED
  BY <1>1, <1>3, <1>5, <1>6 DEF AsksRight

\* A deleted theme leaves the table; one that was worn is followed by a
\* question for the user.
LEMMA DeletedKeeps ==
  ASSUME ProfileInv, NEW c \in calls, Deleted(c)
  PROVE  ProfileInv'
<1>1. /\ c.kind = "delete" /\ c.stage # "sent"
      /\ UNCHANGED <<server, user, screen, draft, history, made, breaks>>
  BY DEF Deleted, Take
<1>2. UNCHANGED <<row, palette, wish, overlapped, failed, lost, hasty, fell>>
  BY <1>1 DEF server, history
<1>3. /\ ~overlapped => \A d \in calls : d.kind # "list" => d = c
      /\ ~overlapped => c.was = user
      /\ ~overlapped /\ ~lost /\ ~fell => Knows(c)
      /\ AsksRight(c) /\ AnswersRight(c)
  BY <1>1, AloneKnows
<1>4. c.arg \in Themes /\ (~hasty => c.over = None)
  BY <1>1, <1>3 DEF ProfileInv, DeletesInTheOpen, AsksRight
<1>5. CASE c.stage = "failed"
  <2>1. calls' = calls \ {c} /\ UNCHANGED <<swatches, editing>>
    BY <1>5 DEF Deleted, Drop
  <2>2. ~overlapped /\ ~lost /\ ~fell => user' = View(row, palette)
    BY <1>1, <1>3, <1>5 DEF Knows
  <2>3. RecordsRight'
    BY <1>1, <1>2, <2>1 DEF ProfileInv, RecordsRight, ProfileTypeOK, IsTable, IsUser
  <2>4. SizeAnswered' /\ LookAnswered'
    BY <1>1, <1>2, <2>1, UnpaintedKeeps
  <2>5. /\ CallsRight' /\ OneAtATime' /\ FailuresTell' /\ InStep'
        /\ DeletesInTheOpen' /\ WishKept'
    BY <1>1, <1>2, <2>1, <2>2, DroppedKeeps
  <2> QED
    BY <2>3, <2>4, <2>5 DEF ProfileInv
<1>6. CASE c.stage = "ok"
  <2>1. PICK d : d = Ask("me", None, None, FALSE)
    OBVIOUS
  <2>2. /\ calls' = (calls \ {c}) \cup {a \in {d} : Wears(c.was, c.arg)}
        /\ swatches' = [swatches EXCEPT ![c.arg] = None]
        /\ editing' = IF c.over = c.arg THEN None ELSE editing
    BY <1>6, <2>1 DEF Deleted
  <2>3. IsCall(d) /\ d.kind = "me" /\ d.stage = "sent"
    BY <2>1 DEF Ask, IsCall
  <2>4. AsksRight(d) /\ AnswersRight(d)
    BY <2>3 DEF AsksRight, AnswersRight, CallKinds
  <2>5. calls' \subseteq (calls \ {c}) \cup {d} /\ calls \ {c} \subseteq calls'
    BY <2>2
  <2>6. CallsRight'
    BY <2>3, <2>4, <2>5
       DEF ProfileInv, CallsRight, IsCall, AsksRight, AnswersRight, IsTable, IsUser
  <2>7. IsTable(swatches')
    BY <1>4, <2>2 DEF ProfileInv, RecordsRight, IsTable
  <2>8. RecordsRight'
    BY <1>1, <1>2, <2>2, <2>7 DEF ProfileInv, RecordsRight, ProfileTypeOK, IsTable, IsUser
  <2>9. OneAtATime'
    BY <1>1, <1>2, <1>3, <2>3, <2>5 DEF OneAtATime, Others
  <2>10. FailuresTell' /\ DeletesInTheOpen'
    BY <1>2, <2>3, <2>5 DEF ProfileInv, FailuresTell, DeletesInTheOpen
  <2>11. InStep'
    <3>1. SUFFICES ASSUME ~overlapped', ~lost', ~fell'
                   PROVE  /\ \A e \in Others' : Knows(e)'
                          /\ Others' = {} => user' = View(row, palette)'
      BY DEF InStep
    <3>2. View(row, palette)' = View(row, palette)
      BY <1>2 DEF View
    <3>3. user = View(row, palette) \/ Wears(user, c.arg)
      BY <1>1, <1>2, <1>3, <1>6, <3>1 DEF Knows
    <3>4. Others' \subseteq {d} /\ (Wears(user, c.arg) => d \in Others')
      BY <1>1, <1>2, <1>3, <2>2, <2>3, <3>1 DEF Others
    <3>5. Knows(d)'
      BY <2>3 DEF Knows
    <3> QED
      BY <1>1, <3>2, <3>3, <3>4, <3>5
  <2>12. SizeAnswered'
    BY <1>1, <1>2, <2>5 DEF ProfileInv, SizeAnswered
  <2>13. LookAnswered'
    <3>1. ~hasty => editing' = editing
      BY <1>4, <2>2, NoneIsApart
    <3> QED
      BY <1>1, <1>2, <2>3, <2>5, <3>1 DEF ProfileInv, LookAnswered, Previewed, Look, Wears
  <2>14. WishKept'
    BY <1>1, <1>2, <2>3, <2>5 DEF ProfileInv, WishKept
  <2> QED
    BY <2>6, <2>8, <2>9, <2>10, <2>11, <2>12, <2>13, <2>14 DEF ProfileInv
<1> QED
  BY <1>1, <1>3, <1>5, <1>6 DEF AsksRight

\* A saved palette: the user its handler knew, with the new colours.
LEMMA EditedKeeps ==
  ASSUME ProfileInv, NEW c \in calls, Edited(c)
  PROVE  ProfileInv'
<1>1. /\ c.kind = "edit" /\ c.stage # "sent" /\ calls' = calls \ {c}
      /\ UNCHANGED <<server, draft, history, made, breaks>>
  BY DEF Edited, Take, Drop
<1>2. UNCHANGED <<row, palette, wish, overlapped, failed, lost, hasty, fell>>
  BY <1>1 DEF server, history
<1>3. /\ ~overlapped => c.was = user
      /\ ~overlapped /\ ~lost /\ ~fell => Knows(c)
      /\ AsksRight(c)
  BY <1>1, AloneKnows
<1>4. /\ c.arg \in Themes /\ c.colors \in Palettes /\ c.colors[1] = c.arg /\ IsUser(c.was)
  BY <1>1, <1>3 DEF AsksRight
<1>5. /\ SizeAnswered' /\ LookAnswered' /\ IsUser(user') /\ IsTable(swatches')
      /\ screen' \in [look : Looks, size : Sizes]
      /\ editing' \in Themes \cup {None} /\ (editing' # None => editing' = editing)
      /\ ~overlapped /\ ~lost /\ ~fell => user' = View(row, palette)
  <2>1. /\ IsUser(user) /\ IsTable(swatches) /\ screen \in [look : Looks, size : Sizes]
        /\ editing \in Themes \cup {None}
    BY DEF ProfileInv, RecordsRight, ProfileTypeOK
  <2>2. CASE c.stage = "failed"
    <3>1. UNCHANGED <<user, screen, swatches, editing>>
      BY <2>2 DEF Edited
    <3>2. SizeAnswered' /\ LookAnswered'
      BY <1>1, <1>2, <3>1, UnpaintedKeeps
    <3>3. ~overlapped /\ ~lost /\ ~fell => user' = View(row, palette)
      BY <1>1, <1>3, <2>2, <3>1 DEF Knows
    <3> QED
      BY <2>1, <3>1, <3>2, <3>3
  <2>3. CASE c.stage = "ok"
    <3>1. /\ swatches' = [swatches EXCEPT ![c.arg] = IF @ = None THEN None ELSE c.colors]
          /\ editing' = None
      BY <2>3 DEF Edited
    <3>2. IsTable(swatches')
      BY <1>4, <2>1, <3>1 DEF IsTable
    <3>3. CASE Wears(c.was, c.arg)
      <4>1. PICK u : u = [c.was EXCEPT !.active = c.colors]
        OBVIOUS
      <4>2. PICK anew \in BOOLEAN : anew = FALSE
        OBVIOUS
      <4>3. SetUser(u, anew)
        BY <2>3, <3>3, <4>1, <4>2 DEF Edited
      <4>4. IsUser(u)
        <5>1. c.was \in UserRecords /\ c.was.active # None
          BY <1>4, <3>3 DEF IsUser, Wears
        <5>2. u \in UserRecords /\ u.theme = c.was.theme /\ u.active = c.colors
          BY <1>4, <4>1, <5>1 DEF UserRecords
        <5> QED
          BY <1>4, <5>1, <5>2, NoneIsApart DEF IsUser
      <4>5. /\ SizeAnswered' /\ LookAnswered' /\ IsUser(user') /\ user' = u
            /\ screen' \in [look : Looks, size : Sizes]
        BY <1>1, <1>2, <4>3, <4>4, RepaintedKeeps
      <4>6. ~overlapped /\ ~lost /\ ~fell => u = View(row, palette)
        BY <1>1, <1>3, <2>3, <3>3, <4>1 DEF Knows
      <4> QED
        BY <3>1, <3>2, <4>5, <4>6
    <3>4. CASE ~Wears(c.was, c.arg)
      <4>1. UNCHANGED <<user, screen>>
        BY <2>3, <3>4 DEF Edited
      <4>2. SizeAnswered'
        BY <1>1, <1>2, <4>1 DEF ProfileInv, SizeAnswered
      <4>3. LookAnswered'
        <5>1. ~Previewed
          BY <1>1, <3>4 DEF Previewed
        <5> QED
          BY <1>1, <1>2, <4>1, <5>1 DEF ProfileInv, LookAnswered, Look
      <4>4. ~overlapped /\ ~lost /\ ~fell => user' = View(row, palette)
        BY <1>1, <1>3, <2>3, <3>4, <4>1 DEF Knows
      <4> QED
        BY <2>1, <3>1, <3>2, <4>1, <4>2, <4>3, <4>4
    <3> QED
      BY <3>3, <3>4
  <2> QED
    BY <1>1, <1>3, <2>2, <2>3 DEF AsksRight
<1>6. RecordsRight'
  BY <1>1, <1>2, <1>5 DEF ProfileInv, RecordsRight, ProfileTypeOK, IsTable, IsUser
<1>7. /\ CallsRight' /\ OneAtATime' /\ FailuresTell' /\ InStep'
      /\ DeletesInTheOpen' /\ WishKept'
  BY <1>1, <1>2, <1>5, DroppedKeeps
<1> QED
  BY <1>5, <1>6, <1>7 DEF ProfileInv

(***************************************************************************)
(* Results                                                                 *)
(***************************************************************************)

\* The page opens in step with the server, its list of themes on its way.
LEMMA ProfileStarts == ProfileInit => ProfileInv
<1> SUFFICES ASSUME ProfileInit
             PROVE  ProfileInv
  OBVIOUS
<1>1. PICK l : l = [id |-> 0, kind |-> "list", arg |-> None, colors |-> None, was |-> None,
                    over |-> None, then |-> FALSE, stage |-> "sent", got |-> None]
  OBVIOUS
<1>2. calls = {l} /\ l.kind = "list" /\ l.stage = "sent" /\ IsCall(l)
  BY <1>1 DEF ProfileInit, IsCall
<1>3. AsksRight(l) /\ AnswersRight(l)
  BY <1>2 DEF AsksRight, AnswersRight, CallKinds
<1>4. /\ row.theme = "dark" /\ row.kept = None /\ row.size = "normal" /\ row.face = "plain"
      /\ row \in UserRows
  BY DEF ProfileInit, UserRows, Presets, Sizes, Faces
<1>5. IsTable(palette) /\ IsTable(swatches)
  <2>1. \A t \in Themes : <<t, 1>> \in Palettes /\ <<t, 1>>[1] = t
    BY DEF Palettes
  <2> QED
    BY <2>1 DEF ProfileInit, IsTable
<1>6. user = View(row, palette) /\ IsUser(user)
  BY <1>4, <1>5, ViewTyped DEF ProfileInit, UserRows
<1>7. /\ screen \in [look : Looks, size : Sizes]
      /\ screen.look = Look(user) /\ screen.size = user.size
  <2>1. Look(user) \in Looks /\ user.size \in Sizes
    BY <1>6, LookTyped DEF IsUser, UserRecords
  <2> QED
    BY <2>1 DEF ProfileInit
<1>8. /\ wish \in [{"size", "face"} -> Sizes \cup Faces \cup {None}]
      /\ wish.size = "normal" /\ wish.face = "plain"
  BY DEF ProfileInit, Sizes, Faces
<1>9. RecordsRight
  BY <1>4, <1>5, <1>6, <1>7, <1>8
     DEF ProfileInit, RecordsRight, ProfileTypeOK, UserRows, IsTable, IsUser
<1>10. CallsRight
  BY <1>2, <1>3 DEF CallsRight
<1>11. Others = {}
  BY <1>2 DEF Others
<1>12. OneAtATime /\ FailuresTell /\ DeletesInTheOpen
  BY <1>2, <1>11 DEF OneAtATime, FailuresTell, DeletesInTheOpen
<1>13. InStep /\ SizeAnswered /\ LookAnswered
  BY <1>6, <1>7, <1>11 DEF InStep, SizeAnswered, LookAnswered
<1>14. WishKept
  BY <1>2, <1>4, <1>8 DEF WishKept
<1> QED
  BY <1>9, <1>10, <1>12, <1>13, <1>14 DEF ProfileInv

\* Every step keeps the invariant.
LEMMA ProfileStep == ProfileInv /\ [ProfileNext]_profileVars => ProfileInv'
<1> SUFFICES ASSUME ProfileInv, [ProfileNext]_profileVars
             PROVE  ProfileInv'
  OBVIOUS
<1>1. CASE UNCHANGED profileVars
  <2>1. UNCHANGED <<server, page, calls, history, made, breaks>>
    BY <1>1 DEF profileVars
  <2>2. UNCHANGED <<row, palette, user, screen, swatches, editing, draft, wish, overlapped,
                    failed, lost, hasty, fell>>
    BY <2>1 DEF server, page, history
  <2>3. /\ screen \in [look : Looks, size : Sizes] /\ editing \in Themes \cup {None}
        /\ draft \in Palettes \cup {None} /\ hasty \in BOOLEAN
        /\ editing # None => draft # None /\ draft[1] = editing
    BY DEF ProfileInv, RecordsRight, ProfileTypeOK
  <2>4. LookAnswered'
    BY <2>1, <2>2 DEF ProfileInv, LookAnswered, Previewed, Look, Wears
  <2> QED
    BY <2>1, <2>2, <2>3, <2>4, EditorKeeps
<1>2. CASE ProfileNext
  <2>1. ASSUME NEW p \in Presets, SelectPreset(p)
        PROVE  ProfileInv'
    BY <2>1, SelectPresetKeeps
  <2>2. ASSUME NEW s \in Sizes, SelectSize(s)
        PROVE  ProfileInv'
    BY <2>2, SelectSizeKeeps
  <2>3. ASSUME NEW f \in Faces \ {user.face}, SaveFace(f)
        PROVE  ProfileInv'
    BY <2>3, SaveFaceKeeps
  <2>4. ASSUME NEW t \in Themes, Activate(t) \/ Delete(t) \/ OpenEditor(t)
        PROVE  ProfileInv'
    BY <2>4, ActivateKeeps, DeleteKeeps, OpenEditorKeeps
  <2>5. CASE Create \/ CloseEditor \/ PickColour \/ SaveEdit
    BY <2>5, CreateKeeps, CloseEditorKeeps, PickColourKeeps, SaveEditKeeps
  <2>6. ASSUME NEW c \in calls, Serve(c) \/ Break(c)
        PROVE  ProfileInv'
    BY <2>6, ServeKeeps, BreakKeeps
  <2>7. ASSUME NEW c \in calls, Answer(c)
        PROVE  ProfileInv'
    BY <2>7, ListedKeeps, ChosenKeeps, ActivatedKeeps, CreatedKeeps, DeletedKeeps, EditedKeeps
       DEF Answer
  <2> QED
    BY <1>2, <2>1, <2>2, <2>3, <2>4, <2>5, <2>6, <2>7 DEF ProfileNext
<1> QED
  BY <1>1, <1>2

\* The invariant holds at any time.
LEMMA ProfileAlways == ProfileSpec => []ProfileInv
<1> QED
  BY ProfileStarts, ProfileStep, PTL DEF ProfileSpec

\* Every variable of the profile dialog has its type, and a custom theme that
\* is worn or kept exists (delete_custom_theme).
THEOREM ProfileTypes == ProfileSpec => []ProfileTypeOK
<1>1. ProfileInv => ProfileTypeOK
  BY DEF ProfileInv, RecordsRight
<1> QED
  BY <1>1, ProfileAlways, PTL

\* What was painted ahead is what the page's user says once all is answered
\* (ProfileModal.tsx, the effects of AuthContext.tsx).
THEOREM PaintIsUsers == ProfileSpec => []ScreenIsUsers
<1>1. ProfileInv => ScreenIsUsers
  <2> SUFFICES ASSUME ProfileInv, AtRest, ~hasty, ~(overlapped /\ failed)
               PROVE  screen = [look |-> Look(user), size |-> user.size]
    BY DEF ScreenIsUsers
  <2>1. calls = {} /\ editing = None
    BY DEF AtRest
  <2>2. screen.look = Look(user) /\ screen.size = user.size
    BY <2>1 DEF ProfileInv, LookAnswered, SizeAnswered, Previewed
  <2>3. screen \in [look : Looks, size : Sizes]
    BY DEF ProfileInv, RecordsRight, ProfileTypeOK
  <2> QED
    BY <2>2, <2>3
<1> QED
  BY <1>1, ProfileAlways, PTL

\* One call at a time, none lost: the page's user is the server's.
THEOREM PageIsServers == ProfileSpec => []UserIsServers
<1>1. ProfileInv => UserIsServers
  BY DEF ProfileInv, InStep, UserIsServers, AtRest, Others
<1> QED
  BY <1>1, ProfileAlways, PTL

\* Settings saved at the same time each end up at the last choice
\* (update_profile applies the fields of the request only).
THEOREM ChoicesAreKept == ProfileSpec => []ChoicesStick
<1>1. ProfileInv => ChoicesStick
  BY DEF ProfileInv, WishKept, ChoicesStick
<1> QED
  BY <1>1, ProfileAlways, PTL
=============================================================================
