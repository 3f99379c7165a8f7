---------------------------- MODULE SchedulerLease ----------------------------
(***************************************************************************)
(* Who runs the market loop: MarketScheduler.start, stop, _loop, run_once  *)
(* and the scheduler_locks row it uses as a lease (services/scheduler.py). *)
(*                                                                         *)
(* A process is one incarnation of the engine: its owner id is drawn anew  *)
(* when it is built, so a restarted engine is another process.  Its        *)
(* threads are the loops start() makes; one stop() at a time stops them.   *)
(* A step is what happens between two statements on the lease row, or      *)
(* between two points where a thread may be overtaken.                     *)
(*                                                                         *)
(* Time is relative: age is how old the heartbeat in the row is, delay how *)
(* old the `now` a process took at the start of its latest cycle.  A tick  *)
(* waits for a loop or a stop() that would exceed MaxPeriod, so MaxPeriod  *)
(* says how slow they are; no code bounds them or compares them with TTL.  *)
(*                                                                         *)
(* Operators introduced by "Fault:" are not the code and not part of the   *)
(* specification, as in OrderExecution.                                    *)
(***************************************************************************)
EXTENDS Naturals, FiniteSets

CONSTANTS
    Proc,         \* incarnations of the engine, each with its owner id
    Thread,       \* loops a process may have at once, the live and the leftover
    Nobody,       \* no owner, no thread
    TTL,          \* settings.scheduler_lock_ttl_seconds, in ticks
    MaxPeriod,    \* bound: ticks from one cycle's `now` to the next one's
    Hardship      \* which of Hardships may happen

Hardships ==
    {"store fails",      \* a statement of a cycle or of a release raises
     "join times out",   \* a cycle outlives the join of stop()
     "calls overlap"}    \* start() is called while stop() is under way

ASSUME NobodyAssumption == Nobody \notin Proc /\ Nobody \notin Thread
ASSUME TimeAssumption == TTL \in Nat /\ MaxPeriod \in Nat \ {0}
ASSUME HardshipAssumption == Hardship \subseteq Hardships

VARIABLES
    owner,    \* the lease row's owner, Nobody when there is no row
    age,      \* ticks since the row's heartbeat_at
    up,       \* processes that have not crashed
    running,  \* state.running
    stopping, \* the _stop event
    thread,   \* self._thread
    busy,     \* the thread that holds self._lock
    loc,      \* where each thread is
    delay,    \* ticks since the process took the `now` of its latest cycle, or, with
              \* none yet, since its loop was started
    role,     \* state.leader and state.standby
    api,      \* where the stop() call of a process is
    joined    \* the thread that call waits for

row     == <<owner, age>>
control == <<running, stopping, thread>>
call    == <<api, joined>>
vars    == <<row, up, control, busy, loc, delay, role, call>>

Place  == {"none", "loop", "wait", "lease", "insert", "renew", "takeover", "scan"}
Role   == {"none", "leader", "standby"}
MaxAge == TTL + MaxPeriod + 1   \* older heartbeats are all stale to everybody

TypeOK ==
    /\ owner \in Proc \cup {Nobody}
    /\ age \in 0..MaxAge
    /\ up \subseteq Proc
    /\ running \in [Proc -> BOOLEAN]
    /\ stopping \in [Proc -> BOOLEAN]
    /\ thread \in [Proc -> Thread \cup {Nobody}]
    /\ busy \in [Proc -> Thread \cup {Nobody}]
    /\ loc \in [Proc -> [Thread -> Place]]
    /\ delay \in [Proc -> 0..MaxPeriod]
    /\ role \in [Proc -> Role]
    /\ api \in [Proc -> {"idle", "join", "release", "delete"}]
    /\ joined \in [Proc -> Thread \cup {Nobody}]

Init ==
    /\ owner = Nobody /\ age = 0
    /\ up = Proc
    /\ running = [p \in Proc |-> FALSE]
    /\ stopping = [p \in Proc |-> FALSE]
    /\ thread = [p \in Proc |-> Nobody]
    /\ busy = [p \in Proc |-> Nobody]
    /\ loc = [p \in Proc |-> [t \in Thread |-> "none"]]
    /\ delay = [p \in Proc |-> 0]
    /\ role = [p \in Proc |-> "none"]
    /\ api = [p \in Proc |-> "idle"]
    /\ joined = [p \in Proc |-> Nobody]

ThreadAlive(p, t) == loc[p][t] # "none"
HasThread(p)      == \E t \in Thread : ThreadAlive(p, t)
InCycle(p, t)     == loc[p][t] \notin {"none", "loop", "wait"}
Looping(p)        == p \in up /\ ~stopping[p] /\ HasThread(p)
Scanning(p)       == \E t \in Thread : loc[p][t] = "scan"

-----------------------------------------------------------------------------
(* start and stop, called through the API *)

\* start: refused while state.running; otherwise the event is cleared, which a
\* thread left over from a timed-out stop sees as well.
Start(p) ==
    /\ p \in up
    /\ api[p] = "idle" \/ "calls overlap" \in Hardship
    /\ ~running[p]
    /\ \E t \in Thread :
         /\ ~ThreadAlive(p, t)
         /\ thread' = [thread EXCEPT ![p] = t]
         /\ loc' = [loc EXCEPT ![p][t] = "loop"]
    /\ stopping' = [stopping EXCEPT ![p] = FALSE]
    /\ running' = [running EXCEPT ![p] = TRUE]
    /\ delay' = [delay EXCEPT ![p] = IF HasThread(p) THEN @ ELSE 0]
    /\ UNCHANGED <<row, up, busy, role, call>>

\* stop: the event is set and the thread taken, then waited for.
StopBegin(p) ==
    /\ p \in up /\ api[p] = "idle"
    /\ stopping' = [stopping EXCEPT ![p] = TRUE]
    /\ joined' = [joined EXCEPT ![p] = thread[p]]
    /\ thread' = [thread EXCEPT ![p] = Nobody]
    /\ api' = [api EXCEPT ![p] = "join"]
    /\ UNCHANGED <<row, up, running, busy, loc, delay, role>>

StopJoin(p) ==
    /\ api[p] = "join"
    /\ joined[p] # Nobody => ~ThreadAlive(p, joined[p]) \/ "join times out" \in Hardship
    /\ running' = [running EXCEPT ![p] = FALSE]
    /\ joined' = [joined EXCEPT ![p] = Nobody]
    /\ api' = [api EXCEPT ![p] = "release"]
    /\ UNCHANGED <<row, up, stopping, thread, busy, loc, delay, role>>

StopReturns(p) ==
    /\ api' = [api EXCEPT ![p] = "idle"]
    /\ role' = [role EXCEPT ![p] = "none"]

\* _release_db_lock: the row is read with its owner; an error leaves it to expire.
ReleaseRead(p) ==
    /\ api[p] = "release"
    /\ \/ /\ owner = p
          /\ api' = [api EXCEPT ![p] = "delete"]
          /\ UNCHANGED role
       \/ owner # p /\ StopReturns(p)
       \/ "store fails" \in Hardship /\ StopReturns(p)
    /\ UNCHANGED <<row, up, control, busy, loc, delay, joined>>

\* The DELETE names the row, not its owner.
ReleaseDelete(p) ==
    /\ api[p] = "delete"
    /\ \/ owner' = Nobody /\ age' = 0
       \/ "store fails" \in Hardship /\ UNCHANGED row
    /\ StopReturns(p)
    /\ UNCHANGED <<up, control, busy, loc, delay, joined>>

-----------------------------------------------------------------------------
(* A loop: _loop, run_once, _cycle, _acquire_db_lock *)

Go(p, t, place) == loc' = [loc EXCEPT ![p][t] = place]

\* Fault: the process lock is not given back.
EndCycleKeepsLock(p, t) == Go(p, t, "wait") /\ UNCHANGED busy

\* run_once returns: the process lock is free and the loop waits.
EndCycle(p, t) ==
    /\ Go(p, t, "wait")
    /\ busy' = [busy EXCEPT ![p] = Nobody]

\* Fault: the process lock is not asked for.
LoopTopUnlocked(p, t) ==
    /\ loc[p][t] = "loop"
    /\ IF stopping[p]
       THEN Go(p, t, "none") /\ UNCHANGED <<busy, delay>>
       ELSE /\ Go(p, t, "lease")
            /\ busy' = [busy EXCEPT ![p] = t]
            /\ delay' = [delay EXCEPT ![p] = 0]
    /\ UNCHANGED <<row, up, control, role, call>>

\* The event is tested, then run_once takes the process lock and its `now`, or
\* counts a skipped overlap.
LoopTop(p, t) ==
    /\ loc[p][t] = "loop"
    /\ \/ stopping[p] /\ Go(p, t, "none") /\ UNCHANGED <<busy, delay>>
       \/ ~stopping[p] /\ busy[p] # Nobody /\ Go(p, t, "wait") /\ UNCHANGED <<busy, delay>>
       \/ /\ ~stopping[p] /\ busy[p] = Nobody
          /\ Go(p, t, "lease")
          /\ busy' = [busy EXCEPT ![p] = t]
          /\ delay' = [delay EXCEPT ![p] = 0]
    /\ UNCHANGED <<row, up, control, role, call>>

\* The wait between cycles ends by itself or by the event.
WaitEnds(p, t) ==
    /\ loc[p][t] = "wait"
    /\ Go(p, t, "loop")
    /\ UNCHANGED <<row, up, control, busy, delay, role, call>>

\* Fault: a word of its own for the role.
StandbyMisspelt(p, t) ==
    /\ EndCycle(p, t)
    /\ role' = [role EXCEPT ![p] = "passive"]

\* Another process leads: the cycle ends without a scan.
Standby(p, t) ==
    /\ EndCycle(p, t)
    /\ role' = [role EXCEPT ![p] = "standby"]

\* Fault: a heartbeat in the row is never too old.
FreshForEver(p) == TRUE

\* (now - heartbeat) <= ttl, by the reader's own now.
Fresh(p) == age <= TTL + delay[p]

\* The row is read and judged; what follows is written in a later statement.
LeaseRead(p, t) ==
    /\ loc[p][t] = "lease"
    /\ \/ owner = Nobody /\ Go(p, t, "insert") /\ UNCHANGED <<busy, role>>
       \/ owner = p /\ Go(p, t, "renew") /\ UNCHANGED <<busy, role>>
       \/ owner \notin {p, Nobody} /\ Fresh(p) /\ Standby(p, t)
       \/ owner \notin {p, Nobody} /\ ~Fresh(p) /\ Go(p, t, "takeover")
            /\ UNCHANGED <<busy, role>>
    /\ UNCHANGED <<row, up, control, delay, call>>

Lead(p, t) ==
    /\ Go(p, t, "scan")
    /\ role' = [role EXCEPT ![p] = "leader"]
    /\ UNCHANGED busy

\* lock_key is unique: a row inserted since the read wins.
LeaseInsert(p, t) ==
    /\ loc[p][t] = "insert"
    /\ IF owner = Nobody
       THEN owner' = p /\ age' = delay[p] /\ Lead(p, t)
       ELSE Standby(p, t) /\ UNCHANGED row
    /\ UNCHANGED <<up, control, delay, call>>

\* Fault: who finds its own name in the row scans without writing its heartbeat.
LeaseRenewUnwritten(p, t) ==
    /\ loc[p][t] = "renew"
    /\ Lead(p, t)
    /\ UNCHANGED <<row, up, control, delay, call>>

\* The UPDATE of a row this process owned when it was read writes the heartbeat
\* only; it raises when the row is gone.
LeaseRenew(p, t) ==
    /\ loc[p][t] = "renew"
    /\ IF owner # Nobody
       THEN age' = delay[p] /\ Lead(p, t)
       ELSE EndCycle(p, t) /\ UNCHANGED <<age, role>>
    /\ UNCHANGED <<owner, up, control, delay, call>>

\* The UPDATE of a row that was stale when it was read names the row, not the
\* owner it had.
LeaseTakeover(p, t) ==
    /\ loc[p][t] = "takeover"
    /\ IF owner # Nobody
       THEN owner' = p /\ age' = delay[p] /\ Lead(p, t)
       ELSE EndCycle(p, t) /\ UNCHANGED <<row, role>>
    /\ UNCHANGED <<up, control, delay, call>>

\* _run_cycle has scanned, ordered and reconciled. The lease is kept.
ScanEnds(p, t) ==
    /\ loc[p][t] = "scan"
    /\ EndCycle(p, t)
    /\ UNCHANGED <<row, up, control, delay, role, call>>

\* An exception anywhere in the cycle: run_once logs it and the loop goes on.
CycleFails(p, t) ==
    /\ "store fails" \in Hardship
    /\ InCycle(p, t)
    /\ EndCycle(p, t)
    /\ UNCHANGED <<row, up, control, delay, role, call>>

-----------------------------------------------------------------------------
\* The process dies with all its threads; the row stays.
Crash(p) ==
    /\ p \in up
    /\ up' = up \ {p}
    /\ running' = [running EXCEPT ![p] = FALSE]
    /\ stopping' = [stopping EXCEPT ![p] = FALSE]
    /\ thread' = [thread EXCEPT ![p] = Nobody]
    /\ busy' = [busy EXCEPT ![p] = Nobody]
    /\ loc' = [loc EXCEPT ![p] = [t \in Thread |-> "none"]]
    /\ delay' = [delay EXCEPT ![p] = 0]
    /\ role' = [role EXCEPT ![p] = "none"]
    /\ api' = [api EXCEPT ![p] = "idle"]
    /\ joined' = [joined EXCEPT ![p] = Nobody]
    /\ UNCHANGED row

\* A loop or a stop() call is under way.
Active(p) == api[p] # "idle" \/ HasThread(p)

Tick ==
    /\ \A p \in Proc : Active(p) => delay[p] < MaxPeriod
    /\ delay' = [p \in Proc |-> IF Active(p) THEN delay[p] + 1 ELSE 0]
    /\ age' = IF owner # Nobody /\ age < MaxAge THEN age + 1 ELSE age
    /\ UNCHANGED <<owner, up, control, busy, loc, role, call>>

StopGoesOn(p) == StopJoin(p) \/ ReleaseRead(p) \/ ReleaseDelete(p)

LeaseWrite(p, t) == LeaseInsert(p, t) \/ LeaseRenew(p, t) \/ LeaseTakeover(p, t)

Loop(p, t) == LoopTop(p, t) \/ WaitEnds(p, t) \/ ScanEnds(p, t)

Next ==
    \/ \E p \in Proc :
         \/ Start(p) \/ StopBegin(p) \/ StopGoesOn(p) \/ Crash(p)
         \/ \E t \in Thread :
              Loop(p, t) \/ LeaseRead(p, t) \/ LeaseWrite(p, t) \/ CycleFails(p, t)
    \/ Tick

Spec == Init /\ [][Next]_vars

\* Threads are scheduled, calls return and time passes. A statement may fail, but
\* not every time.
Fairness ==
    /\ SF_vars(Tick)
    /\ \A p \in Proc : WF_vars(StopGoesOn(p))
    /\ \A p \in Proc, t \in Thread :
         WF_vars(Loop(p, t)) /\ SF_vars(LeaseRead(p, t)) /\ SF_vars(LeaseWrite(p, t))

FairSpec == Spec /\ Fairness

-----------------------------------------------------------------------------
(* Properties *)

\* The process lock: however often the scheduler is stopped by a timeout and
\* started again, two loops of one process are never inside a cycle together.
OneCyclePerProcess ==
    \A p \in Proc : \A t, u \in Thread : InCycle(p, t) /\ InCycle(p, u) => t = u

\* No leader is pushed out while it lives: with cycles that begin at least three times
\* per TTL, statements that do not fail and a stop() that is waited for, a standby finds
\* a lease stale only when its owner has crashed, however many incarnations share the row
\* and whoever took it over, renewed or deleted it meanwhile.  It does not follow that
\* one process scans at a time: two standbys may judge the same dead owner and both take
\* over, and the DELETE of a stop() may take the new owner's row.
StaleMeansCrashed ==
    [][\A p \in Proc : \A t \in Thread :
         loc[p][t] = "lease" /\ loc'[p][t] = "takeover" => owner \notin up]_vars

\* While one loop keeps running, the market is scanned again and again by someone: a
\* crashed leader is replaced, and no standby waits for a lease nobody renews.
LeaseRecovered ==
    \A p \in Proc : <>[]Looping(p) => []<>(\E q \in Proc : Scanning(q))

=============================================================================
