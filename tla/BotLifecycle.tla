----------------------------- MODULE BotLifecycle -----------------------------
(***************************************************************************)
(* The bot's states and the persisted emergency lock: BotService           *)
(* (services/bot.py) over one MarketScheduler and its loop threads         *)
(* (services/scheduler.py), driven by API requests that run side by side   *)
(* (main.py), in one engine process that may crash and start again.        *)
(*                                                                         *)
(* A loop is reduced to what the emergency lock is about: the lock test at *)
(* the start of a cycle, the risk check of each candidate, the order.  The *)
(* lease is left to SchedulerLease, the fences of the order path to        *)
(* OrderExecution, the day the lock is filed under to a single day.        *)
(*                                                                         *)
(* Operators introduced by "Fault:" are not the code and not part of the   *)
(* specification, as in OrderExecution.                                    *)
(***************************************************************************)
EXTENDS Naturals, FiniteSets

CONSTANTS
    Caller,   \* API requests that may be under way at once
    Thread,   \* loop threads that may be alive at once
    Nobody,   \* no thread
    Hardship  \* which of Hardships may happen

Hardships ==
    {"store fails",      \* the risk state cannot be read or written
     "join times out",   \* a cycle outlives the join of scheduler.stop()
     "account changes",  \* the terminal logs in to another account
     "drawdown"}         \* equity falls by max_drawdown_pct from its peak

ASSUME NobodyAssumption == Nobody \notin Thread
ASSUME HardshipAssumption == Hardship \subseteq Hardships

VARIABLES
    bot,       \* BotStatus.state
    lock,      \* emergency_locked in the risk state
    running,   \* scheduler.state.running
    stopping,  \* scheduler._stop
    thread,    \* scheduler._thread
    busy,      \* the thread that holds scheduler._lock
    loc,       \* where each loop thread is
    pc,        \* where each API request is
    joined,    \* the thread a request's scheduler.stop() waits for
    saw,       \* what a request read of the lock: TRUE, FALSE, or it could not
    late       \* history: orders sent since the lock was persisted, at most MaxLate

sched == <<running, stopping, thread>>
loops == <<busy, loc>>
reqs  == <<pc, joined, saw>>
vars  == <<bot, lock, sched, loops, reqs, late>>

MaxLate   == 2   \* bound: more late orders are not told apart
BotState  == {"STOPPED", "STARTING", "RUNNING", "DEGRADED", "EMERGENCY_LOCKED", "ERROR"}
BotRuns   == {"RUNNING", "DEGRADED"}   \* BotStatus.running
Place     == {"none", "loop", "wait", "gate", "scan", "assess", "send"}
Request   == {"idle", "validate", "launch", "enter", "join", "settle",
              "haltJoin", "persist", "close", "refresh"}
Reading   == {"locked", "clear", "unreadable"}

TypeOK ==
    /\ bot \in BotState
    /\ lock \in BOOLEAN
    /\ running \in BOOLEAN
    /\ stopping \in BOOLEAN
    /\ thread \in Thread \cup {Nobody}
    /\ busy \in Thread \cup {Nobody}
    /\ loc \in [Thread -> Place]
    /\ pc \in [Caller -> Request]
    /\ joined \in [Caller -> Thread \cup {Nobody}]
    /\ saw \in [Caller -> Reading]
    /\ late \in 0..MaxLate

Init ==
    /\ bot = "STOPPED" /\ lock = FALSE
    /\ running = FALSE /\ stopping = FALSE /\ thread = Nobody
    /\ busy = Nobody /\ loc = [t \in Thread |-> "none"]
    /\ pc = [c \in Caller |-> "idle"]
    /\ joined = [c \in Caller |-> Nobody]
    /\ saw = [c \in Caller |-> "clear"]
    /\ late = 0

-----------------------------------------------------------------------------
(* The persisted lock *)

\* What a request may read of the lock (_persisted_lock).
Readings ==
    {IF lock THEN "locked" ELSE "clear"}
        \cup (IF "store fails" \in Hardship THEN {"unreadable"} ELSE {})

\* _set_persisted_lock(True) and set_emergency_locked(True) by the loop: a failed
\* write is logged and nothing else.
PersistLock ==
    \/ lock' = TRUE /\ UNCHANGED late
    \/ "store fails" \in Hardship /\ UNCHANGED <<lock, late>>

-----------------------------------------------------------------------------
(* API requests *)

Step(c, next) == pc' = [pc EXCEPT ![c] = next]

\* start: refused while the bot runs, while the lock is persisted, and when the
\* lock cannot be read.
StartBegin(c) ==
    /\ pc[c] = "idle"
    /\ bot \notin BotRuns
    /\ \E r \in Readings :
         \/ r = "clear" /\ bot' = "STARTING" /\ Step(c, "validate")
         \/ r = "locked" /\ bot' = "EMERGENCY_LOCKED" /\ UNCHANGED pc
         \/ r = "unreadable" /\ bot' = "ERROR" /\ UNCHANGED pc
    /\ UNCHANGED <<lock, sched, loops, joined, saw, late>>

\* initialize, login, account: anything wrong ends in ERROR, and another account
\* in a persisted lock.
StartValidate(c) ==
    /\ pc[c] = "validate"
    /\ \/ Step(c, "launch") /\ UNCHANGED <<bot, lock, late>>
       \/ Step(c, "idle") /\ bot' = "ERROR" /\ UNCHANGED <<lock, late>>
       \/ /\ "account changes" \in Hardship
          /\ Step(c, "idle") /\ bot' = "ERROR" /\ PersistLock
    /\ UNCHANGED <<sched, loops, joined, saw>>

\* scheduler.start: refused while it runs; it clears the event, which a thread
\* left over from a timed-out stop sees as well.
StartLaunch(c) ==
    /\ pc[c] = "launch"
    /\ \/ /\ running
          /\ Step(c, "idle") /\ bot' = "ERROR"
          /\ UNCHANGED <<sched, loc>>
       \/ /\ ~running
          /\ \E t \in Thread : /\ loc[t] = "none"
                               /\ loc' = [loc EXCEPT ![t] = "loop"]
                               /\ thread' = t
          /\ stopping' = FALSE /\ running' = TRUE
          /\ Step(c, "enter")
          /\ UNCHANGED bot
    /\ UNCHANGED <<lock, busy, joined, saw, late>>

StartEnter(c) ==
    /\ pc[c] = "enter"
    /\ bot' = "RUNNING"
    /\ Step(c, "idle")
    /\ UNCHANGED <<lock, sched, loops, joined, saw, late>>

\* scheduler.stop up to its join.
SchedulerStop(c) ==
    /\ stopping' = TRUE
    /\ thread' = Nobody
    /\ joined' = [joined EXCEPT ![c] = thread]
    /\ UNCHANGED running

\* The join is over, by the thread's end or by its timeout.
Joined(c) ==
    /\ joined[c] # Nobody => loc[joined[c]] = "none" \/ "join times out" \in Hardship
    /\ running' = FALSE
    /\ joined' = [joined EXCEPT ![c] = Nobody]
    /\ UNCHANGED <<stopping, thread>>

StopBegin(c) ==
    /\ pc[c] = "idle"
    /\ SchedulerStop(c)
    /\ Step(c, "join")
    /\ UNCHANGED <<bot, lock, loops, saw, late>>

StopJoined(c) ==
    /\ pc[c] = "join"
    /\ Joined(c)
    /\ Step(c, "settle")
    /\ UNCHANGED <<bot, lock, loops, saw, late>>

\* Fault: what was read of the lock is stored as the state.
StopSettleUntranslated(c) ==
    /\ pc[c] = "settle"
    /\ bot' \in Readings
    /\ Step(c, "idle")
    /\ UNCHANGED <<lock, sched, loops, joined, saw, late>>

\* stop ends in what the persisted lock says; unreadable is DEGRADED.
StopSettle(c) ==
    /\ pc[c] = "settle"
    /\ \E r \in Readings :
         bot' = CASE r = "locked"     -> "EMERGENCY_LOCKED"
                  [] r = "clear"      -> "STOPPED"
                  [] r = "unreadable" -> "DEGRADED"
    /\ Step(c, "idle")
    /\ UNCHANGED <<lock, sched, loops, joined, saw, late>>

\* emergency_stop: the state, then the scheduler, then the lock, then the broker.
EmergencyBegin(c) ==
    /\ pc[c] = "idle"
    /\ bot' = "EMERGENCY_LOCKED"
    /\ SchedulerStop(c)
    /\ Step(c, "haltJoin")
    /\ UNCHANGED <<lock, loops, saw, late>>

EmergencyJoined(c) ==
    /\ pc[c] = "haltJoin"
    /\ Joined(c)
    /\ Step(c, "persist")
    /\ UNCHANGED <<bot, lock, loops, saw, late>>

EmergencyPersist(c) ==
    /\ pc[c] = "persist"
    /\ PersistLock
    /\ Step(c, "close")
    /\ UNCHANGED <<bot, sched, loops, joined, saw>>

\* Closing positions and orders at the broker changes nothing here; the call returns.
EmergencyClose(c) ==
    /\ pc[c] = "close"
    /\ Step(c, "idle")
    /\ UNCHANGED <<bot, lock, sched, loops, joined, saw, late>>

\* emergency_reset: refused while the bot runs, and when the write fails (which
\* changes nothing).
EmergencyReset(c) ==
    /\ pc[c] = "idle"
    /\ bot \notin BotRuns
    /\ lock' = FALSE
    /\ bot' = "STOPPED"
    /\ late' = 0
    /\ UNCHANGED <<sched, loops, reqs>>

\* refresh_state, on every status request: the lock is read...
RefreshRead(c) ==
    /\ pc[c] = "idle"
    /\ bot \in {"RUNNING", "DEGRADED", "EMERGENCY_LOCKED"}
    /\ \E r \in Readings : saw' = [saw EXCEPT ![c] = r]
    /\ Step(c, "refresh")
    /\ UNCHANGED <<bot, lock, sched, loops, joined, late>>

\* Fault: the terminal's health decides also when the lock was read as set.
RefreshHealthFirst(c) ==
    /\ pc[c] = "refresh"
    /\ \/ saw[c] = "unreadable" /\ bot' = "DEGRADED"
       \/ saw[c] # "unreadable" /\ bot' \in {"RUNNING", "DEGRADED"}
    /\ saw' = [saw EXCEPT ![c] = "clear"]
    /\ Step(c, "idle")
    /\ UNCHANGED <<lock, sched, loops, joined, late>>

\* ...and the state is written after the terminal was asked for its health.
RefreshWrite(c) ==
    /\ pc[c] = "refresh"
    /\ \/ saw[c] = "locked" /\ bot' = "EMERGENCY_LOCKED"
       \/ saw[c] = "unreadable" /\ bot' = "DEGRADED"
       \/ saw[c] = "clear" /\ bot' \in {"RUNNING", "DEGRADED"}
    /\ saw' = [saw EXCEPT ![c] = "clear"]
    /\ Step(c, "idle")
    /\ UNCHANGED <<lock, sched, loops, joined, late>>

-----------------------------------------------------------------------------
(* A loop thread *)

Go(t, place) == loc' = [loc EXCEPT ![t] = place]

EndCycle(t) == Go(t, "wait") /\ busy' = Nobody

\* The event ends the loop; a cycle under way in this process is not joined.
LoopTop(t) ==
    /\ loc[t] = "loop"
    /\ \/ stopping /\ Go(t, "none") /\ UNCHANGED busy
       \/ ~stopping /\ busy # Nobody /\ Go(t, "wait") /\ UNCHANGED busy
       \/ ~stopping /\ busy = Nobody /\ Go(t, "gate") /\ busy' = t
    /\ UNCHANGED <<bot, lock, sched, reqs, late>>

WaitEnds(t) ==
    /\ loc[t] = "wait"
    /\ Go(t, "loop")
    /\ UNCHANGED <<bot, lock, sched, busy, reqs, late>>

\* _run_cycle: nothing is scanned while the lock is persisted.
Gate(t) ==
    /\ loc[t] = "gate"
    /\ \/ lock /\ EndCycle(t)
       \/ ~lock /\ Go(t, "scan") /\ UNCHANGED busy
    /\ UNCHANGED <<bot, lock, sched, reqs, late>>

\* _scan_symbol: another account persists the lock and blocks the symbol; a symbol
\* may give a candidate.
Scan(t) ==
    /\ loc[t] = "scan"
    /\ \/ "account changes" \in Hardship /\ PersistLock /\ UNCHANGED loc
       \/ Go(t, "assess") /\ UNCHANGED <<lock, late>>
    /\ UNCHANGED <<bot, sched, busy, reqs>>

\* After the last symbol, or by an exception anywhere in the cycle.
CycleEnds(t) ==
    /\ loc[t] \in {"gate", "scan", "assess", "send"}
    /\ EndCycle(t)
    /\ UNCHANGED <<bot, lock, sched, reqs, late>>

\* Fault: the lock tested at the start of the cycle is taken to hold for all of it.
AssessWithoutLock(t) ==
    /\ loc[t] = "assess"
    /\ \/ (Go(t, "scan") \/ Go(t, "send")) /\ UNCHANGED lock
       \/ "drawdown" \in Hardship /\ Go(t, "scan") /\ lock' = TRUE
    /\ UNCHANGED <<bot, sched, busy, reqs, late>>

\* RiskEngine.assess and what refuses after it: the lock is read once, first; the
\* drawdown limit refuses and persists the lock.
Assess(t) ==
    /\ loc[t] = "assess"
    /\ \/ Go(t, "scan") /\ UNCHANGED lock
       \/ ~lock /\ Go(t, "send") /\ UNCHANGED lock
       \/ "drawdown" \in Hardship /\ Go(t, "scan") /\ lock' = TRUE
    /\ UNCHANGED <<bot, sched, busy, reqs, late>>

\* order_send and the records of it.
Send(t) ==
    /\ loc[t] = "send"
    /\ Go(t, "scan")
    /\ late' = IF lock /\ late < MaxLate THEN late + 1 ELSE late
    /\ UNCHANGED <<bot, lock, sched, busy, reqs>>

-----------------------------------------------------------------------------
\* The process dies and a new one is built: only the risk state and the broker stay.
Crash ==
    /\ bot' = "STOPPED"
    /\ running' = FALSE /\ stopping' = FALSE /\ thread' = Nobody
    /\ busy' = Nobody /\ loc' = [t \in Thread |-> "none"]
    /\ pc' = [c \in Caller |-> "idle"]
    /\ joined' = [c \in Caller |-> Nobody]
    /\ saw' = [c \in Caller |-> "clear"]
    /\ UNCHANGED <<lock, late>>

Asks(c) ==
    \/ StartBegin(c) \/ StopBegin(c) \/ EmergencyBegin(c) \/ EmergencyReset(c)

Refresh(c) == RefreshRead(c) \/ RefreshWrite(c)

GoesOn(c) ==
    \/ StartValidate(c) \/ StartLaunch(c) \/ StartEnter(c)
    \/ StopJoined(c) \/ StopSettle(c)
    \/ EmergencyJoined(c) \/ EmergencyPersist(c) \/ EmergencyClose(c)

Loop(t) ==
    LoopTop(t) \/ WaitEnds(t) \/ Gate(t) \/ Scan(t) \/ Assess(t) \/ Send(t)
        \/ CycleEnds(t)

Next ==
    \/ \E c \in Caller : Asks(c) \/ Refresh(c) \/ GoesOn(c)
    \/ \E t \in Thread : Loop(t)
    \/ Crash

Spec == Init /\ [][Next]_vars

\* Requests return, loops are scheduled, and the status is asked for again and again
\* (the dashboard polls it). A cycle has an end.
Fairness ==
    /\ \A c \in Caller : /\ WF_vars(GoesOn(c)) /\ WF_vars(RefreshWrite(c))
                         /\ SF_vars(RefreshRead(c))
    /\ \A t \in Thread : WF_vars(Loop(t)) /\ SF_vars(CycleEnds(t))

FairSpec == Spec /\ Fairness

-----------------------------------------------------------------------------
(* Properties *)

\* The lock bites within the cycle, not only at its start: whatever was stopped,
\* timed out, started again or crashed, at most one order, already past its risk
\* check, leaves after the lock was persisted.
AtMostOneLateOrder == late <= 1

\* refresh_state: "a persisted lock always wins". Once the lock stays persisted the
\* API stops saying RUNNING, however requests and polls interleave, start() calls
\* that had read it as clear included. It need not say EMERGENCY_LOCKED: STOPPED and
\* ERROR are left as they are, and DEGRADED remains while the lock cannot be read.
LockEndsRunning == <>[]lock => <>[](bot # "RUNNING")

=============================================================================
