------------------------------ MODULE NewsBridge ------------------------------
(***************************************************************************)
(* The economic calendar of the terminal, from the MQL5 program that       *)
(* exports it (mql5/XdigitexCalendarBridge.mq5) over the bridge file to    *)
(* Mt5CalendarProvider (news/mt5_calendar.py) and the market loop, which   *)
(* asks it about every symbol of a cycle with the `now` the cycle began    *)
(* with (services/scheduler.py).                                           *)
(*                                                                         *)
(* The engine and the terminal share a machine, whose clock is `clock` and *)
(* stamps the file; the terminal's idea of UTC may be wrong by `skew`, and *)
(* then so are the heartbeat and every instant it exports, by as much.     *)
(* Rows carry no payload but what the gate looks at.                       *)
(*                                                                         *)
(* Operators introduced by "Fault:" are not the code and not part of the   *)
(* specification, as in OrderExecution.                                    *)
(***************************************************************************)
EXTENDS CalendarGate, FiniteSets

CONSTANTS
    Currency,       \* g_currencies and TRADED_CURRENCIES
    Unknown,        \* the currency exported when the country cannot be read
    Schedule,       \* rows the terminal's calendar may come to hold
    Standing,       \* those it holds from the start
    Opaque,         \* those whose event or country it cannot always read
    Skew,           \* errors of the terminal's clock
    Refresh,        \* InpRefreshSeconds
    MaxAge,         \* mt5_calendar_max_age_seconds
    Tolerance,      \* mt5_calendar_clock_tolerance_seconds
    ReadEvery,      \* mt5_calendar_read_seconds
    RetryEvery,     \* mt5_calendar_failure_retry_seconds
    Hardship,       \* which of Hardships may happen
    MaxCycle,       \* bound: how long a cycle takes to ask about its symbols
    Horizon         \* bound: the last instant

Hardships ==
    {"history fails",   \* CalendarValueHistory fails for a currency
     "no description",  \* EventById cannot read an event
     "no country",      \* CountryById knows no country for an event
     "file lost",       \* the bridge file, or its modification time, cannot be had
     "file spoiled",    \* another program writes to it
     "store fails"}     \* a statement of the calendar cache raises

ASSUME ScheduleAssumption ==
    /\ Schedule \subseteq [currency : Currency, impact : Impact, at : Int]
    /\ Standing \subseteq Schedule /\ Opaque \subseteq Schedule
ASSUME CurrencyAssumption == Unknown \notin Currency
ASSUME DurationAssumption ==
    /\ Refresh \in Nat /\ MaxAge \in Nat /\ Tolerance \in Nat
    /\ ReadEvery \in Nat \ {0} /\ RetryEvery \in 1..ReadEvery
    /\ MaxCycle \in Nat /\ Horizon \in Nat
ASSUME SkewAssumption == Skew \subseteq Int
ASSUME HardshipAssumption == Hardship \subseteq Hardships

VARIABLES
    clock,      \* the machine's clock
    skew,       \* TimeGMT() - clock, in the terminal
    published,  \* since when the terminal's calendar holds a row, Never if it does not
    lastWrite,  \* g_last_write, Never before the first write
    file,       \* the bridge file
    snap,       \* the provider's snapshot
    cache,      \* the rows of the persisted calendar
    moment,     \* the `now` of the cycle, Never between cycles
    verdict     \* what each symbol was answered in this cycle

terminal == <<skew, published, lastWrite, file>>
engine   == <<snap, cache, moment, verdict>>
vars     == <<clock, terminal, engine>>

Instant == Int \cup {Never}
Row     == [currency : Currency \cup {Unknown}, impact : Impact, at : Int]

NoFile  == [status |-> "missing"]
Spoiled == [status |-> "spoiled"]   \* not what WriteSnapshot leaves, in any way
Files   == {NoFile, Spoiled} \cup
           [status : {"OK", "DEGRADED"}, generated : Int, mtime : Int, rows : SUBSET Row]

\* compared: the heartbeat was compared with the file's time, clock_skew_seconds is not None.
State    == {"NOT_ATTEMPTED", "FRESH", "STALE", "UNAVAILABLE"}
Snapshot == [state : State, rows : SUBSET Row, generated : Instant, attempt : Instant,
             compared : BOOLEAN]

TypeOK ==
    /\ clock \in Nat
    /\ skew \in Skew
    /\ published \in [Schedule -> Instant]
    /\ lastWrite \in Instant
    /\ file \in Files
    /\ snap \in Snapshot
    /\ cache \in SUBSET Row
    /\ moment \in Instant
    /\ verdict \in [Symbol -> Verdict]

\* A provider that has just been built, with the persisted rows: they are
\* evidence of an earlier read only, so it is as good as never attempted.
Restore(rows) ==
    [state |-> "NOT_ATTEMPTED", rows |-> rows, generated |-> Never, attempt |-> Never,
     compared |-> FALSE]

Init ==
    /\ clock = 0
    /\ skew \in Skew
    /\ published = [e \in Schedule |-> IF e \in Standing THEN 0 ELSE Never]
    /\ lastWrite = Never /\ file = NoFile
    /\ snap = Restore({}) /\ cache = {}
    /\ moment = Never /\ verdict = Unasked

-----------------------------------------------------------------------------
(* The terminal *)

\* EventJson: a row leaves with its currency, or with none that is traded, and
\* with its UTC instant as the terminal's clock has it.
Exported(e, attributed) ==
    [currency |-> IF attributed THEN e.currency ELSE Unknown,
     impact |-> e.impact, at |-> e.at + skew]

\* WriteSnapshot: a currency whose history cannot be read degrades the file.  An event
\* without a description is left out, and nothing says so; one without a country leaves
\* unattributed.  A file that cannot be replaced stays as it was.
WriteSnapshot ==
    \E failed \in SUBSET Currency, undescribed, orphans \in SUBSET Opaque :
        /\ failed # {} => "history fails" \in Hardship
        /\ undescribed # {} => "no description" \in Hardship
        /\ orphans # {} => "no country" \in Hardship
        /\ LET held == {e \in Schedule \ undescribed :
                          published[e] # Never /\ e.currency \notin failed}
           IN  file' = [status |-> IF failed = {} THEN "OK" ELSE "DEGRADED",
                        generated |-> clock + skew, mtime |-> clock,
                        rows |-> {Exported(e, e \notin orphans) : e \in held}]
        /\ lastWrite' = clock
        /\ UNCHANGED <<clock, skew, published, engine>>

\* OnInit: the program starts, or starts again, with the terminal.
OnInit == WriteSnapshot

\* OnTimer, OnTick
OnTimer ==
    /\ lastWrite # Never
    /\ clock - lastWrite >= Refresh
    /\ WriteSnapshot

\* A release is put on the terminal's calendar.
Publish ==
    /\ \E e \in Schedule :
         /\ published[e] = Never
         /\ published' = [published EXCEPT ![e] = clock]
    /\ UNCHANGED <<clock, skew, lastWrite, file, engine>>

SetTerminalClock ==
    /\ skew' \in Skew \ {skew}
    /\ UNCHANGED <<clock, published, lastWrite, file, engine>>

\* Another program spoils the file, or removes it.
Spoil ==
    /\ \/ "file spoiled" \in Hardship /\ file' = Spoiled
       \/ "file lost" \in Hardship /\ file' = NoFile
    /\ UNCHANGED <<clock, skew, published, lastWrite, engine>>

-----------------------------------------------------------------------------
(* Mt5CalendarProvider *)

Outcome == {"read", "BridgeStale", "CalendarUnavailable", "CalendarMalformed"}

\* parse_bridge: the rows in a traded currency, if the file passes every check.
Kept(f) == {r \in f.rows : r.currency \in Currency}

\* Fault: the heartbeat is not compared with the file's own time.
FaultyParse(f, now, timed) ==
    LET age == now - f.generated
    IN  IF f.status = "DEGRADED" THEN "CalendarUnavailable"
        ELSE IF age > MaxAge \/ age < -Tolerance THEN "BridgeStale"
        ELSE IF Kept(f) = {} THEN "CalendarUnavailable"
        ELSE "read"

\* The comparison is skipped when the file's time could not be had.
ParseBridge(f, now, timed) ==
    LET age == now - f.generated
    IN  IF f.status = "DEGRADED" THEN "CalendarUnavailable"
        ELSE IF age > MaxAge \/ age < -Tolerance THEN "BridgeStale"
        ELSE IF timed /\ ~Within(f.generated, f.mtime, Tolerance) THEN "CalendarUnavailable"
        ELSE IF Kept(f) = {} THEN "CalendarUnavailable"
        ELSE "read"

\* read: nothing is parsed when there is no file or it is not the JSON written.
Read(now, timed) ==
    IF file = NoFile THEN "CalendarUnavailable"
    ELSE IF file = Spoiled THEN "CalendarMalformed"
    ELSE ParseBridge(file, now, timed)

Healthy(n) == n.state = "FRESH"

\* Fault: a failed read is not repeated sooner than a good one.
FaultyDue(n, now) == n.attempt = Never \/ now - n.attempt >= ReadEvery

\* _due
Due(n, now) ==
    \/ n.attempt = Never
    \/ now - n.attempt >= IF Healthy(n) THEN ReadEvery ELSE RetryEvery

\* Fault: the name of the error is taken for the state.
FaultyFail(n, outcome, now) == [n EXCEPT !.attempt = now, !.state = outcome]

\* _fail: the rows of the last good read stay, for the record only.
Fail(n, outcome, now) ==
    [n EXCEPT !.attempt = now,
              !.state = IF outcome = "BridgeStale" THEN "STALE" ELSE "UNAVAILABLE"]

\* refresh
Refreshed(n, now, timed) ==
    IF ~Due(n, now) THEN n
    ELSE IF Read(now, timed) = "read"
         THEN [state |-> "FRESH", rows |-> Kept(file), generated |-> file.generated,
               attempt |-> now, compared |-> timed]
         ELSE Fail(n, Read(now, timed), now)

\* SqlNewsCache.save: rows are replaced by rows, never by none.
Save(n) ==
    \/ cache' = IF n.rows = {} THEN cache ELSE n.rows
    \/ "store fails" \in Hardship /\ UNCHANGED cache

RefreshAt(now) ==
    /\ \E timed \in BOOLEAN :
         /\ ~timed => "file lost" \in Hardship
         /\ snap' = Refreshed(snap, now, timed)
    /\ IF Due(snap, now) THEN Save(snap') ELSE UNCHANGED cache

\* Fault: a good read never ages.
FaultyUsable(n, now) == Healthy(n) /\ n.generated # Never

\* data_age_seconds against the limit, on top of the last read's health.
Usable(n, now) == Healthy(n) /\ n.generated # Never /\ now - n.generated <= MaxAge

-----------------------------------------------------------------------------
(* The market loop *)

\* _run_cycle takes `now`, and _refresh_news refreshes once for the cycle.
BeginCycle ==
    /\ moment = Never
    /\ moment' = clock
    /\ RefreshAt(clock)
    /\ verdict' = Unasked
    /\ UNCHANGED <<clock, terminal>>

\* _scan_symbol asks decision(symbol, now), which refreshes when that is due.
Decide(s) ==
    /\ moment # Never /\ verdict[s] = "unasked"
    /\ RefreshAt(moment)
    /\ verdict' = [verdict EXCEPT ![s] = Ruling(Usable(snap', moment), snap'.rows, s, moment)]
    /\ UNCHANGED <<clock, terminal, moment>>

EndCycle ==
    /\ moment # Never
    /\ moment' = Never /\ verdict' = Unasked
    /\ UNCHANGED <<clock, terminal, snap, cache>>

\* The engine dies and is built anew; load() returns nothing when it fails.
Restart ==
    /\ \/ snap' = Restore(cache)
       \/ "store fails" \in Hardship /\ snap' = Restore({})
    /\ moment' = Never /\ verdict' = Unasked
    /\ UNCHANGED <<clock, terminal, cache>>

Tick ==
    /\ clock < Horizon
    /\ moment # Never => clock < moment + MaxCycle
    /\ clock' = clock + 1
    /\ UNCHANGED <<terminal, engine>>

Next ==
    \/ OnInit \/ OnTimer \/ Publish \/ SetTerminalClock \/ Spoil
    \/ BeginCycle \/ (\E s \in Symbol : Decide(s)) \/ EndCycle \/ Restart
    \/ Tick

Spec == Init /\ [][Next]_vars

-----------------------------------------------------------------------------
(* Properties *)

\* A symbol is cleared only when no high impact release of its currencies is near:
\* whatever the terminal's calendar held over MaxAge + Tolerance ago lies outside the
\* window around the cycle's `now`, but for the tolerance granted to the terminal's
\* clock, also while the cycle goes on.  It depends on the exporter, the validation of
\* the file, the age of the reading and the restore of the cache at once.  It says nothing
\* of a release whose event or country the terminal cannot read, which is left out of a
\* file that says OK, nor of a reading whose heartbeat was not compared with the file's
\* own time.
ClearedIsSafe ==
    \A s \in Symbol : (verdict[s] = "cleared" /\ snap.compared) =>
        \A e \in Schedule \ Opaque :
            (/\ published[e] # Never
             /\ published[e] + MaxAge + Tolerance < moment
             /\ e.impact = "high"
             /\ e.currency \in PairCurrencies(s)) =>
                ~Within(e.at, clock, Window - Tolerance - (clock - moment))

\* An outage ends by itself: in a cycle that begins RetryEvery after the file
\* became readable the provider is healthy, however it failed before.
RecoversPromptly ==
    (moment # Never /\ Read(moment, TRUE) = "read") =>
        (file.mtime + RetryEvery <= moment => Healthy(snap))

\* The provider is one that clears symbols only on a calendar it read itself and
\* that was fresh by its own heartbeat.
Promise == INSTANCE CalendarPromise WITH
    Limit <- MaxAge, Ahead <- Tolerance,
    source <- IF Healthy(snap) THEN snap.generated ELSE Never,
    verdict <- [s \in Symbol |-> IF verdict[s] = "cleared" THEN "cleared"
                                 ELSE IF verdict[s] = "unasked" THEN "unasked" ELSE "blocked"]
KeepsPromise == Promise!Spec

=============================================================================
