----------------------------- MODULE NewsService -----------------------------
(***************************************************************************)
(* The other providers build_news_provider may choose (news/provider.py):  *)
(* the Trading Economics calendar over HTTP, with its cache; a calendar    *)
(* file of the operator; none at all.  The market loop asks them as it     *)
(* asks the bridge (NewsBridge).                                           *)
(*                                                                         *)
(* A row of the service is about a currency, but it may carry neither that *)
(* currency nor a country that maps to it, and then nobody can attribute   *)
(* it.                                                                     *)
(*                                                                         *)
(* Operators introduced by "Fault:" are not the code and not part of the   *)
(* specification, as in OrderExecution.                                    *)
(***************************************************************************)
EXTENDS CalendarGate, FiniteSets

CONSTANTS
    Currency,         \* currencies rows are about
    Blank,            \* a field the row does not carry
    Country,          \* countries rows name
    CountryCurrency,  \* _COUNTRY_CURRENCIES
    Schedule,         \* rows the service may come to list
    Settings,         \* what NEWS_PROVIDER and NEWS_EVENTS_FILE may be set to
    RefreshEvery,     \* news_refresh_seconds
    RetryEvery,       \* failure_retry_seconds
    MaxAge,           \* news_max_age_seconds
    Hardship,         \* which of Hardships may happen
    MaxCycle,         \* bound: how long a cycle takes to ask about its symbols
    Horizon           \* bound: the last instant

Setting == [provider : {"trading_economics", "static"},
            listed : {"absent", "unreadable", "readable"}]

Hardships == {"no key", "refused", "no answer", "not a calendar", "store fails"}

Code == Currency \cup {Blank}
Raw  == [about : Currency, currency : Code, country : Country \cup {Blank},
         impact : Impact, at : Int]

ASSUME BlankAssumption == Blank \notin Currency \cup Country
ASSUME CountryAssumption == CountryCurrency \in [Country -> Currency]
ASSUME ScheduleAssumption ==
    /\ Schedule \subseteq Raw
    /\ \A e \in Schedule :
         /\ e.currency \in {e.about, Blank}
         /\ e.country # Blank => CountryCurrency[e.country] = e.about
ASSUME SettingsAssumption == Settings \subseteq Setting
ASSUME DurationAssumption ==
    /\ RefreshEvery \in Nat \ {0} /\ RetryEvery \in 1..RefreshEvery
    /\ MaxAge \in Nat /\ MaxCycle \in Nat /\ Horizon \in Nat
ASSUME HardshipAssumption == Hardship \subseteq Hardships

VARIABLES
    clock,     \* the present
    listed,    \* since when the service lists a row, Never if it does not
    settings,  \* of the running engine
    calendar,  \* StaticNewsProvider.events
    snap,      \* the service provider's snapshot
    cache,     \* the persisted calendar: its rows and last_success_at
    moment,    \* the `now` of the cycle, Never between cycles
    verdict    \* what each symbol was answered in this cycle

engine == <<settings, calendar, snap, cache, moment, verdict>>
vars   == <<clock, listed, engine>>

Instant  == Int \cup {Never}
Row      == [currency : Currency, impact : Impact, at : Int]
State    == {"NOT_ATTEMPTED", "FRESH", "UNAVAILABLE", "NO_CREDENTIAL"}
Snapshot == [state : State, rows : SUBSET Row, success : Instant, attempt : Instant]
Provider == {"trading_economics", "static", "unavailable"}

TypeOK ==
    /\ clock \in Nat
    /\ listed \in [Schedule -> Instant]
    /\ settings \in Settings
    /\ calendar \in SUBSET Row
    /\ snap \in Snapshot
    /\ cache \in [rows : SUBSET Row, success : Instant]
    /\ moment \in Instant
    /\ verdict \in [Symbol -> Verdict]

-----------------------------------------------------------------------------
(* The rows *)

\* The currency of a row, its own or its country's.
Attributed(e) ==
    IF e.currency # Blank THEN e.currency
    ELSE IF e.country # Blank THEN CountryCurrency[e.country] ELSE Blank

Normalised(e) == [currency |-> Attributed(e), impact |-> e.impact, at |-> e.at]

\* Fault: every row that cannot be attributed is left out.
FaultyUnreadable(raws) == FALSE

\* Fault: no row is left out.
FaultyParsed(raws) == {Normalised(e) : e \in raws}

\* parse_calendar_payload: a high impact row nobody can attribute spoils the
\* answer, any other such row is left out of it.
Unreadable(raws) == \E e \in raws : Attributed(e) = Blank /\ e.impact = "high"

Parsed(raws) == {Normalised(e) : e \in {r \in raws : Attributed(r) # Blank}}

-----------------------------------------------------------------------------
(* TradingEconomicsCalendarProvider *)

Healthy(n) == n.state = "FRESH"

\* Fault: a calendar that comes with its age counts as healthy.
FaultyRestore(stored) ==
    [state |-> IF stored.rows = {} THEN "NOT_ATTEMPTED" ELSE "FRESH", rows |-> stored.rows,
     attempt |-> Never, success |-> IF stored.rows = {} THEN Never ELSE stored.success]

\* _restore: what the cache holds is kept with its age, never as healthy, and
\* left alone when it has no rows.
Restore(stored) ==
    [state |-> "NOT_ATTEMPTED", rows |-> stored.rows, attempt |-> Never,
     success |-> IF stored.rows = {} THEN Never ELSE stored.success]

\* _due
Due(n, now) ==
    \/ n.attempt = Never
    \/ now - n.attempt >= IF Healthy(n) THEN RefreshEvery ELSE RetryEvery

\* TradingEconomicsCalendarClient.calendar: a list of rows, or the class of the
\* error it raises.
Answers ==
    {"rows"}
    \cup (IF Hardship \cap {"no key", "refused"} # {} THEN {"CalendarAuthError"} ELSE {})
    \cup (IF "no answer" \in Hardship THEN {"CalendarUnavailable"} ELSE {})
    \cup (IF "not a calendar" \in Hardship THEN {"CalendarMalformed"} ELSE {})

\* What of the schedule the service lists.
Served == {e \in Schedule : listed[e] # Never}

Outcome(answer) ==
    IF answer = "rows" /\ Unreadable(Served) THEN "CalendarMalformed" ELSE answer

\* _fail: rows and last success stay for the record.
Fail(n, error, now) ==
    [n EXCEPT !.attempt = now,
              !.state = IF error = "CalendarAuthError" THEN "NO_CREDENTIAL" ELSE "UNAVAILABLE"]

Fetched(n, answer, now) ==
    IF Outcome(answer) = "rows"
    THEN [state |-> "FRESH", rows |-> Parsed(Served), success |-> now, attempt |-> now]
    ELSE Fail(n, Outcome(answer), now)

\* SqlNewsCache.save: rows are replaced by rows, the stamp always.
Save(n) ==
    \/ cache' = [rows |-> IF n.rows = {} THEN cache.rows ELSE n.rows, success |-> n.success]
    \/ "store fails" \in Hardship /\ UNCHANGED cache

\* refresh
RefreshAt(now) ==
    IF settings.provider = "trading_economics" /\ Due(snap, now)
    THEN \E answer \in Answers : snap' = Fetched(snap, answer, now) /\ Save(snap')
    ELSE UNCHANGED <<snap, cache>>

\* data_age_seconds against the limit, on top of the last fetch's health.
Usable(n, now) == Healthy(n) /\ n.success # Never /\ now - n.success <= MaxAge

-----------------------------------------------------------------------------
(* The other providers, and which one it is *)

\* StaticNewsProvider.from_file: the file's good entries; any other kind of
\* calendar has none.
FromFile(set, entries) ==
    IF set.provider = "static" /\ set.listed = "readable" THEN entries ELSE {}

\* UnavailableNewsProvider.decision answers for every symbol alike, and an empty
\* static calendar answers through it; a static calendar takes the halves of a
\* symbol for its currencies without asking whether they are.
StaticRuling(s, now) ==
    IF calendar = {} THEN Unenforceable
    ELSE IF \E e \in calendar : /\ e.impact = "high"
                                /\ e.currency \in {s[1], s[2]}
                                /\ Within(e.at, now, Window)
         THEN "blocked" ELSE "cleared"

Decision(s, now, n) ==
    IF settings.provider = "trading_economics"
    THEN Ruling(Usable(n, now), n.rows, s, now)
    ELSE StaticRuling(s, now)

\* build_news_provider, when the engine is built: with the settings it finds and
\* the calendar file as it is at that moment.
Build(stored) ==
    \E set \in Settings :
        /\ settings' = set
        /\ calendar' = FromFile(set, Parsed(Served))
        /\ snap' = Restore(IF set.provider = "trading_economics" THEN stored
                           ELSE [rows |-> {}, success |-> Never])

Init ==
    /\ clock = 0
    /\ listed \in [Schedule -> {Never, 0}]
    /\ settings \in Settings
    /\ calendar = FromFile(settings, Parsed(Served))
    /\ cache = [rows |-> {}, success |-> Never]
    /\ snap = Restore(cache)
    /\ moment = Never /\ verdict = Unasked

-----------------------------------------------------------------------------
(* The market loop, and the world around it *)

\* _run_cycle takes `now`, and _refresh_news refreshes once for the cycle.
BeginCycle ==
    /\ moment = Never
    /\ moment' = clock
    /\ RefreshAt(clock)
    /\ verdict' = Unasked
    /\ UNCHANGED <<clock, listed, settings, calendar>>

\* _scan_symbol asks decision(symbol, now), which refreshes when that is due.
Decide(s) ==
    /\ moment # Never /\ verdict[s] = "unasked"
    /\ RefreshAt(moment)
    /\ verdict' = [verdict EXCEPT ![s] = Decision(s, moment, snap')]
    /\ UNCHANGED <<clock, listed, settings, calendar, moment>>

EndCycle ==
    /\ moment # Never
    /\ moment' = Never /\ verdict' = Unasked
    /\ UNCHANGED <<clock, listed, settings, calendar, snap, cache>>

Restart ==
    /\ \/ Build(cache)
       \/ "store fails" \in Hardship /\ Build([rows |-> {}, success |-> Never])
    /\ moment' = Never /\ verdict' = Unasked
    /\ UNCHANGED <<clock, listed, cache>>

\* A release is put on the schedule, of the service and of the operator's file.
Publish ==
    /\ \E e \in Schedule : listed[e] = Never /\ listed' = [listed EXCEPT ![e] = clock]
    /\ UNCHANGED <<clock, engine>>

Tick ==
    /\ clock < Horizon
    /\ moment # Never => clock < moment + MaxCycle
    /\ clock' = clock + 1
    /\ UNCHANGED <<listed, engine>>

Next ==
    \/ BeginCycle \/ (\E s \in Symbol : Decide(s)) \/ EndCycle \/ Restart
    \/ Publish \/ Tick

Spec == Init /\ [][Next]_vars

-----------------------------------------------------------------------------
(* Properties *)

\* With the service, a symbol is cleared only when no high impact release about
\* its currencies is near, whether or not the row says which currency it is
\* about: whatever the service listed over MaxAge ago lies outside the window.
ClearedIsSafe ==
    (settings.provider = "trading_economics" /\ moment # Never) =>
        \A s \in Symbol : verdict[s] = "cleared" =>
            \A e \in Schedule :
                (/\ listed[e] # Never /\ listed[e] + MaxAge < moment
                 /\ e.impact = "high" /\ e.about \in PairCurrencies(s)) =>
                    ~Within(e.at, clock, Window - (clock - moment))

\* The provider is one that clears symbols only on a calendar it fetched itself
\* less than MaxAge before the cycle.
Promise == INSTANCE CalendarPromise WITH
    Limit <- MaxAge, Ahead <- 0,
    source <- IF settings.provider = "trading_economics" /\ Healthy(snap)
              THEN snap.success ELSE Never,
    verdict <- [s \in Symbol |->
        IF settings.provider = "trading_economics" /\ verdict[s] = "cleared" THEN "cleared"
        ELSE IF verdict[s] = "unasked" THEN "unasked" ELSE "blocked"]
KeepsPromise == Promise!Spec

=============================================================================
