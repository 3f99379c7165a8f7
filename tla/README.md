# A TLA+ model of the MT5 trading bot

The repository is an unattended trading engine: a market loop turns completed candles into
candidate signals, passes them through a risk engine, sends at most one order per signal to a
MetaTrader 5 terminal and records the outcome in a database. What makes it correct is not the
arithmetic of its strategies but what several engine processes, their threads, crashes, timeouts and
a terminal that may be unreachable do to the rows they share. That is what this project models.

Contents: [parts of the system](#the-system), [modules](#the-modules), [runs](#the-runs),
[fairness](#fairness), [proofs](#the-proofs), [disagreements found](#where-code-and-text-disagree),
[what is left out](#what-is-not-modelled), [plan](#plan).

## The system

| Part | State it keeps | Operations | Correct when |
|---|---|---|---|
| Market loop, `services/scheduler.py` | the loop thread, the stop event, the process lock, `running`, `leader`, `standby`; the row `scheduler_locks` | `start`, `stop`, `_loop`, `run_once`, lease acquire, renew, take over, release | one cycle at a time per process, no living leader pushed out, a dead one replaced |
| Candidate path, `scheduler._submit_candidate`, `execution/service.py` | rows `signals`, `trades`, `execution_guards` | persist, reject, preflight, reserve, send, finish, complete | one order per signal ever, and none after a final status; books that never claim more than the broker did |
| Live authorization, `risk/state.py`, `risk/authorization.py` | row `one_trade_authorization` | consume (one conditional UPDATE), re-authorize by hand | no order without an authorization of its own |
| Bot lifecycle, `services/bot.py`, routes of `main.py` | `BotStatus.state`, the persisted emergency lock | `start`, `stop`, `emergency_stop`, `emergency_reset`, `refresh_state` | the lock stops orders and ends RUNNING; states mean what they say |
| Risk state, `risk/state.py` | one row per day: P/L, peak equity, lock, kill switch, trade count | `load` (inherits), counters, lock and latch writes | limits survive restarts and midnight |
| Risk engine, `risk/engine.py`, `risk/sizing.py` | none, but it persists lock and kill switch | `assess`: 21 checks | nothing is approved that a check forbids |
| Reconciliation, `services/reconciliation.py` | `trades`, `risk_state`, `execution_guards`, `signals` | group deals, match, apply, retire stale guards | P/L booked once and completely; only unsent reservations retired |
| Protection, `execution/service.py` | the live position | read back, repair, close | no report of protection is false; what was checked stands protected |
| News gate, `news/*.py`, `mql5/*.mq5` | cached calendar, bridge file | refresh, restore, decide | stale or missing data blocks |
| Market data, strategies, ensemble | none | pure functions of candles | only completed candles, deterministic votes |
| Gateway, `mt5/gateway.py` | connection flag | reads and `order_send` | unreadable is told from empty |
| Levels and sizing, `scheduler._levels`, `risk/sizing.py`, `execution/validation.py` | none | pure functions of signal, tick and specification | the loss at the stop is within the budget |
| Engine service, `runtime/engine_service.py` | stop flag | serve, restart, resume | a stop is final, a crash is not |

How they interact. API requests run on a pool of threads of the engine process and call `BotService`,
which calls the scheduler's `start` and `stop`; the scheduler runs its own daemon thread. The two share
plain Python attributes without a lock; only a cycle is under `scheduler._lock`. The loop calls risk
engine, execution service and reconciler in one thread and one database session. Engine processes meet
only in the database (unique keys, one conditional UPDATE, the lease row) and at the broker.

What is hard in it, each point with its line in `PROJECT.json` under `hazards`:

* two processes on the order path when the lease has failed, and one process racing its own restart;
* a crash between a broker call and the commit that records it; an answer that never arrives;
* rows read in one statement and overwritten in another: lease takeover and release, signal status,
  guard retirement;
* an API request that waits 10 s for a thread and goes on without it, and a later `start` that wakes
  the leftover thread up again;
* the emergency lock, read once per candidate and persisted by whoever notices first;
* a terminal that answers "nothing" when it is disconnected, and refuses by a code what it has done;
* midnight: rows of the risk state per day, made by whoever asks first, and what a day inherits;
* candidates of one scan that are judged by the positions as they were before it;
* results booked by repeated runs over a sliding window of deals, with crashes between two commits;
* a calendar that reaches the engine through a file another program writes, with two clocks, and a
  cache that must not clear anything after a restart;
* an order whose protection is lost, and reads that do not list it yet.

## The modules

| Module | Models | Status |
|---|---|---|
| `OrderLedger` | the abstract promise of the order path, counting every call: one order per signal, one authorization per live order | complete |
| `OrderExecution` | the candidate path, the authorization, what reconciliation writes over trades and guards, any number of processes | complete, with proofs |
| `SchedulerLease` | the loop, its threads, the process lock and the lease row, with time | complete, with proofs |
| `BotLifecycle` | bot states and emergency lock over concurrent requests and loop threads | complete, with proofs |
| `CalendarPromise` | the abstract promise of a news provider: cleared only by a calendar of its own that is fresh | complete |
| `CalendarGate` | the ruling on a symbol that both calendar providers share | complete |
| `NewsBridge` | the MQL5 exporter, the bridge file, `Mt5CalendarProvider`, its cache, and the cycle that asks it | complete, with proofs |
| `NewsService` | the HTTP calendar with its cache, the static file, `build_news_provider` | complete, with proofs |
| `RiskSession` | the rows of `risk_state` per day under cycles, bookings, API sessions and midnight | complete, with proofs |
| `Booking` | deals to positions to rows to booked results: `Reconciler.run` | complete, with proofs |
| `Sizing` | levels, stop validation, volume, margin as functions | complete, with proofs |
| `EntryGuard` | one entry from its levels over the fill to the protection check | complete, with proofs |
| `OrderExecutionProofs`, `SchedulerLeaseProofs`, `BotLifecycleProofs`, `NewsBridgeProofs`, `NewsServiceProofs`, `RiskSessionProofs`, `BookingProofs`, `EntryGuardProofs` | the theorems | |
| `MC...` | instances for TLC, with their values and symmetry sets | |

A step is everything the code does between two points where somebody else can see or change the state
it uses: two commits, a statement on a shared row, a broker call, or two accesses to an attribute that
another thread writes. Each action is one such stretch of a function and carries its name;
`PROJECT.json` maps it to its lines. An operator with a comment that starts "Fault:" is a plausible
defect of the definition below it. It is no part of the specification; it is there to show that the
property it is listed with in `PROJECT.json` (`mutants`) would notice.

How the modules divide the system: `OrderExecution` asks whether an order is sent, `RiskSession` how
many, `EntryGuard` with what levels, `Booking` what it came to, `NewsBridge` and `NewsService` when
none may be sent, `BotLifecycle` and `SchedulerLease` who may ask at all. Each reduces the others to a
choice it does not restrict. `NewsBridge` and `NewsService` extend `CalendarGate` and instantiate
`CalendarPromise`; `EntryGuard` extends `Sizing`; `OrderExecution` instantiates `OrderLedger`.

**OrderExecution.** Rows become functions of the signal: `sig`, `trade`, `guard`. `broker` is what the
broker really holds, which the code cannot see; `outcome` is the answer on its way to `_finish`. The
code uses the signal identity as signal id, trade id and idempotency key, so one index serves all
three. `aged` and `guardAged` say that `stale_guard_seconds` have passed; the age of a guard is forgotten
(`ForgetGuardAge`) once it is no longer PENDING, as nothing asks for it any more. `sends`, `grants`,
`held` and `paid` are history variables: no guard reads them but the bound on grants. Everything in
`submit` that may refuse an order before anything is reserved is one choice in `Submit`; the other
twenty checks of `assess` are one choice in `Assess`. `Answers` is how `submit` classifies what comes
back, by what the broker really holds: no retcode is FAILED, and every retcode it does not know as
accepted, a time-out included, is REJECTED, also for an order that exists. `ApplyRow` is what
reconciliation writes on a trade row whose position has exits, the signal untouched; which row that is, is
`Booking`'s subject, so here it may be any row `_match` considers. `ReconcileRead`, `JudgeGuards` and
`RetireGuards` are the guards; a read that answers `None` ends the run without them. `Crash` stands both for the death of the process
and for an exception that `run_once` swallows: what is committed stays, what is local is lost.

**SchedulerLease.** A process is one incarnation, because `owner` is drawn anew in `__init__`. `loc`
says where each thread is; a thread may be left over from a `stop` that timed out. `age` and `delay`
are relative clocks: the heartbeat written is the `now` of the writer's own cycle start, which is
`delay` old by then. `Hardship` says which of three adversities an instance admits. `MaxPeriod` bounds
how long a cycle or a `stop` takes in ticks; the code has no such bound and compares it with nothing,
so an instance says what it assumes.

**BotLifecycle.** `pc` is where each request is, `loc` where each loop thread is. A request is cut at
its database reads and writes and around the join. A loop is reduced to what the lock is about: the
gate at the start of a cycle, the account test of a symbol (which may persist the lock), the risk
check (which reads it, and persists it at the drawdown limit), the send. Closing positions and
cancelling pending orders in `emergency_stop` is left out: neither touches the states or the lock.
`late` counts orders sent while the lock is persisted. It is history.

**CalendarGate, NewsBridge, NewsService.** A symbol is the pair of codes its name is made of, a row a
record of currency, impact and instant. In `NewsBridge` the engine and the terminal share a machine
and so its clock, which also stamps the file; what the terminal takes for UTC may be off by `skew`, and
then the heartbeat and every exported instant are, by as much. `file` is the bridge file as the
provider can tell it: missing, not what the exporter leaves, or a status, a heartbeat, its own time and
rows. The exporter replaces the file in one move, so there is no torn one among its own; a spoiled one
is another program's. `moment` is the `now` that `_run_cycle` takes once and hands to every
`decision`, while `clock` goes on. `published` and `listed` say since when the maker of the calendar
knows of a release: that is what a gate can be held to. In `NewsService` a row is about a currency that
it need not say; `Attributed` is what the code can make of it. `Build` reads the settings as they are
when the engine starts, so a restart may change the provider.

**RiskSession.** `row` holds one `RiskStateRecord` per day and `filed` which exist; `Load` is what
`load` returns for a day, inherited or stored. One loop, because the lease is another module's subject;
an API session that has read and not yet inserted the new day's row is `reader`. A cycle keeps the day
it began on (`today`), which is what the mismatch lock is filed under, while every other write takes
the day it is. `context` is what one scan read; `complete` says whether `positions()` listed every position then. An
accepted order is a position at once, whether it is filled or still PLACED, and "unlisted" is every way
in which the list falls short: `()` without a connection, a fill that shows up late, a pending order.
Money, equity and drawdown are units; `Drawdown` stands for the percentage of the peak. `locks` remembers
how the lock was set since the last reset, `top` the highest equity ever assessed, `sent` and `lost` the
orders that opened a position and those that could not be counted.

**Booking.** `deals` is the broker's history per position, `rows` the committed trade rows, `view` the
same rows in the session of a run, which commits them piecemeal: `add_realized_pnl` commits everything
pending, and `load` commits before it when it has to make the day's row. So an amount with a new day is
two steps (`ApplyClosed`, `Book`) and a crash may come between them. A deal is named by its place in the
position's history, and a row holds `tickets` of one position: those of the order that was answered, and
later those `_apply` writes. `Known` are the deals in the window; a position is built from these
alone, and only a ticket among them matches a row. Time is in instants, of which `Date` gives the day;
`Lookback` and `MatchWindow` count instants, so two that are within the match window may lie on either
side of the start of the lookback. A deal is the bot's `own` or carries another magic number, which is how
a position closed by hand leaves the account (`ByHand` are the positions it may happen to); `group_deals`
sees only the former. All rows are of one symbol and one volume, the default cap of 0.01 lots leaving no
choice: the volume then keeps a position that is seen in part from a row, never a whole one. `moved` marks
a row that was handed to another position than it had. `waived` of a row is what was stored while the
position was open; `split` what a crash between two commits lost; `news` and `fresh` say whether a run has
read anything the last completed run had not.

**Sizing, EntryGuard.** Volumes, prices and money are natural numbers of a small unit, a float quotient
is a pair, 0 stands for `None`. `Levels` and `ValidStops` are the code's functions with their refusals.
Without an entry in the signal the levels are anchored at the middle of the tick. `EntryGuard` takes one
order through `_levels`, the sizing checks of `assess`, `submit`, which reads the specification again, the
fill and `_verify_protection`. Another position of the bot may stand on the symbol, which a second
candidate of a scan is not told of. The fill is taken to be within the deviation asked for; a broker with
market execution may ignore that, and then `RiskBounded` is short by the difference. `assessed` is the
specification the order was sized with. `excuse` remembers what kept the check from doing its work: no
answer or PLACED, which are never verified; cut short by a crash or a statement that raises; `positions()`
failing, which at the second read leaves without the close, or leaving the position out; a close that was
not done. Both are history.

## The runs

| Run | Instance | Shows |
|---|---|---|
| `order_race` | 2 processes, 2 signals, live, 2 authorizations | `AtMostOneSend`, `OneSendPerGrant`, `NoInventedTrade`, and `OrderLedger` implemented. 1.9 million states |
| `order_single` | 1 process, 2 signals, fair | `SignalReflectsOutcome`, `OwnRefusalsUnsent`, `OnlyOpenSignalsSent` across crashes, retries, closed trades and retirement; `PendingResolved` |
| `lease_prompt` | 2 processes, TTL 3, cycles of at most 1 tick, no hardship, fair | `StaleMeansCrashed`; `LeaseRecovered` after crashes |
| `lease_threads` | 1 process, 2 threads, every hardship, fair | `OneCyclePerProcess`, `LeaseRecovered` although statements fail |
| `bot_lock` | 2 requests, 2 loop threads, every hardship, fair | `AtMostOneLateOrder`, and `LockEndsRunning`. 0.2 million states |
| `news_bridge` | 1 symbol, 2 releases, one of which the terminal may fail to read; a terminal clock ahead by 1 or by 2; horizon 5; every hardship | `ClearedIsSafe`, `RecoversPromptly`, and `CalendarPromise` implemented. 1.5 million states |
| `news_service` | 2 symbols, 3 rows (without any attribution, known by country, of low impact), 3 settings, horizon 6 | `ClearedIsSafe`, and `CalendarPromise` implemented. 1.1 million states |
| `risk_session` | 2 days, equity 1 or 2, limits of 1 position, 2 trades, 1 unit, 2 candidates; another account, aborts, lost answers, incomplete lists | `LockStands`, `DailyLimit`, `ScanOvershoot`, `DrawdownStops`. 7.5 million states |
| `booking` | 2 positions closed in up to 2 parts, one of them perhaps by hand, 2 rows, 3 instants on 2 days, a lookback of 1 instant, a match window of 1, every hardship | `Balanced`, `OncePerPosition`, `BooksAgree`, `Idempotent`. 4.0 million states |
| `entry` | 5 signals, 2 specifications, 2 margins, every hardship | `RiskBounded`, `NeverUnprotected`, `OtherLeftAlone` |

and two runs that end in a violation, `order_blind_retirement` and `risk_midnight`, described below.

Bounds, and why they are enough. Conflicts on the order path are between two processes on one signal
(duplicate send) or two signals on one authorization, hence two of each; the theorems remove the bound
for the safety properties. One process is what `order_single` is about: with two, its properties are
false. Two live grants let an order be refused, paid and paid again. `lease_prompt` has three cycles per
TTL, the least with which the property holds (the defaults are 300 s against cycles of seconds); with
three incarnations it was checked too, outside the runs. Two loop threads are a leftover and its successor; a third adds no new pair. `MaxLate` stops counting at two because
the property is about the second late order.

In `news_bridge` the tolerance is 1: a terminal 1 ahead passes the validation and one 2 ahead must not;
both occur, and the clock may be set from one to the other. The window of 2 around the release at 5 is
entered before the horizon, by a cycle that may last 1; the file may age past its limit of 1, and the
intervals differ, so a retry and a regular read are told apart. `Opaque` is the release of low impact:
the exporter may drop it, or its currency, and still say OK, next to one that it reads and that must not
be lost with it. In `news_service` one high impact row carries nothing to attribute it by, which is what
the malformed answer is for, and one has only its country.

In `risk_session` two days are one midnight, which a lock, a peak or a cycle can straddle. `MaxOpen` 1
and two candidates are the smallest scan that can overshoot; `MaxPositions` 3 lies beyond what a scan
that saw every position may reach, and is reached by those that did not. Results of -1 reach the loss
limit at once.

In `booking` two rows and two positions make every wrong pairing. Three instants with a lookback of one
let an entry leave the window before its exit arrives or while that is still in it, and let two deals that
are within the match window of each other be one inside and one outside; the first two instants are of one
day, the third of the next. Rows without a ticket arise at each of them for the fallback to choose, and a
volume of two allows for a part. One of the positions may be closed by hand, so that a row may be told of
none, some or all of the exits. The amounts (exit -2, each deal -1) make every lost, doubled or
misattributed deal visible in a sum. In `entry` the distances are no multiples of the steps, the two
specifications differ in step, tick value and stops level, the budget of 25 is a whole number of neither,
one target falls below zero and one signal names no entry. The theorems remove the bounds of every run for
the safety properties, and say what the bounds stand for.

Deadlock is checked in every run.

## Fairness

* `OrderExecution!Fairness`: a candidate at hand is worked on (an exception or a crash may still end it),
  and guards grow old. Nothing is assumed of reconciliation: a cycle returns before it as long as the
  emergency lock is persisted (scheduler.py:310-313), and `None` from the broker leaves the guards alone.
  `PendingResolved` says therefore what follows if it gets to its end again and again. A signal is never
  assumed to be produced.
* `SchedulerLease!Fairness`: threads run (weak), time passes (strong, because a slow thread may hold a
  tick back), and the statements on the lease row succeed now and then (strong). Neither `start` nor
  `stop` is assumed to be called, nor a crash to be absent.
* `BotLifecycle!Fairness`: a request under way returns, threads run, a cycle ends, and the status is
  polled for ever: the dashboard asks for it on a timer. Strong fairness of the read, because other
  requests of the same caller take turns with it.

The other modules state safety only. `RecoversPromptly` is the recovery of the news gate with its
deadline, as a bounded, and so a safety, property.

## The proofs

Each holds for every value of the constants, under the assumptions that the modules name.

`OrderExecutionProofs`, for every number of processes, signals and grants, under
`NoSignalAssumption`, `LiveAssumption` and `MaxGrantsAssumption` only:

* `TypeCorrect`: `Spec => []TypeOK`.
* `AtMostOnce`: `Spec => []AtMostOneSend`. `AtMostOneSend` is not inductive: nothing in it says why a
  process at `send` is entitled to. `FenceInv` adds that the guard of a sent signal exists, that a
  process between reservation and answer finds the guard of its candidate present, that no two
  processes are there for one signal, and that nothing was sent yet for a signal with a process at
  `send`. The guard never becomes absent again, retirement included, so the unique key keeps the rest out.
* `OneTradePerAuthorization`: `GrantInv` numbers the authorizations. Each is held by at most one
  process or has paid for at most one order, and an unspent authorization is held by nobody.
* `RecordsAreHonest`: `HonestInv` relates the answer in flight to what the broker holds.
* `ImplementsLedger`: `Spec => LedgerSpec`. The ledger counts the calls of `order_send` as the code makes
  them, so a second one for a signal is no step of it. A step that sends maps to `Send`,
  `AuthorizeOneTrade` to `Grant`, everything else to a stutter; that the signal has no order yet comes from
  `FenceInv`, and that an authorization is left because `paid` is an injection of the signals sent into
  the grants given (`SentBelowGrants`).

Three more are about a single process across its crashes, `Alone` (`\A p, q \in Proc : p = q`), as the
market lease leaves one on this path; with two they are false (see below):

* `SignalsReflect`: `Alone => (Spec => []SignalReflectsOutcome)`: the signal shows the answer that was
  recorded, and an accepted or unknown answer still after reconciliation has closed the trade.
  `RefusedMeansUnsent`: the same for `OwnRefusalsUnsent`. `SoloInv` joins the two with what a candidate at
  hand implies: its signal is open or already shows the trade (`OpenAtHand`), its reservation is its own
  (`KeyAtHand`), and what a reconciliation is about to retire was judged while nothing was under way
  (`JudgedFairly`).
* `SentWhileOpen`: `Alone => (Spec => OnlyOpenSignalsSent)`.

`SchedulerLeaseProofs`, under `TimeAssumption` and `NobodyAssumption`:

* `LeaseTypeCorrect` and `OneCycleAtATime`, for any processes, threads, TTL and hardship. The invariant
  `LockHeld` says that the thread inside a cycle is the one `busy` names.
* `OnlyCrashedReplaced`: `Timely => (Spec => StaleMeansCrashed)`, for any number of incarnations. `Timely`
  is no hardship and a TTL of at least three periods. `LeadInv` says that a process has one loop (`Alone`),
  that an owner which has not crashed has one or is giving the lease back (`Kept`), that who is about to
  write its name into the row is not in it (`Aspirant`), and that the heartbeat of such an owner is at most
  one period older than its latest cycle, and one more until that renews it (`Recent`): a former owner's
  late UPDATE may put an older heartbeat into the row. Hence three periods; with two, TLC finds a living
  leader pushed out. The theorem does not say that one process scans at a time: that is false (see below).

`BotLifecycleProofs` proves `TypeCorrect` and `OneLateOrder`, for any number of requests and threads.
The invariant joins two facts: only the thread that holds the process lock is inside a cycle
(`OneCycle`), and a late order was the last (`LastWasLate`): none is late while the lock is clear, and
once one was, no thread is past its risk check. A leftover thread cannot bring a second, because it
takes the process lock as well.

`NewsBridgeProofs`:

* `TypeCorrect`, and `PromiseKept`: `Spec => KeepsPromise`, the refinement of `CalendarPromise`. Reads
  and rulings map to `Begin` and `Answer`; a refresh in the middle of a cycle is impossible because the
  first one, with the same `now`, has left nothing due. That is the invariant it rests on, together with
  the age of what a healthy provider read.
* `ClearanceSafe`: `Spec => []ClearedIsSafe`, with every hardship. The argument follows a release from the
  terminal's calendar through the file into the rows of a healthy provider: a file that passes the
  validation was written at most `MaxAge + Tolerance` before, by a clock at most `Tolerance` off, and holds
  every row published before that the terminal can read, shifted by as much as the clock was off. The
  property leaves out what the code does: a release the terminal cannot read (`Opaque`), and a file
  without a time, whose heartbeat is compared with nothing.
* `OutageIsShort`: `Spec => []RecoversPromptly`. A failed attempt lies in the past of clock and cycle
  (`AttemptPast`), and a file written before it that is still there was not readable then
  (`FailedForAReason`); so the wait after the last failure is over `RetryEvery` after the file is back.

`NewsServiceProofs`, for any rows, limits, settings and failures: `TypeCorrect`, `ClearanceSafe` (`Spec =>
[]ClearedIsSafe`) and `PromiseKept` (`Spec => KeepsPromise`), which is also what keeps a restored cache
from clearing anything. One invariant carries them: a healthy provider has a `success` of this process
that is not in the future and every row the service listed by then (`Complete`), as an answer with a row
that cannot be attributed is refused as a whole.

`EntryGuardProofs`:

* `SizeWithinBudget` and `NormalizedOnce` are about the sizing functions: the derived size fits the
  budget and the broker's bounds, and normalising it once more changes nothing.
* `TypeCorrect`; `BudgetKept`: `Spec => []RiskBounded`, from the invariant that an order in hand fits
  the budget under `assessed` and that what stands is no larger, filled within the deviation.
* `ProtectionKept`: `Spec => []NeverUnprotected`, through crashes, raising statements and reads, PLACED and
  lost answers: a check that ran to its end leaves the position protected or one of the excuses behind, and
  no report of protection is false. `OthersKept`: `Spec => OtherLeftAlone`. `InHand` ties `target` and `pc`
  to what the check has in hand.

`RiskSessionProofs`, for any days, limits, results and hardships:

* `TypeCorrect` from `BaseInv`, which adds that no row is filed ahead of the clock, that the rows have a
  latest one and that a cycle's day has its row.
* `LockSurvives`: `Spec => []LockStands`. A lock need not be in the row of the day it is, because that row
  may not exist, and a reader may be about to insert one. `KeptInv` therefore speaks of what `Load`
  returns and of the reader's row: both know of every prompt lock and of the highest equity, unless, for
  the reader's, a later row is ahead of it. What is filed under another day cannot undo that
  (`StoreLoad`).
* `DrawdownObeyed`: `Spec => DrawdownStops`, from the peak in `KeptInv`.
* `OvershootBounded`: `Spec => ScanOvershoot`; each order of a scan that saw every position uses up one of
  its candidates (`Spent`), whatever was open or left out in other scans.
* `LimitObeyed`: `Spec => []DailyLimit`; `Counted` says by how much the row of the day may fall short of
  the orders sent: those lost, and the one being registered.

`BookingProofs`, for any positions, rows, instants and their days, windows, volumes, results and hands:

* The lemmas before `TypeCorrect` are about sums over deals and rows and about the pairing `_match` makes.
  Both are recursive functions on an interval. Induction over such a function is proved here from the
  well-foundedness of the naturals in the form of sets (`Induction`, `Iteration`), which needs no operator
  as a parameter. `Pairing` is the loop invariant of the fallback: each row and each position at most once,
  a position with a ticket goes to the first row that holds one, and a row that is left over has no
  position left to take.
* `TypeCorrect` from `BaseInv`, which adds the form of a position's history (one entry, then exits of no
  more than its volume) and that what is to be applied was built from a part of it.
* `BooksBalance`: `Spec => []Balanced`; the session's rows state as much as the committed ones.
* `StatedOnce`: `Spec => []OncePerPosition`. `OnceInv` says that a row holds its position's entry ticket,
  that two rows are of one position only once its entry has left the window, and that then one was
  never told of an exit. That survives the fallback because a position rebuilt from less than all of
  its exits has less than a row's volume.
* `RunsRepeat`: `Spec => Idempotent`. After a completed run everything found has its place (`Placed`), and
  `_match` on such rows finds only pairs that change nothing (`SamePlace`), although it may find fewer.
* `BooksTrue`: `Spec => []BooksAgree`, which is about rows that had no other position and whose position's
  entry is in the window, and so all its deals. `RowTold` says that in an up-to-date state such a row
  states what the position's own deals come to and is told of an exit if and only if there is one:
  `Matched` finds the row by its entry ticket, and `Placed` makes what it finds what the row states.
  `RowEarned` says that then what the row states less what it waived is what it earned: the cost of the
  entry is waived or not, nothing else ever (`RowKept`). `BooksBalance` carries the sum over the rows to
  what is booked.

Only model-checked: `PendingResolved`, `LeaseRecovered` and `LockEndsRunning`, which are liveness under
fairness and beyond the proof system. Every other property of a passing run is a theorem.

## Where code and text disagree

Two runs end in a violation, with the quotation in `PROJECT.json` under `findings`.

1. `order_blind_retirement`. The order is at the broker, the process died before recording it, and the
   reconciler runs while the terminal is disconnected: every read answers `()`, which is not `None`,
   so the guard is retired and the signal abandoned.
2. `risk_midnight`. A cycle begins before midnight. After it, an API request materialises the new day's
   row, unlocked. The cycle finds another account and files lock and kill switch under the old day; the
   next cycle reads the new row.

The following were seen while modelling; no run keeps them.

* With two processes on one signal, `_reject_signal` (scheduler.py:620-626) writes the row it read
  earlier: A inserts the signal and dawdles past `stale_guard_seconds`, B reads it as retryable, A
  executes, B is refused because the trade exists and overwrites EXECUTED with RISK_REJECTED.
  execution/service.py:408 says the persisted signal always reflects the outcome. With one process it
  reflects the answer recorded, and no more: `_apply` closes a trade, even one that is FAILED, without the
  signal (reconciliation.py:302-323).
* Every retcode but DONE, DONE_PARTIAL and PLACED is recorded as REJECTED (service.py:170-171), those of a
  time-out and of a lost connection too: an order that was filled may be on the books as refused. And a
  crash before the answer is recorded leaves a signal that a retry marks RISK_REJECTED, or reconciliation
  ABANDONED, for an order that exists. `OwnRefusalsUnsent` is what is left: of the trades marked REJECTED,
  the bot's own refusals were never sent.
* The lease takeover (scheduler.py:720-727) has no condition on the owner it read: the leader crashes,
  two standbys read the stale row, both update it and both scan. And `stop` deletes the row by its key
  after reading its owner (729-733): the row deleted may be that of a new leader, beside which a third then
  inserts its own. scheduler.py:12-15 promises exactly one.
* README.md:91 promises "One position at a time", and engine.py:442 speaks of one. The candidates of one
  symbol's scan are all assessed by the positions read before it (`ScanOvershoot` is the bound that leaves),
  and that list is `()` without a connection (gateway.py:51, scheduler.py:411-414), does not hold a fill
  the terminal does not list yet, and never a PLACED order. With those there is no bound but the daily one.
* `emergency_stop` waits 10 s for the cycle at most, so an order past its risk check leaves after the
  call has returned, where bot.py:12-13 says that new orders are blocked. It is one order at most
  (`AtMostOneLateOrder`).
* The loop itself persists the lock (account, drawdown), a status poll turns RUNNING into
  EMERGENCY_LOCKED, and `emergency_reset`, guarded by the reported state, is accepted while the loop
  runs; the bot then reports STOPPED with a running loop.
* `stop` that cannot read the risk state leaves DEGRADED; the next poll reads a healthy terminal and
  reports RUNNING without a loop.
* A commission stored while a position is open is never booked (reconciliation.py:318-327), because
  `before` has it already when the position closes. `Balanced` and `BooksAgree` say how much that is.
* `load` commits the changed rows of a run before the amount that belongs to them
  (state.py:67-68 from `add_realized_pnl`); after a crash in between no later run finds a difference.
* reconciliation.py:9-12 promises that what is booked keeps reflecting reality. When the entry deal of a
  closed position leaves the window before the exit, the position is rebuilt from the exit alone: the row
  is overwritten with the exit's time and result, and the entry's cost, booked before, is taken back on
  the day of the exit (two runs, one midnight apart). `BooksAgree` ends where the entry leaves the window.
* A position closed after its entry has left the window has no ticket its row knows, as `position_id` is
  not among the tickets (reconciliation.py:173), and opens, for the fallback, with its exit: the row is
  never told, though reconciliation.py:3-7 has the broker's exit overwrite it. Its result is booked only
  if a row of another order fits by time.
* A row whose deals have just left the window is matched by nothing, and the fallback (reconciliation.py:
  286-297) hands it to a position without a row that was opened within the match window of it and is still
  in the lookback: its tickets, times and result are overwritten and the difference is booked. What it had
  booked is so replaced, once (`OncePerPosition`, `Balanced`), by the other's result; `moved` marks the row.
* A position closed by hand, or a part of it, is closed with another magic number, which `group_deals`
  ignores (146-148): the row stays open or partly closed for good, where reconciliation.py:9-12 says that
  the risk state reflects reality.
* `_find_position` (service.py:364) says `MAX_OPEN_POSITIONS=1` makes a lone position unambiguous, but
  several candidates of one scan may open several (`ScanOvershoot`), and with `positions()` not listing
  the new one yet the other is modified or closed (`OtherLeftAlone` names that as the only way).
* README.md:118-121 and service.py:305 say that an unprotected position is never left standing. It is when
  the answer of the order was lost; when it was PLACED (service.py:168-169), which is never verified; when
  the process ends or the commit of `_finish` raises between fill and check (165-166, 291-292); when
  `positions()` fails, the second read leaving without a close (339), or does not list the position; and
  when the close is refused, which `closed = ... is not None` (350) counts as closed. `NeverUnprotected`
  holds of what is left, and of what is reported as verified or corrected in any case.
* The exporter drops an event whose description it cannot read (XdigitexCalendarBridge.mq5:318-322) and
  the currency of one whose country it cannot read (246-253), counts no failure for either, and says OK;
  the parser then drops a row without a currency (mt5_calendar.py:277-282), whatever its impact. The HTTP
  parser refuses the whole calendar for such a row. `ClearedIsSafe` is about the releases that are read.
* A bridge file without a readable modification time is accepted without comparing the heartbeat with
  it (mt5_calendar.py:235, 426-430), so a wrong clock of the terminal passes; `ClearedIsSafe` is about
  readings that were compared.

## What is not modelled

Prices, indicators and the formulas of the strategies (numeric, no state): any set of candidates may
come out of them. The checks of `assess` that only refuse (spread, exposure, margin level, gaps,
hours) are one choice. The dashboard, migrations, read-only routes and reports; `dry_run.py`, which
sends nothing; configuration, whose values are the constants; logging and audit rows, which nothing
reads back; backtesting. The engine service only starts the engine again and calls `start`: both are in
`BotLifecycle` as a crash and a request, its stop flag is not. The MetaTrader5 library is external:
`order_send` acts at most once per call and may or may not answer. Database transactions are taken as
PostgreSQL runs them here (read committed, unique keys and single statements atomic). In
`BotLifecycle` the risk state is one row, because midnight is `RiskSession`'s subject, and `initialize`,
`login` and `shutdown` of the terminal are only their outcome. `NewsBridge` reads the bridge file and its
modification time in one step. `Booking` has one symbol and one volume, and takes reconciliation to run in
the loop that also opens positions. `EntryGuard` takes a fill to be within the deviation of the order.

## Plan

Done: every module of the table above, and a theorem for each of their safety properties. Left:

1. `EngineService` (restart, stop flag) as a composition with `BotLifecycle`.
2. Pure functions against reference definitions: completed candles (`market.py`), the ensemble's
   votes, `net_pnl` and the statistics of `analytics.py`.
