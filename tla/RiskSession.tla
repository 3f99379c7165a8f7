------------------------------ MODULE RiskSession ------------------------------
(***************************************************************************)
(* The persisted risk state, one row per day, and who reads and writes it: *)
(* RiskStateStore (risk/state.py), the stateful checks of RiskEngine       *)
(* (risk/engine.py), the market cycle around them (services/scheduler.py)  *)
(* with the reconciliation that books results, and API sessions.           *)
(*                                                                         *)
(* One loop runs; that another one may, is SchedulerLease's subject.  A    *)
(* step is what happens up to a point where the loop may be interrupted or *)
(* overtaken by midnight, by the market or by a request.  Money, equity    *)
(* and drawdown are counted in units, and an accepted order is a position  *)
(* at once, though positions() need not list it.                           *)
(*                                                                         *)
(* Operators introduced by "Fault:" are not the code and not part of the   *)
(* specification, as in OrderExecution.                                    *)
(***************************************************************************)
EXTENDS Integers, FiniteSets

CONSTANTS
    LastDay,        \* bound: days are 1..LastDay
    Equity,         \* amounts the account's equity may have
    MaxOpen,        \* settings.max_open_positions
    MaxTrades,      \* settings.max_daily_trades
    LossLimit,      \* settings.max_session_loss_usd
    Drawdown,       \* the loss from the peak max_drawdown_pct stands for
    MaxCandidates,  \* candidates the strategies produce for one symbol at once
    MaxPositions,   \* bound: positions the broker ever holds at once
    Result,         \* what a position may bring when it closes
    MaxUnbooked,    \* bound: the size of a result that is not booked yet
    MaxLost,        \* bound: orders that could not be counted
    Hardship        \* which of Hardships may happen

Hardships ==
    {"account changes",  \* the terminal logs in to another account
     "account returns",  \* and back to the pinned one
     "abort",            \* a cycle dies: a crash, or a statement that raises
     "answer lost",      \* order_send acts without an answer that says so
     "unlisted"}         \* positions() leaves out positions: it answers () without a
                         \* connection, and a fill or a placed order shows up later

Day == 1..LastDay

ASSUME DayAssumption == LastDay \in Nat \ {0}
ASSUME EquityAssumption == Equity \subseteq Nat \ {0} /\ Equity # {}
ASSUME LimitAssumption ==
    /\ MaxOpen \in Nat \ {0} /\ MaxTrades \in Nat \ {0} /\ LossLimit \in Nat \ {0}
    /\ Drawdown \in Nat \ {0} /\ MaxCandidates \in Nat \ {0}
    /\ MaxPositions \in Nat /\ MaxUnbooked \in Nat /\ MaxLost \in Nat
    /\ Result \subseteq Int
ASSUME HardshipAssumption == Hardship \subseteq Hardships

VARIABLES
    day,       \* the wall clock's day
    filed,     \* days that have a row
    row,       \* the rows
    pinned,    \* the terminal is logged in to the account the operator pinned
    equity,    \* the account's equity
    open,      \* positions of the bot at the broker
    unbooked,  \* per day, results of closed positions no run has booked yet
    pc,        \* where the loop is
    today,     \* now.date() of the cycle, 0 between cycles
    context,   \* what the scan of a symbol read: the positions and the equity; and, as
               \* history, whether those were all the positions
    left,      \* candidates of that scan that are left
    reader,    \* an API session in load(): the row it is about to insert
    locks,     \* history: how the lock was set since the last reset
    top,       \* history: the highest equity ever assessed
    sent,      \* history: orders that opened a position, by day
    lost       \* history: of those, the ones that could not be counted

store   == <<filed, row>>
broker  == <<pinned, equity, open, unbooked>>
loop    == <<pc, today, context, left>>
history == <<locks, top, sent, lost>>
vars    == <<day, store, broker, loop, reader, history>>

\* RiskStateRecord; a peak of 0 is a peak not observed yet.
Row == [pnl : Int, trades : Nat, peak : Nat, locked : BOOLEAN, killed : BOOLEAN]

NoContext == [open |-> 0, equity |-> 0, complete |-> TRUE]

Fresh  == [pnl |-> 0, trades |-> 0, peak |-> 0, locked |-> FALSE, killed |-> FALSE]
\* A lock set under the day it is, or under that of a cycle begun before midnight
Setting == {"prompt", "late"}
Place  == {"idle", "scan", "assess", "submit", "register"}

TypeOK ==
    /\ day \in Day
    /\ filed \subseteq Day
    /\ row \in [Day -> Row]
    /\ pinned \in BOOLEAN
    /\ equity \in Equity
    /\ open \in Nat
    /\ unbooked \in [Day -> Int]
    /\ pc \in Place
    /\ today \in Day \cup {0}
    /\ context \in [open : Nat, equity : Equity \cup {0}, complete : BOOLEAN]
    /\ left \in 0..MaxCandidates
    /\ reader \in {<<>>} \cup (Day \X Row)
    /\ locks \subseteq Setting
    /\ top \in Nat
    /\ sent \in [Day -> Nat]
    /\ lost \in Nat

Init ==
    /\ day = 1
    /\ filed = {} /\ row = [d \in Day |-> Fresh]
    /\ pinned = TRUE /\ equity \in Equity /\ open = 0
    /\ unbooked = [d \in Day |-> 0]
    /\ pc = "idle" /\ today = 0 /\ context = NoContext /\ left = 0
    /\ reader = <<>>
    /\ locks = {} /\ top = 0
    /\ sent = [d \in Day |-> 0] /\ lost = 0

-----------------------------------------------------------------------------
(* RiskStateStore *)

Latest == CHOOSE d \in filed : \A e \in filed : e <= d

\* Fault: a new day starts unlocked.
FaultyInherited ==
    IF filed = {} THEN Fresh ELSE [Fresh EXCEPT !.peak = row[Latest].peak]

\* load, for a day without a row: lock and peak come from the latest row, the
\* result, the count and the kill switch do not.
Inherited ==
    IF filed = {} THEN Fresh
    ELSE [Fresh EXCEPT !.peak = row[Latest].peak, !.locked = row[Latest].locked]

Load(d) == IF d \in filed THEN row[d] ELSE Inherited

Store(d, r) == filed' = filed \cup {d} /\ row' = [row EXCEPT ![d] = r]

\* add_realized_pnl, register_trade_opened, set_emergency_locked
AddRealizedPnl(d, amount)   == Store(d, [Load(d) EXCEPT !.pnl = @ + amount])
RegisterTradeOpened(d)      == Store(d, [Load(d) EXCEPT !.trades = @ + 1])
SetEmergencyLocked(d, lock) == Store(d, [Load(d) EXCEPT !.locked = lock])

\* set_kill_switch, on top of the lock that goes with it
Latched(r) == [r EXCEPT !.locked = TRUE, !.killed = TRUE]

\* Fault: the last equity is taken for the highest.
FaultyObserved(r, amount) == [r EXCEPT !.peak = amount]

\* observe_equity
Observed(r, amount) == [r EXCEPT !.peak = IF amount > @ THEN amount ELSE @]

-----------------------------------------------------------------------------
(* The cycle *)

\* The cycle is over, and its locals are gone.
Leave == pc' = "idle" /\ today' = 0 /\ context' = NoContext /\ left' = 0

\* _run_cycle: the lock ends it before anything is read.
BeginCycle ==
    /\ pc = "idle"
    /\ Store(day, Load(day))
    /\ IF Load(day).locked THEN UNCHANGED <<pc, today>>
       ELSE pc' = "scan" /\ today' = day
    /\ UNCHANGED <<day, broker, context, left, reader, history>>

\* _scan_symbol on another account: lock and kill switch are persisted one after
\* the other, under the day the cycle began on.
Mismatch ==
    /\ pc = "scan" /\ ~pinned
    /\ \/ Store(today, Latched(Load(today))) /\ UNCHANGED loop
       \/ "abort" \in Hardship /\ SetEmergencyLocked(today, TRUE) /\ Leave
    /\ locks' = locks \cup {IF today = day THEN "prompt" ELSE "late"}
    /\ UNCHANGED <<day, broker, reader, top, sent, lost>>

\* _scan_symbol on the pinned one: account and positions are read once for all
\* the candidates of the symbol; the positions need not all be listed.
ScanSymbol ==
    /\ pc = "scan" /\ pinned
    /\ \E listed \in 0..open :
         /\ listed < open => "unlisted" \in Hardship
         /\ context' = [open |-> listed, equity |-> equity, complete |-> listed = open]
    /\ left' \in 1..MaxCandidates
    /\ pc' = "assess"
    /\ UNCHANGED <<day, store, broker, today, reader, history>>

\* Fault: one candidate too many.
FaultyNextCandidate ==
    /\ left' = left - 1
    /\ IF left = 0 THEN pc' = "scan" /\ context' = NoContext
       ELSE pc' = "assess" /\ UNCHANGED context

\* The candidate at hand is done with.
NextCandidate ==
    /\ left' = left - 1
    /\ IF left = 1 THEN pc' = "scan" /\ context' = NoContext
       ELSE pc' = "assess" /\ UNCHANGED context

Fallen(r) == r.peak # 0 /\ r.peak - context.equity >= Drawdown

\* Fault: the limit itself is one trade more.
FaultyExceeded(r) == r.pnl <= -LossLimit \/ r.trades > MaxTrades \/ Fallen(r)

Exceeded(r) == r.pnl <= -LossLimit \/ r.trades >= MaxTrades \/ Fallen(r)

\* assess: the equity is observed after the peak was read; a limit reached
\* latches the kill switch, a drawdown the emergency lock with it.
Assessed(r) ==
    LET seen == Observed(r, context.equity)
    IN  IF Fallen(r) THEN Latched(seen)
        ELSE IF Exceeded(r) THEN [seen EXCEPT !.killed = TRUE] ELSE seen

\* Fault: one position more than the limit.
FaultyApproved(r) == ~r.locked /\ ~r.killed /\ ~Exceeded(r) /\ context.open <= MaxOpen

Approved(r) == ~r.locked /\ ~r.killed /\ ~Exceeded(r) /\ context.open < MaxOpen

Assess ==
    /\ pc = "assess"
    /\ LET r == Load(day)
       IN  /\ Store(day, Assessed(r))
           /\ \/ Approved(r) /\ pc' = "submit" /\ UNCHANGED <<context, left>>
              \/ NextCandidate
           /\ locks' = IF Fallen(r) THEN locks \cup {"prompt"} ELSE locks
    /\ top' = IF context.equity > top THEN context.equity ELSE top
    /\ UNCHANGED <<day, broker, today, reader, sent, lost>>

\* _submit_candidate hands the order over; one that is refused opens nothing, one
\* whose answer is lost is not accepted.
Opens ==
    /\ open < MaxPositions
    /\ open' = open + 1
    /\ sent' = [sent EXCEPT ![day] = @ + 1]

Lose == lost < MaxLost /\ lost' = lost + 1

Submit ==
    /\ pc = "submit"
    /\ \/ Opens /\ pc' = "register" /\ UNCHANGED <<context, left, lost>>
       \/ "answer lost" \in Hardship /\ Opens /\ NextCandidate /\ Lose
       \/ NextCandidate /\ UNCHANGED <<open, sent, lost>>
    /\ UNCHANGED <<day, store, pinned, equity, unbooked, today, reader, locks, top>>

\* register_trade_opened, when the order was accepted
Register ==
    /\ pc = "register"
    /\ RegisterTradeOpened(day)
    /\ NextCandidate
    /\ UNCHANGED <<day, broker, today, reader, history>>

\* The last symbol is scanned, and no reconciliation is due.
EndCycle ==
    /\ pc = "scan" /\ Leave
    /\ UNCHANGED <<day, store, broker, reader, history>>

\* Or one is: the results found are booked on the day each position closed on.
Reconcile ==
    /\ pc = "scan"
    /\ \E d \in Day :
         /\ unbooked[d] # 0
         /\ AddRealizedPnl(d, unbooked[d])
         /\ unbooked' = [unbooked EXCEPT ![d] = 0]
    /\ Leave \/ UNCHANGED loop
    /\ UNCHANGED <<day, pinned, equity, open, reader, history>>

\* run_once: an exception or a crash ends the cycle anywhere; the next process
\* has nothing but the rows.
Abort ==
    /\ "abort" \in Hardship
    /\ pc # "idle" /\ Leave
    /\ IF pc = "register" THEN Lose ELSE UNCHANGED lost
    /\ UNCHANGED <<day, store, broker, reader, locks, top, sent>>

-----------------------------------------------------------------------------
(* Everybody else *)

\* An API session calls load() too, of the day it is; the row it found missing
\* is inserted later, unless the unique day makes that fail.
ReaderLoads ==
    /\ reader = <<>> /\ day \notin filed
    /\ reader' = <<day, Inherited>>
    /\ UNCHANGED <<day, store, broker, loop, history>>

ReaderInserts ==
    /\ reader # <<>>
    /\ IF reader[1] \in filed THEN UNCHANGED store ELSE Store(reader[1], reader[2])
    /\ reader' = <<>>
    /\ UNCHANGED <<day, broker, loop, history>>

\* BotService.emergency_stop and emergency_reset, as far as the rows go
EmergencyStop ==
    /\ SetEmergencyLocked(day, TRUE)
    /\ locks' = locks \cup {"prompt"}
    /\ UNCHANGED <<day, broker, loop, reader, top, sent, lost>>

EmergencyReset ==
    /\ SetEmergencyLocked(day, FALSE)
    /\ locks' = {}
    /\ UNCHANGED <<day, broker, loop, reader, top, sent, lost>>

Midnight ==
    /\ day < LastDay
    /\ day' = day + 1
    /\ UNCHANGED <<store, broker, loop, reader, history>>

SwitchAccount ==
    /\ IF pinned THEN "account changes" \in Hardship ELSE "account returns" \in Hardship
    /\ pinned' = ~pinned
    /\ UNCHANGED <<day, store, equity, open, unbooked, loop, reader, history>>

Market ==
    /\ \/ equity' \in Equity \ {equity} /\ UNCHANGED <<open, unbooked>>
       \/ /\ open > 0 /\ open' = open - 1
          /\ \E result \in Result :
               /\ unbooked[day] + result \in -MaxUnbooked..MaxUnbooked
               /\ unbooked' = [unbooked EXCEPT ![day] = @ + result]
          /\ UNCHANGED equity
    /\ UNCHANGED <<day, store, pinned, loop, reader, history>>

Next ==
    \/ BeginCycle \/ Mismatch \/ ScanSymbol \/ Assess \/ Submit \/ Register
    \/ EndCycle \/ Reconcile \/ Abort
    \/ ReaderLoads \/ ReaderInserts \/ EmergencyStop \/ EmergencyReset
    \/ Midnight \/ SwitchAccount \/ Market

Spec == Init /\ [][Next]_vars

-----------------------------------------------------------------------------
(* Properties *)

\* A lock stands until it is reset: a midnight, a restart or the reader that
\* materialises the new day's row meanwhile does not lose it.  Locks filed under
\* the day of a cycle that had begun before midnight are not counted.
LockStands == "prompt" \in locks => Load(day).locked

\* The same of every lock, those an account mismatch sets after midnight too.
MismatchLockStands == locks # {} => Load(day).locked

\* No day sees more orders than MaxTrades, but for those that could not be
\* counted because the cycle died or the broker's answer was lost; an order
\* counted after midnight is counted on the next day.
DailyLimit == \A d \in Day : sent[d] <= MaxTrades + lost

\* "One position at a time" (README.md:91) is not what the code keeps to: the candidates
\* of one scan are all assessed against the positions read before the first was sent.
\* What it keeps to is that an order of a scan that saw every position never takes them
\* further over the limit than that, however many are open by then through scans that saw
\* too few, orders whose answer was lost and cycles that died.
ScanOvershoot ==
    [][open' > open /\ context.complete => open' <= MaxOpen - 1 + MaxCandidates]_vars

\* No order is sent that was assessed with an equity Drawdown below the highest
\* ever assessed, however many days and restarts ago that was.
DrawdownStops ==
    [][sent' # sent => top - context.equity < Drawdown]_vars

=============================================================================
