-------------------------------- MODULE Booking --------------------------------
(***************************************************************************)
(* What a closed position comes to in the books: Reconciler.run reads the  *)
(* deals of the last Lookback days, groups them into positions, matches    *)
(* these to the rows of trades, overwrites the rows, and books what this   *)
(* has changed a result by in the risk state of the day the position       *)
(* closed on (services/reconciliation.py, risk/state.py).                  *)
(*                                                                         *)
(* All rows are of one symbol and one volume.  Prices and comments are     *)
(* left out; every ticket a row holds is of one position.  The retirement  *)
(* of guards is OrderExecution's subject.                                  *)
(*                                                                         *)
(* Operators introduced by "Fault:" are not the code and not part of the   *)
(* specification, as in OrderExecution.                                    *)
(***************************************************************************)
EXTENDS Integers, Sequences

CONSTANTS
    Positions,   \* bound: positions the broker ever opens
    Rows,        \* bound: rows of trades
    Horizon,     \* bound: instants are 1..Horizon
    LastDay,     \* bound: days are 1..LastDay
    Date,        \* the day an instant is of
    Lookback,    \* settings.reconciliation_lookback_hours, in instants
    MatchWindow, \* settings.reconciliation_match_window_seconds, in instants
    Volume,      \* the volume of a position, in the steps it may be closed in
    Commission,  \* what a deal costs
    Profit,      \* what an exit may bring
    ByHand,      \* the positions that are perhaps closed by hand, or a part of them
    Hardship     \* which of Hardships may happen

Hardships ==
    {"crash",       \* a run dies, and with it what it has not committed
     "row missing"} \* a position of which no row was written

ASSUME SizeAssumption ==
    /\ Positions \in Nat \ {0} /\ Rows \in Nat /\ Volume \in Nat \ {0}
    /\ Horizon \in Nat \ {0} /\ LastDay \in Nat \ {0} /\ Date \in [1..Horizon -> 1..LastDay]
    /\ Lookback \in Nat /\ MatchWindow \in Nat
ASSUME MoneyAssumption == Commission \in Nat /\ Profit \subseteq Int
ASSUME HardshipAssumption == Hardship \subseteq Hardships /\ ByHand \subseteq 1..Positions

Position == 1..Positions
Moment   == 1..Horizon
Day      == 1..LastDay
None     == 0

VARIABLES
    now,     \* the wall clock
    deals,   \* per position, the broker's deals
    rows,    \* the committed rows of trades, oldest first
    filed,   \* the days that have a row of risk state
    booked,  \* their realized_pnl, committed
    pc,      \* where the run is
    view,    \* the rows as the run's session has them
    todo,    \* what _match has found and is left to apply: rows with positions
    due,     \* an amount add_realized_pnl is about to add, and its day
    news,    \* history: deals, rows or the window have changed since a run read them
    fresh,   \* history: the run has read something no completed run has
    split    \* history: amounts lost between two commits of one booking

market  == <<now, deals>>
tables  == <<rows, filed, booked>>
session == <<pc, view, todo, due>>
history == <<news, fresh, split>>
vars    == <<market, tables, session, history>>

\* "own" are the deals with the bot's magic number: a position that is closed by hand,
\* or a part of it, is closed with another.
Deal == [entry : BOOLEAN, own : BOOLEAN, volume : 1..Volume, net : Int, time : Moment]

\* TradeRecord, as far as reconciliation reads or writes it.  "held" is the position
\* its tickets are of, "tickets" says of which deals they are, "at" is open_time or,
\* without one, created_at.  History: "waived" was stored while the position was open,
\* and so not booked; "moved" is a row that another position has had before.
Row == [status : {"EXECUTED", "FAILED", "PARTIALLY_CLOSED", "CLOSED"},
        held : Position \cup {None}, tickets : SUBSET Nat, at : Moment, out : 0..Volume,
        net : Int, closed : Moment \cup {None}, waived : Int, moved : BOOLEAN]

NewRow(status, p, tickets) ==
    [status |-> status, held |-> p, tickets |-> tickets, at |-> now, out |-> 0,
     net |-> 0, closed |-> None, waived |-> 0, moved |-> FALSE]

\* BrokerPosition, its deals named by their places in the position's history.
Found == [id : Position, known : SUBSET Nat, opened : Moment, out : Nat, volume : Nat,
          net : Int, closed : Moment \cup {None}]

NoDue == [day |-> None, amount |-> 0]

\* f[1] + ... + f[n]
Total(f, n) ==
    LET sum[i \in 0..n] == IF i = 0 THEN 0 ELSE sum[i - 1] + f[i]
    IN  sum[n]

Sized(s, I) == Total([i \in DOMAIN s |-> IF i \in I THEN s[i].volume ELSE 0], Len(s))
Net(s, I)   == Total([i \in DOMAIN s |-> IF i \in I THEN s[i].net ELSE 0], Len(s))

Least(I)    == CHOOSE i \in I : \A j \in I : i <= j
Greatest(I) == CHOOSE i \in I : \A j \in I : j <= i

TypeOK ==
    /\ now \in Moment
    /\ deals \in [Position -> Seq(Deal)]
    /\ rows \in Seq(Row) /\ Len(rows) <= Rows
    /\ filed \subseteq Day
    /\ booked \in [Day -> Int]
    /\ pc \in {"idle", "apply", "book"}
    /\ view \in Seq(Row)
    /\ todo \subseteq (DOMAIN view) \X Found
    /\ due \in [day : Day \cup {None}, amount : Int]
    /\ news \in BOOLEAN /\ fresh \in BOOLEAN /\ split \in Int

Init ==
    /\ now = 1 /\ deals = [p \in Position |-> <<>>]
    /\ rows = <<>> /\ filed = {} /\ booked = [d \in Day |-> 0]
    /\ pc = "idle" /\ view = <<>> /\ todo = {} /\ due = NoDue
    /\ news = FALSE /\ fresh = FALSE /\ split = 0

-----------------------------------------------------------------------------
(* What a run makes of the deals *)

Own(s) == {i \in DOMAIN s : s[i].own}

\* The bot's deals of p in the window.  A position's deals are in the order of their
\* times, and its entry is the first.
Known(p) == {i \in Own(deals[p]) : deals[p][i].time >= now - Lookback}

Entries(s) == {i \in DOMAIN s : s[i].entry}
Exits(s)   == {i \in DOMAIN s : ~s[i].entry}

\* Fault: the exits replace each other.
FaultyBuilt(p, own) ==
    LET s    == deals[p]
        ins  == own \cap Entries(s)
        outs == own \cap Exits(s)
        last == IF outs = {} THEN {} ELSE {Greatest(outs)}
    IN  [id |-> p, known |-> own, opened |-> s[Least(own)].time, out |-> Sized(s, outs),
         volume |-> IF ins # {} THEN Sized(s, ins) ELSE Sized(s, outs),
         net    |-> Net(s, ins \cup last),
         closed |-> IF outs = {} THEN None ELSE s[Greatest(outs)].time]

\* _build_position: without an entry among them the exits are the volume, and the
\* first of them the opening.
Built(p, own) ==
    LET s    == deals[p]
        ins  == own \cap Entries(s)
        outs == own \cap Exits(s)
    IN  [id |-> p, known |-> own, opened |-> s[Least(own)].time, out |-> Sized(s, outs),
         volume |-> IF ins # {} THEN Sized(s, ins) ELSE Sized(s, outs),
         net    |-> Net(s, own),
         closed |-> IF outs = {} THEN None ELSE s[Greatest(outs)].time]

\* group_deals
Grouped == {Built(p, Known(p)) : p \in {q \in Position : Known(q) # {}}}

\* A ticket of r is among those of the deals that b was built from.
Holds(r, b) == r.held = b.id /\ r.tickets \cap b.known # {}

\* _match: the first row that holds a ticket of a position has it.
ByTicket(found) ==
    {m \in (DOMAIN rows) \X found :
        Holds(rows[m[1]], m[2]) /\ \A j \in 1..(m[1] - 1) : ~Holds(rows[j], m[2])}

Near(t, u) == t - u <= MatchWindow /\ u - t <= MatchWindow

\* Fault: a position may be matched more than once.
FaultyFree(found, pairs, r) == {b \in found : b.volume = Volume /\ Near(b.opened, r.at)}

\* The positions the fallback may still choose from for r
Free(found, pairs, r) ==
    {b \in found : b.volume = Volume /\ Near(b.opened, r.at) /\ \A m \in pairs : m[2] # b}

Fallback(found, pairs, i) ==
    LET free == Free(found, pairs, rows[i])
    IN  IF free = {} \/ \E m \in pairs : m[1] = i THEN pairs
        ELSE pairs \cup {<<i, CHOOSE b \in free : \A c \in free : b.id <= c.id>>}

\* Then each row that is left, in their order, has the first of them.
Matched(found) ==
    LET pairs[i \in 0..Len(rows)] ==
            IF i = 0 THEN ByTicket(found) ELSE Fallback(found, pairs[i - 1], i)
    IN  pairs[Len(rows)]

\* Fault: the volume closed is added to what the row has.
FaultyRestated(r, b) ==
    [r EXCEPT !.status = IF b.out = 0 THEN @ ELSE IF b.out >= b.volume THEN "CLOSED"
                         ELSE "PARTIALLY_CLOSED",
              !.held = b.id, !.tickets = {1, Least(b.known), Greatest(b.known)},
              !.at = b.opened, !.out = @ + b.out, !.net = b.net, !.closed = b.closed,
              !.moved = @ \/ r.held \notin {None, b.id}]

\* The values _apply writes.  A position's own number is the ticket of its entry.
Restated(r, b) ==
    [r EXCEPT !.status = IF b.out = 0 THEN @ ELSE IF b.out >= b.volume THEN "CLOSED"
                         ELSE "PARTIALLY_CLOSED",
              !.held = b.id, !.tickets = {1, Least(b.known), Greatest(b.known)},
              !.at = b.opened, !.out = IF b.out > 0 THEN b.out ELSE @,
              !.net = b.net, !.closed = b.closed,
              !.moved = @ \/ r.held \notin {None, b.id}]

\* Fault: all of the result, whatever has been booked.
FaultyDelta(r, b) == b.net

\* What is to be booked: the difference to what the row states.
Delta(r, b) == b.net - r.net

-----------------------------------------------------------------------------
(* Reconciler.run *)

\* The history is read and matched with the rows.  One that cannot be read, or is
\* empty because the terminal is not connected, changes nothing.
Begin ==
    /\ pc = "idle"
    /\ pc' = "apply" /\ view' = rows
    /\ fresh' = news /\ news' = FALSE
    /\ todo' = Matched(Grouped)
    /\ UNCHANGED <<market, tables, due, split>>

\* _apply on an open position, or without a difference: stored and left for a
\* later commit.  An unchanged row is not touched.
ApplyOpen(i, b) ==
    /\ b.closed = None \/ Delta(view[i], b) = 0
    /\ view' = [view EXCEPT ![i] =
          [Restated(view[i], b) EXCEPT !.waived = view[i].waived + Delta(view[i], b)]]
    /\ UNCHANGED <<tables, pc, due>>

\* _apply, with an amount to book.  add_realized_pnl commits the rows and the
\* amount at once; but when load() inserts the day's row first, it commits the rows
\* before the amount.
ApplyClosed(i, b) ==
    LET amount == Delta(view[i], b)
        after  == [view EXCEPT ![i] = Restated(view[i], b)]
    IN  /\ b.closed # None /\ amount # 0
        /\ view' = after /\ rows' = after
        /\ filed' = filed \cup {Date[b.closed]}
        /\ IF Date[b.closed] \in filed
           THEN booked' = [booked EXCEPT ![Date[b.closed]] = @ + amount] /\ UNCHANGED <<pc, due>>
           ELSE /\ due' = [day |-> Date[b.closed], amount |-> amount]
                /\ pc' = "book" /\ UNCHANGED booked

Apply ==
    /\ pc = "apply"
    /\ \E m \in todo :
         /\ \A n \in todo : m[1] <= n[1]
         /\ ApplyOpen(m[1], m[2]) \/ ApplyClosed(m[1], m[2])
         /\ todo' = todo \ {m}
    /\ UNCHANGED <<market, history>>

Book ==
    /\ pc = "book"
    /\ booked' = [booked EXCEPT ![due.day] = @ + due.amount]
    /\ pc' = "apply" /\ due' = NoDue
    /\ UNCHANGED <<market, rows, filed, view, todo, history>>

Leave == pc' = "idle" /\ view' = <<>> /\ todo' = {} /\ due' = NoDue

\* The commit after the loop.  Rows are written by the loop that runs this, so
\* none has been added meanwhile.
Finish ==
    /\ pc = "apply" /\ todo = {}
    /\ rows' = view /\ fresh' = FALSE
    /\ Leave
    /\ UNCHANGED <<market, filed, booked, news, split>>

\* A crash, or a statement that raises: the session is gone.
Crash ==
    /\ "crash" \in Hardship /\ pc # "idle"
    /\ split' = split + due.amount
    /\ news' = (news \/ fresh) /\ fresh' = FALSE
    /\ Leave
    /\ UNCHANGED <<market, tables>>

-----------------------------------------------------------------------------
(* Everybody else *)

\* _finish of the order path: an accepted order's row has the tickets, one whose
\* answer was lost has none, and of one whose process dies there is no row.
Open ==
    /\ pc = "idle"
    /\ \E p \in Position :
         /\ deals[p] = <<>> /\ \A q \in 1..(p - 1) : deals[q] # <<>>
         /\ deals' = [deals EXCEPT ![p] =
               <<[entry |-> TRUE, own |-> TRUE, volume |-> Volume, net |-> -Commission,
                  time |-> now]>>]
         /\ \/ /\ Len(rows) < Rows
               /\ \/ rows' = Append(rows, NewRow("EXECUTED", p, {1}))
                 \/ rows' = Append(rows, NewRow("FAILED", None, {}))
            \/ "row missing" \in Hardship /\ UNCHANGED rows
    /\ news' = TRUE
    /\ UNCHANGED <<now, filed, booked, session, fresh, split>>

\* _finish of an order that opened nothing
Fail ==
    /\ pc = "idle" /\ Len(rows) < Rows
    /\ rows' = Append(rows, NewRow("FAILED", None, {}))
    /\ news' = TRUE
    /\ UNCHANGED <<market, filed, booked, session, fresh, split>>

\* A position is closed, or a part of it: by the bot, a stop or a target with its magic
\* number, by hand without.
Close ==
    /\ \E p \in Position, v \in 1..Volume, profit \in Profit, own \in BOOLEAN :
         /\ own \/ p \in ByHand
         /\ Sized(deals[p], Exits(deals[p])) + v <= Sized(deals[p], Entries(deals[p]))
         /\ deals' = [deals EXCEPT ![p] = Append(@,
               [entry |-> FALSE, own |-> own, volume |-> v, net |-> profit - Commission,
                time |-> now])]
    /\ news' = TRUE
    /\ UNCHANGED <<now, tables, session, fresh, split>>

\* A market cycle or an API session materialises the row of the day it is.
Materialise ==
    /\ filed' = filed \cup {Date[now]}
    /\ UNCHANGED <<market, rows, booked, session, history>>

Tick ==
    /\ now < Horizon
    /\ now' = now + 1
    /\ news' = TRUE
    /\ UNCHANGED <<deals, tables, session, fresh, split>>

Next ==
    \/ Begin \/ Apply \/ Book \/ Finish \/ Crash
    \/ Open \/ Fail \/ Close \/ Materialise \/ Tick

Spec == Init /\ [][Next]_vars

-----------------------------------------------------------------------------
(* Properties *)

\* What the rows say has been booked
Stated(s) == Total([i \in DOMAIN s |-> s[i].net - s[i].waived], Len(s))

\* What is booked is what the rows state, but for what they stated of a position
\* still open and for an amount lost by a crash after load() had committed the row
\* without it: however often runs are repeated and wherever they die.
Balanced == Total(booked, LastDay) + split + due.amount = Stated(rows)

\* No position's result is stated by two rows, though the fallback matches rows that
\* hold no ticket in the window, and a row may be of an order that opened nothing.
OncePerPosition ==
    \A i, j \in DOMAIN rows :
        rows[i].closed # None /\ rows[j].closed # None /\ rows[i].held = rows[j].held => i = j

\* The last run has read all there is to read in the window.
UpToDate == pc = "idle" /\ ~news

\* Nothing about the position of r has left the window, now or before.
Kept(r) == r.held # None => 1 \in Known(r.held) /\ ~r.moved

\* What is to have been booked for r: its position's result by the bot's deals, but for
\* the cost of the entry when that was stored before there was an exit.
Earned(r) ==
    IF r.closed = None THEN 0
    ELSE LET s == deals[r.held]
         IN  Net(s, IF r.waived = 0 THEN Own(s) ELSE Own(s) \ {1})

\* When a run has read everything, a row whose position's deals are all in the window is
\* told of each exit with the bot's magic number and states what these deals come to;
\* and when all rows are such, exactly this has been booked, for all days together and
\* unless a crash has lost an amount.
BooksAgree ==
    UpToDate =>
        /\ \A i \in DOMAIN rows :
              rows[i].held # None /\ Kept(rows[i]) =>
                LET s == deals[rows[i].held]
                IN  /\ rows[i].closed # None <=> Own(s) \cap Exits(s) # {}
                    /\ rows[i].net = Net(s, Own(s))
        /\ split = 0 /\ (\A i \in DOMAIN rows : Kept(rows[i])) =>
              Total(booked, LastDay) = Total([i \in DOMAIN rows |-> Earned(rows[i])], Len(rows))

\* A run that reads nothing the last completed run had not read books nothing.
Idempotent == [][booked' # booked => fresh]_vars

=============================================================================
