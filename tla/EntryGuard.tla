------------------------------ MODULE EntryGuard ------------------------------
(***************************************************************************)
(* One entry, from the levels of a signal to the check that the position   *)
(* it opened is protected: _submit_candidate of services/scheduler.py, the *)
(* sizing checks of risk/engine.py, ExecutionService.submit and            *)
(* _verify_protection of execution/service.py.                             *)
(*                                                                         *)
(* Whether an order is sent at all, and only once, is the subject of       *)
(* OrderExecution and RiskSession; here it is what is sent, and what       *)
(* becomes of the position.  Another position of the bot may stand on the  *)
(* symbol: a second candidate of the same scan is assessed as if it did    *)
(* not.                                                                    *)
(*                                                                         *)
(* Operators introduced by "Fault:" are not the code and not part of the   *)
(* specification, as in OrderExecution.                                    *)
(***************************************************************************)
EXTENDS Sizing

CONSTANTS
    Signals,     \* what the strategies may produce
    Ticks,       \* the prices the market may show
    Specs,       \* the specifications the broker may give for the symbol
    Ratio,       \* settings.min_risk_reward_ratio
    Budget,      \* settings.max_loss_per_trade_usd
    Cap,         \* settings.max_lots_per_position
    Margins,     \* free margins the account may have
    Capital,     \* settings.max_bot_capital_usd
    Leverage,    \* the account's leverage
    Deviation,   \* settings.order_deviation_points, in units of price
    Hardship     \* which of Hardships may happen

Hardships ==
    {"answer lost",  \* order_send acts without an answer that says so
     "placed",       \* an order is answered PLACED and fills later
     "cut short",    \* the process ends, or a commit raises, while submit has more to do
     "unreadable",   \* positions() gives None or raises
     "unlisted",     \* positions() leaves positions out: not there yet, or disconnected
     "levels lost",  \* the broker opens a position without the levels asked for
     "refused",      \* a modification or a close is refused or unanswered
     "price moves"}  \* a position is filled at another price, or closed by its stop

ASSUME SignalAssumption ==
    \A signal \in Signals : signal.side \in Side /\ {signal.entry, signal.stop, signal.target} \subseteq Nat
ASSUME TickAssumption ==
    \A tick \in Ticks : {tick.ask, tick.bid} \subseteq Nat /\ (tick.ask + tick.bid) % 2 = 0
ASSUME SpecAssumption == Specs \subseteq SymbolSpec
ASSUME RatioAssumption == Ratio.num \in Nat \ {0} /\ Ratio.den \in Nat \ {0}
ASSUME LimitAssumption ==
    /\ Budget \in Nat /\ Cap \in Nat /\ Margins \subseteq Nat /\ Capital \in Nat
    /\ Leverage \in Nat /\ Deviation \in Nat
ASSUME HardshipAssumption == Hardship \subseteq Hardships

VARIABLES
    spec,      \* the broker's specification of the symbol
    pc,        \* where the loop is
    order,     \* what it sends, or is to send
    assessed,  \* the specification the order was sized with
    own,       \* the position it has opened
    other,     \* another position of the bot on the symbol
    target,    \* which of them _verify_protection has in hand
    report,    \* what it reports
    excuse     \* history: what may keep it from protecting its position

vars == <<spec, pc, order, assessed, own, other, target, report, excuse>>

NoOrder  == [side |-> "BUY", entry |-> 0, stop |-> 0, target |-> 0, volume |-> 0]
Order    == [side : Side, entry : Nat, stop : Nat, target : Nat, volume : Nat]
Gone     == [price |-> 0, volume |-> 0, protected |-> FALSE]
Position == [price : Int, volume : Nat, protected : BOOLEAN]

TypeOK ==
    /\ spec \in Specs /\ assessed \in Specs
    /\ pc \in {"idle", "submit", "verify", "modify", "reread", "close", "done"}
    /\ order \in Order
    /\ own \in Position
    /\ other \in {"none", "standing", "modified", "closed"}
    /\ target \in {"none", "own", "other"}
    /\ report \in {"none", "verified", "unverified", "corrected", "closed", "failed"}
    /\ excuse \subseteq {"no answer", "placed", "cut short", "unread", "unlisted", "not closed"}

Init ==
    /\ spec \in Specs /\ assessed = spec
    /\ pc = "idle" /\ order = NoOrder
    /\ own = Gone /\ other \in {"none", "standing"}
    /\ target = "none" /\ report = "none" /\ excuse = {}

-----------------------------------------------------------------------------
(* The order *)

\* assess, of size and margin: the cap is a rejection, never a clamp.
Sized(levels, margin) ==
    LET volume == SizeForLossBudget(Budget, Distance(levels.entry, levels.stop), spec)
    IN  IF /\ volume <= Cap
           /\ MarginFits(volume, levels.entry, Leverage, spec, Lesser(margin, Capital))
        THEN volume ELSE 0

\* _submit_candidate up to the order: one scan's tick and specification are used
\* throughout, and a refusal ends it.
Decide ==
    /\ pc = "idle"
    /\ \E signal \in Signals, tick \in Ticks, margin \in Margins :
         LET levels == Levels(signal, tick, spec, Ratio)
             volume == Sized(levels, margin)
         IN  /\ levels # NoLevels /\ volume > 0
             /\ order' = [side |-> signal.side, entry |-> levels.entry, stop |-> levels.stop,
                          target |-> levels.target, volume |-> volume]
    /\ assessed' = spec /\ pc' = "submit"
    /\ UNCHANGED <<spec, own, other, target, report, excuse>>

\* submit reads the specification and the account again: it floors the volume to the
\* step of now, and validates the stops and the margin once more.
Sendable(volume, margin) ==
    /\ volume > 0
    /\ ValidStops(order.side, order.entry, order.stop, order.target, spec, Ratio)
    /\ MarginFits(volume, order.entry, Leverage, spec, margin)

\* order_send of an order that is taken: filled wholly or in part, near the price
\* asked.  That the fill is within the deviation is taken of the broker.
Fills(volume) ==
    \E price \in (order.entry - Deviation)..(order.entry + Deviation), filled \in 1..volume,
       protected \in BOOLEAN :
        /\ "price moves" \in Hardship \/ price = order.entry
        /\ "levels lost" \in Hardship \/ protected
        /\ own' = [price |-> price, volume |-> filled, protected |-> protected]

\* Only an order that is answered DONE or DONE_PARTIAL is verified.  Nothing looks at
\* one that is PLACED again, so that it makes no difference when it fills.
Submit ==
    /\ pc = "submit"
    /\ LET volume == NormalizeVolume(order.volume, 1, spec)
       IN  \/ /\ \E margin \in Margins : Sendable(volume, margin)
              /\ \/ Fills(volume) /\ pc' = "verify" /\ UNCHANGED excuse
                 \/ /\ "answer lost" \in Hardship /\ Fills(volume)
                    /\ pc' = "done" /\ excuse' = {"no answer"}
                 \/ /\ "placed" \in Hardship /\ (Fills(volume) \/ UNCHANGED own)
                    /\ pc' = "done" /\ excuse' = {"placed"}
              /\ UNCHANGED order
           \/ pc' = "idle" /\ order' = NoOrder /\ UNCHANGED <<own, excuse>>
    /\ UNCHANGED <<spec, assessed, other, target, report>>

-----------------------------------------------------------------------------
(* _verify_protection *)

\* The positions that stand, and what positions() may list of them.
Standing == {p \in {"own", "other"} : IF p = "own" THEN own # Gone ELSE other \in {"standing", "modified"}}

Listed == IF "unlisted" \in Hardship THEN SUBSET Standing ELSE {Standing}

\* Fault: any lone position of the symbol will do first.
FaultyFindPosition(list, ticket) ==
    IF "other" \in list THEN "other" ELSE IF ticket \in list THEN ticket ELSE "none"

\* _find_position: by ticket, or else the lone position of the symbol
FindPosition(list, ticket) ==
    IF ticket \in list THEN ticket
    ELSE IF \E p \in list : list = {p} THEN CHOOSE p \in list : TRUE ELSE "none"

\* Fault: a position that has been found is protected.
FaultyIntact(p) == p # "none"

\* _protection_intact: the levels of the order.  Another position has others.
Intact(p) == p = "own" /\ own.protected

Excuses(list) == IF "own" \in list THEN {} ELSE {"unlisted"}

Verify ==
    /\ pc = "verify"
    /\ \/ /\ "unreadable" \in Hardship
          /\ pc' = "done" /\ report' \in {"unverified", "none"}
          /\ excuse' = excuse \cup {"unread"}
          /\ UNCHANGED target
       \/ \E list \in Listed :
            LET found == FindPosition(list, "own")
            IN  /\ target' = found
                /\ excuse' = excuse \cup Excuses(list)
                /\ IF found = "none" THEN pc' = "done" /\ report' = "unverified"
                   ELSE IF Intact(found) THEN pc' = "done" /\ report' = "verified"
                   ELSE pc' = "modify" /\ UNCHANGED report
    /\ UNCHANGED <<spec, order, assessed, own, other>>

\* modify_position; whatever it answers or raises is not looked at.
Modify ==
    /\ pc = "modify"
    /\ \/ target = "own" /\ own # Gone /\ own' = [own EXCEPT !.protected = TRUE] /\ UNCHANGED other
       \/ target = "other" /\ other \in {"standing", "modified"} /\ other' = "modified" /\ UNCHANGED own
       \/ "refused" \in Hardship /\ UNCHANGED <<own, other>>
       \/ target \notin Standing /\ UNCHANGED <<own, other>>
    /\ pc' = "reread"
    /\ UNCHANGED <<spec, order, assessed, target, report, excuse>>

\* Read once more.  A position that is not found again is still the one to close, also
\* when positions() gives None; when it raises, nothing is closed.
Reread ==
    /\ pc = "reread"
    /\ \/ /\ "unreadable" \in Hardship
          /\ \/ pc' = "close" /\ UNCHANGED excuse
             \/ pc' = "done" /\ excuse' = excuse \cup {"unread"}
          /\ UNCHANGED <<target, report>>
       \/ \E list \in Listed :
            LET found == FindPosition(list, target)
            IN  /\ excuse' = excuse \cup Excuses(list)
                /\ IF Intact(found)
                   THEN pc' = "done" /\ report' = "corrected" /\ UNCHANGED target
                   ELSE /\ pc' = "close" /\ UNCHANGED report
                        /\ target' = IF found = "none" THEN target ELSE found
    /\ UNCHANGED <<spec, order, assessed, own, other>>

\* close_position: an answer counts as closed, even one that refuses.
Close ==
    /\ pc = "close"
    /\ \/ target = "own" /\ own' = Gone /\ report' = "closed" /\ UNCHANGED <<other, excuse>>
       \/ target = "other" /\ other' = "closed" /\ report' = "closed" /\ UNCHANGED <<own, excuse>>
       \/ /\ "refused" \in Hardship /\ report' \in {"closed", "failed"}
          /\ excuse' = excuse \cup {"not closed"}
          /\ UNCHANGED <<own, other>>
    /\ pc' = "done"
    /\ UNCHANGED <<spec, order, assessed, target>>

\* submit is left between the fill and the end of the check: the process ends, or the
\* commit of _finish raises.  Nothing takes the check up again.
CutShort ==
    /\ "cut short" \in Hardship
    /\ pc \in {"verify", "modify", "reread", "close"}
    /\ pc' = "done" /\ excuse' = excuse \cup {"cut short"}
    /\ UNCHANGED <<spec, order, assessed, own, other, target, report>>

-----------------------------------------------------------------------------
(* Everybody else *)

\* The stop or the target of a position is hit.
Hit ==
    /\ "price moves" \in Hardship
    /\ \/ own.protected /\ own' = Gone /\ UNCHANGED other
       \/ other \in {"standing", "modified"} /\ other' = "none" /\ UNCHANGED own
    /\ UNCHANGED <<spec, pc, order, assessed, target, report, excuse>>

\* The broker changes the symbol's specification.
Respecify ==
    /\ spec' \in Specs \ {spec}
    /\ UNCHANGED <<pc, order, assessed, own, other, target, report, excuse>>

Next ==
    \/ Decide \/ Submit \/ Verify \/ Modify \/ Reread \/ Close \/ CutShort
    \/ Hit \/ Respecify

Spec == Init /\ [][Next]_vars

-----------------------------------------------------------------------------
(* Properties *)

\* What stands loses no more than the budget at the stop of the order, priced as
\* when it was sized, and what the price moved by before the fill on top of it;
\* whatever the broker has changed the specification to meanwhile.
RiskBounded ==
    own # Gone =>
        LET risk == RiskPerLot(1, assessed)
        IN  own.volume * Distance(own.price, order.stop) * risk.num
                <= Budget * risk.den + own.volume * Deviation * risk.num

\* A submit whose check ran to its end, with positions() listing the position every
\* time it was read and the broker closing what it is asked to close, leaves no position
\* without the levels of its order, whatever became of the repair; and a report that the
\* position is verified or corrected is true whatever else has failed.  The excuses are
\* the code's: it does leave such a position when the answer was lost or PLACED, when
\* submit is cut short, when positions() fails or leaves the position out, and when the
\* close fails, although service.py:305 says that this must never be left standing.
NeverUnprotected ==
    own # Gone /\ ~own.protected =>
        /\ pc = "done" => excuse # {}
        /\ report \notin {"verified", "corrected"}

\* Another position of the bot is neither modified nor closed in place of the one
\* just opened, unless positions() has left that one out or it is gone already.
OtherLeftAlone ==
    [][other' # other /\ other' \in {"modified", "closed"} => "unlisted" \in excuse]_vars

=============================================================================
