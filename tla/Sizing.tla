-------------------------------- MODULE Sizing --------------------------------
(***************************************************************************)
(* Position sizing and stop levels as functions: risk/sizing.py,           *)
(* execution/validation.py and MarketScheduler._levels                     *)
(* (services/scheduler.py).                                                *)
(*                                                                         *)
(* Volumes, prices and money are natural numbers of a small unit each; a   *)
(* quotient the code keeps as a float is a pair of them, and 0 stands for  *)
(* None.  A price is quoted in steps of Grid units.                        *)
(*                                                                         *)
(* Operators introduced by "Fault:" are not the code and not part of the   *)
(* specification, as in OrderExecution.                                    *)
(***************************************************************************)
EXTENDS Integers

CONSTANT Grid   \* 10^-digits, in units of price

ASSUME GridAssumption == Grid \in Nat \ {0}

Side == {"BUY", "SELL"}

\* SymbolSpec, as spec_from_symbol_info lets it pass.  "stops" is the larger of the
\* stops and the freeze level, in units of price.
SymbolSpec ==
    {spec \in [volume_min : Nat \ {0}, volume_max : Nat \ {0}, volume_step : Nat \ {0},
               tick_size : Nat, tick_value : Nat, contract_size : Nat,
               margin_per_lot : Nat, stops : Nat] :
        spec.volume_min <= spec.volume_max}

Distance(a, b) == IF a >= b THEN a - b ELSE b - a

Lesser(a, b) == IF a <= b THEN a ELSE b

-----------------------------------------------------------------------------
(* risk/sizing.py *)

\* risk_per_lot: what a unit of volume loses over a distance is num / den; num is 0
\* when the symbol's properties do not say.
RiskPerLot(distance, spec) ==
    IF spec.tick_size > 0 /\ spec.tick_value > 0
    THEN [num |-> distance * spec.tick_value, den |-> spec.tick_size]
    ELSE [num |-> distance * spec.contract_size, den |-> 1]

\* Fault: rounded up to the broker's step.
FaultyNormalizeVolume(num, den, spec) ==
    LET steps == Lesser((num \div (den * spec.volume_step)) + 1, spec.volume_max \div spec.volume_step)
        lots  == steps * spec.volume_step
    IN  IF lots > 0 /\ lots >= spec.volume_min THEN lots ELSE 0

\* normalize_volume of num / den: floored to the broker's step and bounds
NormalizeVolume(num, den, spec) ==
    LET steps == Lesser(num \div (den * spec.volume_step), spec.volume_max \div spec.volume_step)
        lots  == steps * spec.volume_step
    IN  IF lots > 0 /\ lots >= spec.volume_min THEN lots ELSE 0

\* size_for_loss_budget
SizeForLossBudget(budget, distance, spec) ==
    LET risk == RiskPerLot(distance, spec)
    IN  IF risk.num = 0 THEN 0 ELSE NormalizeVolume(budget * risk.den, risk.num, spec)

\* position_risk of a volume, against an amount of money
WithinBudget(volume, distance, spec, amount) ==
    volume * RiskPerLot(distance, spec).num <= amount * RiskPerLot(distance, spec).den

\* required_margin and margin_within_free_margin: what cannot be derived does not fit.
MarginFits(volume, price, leverage, spec, free) ==
    /\ volume > 0 /\ free > 0
    /\ \/ spec.margin_per_lot > 0 /\ volume * spec.margin_per_lot <= free
       \/ /\ spec.margin_per_lot = 0 /\ leverage > 0 /\ spec.contract_size > 0
          /\ volume * spec.contract_size * price <= free * leverage

-----------------------------------------------------------------------------
(* execution/validation.py *)

\* Fault: the target's price is not looked at.
FaultyValidStops(side, entry, stop, target, spec, ratio) ==
    LET risk == Distance(entry, stop)
    IN  /\ entry > 0 /\ stop > 0
        /\ risk > 0 /\ risk >= spec.stops
        /\ IF side = "BUY" THEN stop < entry /\ entry < target
                           ELSE target < entry /\ entry < stop
        /\ Distance(target, entry) * ratio.den >= ratio.num * risk

\* validate_stops: minimum risk/reward is ratio.num / ratio.den.
ValidStops(side, entry, stop, target, spec, ratio) ==
    LET risk == Distance(entry, stop)
    IN  /\ entry > 0 /\ stop > 0 /\ target > 0
        /\ risk > 0 /\ risk >= spec.stops
        /\ IF side = "BUY" THEN stop < entry /\ entry < target
                           ELSE target < entry /\ entry < stop
        /\ Distance(target, entry) * ratio.den >= ratio.num * risk

-----------------------------------------------------------------------------
(* _levels *)

\* _round_step of num / den
RoundStep(num, den, up) ==
    LET below == (num \div (den * Grid)) * Grid
    IN  IF up /\ below * den # num THEN below + Grid ELSE below

NoLevels == [entry |-> 0, stop |-> 0, target |-> 0]

\* The stop's and the target's distances of a signal, from its entry or, without one,
\* from the middle of the tick, are taken from the price of now: the stop and the target
\* are rounded away from it, a target that is missing is put at the ratio, one that is
\* nearer refused.
Levels(signal, tick, spec, ratio) ==
    LET buy      == signal.side = "BUY"
        from     == IF signal.entry > 0 THEN signal.entry ELSE (tick.bid + tick.ask) \div 2
        risk     == Distance(from, signal.stop)
        reward   == Distance(from, signal.target)
        num      == IF signal.target = 0 THEN ratio.num ELSE reward
        den      == IF signal.target = 0 THEN ratio.den ELSE risk
        entry    == IF buy THEN tick.ask ELSE tick.bid
        stop     == RoundStep(IF buy THEN entry - risk ELSE entry + risk, 1, ~buy)
        distance == Distance(entry, stop)
        target   == RoundStep(IF buy THEN entry * den + distance * num
                                     ELSE entry * den - distance * num, den, buy)
    IN  IF /\ signal.stop > 0 /\ risk > 0
           /\ num * ratio.den >= ratio.num * den
           /\ ValidStops(signal.side, entry, stop, target, spec, ratio)
        THEN [entry |-> entry, stop |-> stop, target |-> target]
        ELSE NoLevels

=============================================================================
