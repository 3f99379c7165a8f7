--------------------------- MODULE EntryGuardProofs ---------------------------
(***************************************************************************)
(* Proofs about Sizing and EntryGuard.                                     *)
(***************************************************************************)
EXTENDS EntryGuard, TLAPS

-----------------------------------------------------------------------------
(* Sizing *)

\* Flooring to a multiple does not exceed what is floored, and loses less than one.
LEMMA Floored ==
    ASSUME NEW a \in Nat, NEW b \in Nat \ {0}
    PROVE  /\ a \div b \in Nat
           /\ (a \div b) * b <= a
           /\ a < (a \div b) * b + b
<1>1. a \div b \in Nat /\ a = ((a \div b) * b) + (a % b) /\ (a % b) \in 0..(b - 1)
  BY SMT
<1> QED
  BY <1>1, SMT

\* Multiplying both sides
LEMMA Scaled ==
    ASSUME NEW a \in Nat, NEW b \in Nat, NEW c \in Nat, a <= b
    PROVE  a * c <= b * c
BY SMT

LEMMA ProductNat ==
    ASSUME NEW a \in Nat, NEW b \in Nat
    PROVE  a * b \in Nat
BY SMT

\* A multiple of a number is floored to itself.
LEMMA Exact ==
    ASSUME NEW k \in Nat, NEW b \in Nat \ {0}
    PROVE  (k * b) \div b = k
<1> DEFINE q == (k * b) \div b
<1>1. k * b \in Nat
  BY ProductNat
<1>2. q \in Nat /\ q * b <= k * b /\ k * b < q * b + b
  BY <1>1, Floored
<1> HIDE DEF q
<1>3. ~(q < k)
  <2> SUFFICES ASSUME q < k
               PROVE  FALSE
    OBVIOUS
  <2>1. (q + 1) * b <= k * b
    BY <1>2, Scaled
  <2>2. (q + 1) * b = q * b + b
    BY <1>2, SMT
  <2>3. q * b \in Nat
    BY <1>2, ProductNat
  <2> QED
    BY <1>1, <1>2, <2>1, <2>2, <2>3, SMT
<1>4. ~(k < q)
  <2> SUFFICES ASSUME k < q
               PROVE  FALSE
    OBVIOUS
  <2>1. (k + 1) * b <= q * b
    BY <1>2, Scaled
  <2>2. (k + 1) * b = k * b + b
    BY SMT
  <2>3. q * b \in Nat
    BY <1>2, ProductNat
  <2> QED
    BY <1>1, <1>2, <2>1, <2>2, <2>3, SMT
<1>5. q = k
  BY <1>2, <1>3, <1>4, SMT
<1> QED
  BY <1>5 DEF q

LEMMA NormalizedFacts ==
    ASSUME NEW num \in Nat, NEW den \in Nat \ {0}, NEW sp \in SymbolSpec
    PROVE  LET lots == NormalizeVolume(num, den, sp)
           IN  /\ lots \in Nat
               /\ lots * den <= num
               /\ lots # 0 => /\ sp.volume_min <= lots /\ lots <= sp.volume_max
                              /\ \E k \in Nat : lots = k * sp.volume_step
<1> DEFINE step  == sp.volume_step
           asked == num \div (den * step)
           most  == sp.volume_max \div step
           steps == Lesser(asked, most)
<1>1. step \in Nat \ {0} /\ sp.volume_max \in Nat /\ sp.volume_min \in Nat
  BY DEF SymbolSpec
<1>2. den * step \in Nat \ {0}
  BY <1>1, SMT
<1>3. asked \in Nat /\ asked * (den * step) <= num
  BY <1>2, Floored
<1>4. most \in Nat /\ most * step <= sp.volume_max
  BY <1>1, Floored
<1>5. steps \in Nat /\ steps <= asked /\ steps <= most
  BY <1>3, <1>4, SMT DEF Lesser
<1> HIDE DEF steps, asked, most
<1>6. steps * (den * step) <= asked * (den * step)
  BY <1>2, <1>3, <1>5, Scaled
<1>7. steps * step <= most * step
  BY <1>1, <1>4, <1>5, Scaled
<1>8. steps * (den * step) = (steps * step) * den
  BY <1>1, <1>5, SMT
<1>9. steps * step \in Nat /\ asked * (den * step) \in Nat /\ most * step \in Nat
  BY <1>1, <1>2, <1>3, <1>4, <1>5, ProductNat
<1>10. (steps * step) * den <= num /\ steps * step <= sp.volume_max
  <2>1. (steps * step) * den \in Nat
    BY <1>9, ProductNat
  <2> QED
    BY <1>1, <1>3, <1>4, <1>6, <1>7, <1>8, <1>9, <2>1, SMT
<1>11. NormalizeVolume(num, den, sp) =
           IF steps * step > 0 /\ steps * step >= sp.volume_min THEN steps * step ELSE 0
  BY DEF NormalizeVolume, steps, asked, most
<1>12. CASE steps * step > 0 /\ steps * step >= sp.volume_min
  BY <1>1, <1>5, <1>9, <1>10, <1>11, <1>12
<1>13. CASE ~(steps * step > 0 /\ steps * step >= sp.volume_min)
  <2>1. NormalizeVolume(num, den, sp) = 0
    BY <1>11, <1>13
  <2>2. 0 * den <= num
    BY SMT
  <2> QED
    BY <2>1, <2>2
<1> QED
  BY <1>12, <1>13

\* What a size is derived for loses no more than the budget at the stop, and lies
\* within the broker's bounds: for every budget, distance and specification.
THEOREM SizeWithinBudget ==
    ASSUME NEW budget \in Nat, NEW distance \in Nat, NEW sp \in SymbolSpec
    PROVE  LET lots == SizeForLossBudget(budget, distance, sp)
           IN  /\ lots \in Nat
               /\ WithinBudget(lots, distance, sp, budget)
               /\ lots # 0 => sp.volume_min <= lots /\ lots <= sp.volume_max
<1> DEFINE risk == RiskPerLot(distance, sp)
           lots == SizeForLossBudget(budget, distance, sp)
<1>1. risk.num \in Nat /\ risk.den \in Nat \ {0}
  <2>1. /\ sp.tick_size \in Nat /\ sp.tick_value \in Nat /\ sp.contract_size \in Nat
    BY DEF SymbolSpec
  <2>2. distance * sp.tick_value \in Nat /\ distance * sp.contract_size \in Nat
    BY <2>1, ProductNat
  <2> QED
    BY <2>1, <2>2 DEF RiskPerLot
<1>2. CASE risk.num = 0
  <2>1. lots = 0
    BY <1>2 DEF SizeForLossBudget
  <2>2. 0 * risk.num <= budget * risk.den
    BY <1>1, <1>2, ProductNat, SMT
  <2> QED
    BY <2>1, <2>2 DEF WithinBudget
<1>3. CASE risk.num # 0
  <2>1. lots = NormalizeVolume(budget * risk.den, risk.num, sp)
    BY <1>3 DEF SizeForLossBudget
  <2>2. budget * risk.den \in Nat
    BY <1>1, ProductNat
  <2>3. risk.num \in Nat \ {0}
    BY <1>1, <1>3
  <2> HIDE DEF risk, lots
  <2>4. /\ lots \in Nat /\ lots * risk.num <= budget * risk.den
        /\ lots # 0 => sp.volume_min <= lots /\ lots <= sp.volume_max
    BY <2>1, <2>2, <2>3, NormalizedFacts
  <2> QED
    BY <2>4 DEF WithinBudget, risk, lots
<1> QED
  BY <1>2, <1>3

\* The volume the engine has derived is the volume the execution layer sends: to
\* normalise it again changes nothing, as long as the specification is the same.
THEOREM NormalizedOnce ==
    ASSUME NEW num \in Nat, NEW den \in Nat \ {0}, NEW sp \in SymbolSpec
    PROVE  LET lots == NormalizeVolume(num, den, sp)
           IN  lots # 0 => NormalizeVolume(lots, 1, sp) = lots
<1> DEFINE lots == NormalizeVolume(num, den, sp)
           step == sp.volume_step
           most == sp.volume_max \div step
<1> SUFFICES ASSUME lots # 0
             PROVE  NormalizeVolume(lots, 1, sp) = lots
  OBVIOUS
<1>1. step \in Nat \ {0} /\ sp.volume_max \in Nat /\ sp.volume_min \in Nat \ {0}
  BY DEF SymbolSpec
<1>2. lots \in Nat /\ sp.volume_min <= lots /\ lots <= sp.volume_max
  BY NormalizedFacts
<1>3. PICK k \in Nat : lots = k * step
  BY NormalizedFacts
<1> HIDE DEF lots
<1>4. lots \div (1 * step) = k
  BY <1>1, <1>3, Exact
<1>5. most \in Nat /\ most * step <= sp.volume_max /\ sp.volume_max < most * step + step
  BY <1>1, Floored
<1> HIDE DEF most
<1>6. k <= most
  <2> SUFFICES ASSUME most < k
               PROVE  FALSE
    BY <1>5, SMT
  <2>1. (most + 1) * step <= k * step
    BY <1>1, <1>5, Scaled
  <2>2. (most + 1) * step = most * step + step
    BY <1>1, <1>5, SMT
  <2>3. most * step \in Nat
    BY <1>1, <1>5, ProductNat
  <2> QED
    BY <1>1, <1>2, <1>3, <1>5, <2>1, <2>2, <2>3, SMT
<1>7. Lesser(k, most) = k
  BY <1>6 DEF Lesser
<1>8. NormalizeVolume(lots, 1, sp) =
          IF k * step > 0 /\ k * step >= sp.volume_min THEN k * step ELSE 0
  BY <1>4, <1>7 DEF NormalizeVolume, most
<1> QED
  BY <1>1, <1>2, <1>3, <1>8, SMT

-----------------------------------------------------------------------------
(* Type correctness *)

LEMMA GoneIsPosition == Gone \in Position
BY DEF Gone, Position

LEMMA DistanceNat ==
    ASSUME NEW a \in Int, NEW b \in Int
    PROVE  Distance(a, b) \in Nat
BY DEF Distance

LEMMA DistanceOfNats ==
    ASSUME NEW a \in Nat, NEW b \in Nat
    PROVE  Distance(a, b) \in Nat
BY DEF Distance

\* Levels that are not refused are prices on the right sides of the entry.
LEMMA LevelsSound ==
    ASSUME NEW signal \in Signals, NEW tick \in Ticks, NEW sp \in SymbolSpec,
           Levels(signal, tick, sp, Ratio) # NoLevels
    PROVE  LET levels == Levels(signal, tick, sp, Ratio)
           IN  levels.entry \in Nat /\ levels.stop \in Nat /\ levels.target \in Nat
<1> DEFINE buy      == signal.side = "BUY"
           from     == IF signal.entry > 0 THEN signal.entry ELSE (tick.bid + tick.ask) \div 2
           risk     == Distance(from, signal.stop)
           reward   == Distance(from, signal.target)
           num      == IF signal.target = 0 THEN Ratio.num ELSE reward
           den      == IF signal.target = 0 THEN Ratio.den ELSE risk
           entry    == IF buy THEN tick.ask ELSE tick.bid
           stop     == RoundStep(IF buy THEN entry - risk ELSE entry + risk, 1, ~buy)
           distance == Distance(entry, stop)
           goal     == RoundStep(IF buy THEN entry * den + distance * num
                                        ELSE entry * den - distance * num, den, buy)
           fine     == /\ signal.stop > 0 /\ risk > 0
                       /\ num * Ratio.den >= Ratio.num * den
                       /\ ValidStops(signal.side, entry, stop, goal, sp, Ratio)
<1>1. Levels(signal, tick, sp, Ratio) =
          IF fine THEN [entry |-> entry, stop |-> stop, target |-> goal] ELSE NoLevels
  BY DEF Levels
<1>2. signal.entry \in Nat /\ signal.stop \in Nat /\ signal.target \in Nat
  BY SignalAssumption
<1>3. entry \in Nat
  BY TickAssumption
<1>4. risk \in Nat /\ reward \in Nat
  <2>1. tick.bid \in Nat /\ tick.ask \in Nat
    BY TickAssumption
  <2>2. from \in Nat
    BY <1>2, <2>1, SMT
  <2> HIDE DEF from
  <2> QED
    BY <1>2, <2>2, DistanceOfNats
<1>5. Grid \in Nat \ {0} /\ Ratio.num \in Nat \ {0} /\ Ratio.den \in Nat \ {0}
  BY GridAssumption, RatioAssumption
<1> HIDE DEF from, risk, reward, entry, buy
<1>6. stop \in Int
  <2>1. \A n \in Int : \A up \in BOOLEAN : RoundStep(n, 1, up) \in Int
    BY <1>5, SMT DEF RoundStep
  <2>2. (IF buy THEN entry - risk ELSE entry + risk) \in Int
    BY <1>3, <1>4
  <2> QED
    BY <2>1, <2>2 DEF buy
<1> HIDE DEF stop
<1>7. distance \in Nat
  BY <1>3, <1>6, DistanceNat
<1> HIDE DEF distance
<1>8. ASSUME fine
      PROVE  goal \in Int
  <2>1. den \in Nat \ {0} /\ num \in Nat
    BY <1>4, <1>5, <1>8
  <2> HIDE DEF den, num
  <2>2. \A n \in Int : \A up \in BOOLEAN : RoundStep(n, den, up) \in Int
    <3> SUFFICES ASSUME NEW n \in Int, NEW up \in BOOLEAN
                 PROVE  RoundStep(n, den, up) \in Int
      OBVIOUS
    <3>1. den * Grid \in Nat \ {0}
      BY <1>5, <2>1, SMT
    <3>2. n \div (den * Grid) \in Int
      BY <3>1, SMT
    <3>3. (n \div (den * Grid)) * Grid \in Int
      BY <1>5, <3>2, SMT
    <3> QED
      BY <1>5, <3>3 DEF RoundStep
  <2>3. entry * den \in Int /\ distance * num \in Int
    BY <1>3, <1>7, <2>1, ProductNat
  <2>4. (IF buy THEN entry * den + distance * num ELSE entry * den - distance * num) \in Int
    BY <2>3
  <2>5. buy \in BOOLEAN
    BY DEF buy
  <2> QED
    BY <2>2, <2>4, <2>5
<1>9. ASSUME fine
      PROVE  entry > 0 /\ stop > 0 /\ goal > 0
  BY <1>9 DEF ValidStops
<1>10. fine
  BY <1>1
<1>11. entry \in Nat /\ stop \in Nat /\ goal \in Nat
  <2>1. goal \in Int /\ stop > 0 /\ goal > 0
    BY <1>8, <1>9, <1>10
  <2> HIDE DEF goal
  <2> QED
    BY <1>3, <1>6, <2>1
<1> HIDE DEF goal, fine
<1> QED
  BY <1>1, <1>10, <1>11

LEMMA SizedNat ==
    ASSUME TypeOK, NEW levels, levels.entry \in Nat, levels.stop \in Nat, NEW margin
    PROVE  Sized(levels, margin) \in Nat
<1>1. SizeForLossBudget(Budget, Distance(levels.entry, levels.stop), spec) \in Nat
  <2>1. Distance(levels.entry, levels.stop) \in Nat
    BY DistanceOfNats
  <2>2. spec \in SymbolSpec
    BY SpecAssumption DEF TypeOK
  <2> QED
    BY <2>1, <2>2, LimitAssumption, SizeWithinBudget
<1> QED
  BY <1>1 DEF Sized

\* What Decide chooses, with all that is known of it
LEMMA Decided ==
    ASSUME TypeOK, Decide
    PROVE  /\ order' \in Order
           /\ WithinBudget(order.volume', Distance(order.entry', order.stop'), spec, Budget)
<1>1. PICK signal \in Signals, tick \in Ticks, margin \in Margins :
          LET levels == Levels(signal, tick, spec, Ratio)
              volume == Sized(levels, margin)
          IN  /\ levels # NoLevels /\ volume > 0
              /\ order' = [side |-> signal.side, entry |-> levels.entry, stop |-> levels.stop,
                           target |-> levels.target, volume |-> volume]
  BY DEF Decide
<1> DEFINE levels == Levels(signal, tick, spec, Ratio)
           size   == SizeForLossBudget(Budget, Distance(levels.entry, levels.stop), spec)
<1>2. spec \in SymbolSpec
  BY SpecAssumption DEF TypeOK
<1>3. levels.entry \in Nat /\ levels.stop \in Nat /\ levels.target \in Nat
  BY <1>1, <1>2, LevelsSound
<1>4. signal.side \in Side
  BY SignalAssumption
<1>5. Sized(levels, margin) \in Nat
  BY <1>3, SizedNat
<1>6. Sized(levels, margin) = size
  BY <1>1, <1>5 DEF Sized
<1>7. Distance(levels.entry, levels.stop) \in Nat
  BY <1>3, DistanceOfNats
<1>8. WithinBudget(size, Distance(levels.entry, levels.stop), spec, Budget)
  BY <1>2, <1>7, LimitAssumption, SizeWithinBudget
<1> HIDE DEF levels, size
<1>9. order' = [side |-> signal.side, entry |-> levels.entry, stop |-> levels.stop,
                target |-> levels.target, volume |-> Sized(levels, margin)]
  BY <1>1 DEF levels
<1>10. order' \in Order
  BY <1>3, <1>4, <1>5, <1>9 DEF Order
<1> QED
  BY <1>6, <1>8, <1>9, <1>10

\* What an order that is taken opens
LEMMA Filled ==
    ASSUME NEW volume \in Nat, TypeOK, Fills(volume)
    PROVE  /\ own' \in Position
           /\ own.volume' <= volume
           /\ own.price' \in (order.entry - Deviation)..(order.entry + Deviation)
<1>1. PICK price \in (order.entry - Deviation)..(order.entry + Deviation), filled \in 1..volume,
           protected \in BOOLEAN :
             own' = [price |-> price, volume |-> filled, protected |-> protected]
  BY DEF Fills
<1>2. order.entry \in Nat /\ Deviation \in Nat
  BY LimitAssumption DEF TypeOK, Order
<1> QED
  BY <1>1, <1>2 DEF Position

LEMMA Normalized ==
    ASSUME TypeOK
    PROVE  /\ NormalizeVolume(order.volume, 1, spec) \in Nat
           /\ NormalizeVolume(order.volume, 1, spec) <= order.volume
<1>1. order.volume \in Nat /\ spec \in SymbolSpec
  BY SpecAssumption DEF TypeOK, Order
<1>2. /\ NormalizeVolume(order.volume, 1, spec) \in Nat
      /\ NormalizeVolume(order.volume, 1, spec) * 1 <= order.volume
  BY <1>1, NormalizedFacts
<1> QED
  BY <1>2, SMT

\* TypeOK holds in every reachable state.
THEOREM TypeCorrect == Spec => []TypeOK
<1>1. Init => TypeOK
  BY DEF Init, TypeOK, NoOrder, Order, Side, Gone, Position
<1>2. TypeOK /\ [Next]_vars => TypeOK'
  <2> SUFFICES ASSUME TypeOK, [Next]_vars
               PROVE  TypeOK'
    OBVIOUS
  <2>1. CASE Decide
    BY <2>1, Decided DEF Decide, TypeOK
  <2>2. CASE Submit
    <3> DEFINE volume == NormalizeVolume(order.volume, 1, spec)
    <3>1. volume \in Nat
      BY Normalized
    <3>2. own' \in Position
      <4>1. CASE Fills(volume)
        BY <3>1, <4>1, Filled
      <4>2. CASE UNCHANGED own
        BY <4>2 DEF TypeOK
      <4> QED
        BY <2>2, <4>1, <4>2 DEF Submit
    <3>3. order' \in Order
      <4>1. NoOrder \in Order
        BY DEF NoOrder, Order, Side
      <4>2. order' \in {order, NoOrder}
        BY <2>2 DEF Submit
      <4> QED
        BY <4>1, <4>2 DEF TypeOK
    <3>4. pc' \in {"idle", "verify", "done"} /\ excuse' \in {excuse, {"no answer"}, {"placed"}}
      BY <2>2 DEF Submit
    <3>5. UNCHANGED <<spec, assessed, other, target, report>>
      BY <2>2 DEF Submit
    <3> QED
      BY <3>2, <3>3, <3>4, <3>5 DEF TypeOK
  <2>3. CASE Verify
    <3>1. UNCHANGED <<spec, order, assessed, own, other>>
      BY <2>3 DEF Verify
    <3>2. pc' \in {"done", "modify"} /\ report' \in {report, "unverified", "verified", "none"}
      BY <2>3 DEF Verify
    <3>3. excuse' \subseteq excuse \cup {"unread", "unlisted"}
      BY <2>3 DEF Verify, Excuses
    <3>4. target' \in {"none", "own", "other"}
      BY <2>3 DEF Verify, TypeOK, Listed, Standing, FindPosition
    <3> QED
      BY <3>1, <3>2, <3>3, <3>4 DEF TypeOK
  <2>4. CASE Modify
    BY <2>4 DEF Modify, TypeOK, Position
  <2>5. CASE Reread
    <3>1. UNCHANGED <<spec, order, assessed, own, other>>
      BY <2>5 DEF Reread
    <3>2. pc' \in {"done", "close"} /\ report' \in {report, "corrected"}
      BY <2>5 DEF Reread
    <3>3. excuse' \subseteq excuse \cup {"unread", "unlisted"}
      BY <2>5 DEF Reread, Excuses
    <3>4. target' \in {"none", "own", "other"}
      BY <2>5 DEF Reread, TypeOK, Listed, Standing, FindPosition
    <3> QED
      BY <3>1, <3>2, <3>3, <3>4 DEF TypeOK
  <2>6. CASE Close
    <3>1. own' \in {own, Gone} /\ other' \in {other, "closed"} /\ pc' = "done"
      BY <2>6 DEF Close
    <3>2. report' \in {"closed", "failed"} /\ excuse' \subseteq excuse \cup {"not closed"}
      BY <2>6 DEF Close
    <3>3. UNCHANGED <<spec, order, assessed, target>>
      BY <2>6 DEF Close
    <3> QED
      BY <3>1, <3>2, <3>3, GoneIsPosition DEF TypeOK
  <2>7. CASE Hit
    <3>1. own' \in {own, Gone} /\ other' \in {other, "none"}
      BY <2>7 DEF Hit
    <3>2. UNCHANGED <<spec, pc, order, assessed, target, report, excuse>>
      BY <2>7 DEF Hit
    <3> QED
      BY <3>1, <3>2, GoneIsPosition DEF TypeOK
  <2>8. CASE Respecify
    BY <2>8 DEF Respecify, TypeOK
  <2>9. CASE CutShort
    BY <2>9 DEF CutShort, TypeOK
  <2>10. CASE UNCHANGED vars
    BY <2>10 DEF vars, TypeOK
  <2> QED
    BY <2>1, <2>2, <2>3, <2>4, <2>5, <2>6, <2>7, <2>8, <2>9, <2>10 DEF Next
<1> QED
  BY <1>1, <1>2, PTL DEF Spec

-----------------------------------------------------------------------------
(* The budget *)

\* RiskPerLot of a distance is the distance times that of one unit of price.
LEMMA PerUnit ==
    ASSUME NEW sp \in SymbolSpec, NEW distance \in Nat
    PROVE  LET one == RiskPerLot(1, sp)
           IN  /\ one.num \in Nat /\ one.den \in Nat \ {0}
               /\ RiskPerLot(distance, sp).num = distance * one.num
               /\ RiskPerLot(distance, sp).den = one.den
<1>1. sp.tick_size \in Nat /\ sp.tick_value \in Nat /\ sp.contract_size \in Nat
  BY DEF SymbolSpec
<1>2. 1 * sp.tick_value = sp.tick_value /\ 1 * sp.contract_size = sp.contract_size
  BY <1>1, SMT
<1> QED
  BY <1>1, <1>2 DEF RiskPerLot

\* An order in hand was sized within the budget, and what it has opened is no larger
\* and was filled within the deviation.
Priced ==
    /\ pc # "idle" =>
         WithinBudget(order.volume, Distance(order.entry, order.stop), assessed, Budget)
    /\ pc \in {"idle", "submit"} => own = Gone
    /\ own # Gone => /\ own.volume <= order.volume
                     /\ own.price \in (order.entry - Deviation)..(order.entry + Deviation)

\* RiskBounded follows: the distance from the fill to the stop is at most that from
\* the price asked and the deviation.
LEMMA PricedBounds == ASSUME TypeOK, Priced PROVE RiskBounded
<1> DEFINE n == RiskPerLot(1, assessed).num
           d == RiskPerLot(1, assessed).den
           D == Distance(order.entry, order.stop)
           F == Distance(own.price, order.stop)
           v == own.volume
           V == order.volume
<1> SUFFICES ASSUME own # Gone
             PROVE  v * F * n <= Budget * d + v * Deviation * n
  BY DEF RiskBounded
<1>1. /\ order.entry \in Nat /\ order.stop \in Nat /\ V \in Nat
      /\ own.price \in Int /\ v \in Nat /\ assessed \in SymbolSpec
  BY SpecAssumption DEF TypeOK, Order, Position
<1>2. D \in Nat /\ F \in Nat
  <2>1. order.stop \in Int
    BY <1>1
  <2> QED
    BY <1>1, <2>1, DistanceNat, DistanceOfNats
<1>3. /\ n \in Nat /\ d \in Nat \ {0}
      /\ RiskPerLot(D, assessed).num = D * n /\ RiskPerLot(D, assessed).den = d
  BY <1>1, <1>2, PerUnit
<1>4. pc # "idle"
  BY DEF Priced
<1>5. V * (D * n) <= Budget * d
  BY <1>3, <1>4 DEF Priced, WithinBudget
<1>6. Budget \in Nat /\ Deviation \in Nat
  BY LimitAssumption
<1>7. v <= V /\ own.price \in (order.entry - Deviation)..(order.entry + Deviation)
  BY DEF Priced
<1>8. F <= D + Deviation
  BY <1>1, <1>6, <1>7, SMT DEF Distance
<1> HIDE DEF n, d, D, F, v, V
<1>9. D * n \in Nat /\ Deviation * n \in Nat /\ D + Deviation \in Nat
  BY <1>2, <1>3, <1>6, ProductNat, SMT
<1>10. v * (D * n) <= V * (D * n)
  BY <1>1, <1>7, <1>9, Scaled
<1>11. F * (v * n) <= (D + Deviation) * (v * n)
  BY <1>1, <1>2, <1>3, <1>8, <1>9, ProductNat, Scaled
<1>12. v * F * n = F * (v * n)
  BY <1>1, <1>2, <1>3, SMT
<1>13. (D + Deviation) * (v * n) = v * (D * n) + v * Deviation * n
  BY <1>1, <1>2, <1>3, <1>6, SMT
<1>14. /\ v * (D * n) \in Nat /\ V * (D * n) \in Nat /\ Budget * d \in Nat
       /\ v * F * n \in Nat /\ v * Deviation * n \in Nat
  BY <1>1, <1>2, <1>3, <1>6, <1>9, ProductNat
<1> QED
  BY <1>5, <1>10, <1>11, <1>12, <1>13, <1>14, SMT

\* What stands never loses more at its stop than the budget and the slippage of the
\* fill, for all signals, prices, specifications and limits.
THEOREM BudgetKept == Spec => []RiskBounded
<1>1. Init => Priced
  BY DEF Init, Priced, NoOrder
<1>2. TypeOK /\ Priced /\ [Next]_vars => Priced'
  <2> SUFFICES ASSUME TypeOK, Priced, [Next]_vars
               PROVE  Priced'
    OBVIOUS
  <2>1. CASE Decide
    <3>1. pc = "idle" /\ pc' = "submit" /\ own' = own /\ assessed' = spec
      BY <2>1 DEF Decide
    <3>2. WithinBudget(order.volume', Distance(order.entry', order.stop'), spec, Budget)
      BY <2>1, Decided
    <3> QED
      BY <3>1, <3>2 DEF Priced
  <2>2. CASE Submit
    <3> DEFINE volume == NormalizeVolume(order.volume, 1, spec)
    <3>1. pc = "submit" /\ assessed' = assessed
      BY <2>2 DEF Submit
    <3>2. CASE Fills(volume) /\ order' = order /\ pc' \in {"verify", "done"}
      <4>1. volume \in Nat /\ volume <= order.volume /\ order.volume \in Nat
        BY Normalized DEF TypeOK, Order
      <4>2. /\ own.volume' <= volume /\ own' \in Position
            /\ own.price' \in (order.entry - Deviation)..(order.entry + Deviation)
        BY <3>2, <4>1, Filled
      <4>3. own.volume' <= order.volume
        BY <4>1, <4>2 DEF Position
      <4>4. WithinBudget(order.volume', Distance(order.entry', order.stop'), assessed', Budget)
        BY <3>1, <3>2 DEF Priced
      <4> QED
        BY <3>1, <3>2, <4>2, <4>3, <4>4 DEF Priced
    <3>3. CASE own' = own /\ order' = order /\ pc' = "done"
      BY <3>1, <3>3 DEF Priced
    <3>4. CASE pc' = "idle" /\ own' = own
      BY <3>1, <3>4 DEF Priced
    <3> QED
      BY <2>2, <3>2, <3>3, <3>4 DEF Submit
  <2>3. CASE Verify \/ Reread \/ Hit \/ Respecify \/ Close \/ CutShort \/ UNCHANGED vars
    <3>1. own' \in {own, Gone} /\ UNCHANGED <<order, assessed>>
      BY <2>3 DEF Verify, Reread, Hit, Respecify, Close, CutShort, vars
    <3>2. /\ pc' # "idle" => pc # "idle"
          /\ pc' \in {"idle", "submit"} => pc' = pc
      BY <2>3 DEF Verify, Reread, Hit, Respecify, Close, CutShort, vars
    <3> QED
      BY <3>1, <3>2 DEF Priced
  <2>4. CASE Modify
    <3>1. UNCHANGED <<order, assessed>> /\ pc = "modify" /\ pc' = "reread"
      BY <2>4 DEF Modify
    <3>2. own \in Position
      BY DEF TypeOK
    <3>3. \/ own' = own
          \/ own # Gone /\ own.volume' = own.volume /\ own.price' = own.price
      BY <2>4, <3>2 DEF Modify, Position
    <3> QED
      BY <3>1, <3>3 DEF Priced
  <2> QED
    BY <2>1, <2>2, <2>3, <2>4 DEF Next
<1> QED
  BY <1>1, <1>2, TypeCorrect, PricedBounds, PTL DEF Spec

-----------------------------------------------------------------------------
(* Protection *)

\* _verify_protection has the position of the order in hand, or an excuse.
InHand ==
    /\ target = "other" => "unlisted" \in excuse
    /\ pc \in {"modify", "reread", "close"} => target \in {"own", "other"}
    /\ pc \in {"idle", "submit"} => target = "none" /\ own = Gone
    /\ pc # "done" => report = "none"

\* The inductive invariant behind NeverUnprotected
Guarded == InHand /\ NeverUnprotected

\* The position found is the one wanted, or the list has left that out.
LEMMA Found ==
    ASSUME NEW list, NEW ticket
    PROVE  /\ FindPosition(list, ticket) # ticket /\ ticket # "none" => ticket \notin list
           /\ list \subseteq {"own", "other"} =>
                FindPosition(list, ticket) \in {"own", "other", "none"}
<1>1. \A p : list = {p} => (CHOOSE q \in list : TRUE) \in list
  OBVIOUS
<1> QED
  BY <1>1 DEF FindPosition

LEMMA GuardedStep == TypeOK /\ Guarded /\ [Next]_vars => Guarded'
<1> SUFFICES ASSUME TypeOK, Guarded, [Next]_vars
             PROVE  Guarded'
  OBVIOUS
<1> USE DEF Guarded
<1>1. CASE Decide \/ Respecify \/ CutShort \/ UNCHANGED vars
  BY <1>1 DEF Decide, Respecify, CutShort, vars, InHand, NeverUnprotected
<1>2. CASE Submit
  BY <1>2 DEF Submit, InHand, NeverUnprotected
<1>3. CASE Verify
  <2>1. pc = "verify" /\ UNCHANGED <<own, other>>
    BY <1>3 DEF Verify
  <2>2. CASE /\ pc' = "done" /\ report' \in {"unverified", "none"}
             /\ excuse' = excuse \cup {"unread"} /\ target' = target
    BY <2>1, <2>2 DEF InHand, NeverUnprotected
  <2>3. ASSUME NEW list \in Listed, target' = FindPosition(list, "own"),
               excuse' = excuse \cup Excuses(list),
               IF target' = "none" THEN pc' = "done" /\ report' = "unverified"
               ELSE IF Intact(target') THEN pc' = "done" /\ report' = "verified"
               ELSE pc' = "modify" /\ report' = report
        PROVE  Guarded'
    <3>1. target' # "own" => "unlisted" \in excuse'
      BY <2>3, Found DEF Excuses
    <3>2. target' \in {"own", "other", "none"}
      BY <2>3, Found DEF Listed, Standing
    <3>3. InHand'
      BY <2>1, <2>3, <3>1, <3>2 DEF InHand
    <3>4. NeverUnprotected'
      BY <2>1, <2>3, <3>1 DEF InHand, NeverUnprotected, Intact
    <3> QED
      BY <3>3, <3>4
  <2> QED
    BY <1>3, <2>2, <2>3 DEF Verify
<1>4. CASE Modify
  BY <1>4 DEF Modify, InHand, NeverUnprotected
<1>5. CASE Reread
  <2>1. pc = "reread" /\ UNCHANGED <<own, other>> /\ target \in {"own", "other"}
    BY <1>5 DEF Reread, InHand
  <2>2. CASE /\ \/ pc' = "close"
                \/ pc' = "done" /\ "unread" \in excuse'
             /\ excuse \subseteq excuse' /\ UNCHANGED <<target, report>>
    BY <2>1, <2>2 DEF InHand, NeverUnprotected
  <2>3. ASSUME NEW list \in Listed, NEW found, found = FindPosition(list, target),
               excuse' = excuse \cup Excuses(list),
               IF Intact(found) THEN pc' = "done" /\ report' = "corrected" /\ target' = target
               ELSE /\ pc' = "close" /\ report' = report
                    /\ target' = (IF found = "none" THEN target ELSE found)
        PROVE  Guarded'
    <3>1. found = "other" => "unlisted" \in excuse'
      BY <2>1, <2>3, Found DEF Excuses, InHand
    <3>2. found \in {"own", "other", "none"}
      BY <2>3, Found DEF Listed, Standing
    <3>3. InHand'
      BY <2>1, <2>3, <3>1, <3>2 DEF InHand
    <3>4. NeverUnprotected'
      BY <2>1, <2>3 DEF NeverUnprotected, Intact
    <3> QED
      BY <3>3, <3>4
  <2> QED
    BY <1>5, <2>2, <2>3 DEF Reread
<1>6. CASE Close
  <2>1. /\ UNCHANGED target /\ pc = "close" /\ pc' = "done" /\ target \in {"own", "other"}
        /\ report' \in {"closed", "failed"}
    BY <1>6 DEF Close, InHand
  <2>2. CASE own' = Gone /\ excuse' = excuse
    BY <2>1, <2>2 DEF InHand, NeverUnprotected
  <2>3. CASE target = "other" /\ excuse' = excuse
    BY <2>1, <2>3 DEF InHand, NeverUnprotected
  <2>4. CASE excuse' = excuse \cup {"not closed"}
    BY <2>1, <2>4 DEF InHand, NeverUnprotected
  <2> QED
    BY <1>6, <2>2, <2>3, <2>4 DEF Close
<1>7. CASE Hit
  <2>1. own' \in {own, Gone} /\ UNCHANGED <<pc, target, report, excuse>>
    BY <1>7 DEF Hit
  <2> QED
    BY <2>1 DEF InHand, NeverUnprotected
<1> QED
  BY <1>1, <1>2, <1>3, <1>4, <1>5, <1>6, <1>7 DEF Next

LEMMA GuardedInit == Init => Guarded
BY DEF Init, Guarded, InHand, NeverUnprotected

\* A submit whose check ran to its end on complete lists, and whose close was not refused,
\* leaves no position without its levels, and no report that one is verified is false,
\* for all signals, prices, specifications, limits and hardships.
THEOREM ProtectionKept == Spec => []NeverUnprotected
<1>1. Guarded => NeverUnprotected
  BY DEF Guarded
<1> QED
  BY <1>1, GuardedInit, GuardedStep, TypeCorrect, PTL DEF Spec

\* No step modifies or closes another position unless the one just opened was missing
\* from a list that was read.
THEOREM OthersKept == Spec => OtherLeftAlone
<1>1. TypeOK /\ Guarded /\ [Next]_vars =>
          [other' # other /\ other' \in {"modified", "closed"} => "unlisted" \in excuse]_vars
  <2> SUFFICES ASSUME Guarded, Next, other' # other, other' \in {"modified", "closed"}
               PROVE  "unlisted" \in excuse
    BY DEF vars
  <2>1. CASE Modify
    BY <2>1 DEF Modify, Guarded, InHand
  <2>2. CASE Close
    BY <2>2 DEF Close, Guarded, InHand
  <2>3. CASE Decide \/ Submit \/ Verify \/ Reread \/ CutShort \/ Hit \/ Respecify
    BY <2>3 DEF Decide, Submit, Verify, Reread, CutShort, Hit, Respecify
  <2> QED
    BY <2>1, <2>2, <2>3 DEF Next
<1> QED
  BY <1>1, GuardedInit, GuardedStep, TypeCorrect, PTL DEF Spec, OtherLeftAlone

=============================================================================
