--------------------------- MODULE RiskSessionProofs ---------------------------
(***************************************************************************)
(* Proofs about RiskSession: type correctness, the persisted lock, the     *)
(* peak the drawdown is measured from, the positions of one scan and the   *)
(* daily limit, for every number of days, limits, results and hardships.   *)
(***************************************************************************)
EXTENDS RiskSession, TLAPS

-----------------------------------------------------------------------------
(* What is filed *)

\* Nothing is filed, found or counted ahead of the clock, the rows have a latest
\* one, and the row of a cycle's day exists while it runs.
Known ==
    /\ \A d \in filed : d <= day
    /\ filed # {} => \E d \in filed : \A e \in filed : e <= d
    /\ today <= day
    /\ today # 0 => today \in filed
    /\ pc # "idle" => today # 0
    /\ \A d \in Day : d > day => unbooked[d] = 0 /\ sent[d] = 0
    /\ reader # <<>> => reader[1] <= day

Base == TypeOK /\ Known

LEMMA LatestFiled ==
    ASSUME Known, filed # {}
    PROVE  Latest \in filed /\ \A e \in filed : e <= Latest
<1> DEFINE Last(d) == d \in filed /\ \A e \in filed : e <= d
<1>1. \E d : Last(d)
  BY DEF Known
<1>2. Latest = CHOOSE d \in filed : \A e \in filed : e <= d
  BY DEF Latest
<1> QED
  BY <1>1, <1>2, Zenon

LEMMA FreshType == Fresh \in Row
BY DEF Fresh, Row

LEMMA InheritedType ==
    ASSUME Base
    PROVE  Inherited \in Row /\ Inherited.trades = 0
<1>1. CASE filed = {}
  BY <1>1, FreshType DEF Inherited, Fresh
<1>2. CASE filed # {}
  <2>1. row[Latest] \in Row
    BY <1>2, LatestFiled DEF Base, TypeOK
  <2> QED
    <3> DEFINE r == row[Latest]
    <3>1. r.peak \in Nat /\ r.locked \in BOOLEAN
      BY <2>1 DEF Row
    <3>2. Inherited = [pnl |-> 0, trades |-> 0, peak |-> r.peak, locked |-> r.locked,
                       killed |-> FALSE]
      BY <1>2 DEF Inherited, Fresh
    <3> HIDE DEF r
    <3> QED
      BY <3>1, <3>2 DEF Row
<1> QED
  BY <1>1, <1>2

LEMMA LoadType ==
    ASSUME Base, NEW d \in Day
    PROVE  Load(d) \in Row
BY InheritedType DEF Load, Base, TypeOK

\* Storing a row of a day that has come keeps the store well typed and ordered.
LEMMA StoreType ==
    ASSUME Base, NEW d \in Day, d <= day, NEW r \in Row, Store(d, r)
    PROVE  /\ filed' \subseteq Day /\ row' \in [Day -> Row]
           /\ filed \subseteq filed' /\ d \in filed'
           /\ \A e \in filed' : e <= day
           /\ filed' # {} => \E f \in filed' : \A e \in filed' : e <= f
<1>1. /\ filed' \subseteq Day /\ row' \in [Day -> Row] /\ filed \subseteq filed'
      /\ d \in filed' /\ \A e \in filed' : e <= day
  BY DEF Store, Base, TypeOK, Known
<1>2. \E f \in filed' : \A e \in filed' : e <= f
  <2>0. Day \subseteq Int
    BY DEF Day
  <2>1. CASE filed = {}
    BY <2>0, <2>1 DEF Store
  <2>2. CASE filed # {}
    <3>1. Latest \in filed /\ \A e \in filed : e <= Latest
      BY <2>2, LatestFiled DEF Base
    <3>2. Latest \in Int /\ filed \subseteq Int
      BY <3>1, <2>0 DEF Base, TypeOK
    <3>3. CASE d <= Latest
      BY <3>1, <3>3 DEF Store
    <3>4. CASE Latest < d
      BY <2>0, <3>1, <3>2, <3>4 DEF Store
    <3> QED
      BY <2>0, <3>2, <3>3, <3>4
  <2> QED
    BY <2>1, <2>2
<1> QED
  BY <1>1, <1>2

\* What a store changes of the day it is: nothing, when a later day has a row.
LEMMA StoreLoad ==
    ASSUME Base, NEW d \in Day, d <= day, NEW r \in Row, Store(d, r), UNCHANGED day
    PROVE  /\ (\E e \in filed : d < e) => Load(day)' = Load(day)
           /\ d = day => Load(day)' = r
           /\ \/ Load(day)'.locked = r.locked /\ Load(day)'.peak = r.peak
              \/ Load(day)' = Load(day)
<1> USE DEF Base
<1>0. Day \subseteq Int /\ filed \subseteq Int /\ day \in Day
  BY DEF Day, TypeOK
<1>1. CASE d = day
  <2>1. Load(day)' = r
    BY <1>1 DEF Store, Load, TypeOK
  <2>2. ~\E e \in filed : d < e
    BY <1>0, <1>1 DEF Known
  <2> QED
    BY <1>1, <2>1, <2>2
<1>2. CASE d # day /\ day \in filed
  <2>1. Load(day)' = Load(day)
    BY <1>2 DEF Store, Load, TypeOK
  <2> QED
    BY <1>2, <2>1
<1>3. CASE d # day /\ day \notin filed /\ \E e \in filed : d < e
  <2>1. Latest \in filed /\ \A e \in filed : e <= Latest
    BY <1>3, LatestFiled
  <2>2. d < Latest
    BY <1>0, <1>3, <2>1
  <2>3. \A f \in filed' : (\A e \in filed' : e <= f) => f = Latest
    BY <1>0, <2>1, <2>2 DEF Store
  <2>4. Latest \in filed' /\ \A e \in filed' : e <= Latest
    BY <1>0, <2>1, <2>2 DEF Store
  <2>5. Latest' = Latest
    BY <2>3, <2>4, Zenon DEF Latest
  <2>6. day' \notin filed' /\ row'[Latest] = row[Latest] /\ filed' # {} /\ filed # {}
    BY <1>0, <1>3, <2>1, <2>2 DEF Store, TypeOK
  <2>7. Load(day)' = Load(day)
    BY <1>3, <2>5, <2>6 DEF Load, Inherited
  <2> QED
    BY <1>3, <2>7
<1>4. CASE d # day /\ day \notin filed /\ ~\E e \in filed : d < e
  <2>1. \A e \in filed' : e <= d
    BY <1>0, <1>4 DEF Store
  <2>2. d \in filed'
    BY DEF Store
  <2>3. \A f \in filed' : (\A e \in filed' : e <= f) => f = d
    BY <1>0, <2>1, <2>2 DEF Store
  <2>4. Latest' = d
    BY <2>1, <2>2, <2>3, Zenon DEF Latest
  <2>5. day' \notin filed' /\ filed' # {} /\ row'[d] = r
    BY <1>4, <2>2 DEF Store, TypeOK
  <2>6. Load(day)' = [Fresh EXCEPT !.peak = r.peak, !.locked = r.locked]
    BY <2>4, <2>5 DEF Load, Inherited
  <2>7. Load(day)'.locked = r.locked /\ Load(day)'.peak = r.peak
    BY <2>6 DEF Fresh
  <2> QED
    BY <1>4, <2>7
<1> QED
  BY <1>1, <1>2, <1>3, <1>4

\* What load() returns for a day after which none has a row agrees with the day it is.
LEMMA LoadAgrees ==
    ASSUME Base, NEW d \in Day, d <= day, ~\E e \in filed : d < e
    PROVE  Load(d).locked = Load(day).locked /\ Load(d).peak = Load(day).peak
<1> USE DEF Base
<1>0. Day \subseteq Int /\ filed \subseteq Int /\ day \in Day
  BY DEF Day, TypeOK
<1>1. CASE d \notin filed
  <2>1. day \notin filed
    BY <1>0, <1>1
  <2> QED
    BY <1>1, <2>1 DEF Load
<1>2. CASE d \in filed /\ day \in filed
  <2>1. d = day
    BY <1>0, <1>2
  <2> QED
    BY <2>1
<1>3. CASE d \in filed /\ day \notin filed
  <2>0. Latest \in filed /\ d <= Latest
    BY <1>3, LatestFiled
  <2>1. Latest = d
    BY <1>0, <1>3, <2>0
  <2>2. Load(day) = [Fresh EXCEPT !.peak = row[d].peak, !.locked = row[d].locked]
    BY <1>3, <2>1 DEF Load, Inherited
  <2> QED
    BY <1>3, <2>2 DEF Load, Fresh
<1> QED
  BY <1>1, <1>2, <1>3

-----------------------------------------------------------------------------
(* Type correctness *)

LEMMA BaseInit == Init => Base
<1> SUFFICES ASSUME Init
             PROVE  Base
  OBVIOUS
<1>1. day \in Day /\ day = 1
  BY DayAssumption DEF Init, Day
<1>2. row \in [Day -> Row]
  BY FreshType DEF Init
<1>3. pinned \in BOOLEAN /\ context \in [open : Nat, equity : Equity \cup {0}, complete : BOOLEAN]
  BY DEF Init, NoContext
<1>4. left \in 0..MaxCandidates
  BY LimitAssumption DEF Init
<1>5. TypeOK
  BY <1>1, <1>2, <1>3, <1>4 DEF Init, TypeOK, Place, Setting
<1>6. Known
  BY <1>1 DEF Init, Known
<1> QED
  BY <1>5, <1>6 DEF Base

\* The loop's own variables
LoopType ==
    /\ pc \in Place /\ today \in Day \cup {0}
    /\ context \in [open : Nat, equity : Equity \cup {0}, complete : BOOLEAN]
    /\ left \in 0..MaxCandidates

LEMMA LeaveType == ASSUME Leave PROVE LoopType' /\ pc' = "idle" /\ today' = 0
BY LimitAssumption DEF Leave, NoContext, LoopType, Place

LEMMA NextCandidateType ==
    ASSUME Base, NextCandidate, left \in 1..MaxCandidates, UNCHANGED today
    PROVE  LoopType' /\ pc' # "idle"
<1>1. NoContext \in [open : Nat, equity : Equity \cup {0}, complete : BOOLEAN]
  BY DEF NoContext
<1>2. context' = NoContext \/ context' = context
  BY DEF NextCandidate
<1>3. context' \in [open : Nat, equity : Equity \cup {0}, complete : BOOLEAN]
  BY <1>1, <1>2 DEF Base, TypeOK
<1>4. pc' \in {"scan", "assess"} /\ today' = today
  BY DEF NextCandidate
<1>5. left' \in 0..MaxCandidates
  BY LimitAssumption DEF NextCandidate
<1> QED
  BY <1>3, <1>4, <1>5 DEF LoopType, Place, Base, TypeOK

\* While a candidate is at hand, it is one of those that are left.
AtHand == pc \in {"assess", "submit", "register"} => left >= 1

BaseInv == Base /\ AtHand

StoreInv ==
    /\ filed \subseteq Day /\ row \in [Day -> Row]
    /\ \A d \in filed : d <= day
    /\ filed # {} => \E d \in filed : \A e \in filed : e <= d

\* The two halves: the store, and everything that is not the store.
RestInv ==
    /\ day \in Day /\ pinned \in BOOLEAN /\ equity \in Equity /\ open \in Nat
    /\ unbooked \in [Day -> Int]
    /\ LoopType
    /\ reader \in {<<>>} \cup (Day \X Row)
    /\ locks \subseteq Setting /\ top \in Nat /\ sent \in [Day -> Nat] /\ lost \in Nat
    /\ today <= day /\ (pc # "idle" => today # 0)
    /\ \A d \in Day : d > day => unbooked[d] = 0 /\ sent[d] = 0
    /\ reader # <<>> => reader[1] <= day
    /\ AtHand

LEMMA Halves == BaseInv <=> StoreInv /\ RestInv /\ (today # 0 => today \in filed)
BY Zenon DEF BaseInv, Base, TypeOK, Known, StoreInv, RestInv, LoopType

LEMMA HalvesNext ==
    ASSUME StoreInv', RestInv', today' # 0 => today' \in filed'
    PROVE  BaseInv'
BY Zenon DEF BaseInv, Base, TypeOK, Known, StoreInv, RestInv, LoopType

LEMMA Stored ==
    ASSUME Base, NEW d \in Day, d <= day, NEW r \in Row, Store(d, r), UNCHANGED day
    PROVE  StoreInv' /\ filed \subseteq filed' /\ d \in filed'
BY StoreType DEF StoreInv

LEMMA Unstored ==
    ASSUME Base, UNCHANGED store, UNCHANGED day
    PROVE  StoreInv' /\ filed' = filed
BY DEF StoreInv, store, Base, TypeOK, Known

LEMMA StoredRow ==
    ASSUME Base, NEW d \in Day
    PROVE  /\ Load(d) \in Row
           /\ Latched(Load(d)) \in Row
           /\ \A b \in BOOLEAN : [Load(d) EXCEPT !.locked = b] \in Row
           /\ \A n \in Int : [Load(d) EXCEPT !.pnl = @ + n] \in Row
           /\ [Load(d) EXCEPT !.trades = @ + 1] \in Row
           /\ context.equity \in Nat => Assessed(Load(d)) \in Row
<1> DEFINE r == Load(d)
<1>1. r \in Row
  BY LoadType
<1> HIDE DEF r
<1>2. Latched(r) \in Row /\ \A b \in BOOLEAN : [r EXCEPT !.locked = b] \in Row
  BY <1>1 DEF Latched, Row
<1>3. (\A n \in Int : [r EXCEPT !.pnl = @ + n] \in Row) /\ [r EXCEPT !.trades = @ + 1] \in Row
  BY <1>1 DEF Row
<1>4. ASSUME context.equity \in Nat
      PROVE  Assessed(r) \in Row
  <2>1. Observed(r, context.equity) \in Row
    BY <1>1, <1>4 DEF Observed, Row
  <2> QED
    BY <2>1 DEF Assessed, Latched, Row
<1> QED
  BY <1>1, <1>2, <1>3, <1>4 DEF r

LEMMA BaseNext == BaseInv /\ [Next]_vars => BaseInv'
<1> SUFFICES ASSUME BaseInv, [Next]_vars
             PROVE  BaseInv'
  OBVIOUS
<1> USE DEF BaseInv
<1>a. StoreInv /\ RestInv /\ (today # 0 => today \in filed) /\ Base /\ day \in Day
  BY Halves DEF RestInv
<1>1. CASE BeginCycle
  <2>0. day <= day /\ UNCHANGED day /\ Store(day, Load(day)) /\ Load(day) \in Row
    BY <1>1, <1>a, LoadType DEF BeginCycle, Day
  <2>1. StoreInv' /\ filed \subseteq filed' /\ day \in filed'
    BY <1>a, <2>0, Stored
  <2>2. RestInv'
    BY <1>1, <1>a DEF BeginCycle, RestInv, LoopType, AtHand, Place, broker, history, Day
  <2>3. today' # 0 => today' \in filed'
    BY <1>1, <1>a, <2>1 DEF BeginCycle
  <2> QED
    BY <2>1, <2>2, <2>3, HalvesNext
<1>2. CASE Mismatch
  <2>0. today \in Day /\ today <= day /\ UNCHANGED day
    BY <1>2, <1>a DEF Mismatch, RestInv, LoopType
  <2>1. StoreInv' /\ filed \subseteq filed'
    BY <1>2, <1>a, <2>0, Stored, StoredRow DEF Mismatch, SetEmergencyLocked
  <2>2. /\ LoopType'
        /\ \/ pc' = pc /\ today' = today /\ left' = left
           \/ pc' = "idle" /\ today' = 0
    <3>1. CASE Leave
      BY <3>1, LeaveType
    <3>2. CASE UNCHANGED loop
      <4>1. pc' = pc /\ today' = today /\ context' = context /\ left' = left
        BY <3>2 DEF loop
      <4>2. LoopType
        BY <1>a DEF RestInv
      <4>3. LoopType'
        BY <4>1, <4>2, Zenon DEF LoopType
      <4> QED
        BY <4>1, <4>3
    <3> QED
      BY <1>2, <3>1, <3>2 DEF Mismatch
  <2>3. locks' \subseteq Setting
    BY <1>2, <1>a DEF Mismatch, RestInv, Setting
  <2>4. RestInv'
    BY <1>2, <1>a, <2>0, <2>2, <2>3 DEF Mismatch, RestInv, AtHand, broker, Day
  <2>5. today' # 0 => today' \in filed'
    BY <1>a, <2>1, <2>2
  <2> QED
    BY <2>1, <2>4, <2>5, HalvesNext
<1>3. CASE ScanSymbol
  <2>1. StoreInv' /\ filed' = filed
    BY <1>3, <1>a, Unstored DEF ScanSymbol
  <2>2. LoopType' /\ left' >= 1
    BY <1>3, <1>a, LimitAssumption DEF ScanSymbol, RestInv, LoopType, Place
  <2>3. RestInv'
    BY <1>3, <1>a, <2>2 DEF ScanSymbol, RestInv, AtHand, broker, history
  <2>4. today' # 0 => today' \in filed'
    BY <1>3, <1>a, <2>1 DEF ScanSymbol
  <2> QED
    BY <2>1, <2>3, <2>4, HalvesNext
<1>b. ASSUME NextCandidate, left >= 1, UNCHANGED <<day, today>>, today # 0
      PROVE  LoopType' /\ AtHand' /\ today' <= day' /\ (pc' # "idle" => today' # 0)
  <2>1. left \in 1..MaxCandidates
    BY <1>a, <1>b DEF RestInv, LoopType
  <2>2. LoopType'
    BY <1>a, <1>b, <2>1, NextCandidateType
  <2>3. AtHand'
    BY <1>b, <2>1 DEF NextCandidate, AtHand
  <2> QED
    BY <1>a, <1>b, <2>2, <2>3 DEF RestInv
<1>4. CASE Assess
  <2>0. left >= 1 /\ today # 0 /\ day <= day /\ context.equity \in Nat /\ UNCHANGED <<day, today>>
    <3>1. left >= 1 /\ today # 0 /\ UNCHANGED <<day, today>>
      BY <1>4, <1>a DEF Assess, RestInv, AtHand
    <3>2. context.equity \in Equity \cup {0}
      BY <1>a DEF RestInv, LoopType
    <3>3. day <= day
      BY <1>a DEF Day
    <3>4. context.equity \in Nat
      <4>1. \A x \in Equity \cup {0} : x \in Nat
        BY EquityAssumption
      <4> QED
        BY <3>2, <4>1
    <3> QED
      BY <3>1, <3>3, <3>4
  <2>1. StoreInv' /\ filed \subseteq filed'
    BY <1>4, <1>a, <2>0, Stored, StoredRow DEF Assess
  <2>2. LoopType' /\ AtHand'
    <3>1. CASE NextCandidate
      BY <1>b, <2>0, <3>1
    <3>2. CASE pc' = "submit" /\ UNCHANGED <<context, left>>
      BY <1>a, <2>0, <3>2 DEF RestInv, LoopType, AtHand, Place
    <3> QED
      BY <1>4, <3>1, <3>2 DEF Assess
  <2>3. locks' \subseteq Setting /\ top' \in Nat
    BY <1>4, <1>a, <2>0 DEF Assess, RestInv, Setting
  <2>4. RestInv'
    BY <1>4, <1>a, <2>0, <2>2, <2>3 DEF Assess, RestInv, broker
  <2>5. today' # 0 => today' \in filed'
    BY <1>a, <2>0, <2>1
  <2> QED
    BY <2>1, <2>4, <2>5, HalvesNext
<1>5. CASE Submit
  <2>0. left >= 1 /\ today # 0 /\ UNCHANGED <<day, today>>
    BY <1>5, <1>a DEF Submit, RestInv, AtHand
  <2>1. StoreInv' /\ filed' = filed
    BY <1>5, <1>a, Unstored DEF Submit
  <2>2. LoopType' /\ AtHand'
    <3>1. CASE NextCandidate
      BY <1>b, <2>0, <3>1
    <3>2. CASE pc' = "register" /\ UNCHANGED <<context, left>>
      BY <1>a, <2>0, <3>2 DEF RestInv, LoopType, AtHand, Place
    <3> QED
      BY <1>5, <3>1, <3>2 DEF Submit
  <2>3. open' \in Nat /\ lost' \in Nat
    <3>1. (open' = open \/ open' = open + 1) /\ (lost' = lost \/ lost' = lost + 1)
      BY <1>5 DEF Submit, Opens, Lose
    <3> QED
      BY <1>a, <3>1 DEF RestInv
  <2>4. sent' \in [Day -> Nat] /\ \A d \in Day : d > day => sent'[d] = 0
    <3>1. sent' = sent \/ sent' = [sent EXCEPT ![day] = @ + 1]
      BY <1>5 DEF Submit, Opens
    <3>2. sent \in [Day -> Nat] /\ \A d \in Day : d > day => sent[d] = 0
      BY <1>a DEF RestInv
    <3>3. \A d \in Day : d > day => d # day
      BY <1>a DEF Day
    <3>4. sent'\in [Day -> Nat]
      BY <1>a, <3>1, <3>2
    <3> QED
      BY <1>a, <3>1, <3>2, <3>3, <3>4
  <2>5. RestInv'
    BY <1>5, <1>a, <2>0, <2>2, <2>3, <2>4 DEF Submit, RestInv
  <2>6. today' # 0 => today' \in filed'
    BY <1>a, <2>0, <2>1
  <2> QED
    BY <2>1, <2>5, <2>6, HalvesNext
<1>6. CASE Register
  <2>0. left >= 1 /\ today # 0 /\ day <= day /\ UNCHANGED <<day, today>>
    BY <1>6, <1>a DEF Register, RestInv, AtHand, Day
  <2>1. StoreInv' /\ filed \subseteq filed'
    BY <1>6, <1>a, <2>0, Stored, StoredRow DEF Register, RegisterTradeOpened
  <2>2. LoopType' /\ AtHand'
    BY <1>6, <1>b, <2>0 DEF Register
  <2>3. RestInv'
    BY <1>6, <1>a, <2>0, <2>2 DEF Register, RestInv, broker, history
  <2>4. today' # 0 => today' \in filed'
    BY <1>a, <2>0, <2>1
  <2> QED
    BY <2>1, <2>3, <2>4, HalvesNext
<1>7. CASE EndCycle
  <2>1. StoreInv' /\ filed' = filed
    BY <1>7, <1>a, Unstored DEF EndCycle
  <2>2. RestInv' /\ today' = 0
    BY <1>7, <1>a, LeaveType DEF EndCycle, RestInv, AtHand, broker, history, Day
  <2> QED
    BY <2>1, <2>2, HalvesNext
<1>8. CASE Reconcile
  <2>1. PICK d \in Day : /\ unbooked[d] # 0
                         /\ AddRealizedPnl(d, unbooked[d])
                         /\ unbooked' = [unbooked EXCEPT ![d] = 0]
    BY <1>8 DEF Reconcile
  <2>2. d <= day /\ unbooked[d] \in Int /\ UNCHANGED day
    BY <1>8, <1>a, <2>1 DEF RestInv, Reconcile, Day
  <2>3. StoreInv' /\ filed \subseteq filed'
    BY <1>a, <2>1, <2>2, Stored, StoredRow DEF AddRealizedPnl
  <2>4. /\ LoopType'
        /\ \/ pc' = pc /\ today' = today /\ left' = left
           \/ pc' = "idle" /\ today' = 0
    <3>1. CASE Leave
      BY <3>1, LeaveType
    <3>2. CASE UNCHANGED loop
      <4>1. pc' = pc /\ today' = today /\ context' = context /\ left' = left
        BY <3>2 DEF loop
      <4>2. LoopType
        BY <1>a DEF RestInv
      <4>3. LoopType'
        BY <4>1, <4>2, Zenon DEF LoopType
      <4> QED
        BY <4>1, <4>3
    <3> QED
      BY <1>8, <3>1, <3>2 DEF Reconcile
  <2>5. unbooked' \in [Day -> Int] /\ \A e \in Day : e > day => unbooked'[e] = 0
    BY <1>a, <2>1 DEF RestInv
  <2>6. RestInv'
    BY <1>8, <1>a, <2>4, <2>5 DEF Reconcile, RestInv, AtHand, history, Day
  <2>7. today' # 0 => today' \in filed'
    BY <1>a, <2>3, <2>4
  <2> QED
    BY <2>3, <2>6, <2>7, HalvesNext
<1>9. CASE Abort
  <2>1. StoreInv' /\ filed' = filed
    BY <1>9, <1>a, Unstored DEF Abort
  <2>2. lost' \in Nat
    BY <1>9, <1>a DEF Abort, Lose, RestInv
  <2>3. RestInv' /\ today' = 0
    BY <1>9, <1>a, <2>2, LeaveType DEF Abort, RestInv, AtHand, broker, Day
  <2> QED
    BY <2>1, <2>3, HalvesNext
<1>10. CASE ReaderLoads
  <2>1. StoreInv' /\ filed' = filed
    BY <1>10, <1>a, Unstored DEF ReaderLoads
  <2>2. reader' \in Day \X Row /\ reader'[1] = day
    BY <1>10, <1>a, InheritedType DEF ReaderLoads
  <2>3. RestInv' /\ today' = today
    BY <1>10, <1>a, <2>2 DEF ReaderLoads, RestInv, LoopType, AtHand, loop, broker, history, Day
  <2> QED
    BY <1>a, <2>1, <2>3, HalvesNext
<1>11. CASE ReaderInserts
  <2>0. reader[1] \in Day /\ reader[1] <= day /\ reader[2] \in Row /\ UNCHANGED day
    BY <1>11, <1>a DEF ReaderInserts, RestInv
  <2>1. StoreInv' /\ filed \subseteq filed'
    <3>1. CASE UNCHANGED store
      BY <1>a, <2>0, <3>1, Unstored
    <3>2. CASE Store(reader[1], reader[2])
      BY <1>a, <2>0, <3>2, Stored
    <3> QED
      BY <1>11, <3>1, <3>2 DEF ReaderInserts
  <2>2. RestInv' /\ today' = today
    BY <1>11, <1>a DEF ReaderInserts, RestInv, LoopType, AtHand, loop, broker, history
  <2> QED
    BY <1>a, <2>1, <2>2, HalvesNext
<1>12. CASE EmergencyStop \/ EmergencyReset
  <2>0. day <= day /\ UNCHANGED day
    <3>1. UNCHANGED day
      BY <1>12 DEF EmergencyStop, EmergencyReset
    <3> QED
      BY <1>a, <3>1 DEF Day
  <2>1. StoreInv' /\ filed \subseteq filed'
    <3>1. SetEmergencyLocked(day, TRUE) \/ SetEmergencyLocked(day, FALSE)
      BY <1>12 DEF EmergencyStop, EmergencyReset
    <3>2. [Load(day) EXCEPT !.locked = TRUE] \in Row /\ [Load(day) EXCEPT !.locked = FALSE] \in Row
      BY <1>a, StoredRow
    <3> QED
      BY <1>a, <2>0, <3>1, <3>2, Stored DEF SetEmergencyLocked
  <2>2. locks' \subseteq Setting
    BY <1>12, <1>a DEF EmergencyStop, EmergencyReset, RestInv, Setting
  <2>3. RestInv' /\ today' = today
    BY <1>12, <1>a, <2>2 DEF EmergencyStop, EmergencyReset, RestInv, LoopType, AtHand, loop, broker
  <2> QED
    BY <1>a, <2>1, <2>3, HalvesNext
<1>13. CASE Midnight
  <2>1. day' \in Day /\ day' = day + 1 /\ day \in Int
    BY <1>13, <1>a, DayAssumption DEF Midnight, Day
  <2>2. StoreInv' /\ filed' = filed
    BY <1>13, <1>a, <2>1 DEF Midnight, StoreInv, store, Day
  <2>3. RestInv' /\ today' = today
    BY <1>13, <1>a, <2>1 DEF Midnight, RestInv, LoopType, AtHand, loop, broker, history, Day
  <2> QED
    BY <1>a, <2>2, <2>3, HalvesNext
<1>14. CASE SwitchAccount
  <2>1. StoreInv' /\ filed' = filed
    BY <1>14, <1>a, Unstored DEF SwitchAccount
  <2>2. pinned' \in BOOLEAN
    BY <1>14, Zenon DEF SwitchAccount
  <2>3. RestInv' /\ today' = today
    BY <1>14, <1>a, <2>2 DEF SwitchAccount, RestInv, LoopType, AtHand, loop, history
  <2> QED
    BY <1>a, <2>1, <2>3, HalvesNext
<1>15. CASE Market
  <2>1. StoreInv' /\ filed' = filed
    BY <1>15, <1>a, Unstored DEF Market
  <2>2. equity' \in Equity /\ open' \in Nat
    BY <1>15, <1>a DEF Market, RestInv
  <2>3. unbooked' \in [Day -> Int] /\ \A e \in Day : e > day => unbooked'[e] = 0
    <3>1. CASE UNCHANGED unbooked
      BY <1>a, <3>1 DEF RestInv
    <3>2. CASE \E result \in Result : unbooked' = [unbooked EXCEPT ![day] = @ + result]
      <4>1. PICK n \in Int : unbooked' = [unbooked EXCEPT ![day] = n]
        <5>1. PICK result \in Result : unbooked' = [unbooked EXCEPT ![day] = unbooked[day] + result]
          BY <3>2
        <5>2. unbooked[day] \in Int /\ result \in Int
          BY <1>a, LimitAssumption DEF RestInv
        <5>3. unbooked[day] + result \in Int
          BY <5>2
        <5> QED
          BY <5>1, <5>3
      <4>2. \A e \in Day : e > day => e # day
        BY <1>a DEF Day
      <4> QED
        BY <1>a, <4>1, <4>2 DEF RestInv
    <3> QED
      BY <1>15, <3>1, <3>2 DEF Market
  <2>4. RestInv' /\ today' = today
    BY <1>15, <1>a, <2>2, <2>3 DEF Market, RestInv, LoopType, AtHand, loop, history
  <2> QED
    BY <1>a, <2>1, <2>4, HalvesNext
<1>16. CASE UNCHANGED vars
  <2>1. StoreInv' /\ filed' = filed
    BY <1>16, <1>a, Unstored DEF vars
  <2>2. RestInv' /\ today' = today
    BY <1>16, <1>a DEF vars, RestInv, LoopType, AtHand, loop, broker, history
  <2> QED
    BY <1>a, <2>1, <2>2, HalvesNext
<1> QED
  BY <1>1, <1>2, <1>3, <1>4, <1>5, <1>6, <1>7, <1>8, <1>9, <1>10, <1>11, <1>12, <1>13, <1>14,
     <1>15, <1>16 DEF Next

LEMMA BaseHolds == Spec => []BaseInv
<1>1. Init => BaseInv
  BY BaseInit DEF BaseInv, AtHand, Init
<1> QED
  BY <1>1, BaseNext, PTL DEF Spec

\* TypeOK holds in every reachable state.
THEOREM TypeCorrect == Spec => []TypeOK
<1>1. BaseInv => TypeOK
  BY DEF BaseInv, Base
<1> QED
  BY <1>1, BaseHolds, PTL

-----------------------------------------------------------------------------
(* The lock and the peak *)

\* A row knows of every lock that counts, and of the highest equity.
Keeps(r, l, t) == ("prompt" \in l => r.locked) /\ t <= r.peak

\* So does the day it is, and the row a reader is about to insert, unless that has
\* a later row ahead of it.
KeptInv ==
    /\ Keeps(Load(day), locks, top)
    /\ reader # <<>> /\ reader[1] \notin filed =>
         Keeps(reader[2], locks, top) \/ \E e \in filed : reader[1] < e

\* To store a row keeps both: one of the day it is that knows all there is to know, or
\* one of another day that knows it or has a later row ahead of it.
LEMMA StoreKeeps ==
    ASSUME Base, KeptInv, NEW d \in Day, d <= day, NEW r \in Row, Store(d, r), UNCHANGED day,
           \/ d = day /\ Keeps(r, locks', top')
           \/ /\ "prompt" \in locks' => "prompt" \in locks
              /\ top' = top
              /\ Keeps(r, locks', top') \/ \E e \in filed : d < e,
           reader' \in {reader, <<>>}
    PROVE  KeptInv'
<1>0. Day \subseteq Int /\ filed \subseteq Int /\ day \in Int
  BY DEF Base, TypeOK, Day
<1>1. Keeps(Load(day), locks, top)' = Keeps(Load(day)', locks', top')
  BY DEF Keeps
<1>2. Keeps(Load(day)', locks', top')
  <2>1. CASE d = day /\ Keeps(r, locks', top')
    BY <1>0, <2>1, StoreLoad
  <2>2. CASE /\ "prompt" \in locks' => "prompt" \in locks
             /\ top' = top
             /\ Keeps(r, locks', top') \/ \E e \in filed : d < e
    BY <1>0, <2>2, StoreLoad DEF KeptInv, Keeps
  <2> QED
    BY <2>1, <2>2
<1>3. ASSUME reader # <<>>, reader[1] \notin filed'
      PROVE  Keeps(reader[2], locks', top') \/ \E e \in filed' : reader[1] < e
  <2>1. reader[1] \notin filed /\ filed \subseteq filed' /\ d \in filed' /\ reader[1] # d
    BY <1>3 DEF Store
  <2>2. reader[1] <= day /\ reader[1] \in Int
    BY <1>0, <1>3 DEF Base, Known, TypeOK
  <2>3. CASE d = day
    <3>1. reader[1] < d /\ d \in filed'
      BY <1>0, <2>1, <2>2, <2>3
    <3> QED
      BY <3>1
  <2>4. CASE ("prompt" \in locks' => "prompt" \in locks) /\ top' = top
    BY <1>3, <2>1, <2>4 DEF KeptInv, Keeps
  <2> QED
    BY <2>3, <2>4
<1> QED
  BY <1>1, <1>2, <1>3 DEF KeptInv

LEMMA LoadKeeps ==
    ASSUME Base, KeptInv, NEW d \in Day, d <= day
    PROVE  Keeps(Load(d), locks, top) \/ \E e \in filed : d < e
BY LoadAgrees DEF KeptInv, Keeps

LEMMA NothingStored ==
    ASSUME KeptInv, UNCHANGED <<day, store, locks, top>>, reader' \in {reader, <<>>}
    PROVE  KeptInv'
<1>1. Load(day)' = Load(day)
  BY DEF store, Load, Inherited, Latest
<1> QED
  BY <1>1 DEF KeptInv, Keeps, store

LEMMA KeptNext == BaseInv /\ KeptInv /\ [Next]_vars => KeptInv'
<1> SUFFICES ASSUME BaseInv, KeptInv, [Next]_vars
             PROVE  KeptInv'
  OBVIOUS
<1>a. Base /\ day \in Day /\ day <= day /\ day \in Int
  BY DEF BaseInv, Base, TypeOK, Day
<1>b. Load(day) \in Row /\ Keeps(Load(day), locks, top)
  BY <1>a, LoadType DEF KeptInv
<1>1. CASE BeginCycle
  BY <1>1, <1>a, <1>b, StoreKeeps DEF BeginCycle, history
<1>2. CASE Mismatch
  <2>1. today \in Day /\ today <= day /\ today \in filed
    BY <1>2 DEF Mismatch, BaseInv, Base, TypeOK, Known
  <2>2. PICK r \in Row : Store(today, r) /\ r.locked /\ r.peak = Load(today).peak
    <3>1. Latched(Load(today)) \in Row /\ [Load(today) EXCEPT !.locked = TRUE] \in Row
      BY <1>a, <2>1, StoredRow
    <3>2. Load(today) \in Row
      BY <1>a, <2>1, LoadType
    <3>3. /\ Latched(Load(today)).locked /\ Latched(Load(today)).peak = Load(today).peak
          /\ [Load(today) EXCEPT !.locked = TRUE].locked
          /\ [Load(today) EXCEPT !.locked = TRUE].peak = Load(today).peak
      BY <3>2 DEF Latched, Row
    <3> QED
      BY <1>2, <3>1, <3>3 DEF Mismatch, SetEmergencyLocked
  <2>3. top' = top /\ UNCHANGED <<day, reader>>
    BY <1>2 DEF Mismatch
  <2>4. CASE today = day
    BY <1>a, <1>b, <2>1, <2>2, <2>3, <2>4, StoreKeeps DEF Keeps
  <2>5. CASE today # day
    <3>1. "prompt" \in locks' => "prompt" \in locks
      BY <1>2, <2>5 DEF Mismatch
    <3>2. Keeps(r, locks', top') \/ \E e \in filed : today < e
      BY <1>a, <2>1, <2>2, <2>3, <3>1, LoadKeeps DEF Keeps
    <3> QED
      BY <1>a, <2>1, <2>2, <2>3, <3>1, <3>2, StoreKeeps
  <2> QED
    BY <2>4, <2>5
<1>3. CASE ScanSymbol \/ EndCycle \/ SwitchAccount \/ Market \/ Submit
  <2>1. UNCHANGED <<day, store, locks, top, reader>>
    BY <1>3 DEF ScanSymbol, EndCycle, SwitchAccount, Market, Submit, history
  <2> QED
    BY <2>1, NothingStored
<1>4. CASE Assess
  <2>1. context.equity \in Nat
    <3>1. \A x \in Equity \cup {0} : x \in Nat
      BY EquityAssumption
    <3> QED
      BY <3>1 DEF BaseInv, Base, TypeOK
  <2>2. Store(day, Assessed(Load(day))) /\ Assessed(Load(day)) \in Row /\ UNCHANGED <<day, reader>>
    BY <1>4, <1>a, <2>1, StoredRow DEF Assess
  <2>3. top' = IF context.equity > top THEN context.equity ELSE top
    BY <1>4 DEF Assess
  <2>4. locks' = IF Fallen(Load(day)) THEN locks \cup {"prompt"} ELSE locks
    BY <1>4 DEF Assess
  <2>5. Keeps(Assessed(Load(day)), locks', top')
    <3> DEFINE r == Load(day)
    <3>1. r \in Row /\ Keeps(r, locks, top)
      BY <1>b
    <3>2. locks' = IF Fallen(r) THEN locks \cup {"prompt"} ELSE locks
      BY <2>4
    <3> HIDE DEF r
    <3>3. top \in Nat
      BY DEF BaseInv, Base, TypeOK
    <3>4. "prompt" \in locks' => Assessed(r).locked
      BY <3>1, <3>2 DEF Keeps, Assessed, Observed, Latched, Row
    <3>5. top' <= Assessed(r).peak
      <4>1. /\ Observed(r, context.equity) \in Row
            /\ top' <= Observed(r, context.equity).peak
        BY <2>1, <2>3, <3>1, <3>3 DEF Observed, Keeps, Row
      <4>2. Assessed(r).peak = Observed(r, context.equity).peak
        BY <4>1 DEF Assessed, Latched, Row
      <4> QED
        BY <4>1, <4>2
    <3>6. Keeps(Assessed(r), locks', top')
      BY <3>4, <3>5 DEF Keeps
    <3> QED
      BY <3>6 DEF r
  <2> QED
    BY <1>a, <2>2, <2>5, StoreKeeps
<1>5. CASE Register
  <2>1. PICK r \in Row : Store(day, r) /\ r.locked = Load(day).locked /\ r.peak = Load(day).peak
    BY <1>5, <1>a, <1>b, StoredRow DEF Register, RegisterTradeOpened, Row
  <2>2. Keeps(r, locks', top') /\ UNCHANGED <<day, reader>>
    BY <1>5, <1>b, <2>1 DEF Register, history, Keeps
  <2> QED
    BY <1>a, <2>1, <2>2, StoreKeeps
<1>6. CASE Reconcile
  <2>1. PICK d \in Day : unbooked[d] # 0 /\ AddRealizedPnl(d, unbooked[d])
    BY <1>6 DEF Reconcile
  <2>2. d <= day /\ unbooked[d] \in Int
    BY <1>a, <2>1 DEF BaseInv, Base, Known, TypeOK, Day
  <2>3. Load(d) \in Row
    BY <1>a, LoadType
  <2>4. PICK r \in Row : Store(d, r) /\ r.locked = Load(d).locked /\ r.peak = Load(d).peak
    BY <1>a, <2>1, <2>2, <2>3, StoredRow DEF AddRealizedPnl, Row
  <2>5. UNCHANGED <<day, reader, locks, top>>
    BY <1>6 DEF Reconcile, history
  <2>6. Keeps(r, locks', top') \/ \E e \in filed : d < e
    BY <1>a, <2>2, <2>4, <2>5, LoadKeeps DEF Keeps
  <2> QED
    BY <1>a, <2>2, <2>4, <2>5, <2>6, StoreKeeps
<1>7. CASE Abort
  <2>1. UNCHANGED <<day, store, locks, top, reader>>
    BY <1>7 DEF Abort
  <2> QED
    BY <2>1, NothingStored
<1>8. CASE ReaderLoads
  <2>1. UNCHANGED <<day, store, locks, top>> /\ reader' = <<day, Inherited>> /\ day \notin filed
    BY <1>8 DEF ReaderLoads, history
  <2>2. Load(day)' = Load(day) /\ Load(day) = Inherited
    BY <2>1 DEF store, Load, Inherited, Latest
  <2>3. reader'[2] = Load(day) /\ reader'[1] = day
    BY <2>1, <2>2
  <2> QED
    BY <1>b, <2>1, <2>2, <2>3 DEF KeptInv, Keeps
<1>9. CASE ReaderInserts
  <2>1. UNCHANGED <<day, locks, top>> /\ reader' = <<>> /\ reader # <<>>
    BY <1>9 DEF ReaderInserts, history
  <2>2. CASE UNCHANGED store
    BY <2>1, <2>2, NothingStored
  <2>3. CASE reader[1] \notin filed /\ Store(reader[1], reader[2])
    <3>1. reader[1] \in Day /\ reader[2] \in Row /\ reader[1] <= day
      BY <2>1 DEF BaseInv, Base, TypeOK, Known
    <3>2. Keeps(reader[2], locks, top) \/ \E e \in filed : reader[1] < e
      BY <2>1, <2>3 DEF KeptInv
    <3>3. Keeps(reader[2], locks', top') \/ \E e \in filed : reader[1] < e
      BY <2>1, <3>2
    <3> QED
      BY <1>a, <2>1, <2>3, <3>1, <3>3, StoreKeeps
  <2> QED
    BY <1>9, <2>2, <2>3 DEF ReaderInserts
<1>10. CASE EmergencyStop
  <2>1. PICK r \in Row : Store(day, r) /\ r.locked /\ r.peak = Load(day).peak
    BY <1>10, <1>a, <1>b, StoredRow DEF EmergencyStop, SetEmergencyLocked, Row
  <2>2. Keeps(r, locks', top') /\ UNCHANGED <<day, reader>>
    BY <1>10, <1>b, <2>1 DEF EmergencyStop, Keeps
  <2> QED
    BY <1>a, <2>1, <2>2, StoreKeeps
<1>11. CASE EmergencyReset
  <2>1. PICK r \in Row : Store(day, r) /\ r.peak = Load(day).peak
    BY <1>11, <1>a, <1>b, StoredRow DEF EmergencyReset, SetEmergencyLocked, Row
  <2>2. Keeps(r, locks', top') /\ UNCHANGED <<day, reader>>
    BY <1>11, <1>b, <2>1 DEF EmergencyReset, Keeps
  <2> QED
    BY <1>a, <2>1, <2>2, StoreKeeps
<1>12. CASE Midnight
  <2>1. day' = day + 1 /\ UNCHANGED <<store, reader, locks, top>> /\ day + 1 \in Day
    BY <1>12, <1>a, DayAssumption DEF Midnight, history, Day
  <2>2. day + 1 \notin filed
    BY <1>a DEF BaseInv, Base, Known, TypeOK, Day
  <2>3. Load(day)' = Inherited
    BY <2>1, <2>2 DEF store, Load, Inherited, Latest
  <2>4. Inherited.locked = Load(day).locked /\ Inherited.peak = Load(day).peak
    <3>1. CASE day \notin filed
      BY <3>1 DEF Load
    <3>2. CASE day \in filed
      <4>1. Latest \in filed /\ day <= Latest
        BY <1>a, <3>2, LatestFiled DEF Base
      <4>2. Latest = day
        BY <1>a, <4>1 DEF Base, Known, TypeOK, Day
      <4> QED
        BY <3>2, <4>2 DEF Load, Inherited, Fresh
    <3> QED
      BY <3>1, <3>2
  <2> QED
    BY <1>b, <2>1, <2>3, <2>4 DEF KeptInv, Keeps, store
<1>13. CASE UNCHANGED vars
  BY <1>13, NothingStored DEF vars, history
<1> QED
  BY <1>1, <1>2, <1>3, <1>4, <1>5, <1>6, <1>7, <1>8, <1>9, <1>10, <1>11, <1>12, <1>13 DEF Next

LEMMA KeptHolds == Spec => []KeptInv
<1>1. Init => KeptInv
  BY DEF Init, KeptInv, Keeps, Load, Inherited, Fresh
<1> QED
  BY <1>1, KeptNext, BaseHolds, PTL DEF Spec

\* A lock stands until it is reset, over every midnight, restart and reader, but for
\* the mismatch locks of cycles that began before midnight.
THEOREM LockSurvives == Spec => []LockStands
<1>1. KeptInv => LockStands
  BY DEF KeptInv, Keeps, LockStands
<1> QED
  BY <1>1, KeptHolds, PTL

-----------------------------------------------------------------------------
(* The drawdown and the positions of one scan *)

\* What is about to be sent was assessed near enough to the peak.
Near == pc = "submit" => top - context.equity < Drawdown

\* Every position of a scan that saw them all uses up one of its candidates, and
\* nothing is sent with the limit read.
Spent ==
    /\ context.complete =>
         /\ pc \in {"assess", "submit"} => open + left <= context.open + MaxCandidates
         /\ pc = "register" => open + left - 1 <= context.open + MaxCandidates
    /\ pc \in {"submit", "register"} => context.open < MaxOpen

LEMMA EquityType == ASSUME Base PROVE context.equity \in Nat
<1>1. \A x \in Equity \cup {0} : x \in Nat
  BY EquityAssumption
<1> QED
  BY <1>1 DEF Base, TypeOK

\* The steps that leave the cycle alone, or end it, keep what it relies on.
Aside ==
    \/ BeginCycle \/ Mismatch \/ EndCycle \/ Reconcile \/ Abort
    \/ ReaderLoads \/ ReaderInserts \/ EmergencyStop \/ EmergencyReset
    \/ Midnight \/ SwitchAccount \/ Market

LEMMA AsideStep ==
    ASSUME Base, Aside
    PROVE  /\ pc' \in {"idle", "scan"} \/ UNCHANGED <<pc, context, left>>
           /\ top' = top /\ sent' = sent
           /\ open' = open \/ open' = open - 1
BY DEF Aside, BeginCycle, Mismatch, EndCycle, Reconcile, Abort, ReaderLoads, ReaderInserts,
       EmergencyStop, EmergencyReset, Midnight, SwitchAccount, Market, Leave, loop, broker, history

LEMMA NearNext == BaseInv /\ KeptInv /\ Near /\ [Next]_vars => Near'
<1> SUFFICES ASSUME BaseInv, KeptInv, Near, [Next]_vars, pc' = "submit"
             PROVE  top' - context'.equity < Drawdown
  BY DEF Near
<1>a. Base /\ day \in Day /\ context.equity \in Nat /\ top \in Nat
  BY EquityType DEF BaseInv, Base, TypeOK
<1>1. CASE Assess
  <2>1. Approved(Load(day)) /\ context' = context
    BY <1>1 DEF Assess, NextCandidate
  <2>2. top' = IF context.equity > top THEN context.equity ELSE top
    BY <1>1 DEF Assess
  <2>3. ~Fallen(Load(day))
    BY <2>1 DEF Approved, Exceeded
  <2> DEFINE peak == Load(day).peak
  <2>4. peak \in Nat /\ top <= peak
    BY <1>a, LoadType DEF KeptInv, Keeps, Row
  <2>5. peak = 0 \/ ~(peak - context.equity >= Drawdown)
    BY <2>3 DEF Fallen
  <2> HIDE DEF peak
  <2> QED
    BY <1>a, <2>1, <2>2, <2>4, <2>5, LimitAssumption
<1>2. CASE Aside
  BY <1>2, <1>a, AsideStep DEF Near
<1>3. CASE ScanSymbol \/ Submit \/ Register
  BY <1>3 DEF ScanSymbol, Submit, Register, NextCandidate
<1>4. CASE UNCHANGED vars
  BY <1>4 DEF vars, loop, history, Near
<1> QED
  BY <1>1, <1>2, <1>3, <1>4 DEF Next, Aside

\* No order is sent that was assessed with an equity Drawdown below the highest ever
\* assessed.
THEOREM DrawdownObeyed == Spec => DrawdownStops
<1>1. Init => Near
  BY DEF Init, Near
<1>2. Near /\ [Next]_vars => [sent' # sent => top - context.equity < Drawdown]_vars
  <2> SUFFICES ASSUME Near, Next, sent' # sent
               PROVE  top - context.equity < Drawdown
    BY DEF vars, history
  <2>1. Submit
    BY DEF Next, BeginCycle, Mismatch, ScanSymbol, Assess, Register, EndCycle, Reconcile,
           Abort, ReaderLoads, ReaderInserts, EmergencyStop, EmergencyReset, Midnight,
           SwitchAccount, Market, history
  <2> QED
    BY <2>1 DEF Submit, Near
<1> QED
  BY <1>1, <1>2, NearNext, BaseHolds, KeptHolds, PTL DEF Spec, DrawdownStops

LEMMA SpentNext == BaseInv /\ Spent /\ [Next]_vars => Spent'
<1> SUFFICES ASSUME BaseInv, Spent, [Next]_vars
             PROVE  Spent'
  OBVIOUS
<1>a. /\ Base /\ open \in Nat /\ left \in 0..MaxCandidates /\ context.open \in Nat
      /\ (pc \in {"assess", "submit", "register"} => left >= 1)
  BY DEF BaseInv, Base, TypeOK, AtHand
<1>b. MaxOpen \in Nat \ {0} /\ MaxCandidates \in Nat \ {0}
  BY LimitAssumption
<1>c. ASSUME NextCandidate, left >= 1,
             \/ open' = open /\ pc \in {"assess", "submit"}
             \/ open' = open /\ pc = "register"
             \/ open' = open + 1 /\ pc = "submit"
      PROVE  Spent'
  <2>1. context.complete => open' + left' <= context.open + MaxCandidates
    BY <1>a, <1>b, <1>c DEF NextCandidate, Spent
  <2> QED
    BY <1>c, <2>1 DEF NextCandidate, Spent
<1>1. CASE ScanSymbol
  <2>1. PICK listed \in 0..open :
            context' = [open |-> listed, equity |-> equity, complete |-> listed = open]
    BY <1>1 DEF ScanSymbol
  <2>2. left' \in Nat /\ left' <= MaxCandidates /\ open' = open /\ pc' = "assess"
    BY <1>1, <1>b DEF ScanSymbol, broker
  <2>3. context'.complete => context'.open = open
    BY <2>1
  <2>4. open + left' <= open + MaxCandidates
    <3>1. \A x, y, z \in Nat : y <= z => x + y <= x + z
      OBVIOUS
    <3> QED
      BY <1>a, <1>b, <2>2, <3>1
  <2> QED
    BY <2>2, <2>3, <2>4 DEF Spent
<1>2. CASE Assess
  <2>1. pc = "assess" /\ open' = open
    BY <1>2 DEF Assess, broker
  <2>2. CASE NextCandidate
    BY <1>a, <1>c, <2>1, <2>2
  <2>3. CASE Approved(Load(day)) /\ pc' = "submit" /\ UNCHANGED <<context, left>>
    BY <2>1, <2>3 DEF Spent, Approved
  <2> QED
    BY <1>2, <2>2, <2>3 DEF Assess
<1>3. CASE Submit
  <2>1. pc = "submit"
    BY <1>3 DEF Submit
  <2>2. CASE NextCandidate /\ (open' = open \/ open' = open + 1)
    BY <1>a, <1>c, <2>1, <2>2
  <2>3. CASE pc' = "register" /\ open' = open + 1 /\ UNCHANGED <<context, left>>
    BY <1>a, <1>b, <2>1, <2>3 DEF Spent
  <2> QED
    BY <1>3, <2>2, <2>3 DEF Submit, Opens
<1>4. CASE Register
  BY <1>4, <1>a, <1>c DEF Register, broker
<1>5. CASE Aside
  BY <1>5, <1>a, <1>b, AsideStep DEF Spent
<1>6. CASE UNCHANGED vars
  BY <1>6 DEF vars, loop, broker, Spent
<1> QED
  BY <1>1, <1>2, <1>3, <1>4, <1>5, <1>6 DEF Next, Aside

\* Orders of a scan that saw every position exceed the limit at most by its candidates,
\* however many positions were not seen before or are there for other reasons.
THEOREM OvershootBounded == Spec => ScanOvershoot
<1>1. Init => Spent
  BY DEF Init, Spent
<1>2. BaseInv /\ Spent /\ [Next]_vars =>
        [open' > open /\ context.complete => open' <= MaxOpen - 1 + MaxCandidates]_vars
  <2> SUFFICES ASSUME BaseInv, Spent, Next, open' > open, context.complete
               PROVE  open' <= MaxOpen - 1 + MaxCandidates
    BY DEF vars, broker
  <2>1. /\ open \in Nat /\ left \in 0..MaxCandidates /\ context.open \in Nat
        /\ (pc = "submit" => left >= 1) /\ Base
    BY DEF BaseInv, Base, TypeOK, AtHand
  <2>2. MaxOpen \in Nat /\ MaxCandidates \in Nat
    BY LimitAssumption
  <2>3. ~(open' = open \/ open' = open - 1)
    BY <2>1
  <2>4. Submit
    BY <2>1, <2>3, AsideStep DEF Next, Aside, ScanSymbol, Assess, Register, broker
  <2>5. pc = "submit" /\ open' = open + 1
    BY <2>3, <2>4 DEF Submit, Opens
  <2>6. open + left <= context.open + MaxCandidates /\ context.open < MaxOpen
    BY <2>5 DEF Spent
  <2> QED
    BY <2>1, <2>2, <2>5, <2>6
<1> QED
  BY <1>1, <1>2, SpentNext, BaseHolds, PTL DEF Spec, ScanOvershoot

-----------------------------------------------------------------------------
(* The daily limit *)

\* The row of the day it is counts every order of the day, but the lost ones and the
\* one that is about to be counted.
Counted ==
    /\ sent[day] <= Load(day).trades + lost + IF pc = "register" THEN 1 ELSE 0
    /\ pc = "submit" => sent[day] < MaxTrades + lost
    /\ DailyLimit

\* What is stored of another day leaves the count of the day it is alone.
LEMMA TradesGrow ==
    ASSUME Base, NEW d \in Day, NEW r \in Row, Store(d, r), UNCHANGED day,
           d = day => r.trades >= Load(day).trades
    PROVE  Load(day)'.trades \in Nat /\ Load(day)'.trades >= Load(day).trades
<1>0. Load(day).trades \in Nat
  BY LoadType DEF Base, TypeOK, Row
<1>1. CASE d = day
  BY <1>1 DEF Store, Load, Base, TypeOK, Row
<1>2. CASE d # day /\ day \in filed
  <2>1. Load(day)' = Load(day)
    BY <1>2 DEF Store, Load, Base, TypeOK
  <2> QED
    BY <1>0, <2>1
<1>3. CASE d # day /\ day \notin filed
  <2>1. Inherited.trades = 0 /\ Inherited'.trades = 0
    BY DEF Inherited, Fresh
  <2>2. Load(day) = Inherited /\ Load(day)' = Inherited'
    BY <1>3 DEF Load, Store
  <2> QED
    BY <2>1, <2>2
<1> QED
  BY <1>1, <1>2, <1>3

\* A step that sends nothing and forgets nothing it sent keeps the count.
LEMMA CountedKept ==
    ASSUME Base, Counted, UNCHANGED <<day, sent>>, lost' \in Nat,
           Load(day)'.trades \in Nat, Load(day)'.trades >= Load(day).trades,
           lost' >= lost,
           pc' = "submit" => pc = "submit",
           pc = "register" => \/ pc' = "register"
                              \/ lost' = lost + 1
                              \/ Load(day)'.trades = Load(day).trades + 1
    PROVE  Counted'
<1> DEFINE before == Load(day).trades
           after  == Load(day)'.trades
<1>1. before \in Nat /\ after \in Nat /\ lost \in Nat /\ sent \in [Day -> Nat] /\ day \in Day
      /\ MaxTrades \in Nat
  BY LoadType, LimitAssumption DEF Base, TypeOK, Row
<1>2. sent[day] \in Nat /\ sent[day] <= before + lost + IF pc = "register" THEN 1 ELSE 0
  BY <1>1 DEF Counted
<1>3. after >= before /\ (pc = "register" => pc' = "register" \/ lost' = lost + 1 \/ after = before + 1)
  OBVIOUS
<1> HIDE DEF before, after
<1>4. sent[day] <= after + lost' + IF pc' = "register" THEN 1 ELSE 0
  BY <1>1, <1>2, <1>3
<1>5. sent'[day'] <= Load(day)'.trades + lost' + IF pc' = "register" THEN 1 ELSE 0
  BY <1>4 DEF after
<1>6. (pc' = "submit" => sent'[day'] < MaxTrades + lost') /\ DailyLimit'
  BY <1>1, <1>2 DEF Counted, DailyLimit
<1> QED
  BY <1>5, <1>6 DEF Counted

LEMMA CountedNext == BaseInv /\ Counted /\ [Next]_vars => Counted'
<1> SUFFICES ASSUME BaseInv, Counted, [Next]_vars
             PROVE  Counted'
  OBVIOUS
<1>a. Base /\ lost \in Nat /\ day \in Day /\ day \in Int /\ sent \in [Day -> Nat]
  BY DEF BaseInv, Base, TypeOK, Day
<1>b. MaxTrades \in Nat /\ Load(day) \in Row /\ Load(day).trades \in Nat
  BY <1>a, LoadType, LimitAssumption DEF Row
<1>c. ASSUME UNCHANGED <<day, store>>
      PROVE  Load(day)' = Load(day)
  BY <1>c DEF store, Load, Inherited, Latest
\* Steps that store a row, with no more trades than it had
<1>1. CASE BeginCycle
  <2>1. Load(day)'.trades \in Nat /\ Load(day)'.trades >= Load(day).trades
    BY <1>1, <1>a, <1>b, TradesGrow DEF BeginCycle
  <2> QED
    BY <1>1, <1>a, <2>1, CountedKept DEF BeginCycle, history
<1>2. CASE Mismatch
  <2>0. today \in Day /\ UNCHANGED day
    BY <1>2, <1>a DEF Mismatch, BaseInv, Base, TypeOK, Known
  <2>1. Load(today) \in Row
    BY <1>a, <2>0, LoadType
  <2>2. PICK r \in Row : Store(today, r) /\ r.trades = Load(today).trades
    <3>1. \/ Store(today, Latched(Load(today)))
          \/ Store(today, [Load(today) EXCEPT !.locked = TRUE])
      BY <1>2 DEF Mismatch, SetEmergencyLocked
    <3>2. \A r \in Row : /\ Latched(r) \in Row /\ Latched(r).trades = r.trades
                         /\ [r EXCEPT !.locked = TRUE] \in Row
                         /\ [r EXCEPT !.locked = TRUE].trades = r.trades
      BY DEF Latched, Row
    <3> QED
      BY <2>1, <3>1, <3>2
  <2>3. today = day => r.trades >= Load(day).trades
    BY <1>b, <2>2
  <2>4. Load(day)'.trades \in Nat /\ Load(day)'.trades >= Load(day).trades
    BY <1>a, <2>0, <2>2, <2>3, TradesGrow
  <2> QED
    <3>1. pc = "scan" /\ pc' \in {"scan", "idle"} /\ UNCHANGED <<day, sent, lost>>
      BY <1>2 DEF Mismatch, loop, Leave
    <3> QED
      BY <1>a, <2>4, <3>1, CountedKept
<1>3. CASE Assess
  <2>1. Assessed(Load(day)) \in Row /\ Assessed(Load(day)).trades = Load(day).trades
    <3> DEFINE r == Load(day)
    <3>1. r \in Row /\ context.equity \in Nat
      BY <1>a, <1>b, EquityType
    <3>2. Assessed(r) \in Row
      BY <1>a, <3>1, StoredRow
    <3> HIDE DEF r
    <3>3. Assessed(r).trades = r.trades
      BY <3>1 DEF Assessed, Observed, Latched, Row
    <3> QED
      BY <3>2, <3>3 DEF r
  <2>2. Load(day)'.trades \in Nat /\ Load(day)'.trades >= Load(day).trades
    BY <1>3, <1>a, <1>b, <2>1, TradesGrow DEF Assess
  <2>3. pc = "assess" /\ UNCHANGED <<day, sent, lost>> /\ pc' # "register"
    BY <1>3 DEF Assess, NextCandidate
  <2>4. CASE pc' # "submit"
    BY <1>a, <2>2, <2>3, <2>4, CountedKept
  <2>5. CASE pc' = "submit"
    <3>1. Approved(Load(day))
      BY <1>3, <2>5 DEF Assess, NextCandidate
    <3> DEFINE before == Load(day).trades
               after  == Load(day)'.trades
    <3>2. before < MaxTrades
      BY <1>b, <3>1 DEF Approved, Exceeded
    <3>3. sent[day] <= before + lost /\ sent[day] \in Nat
      BY <1>a, <1>b, <2>3 DEF Counted
    <3>4. before \in Nat /\ after \in Nat /\ after >= before
      BY <1>b, <2>2
    <3> HIDE DEF before, after
    <3>5. sent[day] <= after + lost /\ sent[day] < MaxTrades + lost
      BY <1>a, <1>b, <3>2, <3>3, <3>4
    <3>6. sent'[day'] <= after + lost' + IF pc' = "register" THEN 1 ELSE 0
      BY <1>a, <2>3, <3>3, <3>4, <3>5
    <3>7. (pc' = "submit" => sent'[day'] < MaxTrades + lost') /\ DailyLimit'
      BY <2>3, <3>5 DEF Counted, DailyLimit
    <3> QED
      BY <3>6, <3>7 DEF Counted, after
  <2> QED
    BY <2>4, <2>5
<1>4. CASE Submit
  <2>1. pc = "submit" /\ UNCHANGED day /\ Load(day)' = Load(day) /\ pc' # "submit"
    BY <1>4, <1>c DEF Submit, NextCandidate
  <2> DEFINE trades == Load(day).trades
  <2>2. sent[day] <= trades + lost /\ sent[day] < MaxTrades + lost /\ sent[day] \in Nat
    BY <1>a, <1>b, <2>1 DEF Counted
  <2>3. trades \in Nat /\ Load(day)'.trades = trades
    BY <1>b, <2>1
  <2> HIDE DEF trades
  <2>4. CASE sent' = sent /\ lost' = lost
    <3>1. sent'[day'] <= trades + lost' + IF pc' = "register" THEN 1 ELSE 0
      BY <1>a, <2>1, <2>2, <2>3, <2>4
    <3> QED
      BY <2>1, <2>3, <2>4, <3>1 DEF Counted, DailyLimit
  <2>5. CASE /\ sent' = [sent EXCEPT ![day] = @ + 1]
             /\ \/ pc' = "register" /\ lost' = lost
                \/ lost' = lost + 1
    <3>1. sent'[day] = sent[day] + 1 /\ \A d \in Day : d # day => sent'[d] = sent[d]
      BY <1>a, <2>5
    <3>2. sent'[day'] <= trades + lost' + IF pc' = "register" THEN 1 ELSE 0
      BY <1>a, <2>1, <2>2, <2>3, <2>5, <3>1
    <3>3. DailyLimit'
      <4>1. lost' >= lost /\ lost' \in Nat
        BY <1>a, <2>5
      <4>2. sent'[day] <= MaxTrades + lost'
        BY <1>a, <1>b, <2>2, <3>1, <4>1
      <4>3. ASSUME NEW d \in Day, d # day
            PROVE  sent'[d] <= MaxTrades + lost'
        <5>1. sent[d] <= MaxTrades + lost /\ sent[d] \in Nat
          BY <1>a DEF Counted, DailyLimit
        <5> QED
          BY <1>a, <1>b, <3>1, <4>1, <4>3, <5>1
      <4> QED
        BY <4>2, <4>3 DEF DailyLimit
    <3> QED
      BY <2>1, <2>3, <3>2, <3>3 DEF Counted
  <2> QED
    BY <1>4, <2>4, <2>5 DEF Submit, Opens, Lose
<1>5. CASE Register
  <2>1. PICK r \in Row : Store(day, r) /\ r.trades = Load(day).trades + 1
    BY <1>5, <1>a, <1>b, StoredRow DEF Register, RegisterTradeOpened, Row
  <2>2. r.trades >= Load(day).trades /\ UNCHANGED day
    BY <1>5, <1>b, <2>1 DEF Register
  <2>3. Load(day)'.trades \in Nat /\ Load(day)'.trades >= Load(day).trades
    BY <1>a, <2>1, <2>2, TradesGrow
  <2>4. Load(day)' = r
    BY <1>a, <2>1, <2>2 DEF Store, Load, Base, TypeOK
  <2> QED
    BY <1>5, <1>a, <2>1, <2>3, <2>4, CountedKept DEF Register, history, NextCandidate
<1>6. CASE Reconcile
  <2>1. PICK d \in Day : unbooked[d] # 0 /\ AddRealizedPnl(d, unbooked[d])
    BY <1>6 DEF Reconcile
  <2>2. unbooked[d] \in Int /\ Load(d) \in Row /\ UNCHANGED day
    BY <1>6, <1>a, <2>1, LoadType DEF Base, TypeOK, Reconcile
  <2>3. PICK r \in Row : Store(d, r) /\ r.trades = Load(d).trades
    BY <1>a, <2>1, <2>2, StoredRow DEF AddRealizedPnl, Row
  <2>4. d = day => r.trades >= Load(day).trades
    BY <1>b, <2>3
  <2>5. Load(day)'.trades \in Nat /\ Load(day)'.trades >= Load(day).trades
    BY <1>a, <2>2, <2>3, <2>4, TradesGrow
  <2> QED
    BY <1>6, <1>a, <2>5, CountedKept DEF Reconcile, history, loop, Leave
<1>7. CASE ReaderInserts
  <2>0. UNCHANGED <<day, sent, lost, pc>>
    BY <1>7 DEF ReaderInserts, history, loop
  <2>1. CASE UNCHANGED store
    BY <1>a, <1>b, <1>c, <2>0, <2>1, CountedKept
  <2>2. CASE reader[1] \notin filed /\ Store(reader[1], reader[2])
    <3>1. reader[1] \in Day /\ reader[2] \in Row
      BY <1>7, <1>a DEF ReaderInserts, Base, TypeOK
    <3>2. reader[1] = day => reader[2].trades >= Load(day).trades
      <4>1. reader[1] = day => Load(day).trades = 0
        BY <2>2 DEF Load, Inherited, Fresh
      <4> QED
        BY <3>1, <4>1 DEF Row
    <3>3. Load(day)'.trades \in Nat /\ Load(day)'.trades >= Load(day).trades
      BY <1>a, <2>0, <2>2, <3>1, <3>2, TradesGrow
    <3> QED
      BY <1>a, <2>0, <3>3, CountedKept
  <2> QED
    BY <1>7, <2>1, <2>2 DEF ReaderInserts
<1>8. CASE EmergencyStop \/ EmergencyReset
  <2>1. PICK b \in BOOLEAN : Store(day, [Load(day) EXCEPT !.locked = b])
    BY <1>8 DEF EmergencyStop, EmergencyReset, SetEmergencyLocked
  <2>2. [Load(day) EXCEPT !.locked = b] \in Row
    BY <1>a, StoredRow
  <2>3. [Load(day) EXCEPT !.locked = b].trades >= Load(day).trades
    BY <1>b DEF Row
  <2>4. UNCHANGED <<day, sent, lost, pc>>
    BY <1>8 DEF EmergencyStop, EmergencyReset, loop
  <2>5. Load(day)'.trades \in Nat /\ Load(day)'.trades >= Load(day).trades
    BY <1>a, <2>1, <2>2, <2>3, <2>4, TradesGrow
  <2> QED
    BY <1>a, <2>4, <2>5, CountedKept
\* Steps that store nothing
<1>9. CASE ScanSymbol \/ EndCycle \/ ReaderLoads \/ SwitchAccount \/ Market \/ UNCHANGED vars
  <2>1. /\ UNCHANGED <<day, store, sent, lost>>
        /\ pc' = "submit" => pc = "submit"
        /\ pc = "register" => pc' = "register"
    BY <1>9 DEF ScanSymbol, EndCycle, ReaderLoads, SwitchAccount, Market, vars, history, loop, Leave
  <2> QED
    BY <1>a, <1>b, <1>c, <2>1, CountedKept
<1>10. CASE Abort
  <2>1. /\ UNCHANGED <<day, store, sent>> /\ pc' = "idle"
        /\ IF pc = "register" THEN lost' = lost + 1 ELSE lost' = lost
    BY <1>10 DEF Abort, Leave, Lose
  <2>2. Load(day)'.trades = Load(day).trades
    BY <1>c, <2>1
  <2> QED
    BY <1>a, <1>b, <2>1, <2>2, CountedKept
<1>11. CASE Midnight
  <2>1. day' = day + 1 /\ day + 1 \in Day /\ UNCHANGED <<store, sent, lost, pc>>
    BY <1>11, <1>a, DayAssumption DEF Midnight, Day, history, loop
  <2>2. day + 1 \notin filed /\ sent[day + 1] = 0
    BY <1>a, <2>1 DEF Base, Known, Day
  <2>3. Load(day)' = Inherited /\ Inherited.trades = 0
    BY <2>1, <2>2 DEF store, Load, Inherited, Latest, Fresh
  <2>4. sent'[day'] = 0 /\ Load(day)'.trades = 0
    BY <2>1, <2>2, <2>3
  <2>5. MaxTrades > 0
    BY LimitAssumption
  <2>6. sent'[day'] <= Load(day)'.trades + lost' + IF pc' = "register" THEN 1 ELSE 0
    BY <1>a, <2>1, <2>4
  <2>7. sent'[day'] < MaxTrades + lost' /\ DailyLimit'
    BY <1>a, <1>b, <2>1, <2>4, <2>5 DEF Counted, DailyLimit
  <2> QED
    BY <2>6, <2>7 DEF Counted
<1> QED
  BY <1>1, <1>2, <1>3, <1>4, <1>5, <1>6, <1>7, <1>8, <1>9, <1>10, <1>11 DEF Next

\* No day sees more orders than MaxTrades, but for those that could not be counted.
THEOREM LimitObeyed == Spec => []DailyLimit
<1>1. Init => Counted
  BY LimitAssumption, DayAssumption DEF Init, Counted, DailyLimit, Load, Inherited, Fresh, Day
<1>2. Counted => DailyLimit
  BY DEF Counted
<1> QED
  BY <1>1, <1>2, CountedNext, BaseHolds, PTL DEF Spec

=============================================================================
