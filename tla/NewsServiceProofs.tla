-------------------------- MODULE NewsServiceProofs --------------------------
(***************************************************************************)
(* Proofs about NewsService, for any schedule, settings and hardships:     *)
(* type correctness, the refinement of CalendarPromise, that the cache     *)
(* clears nothing, and that a clearance is safe.                           *)
(***************************************************************************)
EXTENDS NewsService, TLAPS

-----------------------------------------------------------------------------
(* Rows *)

\* A row that can be attributed is attributed to the currency it is about.
LEMMA AttributedRightly ==
    ASSUME NEW e \in Schedule, Attributed(e) # Blank
    PROVE  Attributed(e) = e.about /\ Normalised(e) \in Row
<1>1. /\ e.about \in Currency /\ e.currency \in {e.about, Blank}
      /\ e.country # Blank => CountryCurrency[e.country] = e.about
      /\ e.impact \in Impact /\ e.at \in Int
  BY ScheduleAssumption DEF Raw
<1>2. Attributed(e) = e.about
  BY <1>1 DEF Attributed
<1> QED
  BY <1>1, <1>2 DEF Normalised, Row

LEMMA ParsedType == Parsed(Served) \in SUBSET Row
<1> SUFFICES ASSUME NEW e \in Served, Attributed(e) # Blank
             PROVE  Normalised(e) \in Row
  BY DEF Parsed
<1> QED
  BY AttributedRightly DEF Served

LEMMA RestoreType ==
    ASSUME NEW stored \in [rows : SUBSET Row, success : Instant]
    PROVE  Restore(stored) \in Snapshot
BY DEF Restore, Snapshot, State, Instant

LEMMA RestoredUnhealthy == \A stored : ~Healthy(Restore(stored))
BY DEF Restore, Healthy

LEMMA UnaskedType == Unasked \in [Symbol -> Verdict]
BY DEF Unasked, Verdict

LEMMA FromFileType ==
    ASSUME NEW set PROVE FromFile(set, Parsed(Served)) \in SUBSET Row
BY ParsedType DEF FromFile

-----------------------------------------------------------------------------
(* A refresh *)

\* A fetch leaves the calendar of this very moment, in which every high impact
\* row could be attributed, or a provider that is not healthy.
LEMMA FetchedCalendar ==
    ASSUME TypeOK, NEW now \in Int, NEW answer
    PROVE  /\ Fetched(snap, answer, now) \in Snapshot
           /\ Fetched(snap, answer, now).attempt = now
           /\ \/ ~Healthy(Fetched(snap, answer, now))
              \/ /\ Fetched(snap, answer, now).success = now
                 /\ Fetched(snap, answer, now).rows = Parsed(Served)
                 /\ ~Unreadable(Served)
<1> DEFINE n == Fetched(snap, answer, now)
<1>0. snap \in Snapshot /\ now \in Instant
  BY DEF TypeOK, Instant
<1>1. CASE Outcome(answer) = "rows"
  <2>1. n = [state |-> "FRESH", rows |-> Parsed(Served), success |-> now, attempt |-> now]
    BY <1>1 DEF Fetched
  <2>2. ~Unreadable(Served)
    BY <1>1 DEF Outcome
  <2>3. n \in Snapshot
    BY <1>0, <2>1, ParsedType DEF Snapshot, State
  <2> QED
    BY <2>1, <2>2, <2>3
<1>2. CASE Outcome(answer) # "rows"
  <2>1. n = Fail(snap, Outcome(answer), now)
    BY <1>2 DEF Fetched
  <2>2. \A error : /\ Fail(snap, error, now) \in Snapshot
                   /\ Fail(snap, error, now).attempt = now
                   /\ ~Healthy(Fail(snap, error, now))
    BY <1>0 DEF Fail, Snapshot, State, Healthy
  <2> QED
    BY <2>1, <2>2
<1> QED
  BY <1>1, <1>2

LEMMA RefreshAtEffect ==
    ASSUME TypeOK, NEW now \in Int, RefreshAt(now)
    PROVE  /\ snap' \in Snapshot /\ cache' \in [rows : SUBSET Row, success : Instant]
           /\ \/ snap' = snap
              \/ /\ snap'.attempt = now
                 /\ \/ ~Healthy(snap')
                    \/ /\ snap'.success = now /\ snap'.rows = Parsed(Served)
                       /\ ~Unreadable(Served)
           /\ settings.provider = "trading_economics" => ~Due(snap', now)
           /\ settings.provider # "trading_economics" => snap' = snap
           /\ settings.provider = "trading_economics" /\ ~Due(snap, now) => snap' = snap
<1>1. CASE settings.provider = "trading_economics" /\ Due(snap, now)
  <2>1. PICK answer \in Answers : snap' = Fetched(snap, answer, now) /\ Save(snap')
    BY <1>1 DEF RefreshAt
  <2>2. /\ snap' \in Snapshot
        /\ snap'.attempt = now
        /\ \/ ~Healthy(snap')
           \/ /\ snap'.success = now /\ snap'.rows = Parsed(Served)
              /\ ~Unreadable(Served)
    BY <2>1, FetchedCalendar
  <2>3. snap'.rows \in SUBSET Row /\ snap'.success \in Instant
    BY <2>2 DEF Snapshot
  <2>4. cache' \in [rows : SUBSET Row, success : Instant]
    <3>1. CASE UNCHANGED cache
      BY <3>1 DEF TypeOK
    <3>2. CASE cache' = [rows |-> IF snap'.rows = {} THEN cache.rows ELSE snap'.rows,
                         success |-> snap'.success]
      <4>1. cache.rows \in SUBSET Row
        BY DEF TypeOK
      <4> QED
        BY <2>3, <3>2, <4>1
    <3> QED
      BY <2>1, <3>1, <3>2 DEF Save
  <2>5. now # Never /\ now - now = 0 /\ 0 < RefreshEvery /\ 0 < RetryEvery
    BY NeverAssumption, DurationAssumption
  <2>6. ~Due(snap', now)
    BY <2>2, <2>5, DurationAssumption DEF Due
  <2> QED
    BY <1>1, <2>2, <2>4, <2>6
<1>2. CASE ~(settings.provider = "trading_economics" /\ Due(snap, now))
  <2>1. UNCHANGED <<snap, cache>>
    BY <1>2 DEF RefreshAt
  <2>2. Due(snap', now) <=> Due(snap, now)
    BY <2>1 DEF Due, Healthy
  <2> QED
    BY <1>2, <2>1, <2>2 DEF TypeOK
<1> QED
  BY <1>1, <1>2

LEMMA DecisionType ==
    ASSUME NEW s, NEW now, NEW n PROVE Decision(s, now, n) \in Verdict \ {"unasked"}
BY DEF Decision, Ruling, StaticRuling, Unenforceable, Verdict

\* A provider that has been built anew has obtained nothing yet.
LEMMA BuildEffect ==
    ASSUME NEW stored \in [rows : SUBSET Row, success : Instant], Build(stored)
    PROVE  /\ settings' \in Settings /\ calendar' \in SUBSET Row
           /\ snap' \in Snapshot /\ ~Healthy(snap')
<1>1. PICK set \in Settings :
        /\ settings' = set
        /\ calendar' = FromFile(set, Parsed(Served))
        /\ snap' = Restore(IF set.provider = "trading_economics" THEN stored
                           ELSE [rows |-> {}, success |-> Never])
  BY DEF Build
<1>2. [rows |-> {}, success |-> Never] \in [rows : SUBSET Row, success : Instant]
  BY DEF Instant
<1> QED
  BY <1>1, <1>2, RestoreType, RestoredUnhealthy, FromFileType

LEMMA RestartEffect ==
    ASSUME TypeOK, Restart
    PROVE  /\ settings' \in Settings /\ calendar' \in SUBSET Row
           /\ snap' \in Snapshot /\ ~Healthy(snap')
           /\ moment' = Never /\ verdict' = Unasked /\ UNCHANGED <<clock, listed, cache>>
<1>1. PICK stored \in [rows : SUBSET Row, success : Instant] : Build(stored)
  <2>1. /\ cache \in [rows : SUBSET Row, success : Instant]
        /\ [rows |-> {}, success |-> Never] \in [rows : SUBSET Row, success : Instant]
    BY DEF TypeOK, Instant
  <2> QED
    BY <2>1 DEF Restart
<1> QED
  BY <1>1, BuildEffect DEF Restart

-----------------------------------------------------------------------------
(* Type correctness *)

LEMMA TypeInit == Init => TypeOK
<1> SUFFICES ASSUME Init
             PROVE  TypeOK
  OBVIOUS
<1>1. cache \in [rows : SUBSET Row, success : Instant]
  BY DEF Init, Instant
<1>2. snap \in Snapshot
  BY <1>1, RestoreType DEF Init
<1>3. listed \in [Schedule -> Instant]
  BY DEF Init, Instant
<1> QED
  BY <1>1, <1>2, <1>3, UnaskedType, FromFileType DEF Init, TypeOK, Instant

LEMMA TypeNext == TypeOK /\ [Next]_vars => TypeOK'
<1> SUFFICES ASSUME TypeOK, [Next]_vars
             PROVE  TypeOK'
  OBVIOUS
<1>1. CASE BeginCycle
  <2>1. clock \in Int /\ RefreshAt(clock)
    BY <1>1 DEF BeginCycle, TypeOK
  <2>2. snap' \in Snapshot /\ cache' \in [rows : SUBSET Row, success : Instant]
    BY <2>1, RefreshAtEffect
  <2> QED
    BY <1>1, <2>1, <2>2, UnaskedType DEF BeginCycle, TypeOK, Instant
<1>2. ASSUME NEW s \in Symbol, Decide(s)
      PROVE  TypeOK'
  <2>1. moment \in Int /\ RefreshAt(moment)
    BY <1>2 DEF Decide, TypeOK, Instant
  <2>2. snap' \in Snapshot /\ cache' \in [rows : SUBSET Row, success : Instant]
    BY <2>1, RefreshAtEffect
  <2>3. Decision(s, moment, snap') \in Verdict
    BY DecisionType
  <2>4. verdict' \in [Symbol -> Verdict]
    BY <1>2, <2>3 DEF Decide, TypeOK
  <2> QED
    BY <1>2, <2>2, <2>4 DEF Decide, TypeOK
<1>3. CASE EndCycle
  BY <1>3, UnaskedType DEF EndCycle, TypeOK, Instant
<1>4. CASE Restart
  BY <1>4, RestartEffect, UnaskedType DEF TypeOK, Instant
<1>5. CASE Publish
  <2>1. listed' \in [Schedule -> Instant]
    BY <1>5 DEF Publish, TypeOK, Instant
  <2> QED
    BY <1>5, <2>1 DEF Publish, TypeOK, engine
<1>6. CASE Tick \/ UNCHANGED vars
  BY <1>6 DEF Tick, TypeOK, vars, engine
<1> QED
  BY <1>1, <1>2, <1>3, <1>4, <1>5, <1>6 DEF Next

\* TypeOK holds in every reachable state.
THEOREM TypeCorrect == Spec => []TypeOK
BY TypeInit, TypeNext, PTL DEF Spec

-----------------------------------------------------------------------------
(* A cycle asks one calendar *)

Service == settings.provider = "trading_economics"

\* Within a cycle the service is not asked again.
OneCalendar == moment # Never => /\ moment \in Int /\ moment <= clock
                                 /\ Service => ~Due(snap, moment)

\* A healthy snapshot was fetched at a time that has come.
Dated == Healthy(snap) => snap.success \in Int /\ snap.success <= clock

\* A cleared symbol had no blocking row in a usable calendar.
ClearedByRows ==
    Service => \A s \in Symbol : verdict[s] = "cleared" =>
        /\ moment # Never /\ Usable(snap, moment)
        /\ Blocking(snap.rows, s, moment) = {}

\* The rows hold every high impact release the service listed before `when`.
Holds(rows, when) ==
    \A e \in Schedule : (listed[e] # Never /\ listed[e] < when /\ e.impact = "high") =>
        \E r \in rows : r.currency = e.about /\ r.impact = "high" /\ r.at = e.at

\* A healthy snapshot holds what was listed before its fetch.
Complete == Healthy(snap) => Holds(snap.rows, snap.success)

CycleInv == TypeOK /\ OneCalendar /\ Dated /\ ClearedByRows /\ Complete

LEMMA CycleInvInit == Init => CycleInv
<1> SUFFICES ASSUME Init
             PROVE  CycleInv
  OBVIOUS
<1>1. ~Healthy(snap) /\ moment = Never /\ verdict = Unasked
  BY RestoredUnhealthy DEF Init
<1> QED
  BY <1>1, TypeInit DEF CycleInv, OneCalendar, Dated, ClearedByRows, Complete, Unasked

LEMMA DecideKeepsSnapshot ==
    ASSUME CycleInv, NEW s \in Symbol, Decide(s)
    PROVE  snap' = snap
<1>1. moment \in Int /\ (Service => ~Due(snap, moment))
  BY DEF CycleInv, OneCalendar, Decide
<1> QED
  BY <1>1, RefreshAtEffect DEF CycleInv, Decide, Service

\* A readable answer holds every high impact release the service lists.
LEMMA ParsedHolds ==
    ASSUME ~Unreadable(Served), NEW when
    PROVE  Holds(Parsed(Served), when)
<1> SUFFICES ASSUME NEW e \in Schedule, listed[e] # Never, e.impact = "high"
             PROVE  \E r \in Parsed(Served) :
                        r.currency = e.about /\ r.impact = "high" /\ r.at = e.at
  BY DEF Holds
<1>1. e \in Served /\ Attributed(e) # Blank
  BY DEF Served, Unreadable
<1>2. Normalised(e) \in Parsed(Served)
  BY <1>1 DEF Parsed
<1>3. Normalised(e) = [currency |-> e.about, impact |-> e.impact, at |-> e.at]
  BY <1>1, AttributedRightly DEF Normalised
<1> QED
  BY <1>2, <1>3

LEMMA CycleInvNext == CycleInv /\ [Next]_vars => CycleInv'
<1> SUFFICES ASSUME CycleInv, [Next]_vars
             PROVE  OneCalendar' /\ Dated' /\ ClearedByRows' /\ Complete'
  BY TypeNext DEF CycleInv
<1> USE DEF CycleInv
<1>t. clock \in Int /\ clock' \in Int
  BY TypeNext DEF TypeOK
<1>1. CASE BeginCycle
  <2>1. RefreshAt(clock) /\ moment' = clock /\ verdict' = Unasked
        /\ UNCHANGED <<clock, listed, settings>>
    BY <1>1 DEF BeginCycle
  <2>2. Service => ~Due(snap', clock)
    BY <1>t, <2>1, RefreshAtEffect DEF Service
  <2>3. OneCalendar'
    BY <1>t, <2>1, <2>2 DEF OneCalendar, Service, Due, Healthy
  <2>4. ClearedByRows'
    BY <2>1 DEF ClearedByRows, Unasked
  <2>5. CASE snap' = snap
    BY <2>1, <2>3, <2>4, <2>5 DEF Dated, Complete, Holds, Healthy
  <2>6. CASE ~Healthy(snap')
    BY <2>3, <2>4, <2>6 DEF Dated, Complete, Healthy
  <2>7. CASE snap'.success = clock /\ snap'.rows = Parsed(Served) /\ ~Unreadable(Served)
    <3>1. Dated'
      BY <1>t, <2>1, <2>7 DEF Dated
    <3>2. Complete'
      <4>1. Holds(Parsed(Served), clock)
        BY <2>7, ParsedHolds
      <4>2. Holds(Parsed(Served), clock) <=> Holds(snap.rows, snap.success)'
        BY <2>1, <2>7 DEF Holds
      <4> QED
        BY <4>1, <4>2 DEF Complete
    <3> QED
      BY <2>3, <2>4, <3>1, <3>2
  <2> QED
    BY <1>t, <2>1, <2>5, <2>6, <2>7, RefreshAtEffect
<1>2. ASSUME NEW s \in Symbol, Decide(s)
      PROVE  OneCalendar' /\ Dated' /\ ClearedByRows' /\ Complete'
  <2>1. snap' = snap /\ moment # Never /\ UNCHANGED <<clock, moment, listed, settings>>
    BY <1>2, DecideKeepsSnapshot DEF Decide
  <2>2. ClearedByRows'
    <3> SUFFICES ASSUME Service, NEW u \in Symbol, verdict'[u] = "cleared"
                 PROVE  Usable(snap, moment) /\ Blocking(snap.rows, u, moment) = {}
      BY <2>1 DEF ClearedByRows, Service, Usable, Healthy
    <3>1. CASE u = s
      <4>1. verdict'[s] = Ruling(Usable(snap', moment), snap'.rows, s, moment)
        BY <1>2 DEF Decide, TypeOK, Decision, Service
      <4>2. Usable(snap', moment) <=> Usable(snap, moment)
        BY <2>1 DEF Usable, Healthy
      <4> QED
        BY <2>1, <3>1, <4>1, <4>2 DEF Ruling, Unenforceable
    <3>2. CASE u # s
      BY <1>2, <3>2 DEF Decide, TypeOK, ClearedByRows
    <3> QED
      BY <3>1, <3>2
  <2>3. OneCalendar' /\ Dated' /\ Complete'
    BY <2>1 DEF OneCalendar, Service, Due, Dated, Complete, Holds, Healthy
  <2> QED
    BY <2>2, <2>3
<1>3. CASE EndCycle
  <2>1. moment' = Never /\ verdict' = Unasked /\ UNCHANGED <<clock, listed, settings, snap>>
    BY <1>3 DEF EndCycle
  <2> QED
    BY <2>1 DEF OneCalendar, Dated, ClearedByRows, Complete, Holds, Healthy, Unasked
<1>4. CASE Restart
  <2>1. moment' = Never /\ verdict' = Unasked /\ ~Healthy(snap')
    BY <1>4, RestartEffect
  <2> QED
    BY <2>1 DEF OneCalendar, Dated, ClearedByRows, Complete, Healthy, Unasked
<1>5. CASE Publish
  <2>1. UNCHANGED <<clock, settings, snap, moment, verdict>>
    BY <1>5 DEF Publish, engine
  <2>2. OneCalendar' /\ Dated' /\ ClearedByRows'
    BY <2>1 DEF OneCalendar, Service, Due, Dated, ClearedByRows, Usable, Healthy
  <2>3. Complete'
    <3> SUFFICES ASSUME Healthy(snap), NEW e \in Schedule, listed'[e] # Never,
                        listed'[e] < snap.success, e.impact = "high"
                 PROVE  \E r \in snap.rows :
                            r.currency = e.about /\ r.impact = "high" /\ r.at = e.at
      BY <2>1 DEF Complete, Holds, Healthy
    <3>1. listed'[e] \in {listed[e], clock}
      BY <1>5 DEF Publish, TypeOK
    <3>2. snap.success \in Int /\ snap.success <= clock
      BY DEF Dated
    <3>3. listed'[e] = listed[e]
      BY <1>t, <3>1, <3>2
    <3> QED
      BY <3>3 DEF Complete, Holds
  <2> QED
    BY <2>2, <2>3
<1>6. CASE Tick
  <2>1. clock' = clock + 1 /\ UNCHANGED <<listed, settings, snap, moment, verdict>>
    BY <1>6 DEF Tick, engine
  <2>2. OneCalendar' /\ Dated'
    BY <1>t, <2>1 DEF OneCalendar, Service, Due, Dated, Healthy
  <2>3. ClearedByRows' /\ Complete'
    BY <2>1 DEF ClearedByRows, Service, Usable, Complete, Holds, Healthy
  <2> QED
    BY <2>2, <2>3
<1>7. CASE UNCHANGED vars
  BY <1>7 DEF vars, engine, OneCalendar, Service, Due, Dated, ClearedByRows, Usable, Complete,
     Holds, Healthy
<1> QED
  BY <1>1, <1>2, <1>3, <1>4, <1>5, <1>6, <1>7 DEF Next

LEMMA CycleInvariant == Spec => []CycleInv
BY CycleInvInit, CycleInvNext, PTL DEF Spec

LEMMA ClearedSafely == CycleInv => ClearedIsSafe
<1> SUFFICES ASSUME CycleInv, Service, moment # Never,
                    NEW s \in Symbol, verdict[s] = "cleared",
                    NEW e \in Schedule, listed[e] # Never,
                    listed[e] + MaxAge < moment,
                    e.impact = "high", e.about \in PairCurrencies(s),
                    Within(e.at, clock, Window - (clock - moment))
             PROVE  FALSE
  BY DEF ClearedIsSafe, Service
<1> USE DEF CycleInv
<1>1. Usable(snap, moment) /\ Blocking(snap.rows, s, moment) = {}
  BY DEF ClearedByRows
<1>2. /\ moment \in Int /\ moment <= clock /\ clock \in Int
      /\ snap.success \in Int /\ moment - snap.success <= MaxAge
  BY <1>1 DEF OneCalendar, TypeOK, Usable, Dated
<1>3. /\ listed[e] \in Int /\ e.at \in Int
      /\ MaxAge \in Nat /\ Window \in Nat
  BY ScheduleAssumption, DurationAssumption, WindowAssumption DEF TypeOK, Instant, Raw
<1>4. listed[e] < snap.success
  BY <1>2, <1>3
<1>5. PICK r \in snap.rows : r.currency = e.about /\ r.impact = "high" /\ r.at = e.at
  BY <1>1, <1>4 DEF Usable, Complete, Holds
<1>6. Within(r.at, moment, Window)
  BY <1>2, <1>3, <1>5 DEF Within
<1> QED
  BY <1>1, <1>5, <1>6 DEF Blocking

\* With the service, a symbol is cleared only when no high impact release the
\* service listed in time is near, whatever the row says of its currency.
THEOREM ClearanceSafe == Spec => []ClearedIsSafe
BY ClearedSafely, CycleInvariant, PTL

-----------------------------------------------------------------------------
(* The refinement of CalendarPromise *)

\* What the abstract provider sees of the state: the names KeepsPromise gives
\* to CalendarPromise.
SourceSeen  == IF Service /\ Healthy(snap) THEN snap.success ELSE Never
VerdictSeen == [s \in Symbol |->
                  IF Service /\ verdict[s] = "cleared" THEN "cleared"
                  ELSE IF verdict[s] = "unasked" THEN "unasked" ELSE "blocked"]

LEMMA PromiseStep ==
    ASSUME CycleInv, [Next]_vars
    PROVE  [Promise!Next]_(Promise!vars)
<1> USE DEF CycleInv
<1>a. Promise!vars = <<clock, moment, SourceSeen, VerdictSeen>>
  BY DEF Promise!vars, SourceSeen, VerdictSeen, Service
<1>b. Promise!vars' = <<clock', moment', SourceSeen', VerdictSeen'>>
  BY DEF Promise!vars, SourceSeen, VerdictSeen, Service
<1>c. verdict' = Unasked => VerdictSeen' = Promise!Unasked
  BY DEF Unasked, VerdictSeen, Promise!Unasked
<1>1. CASE BeginCycle
  <2>1. /\ clock \in Int /\ RefreshAt(clock) /\ moment' = clock /\ verdict' = Unasked
        /\ UNCHANGED <<clock, settings>>
    BY <1>1 DEF BeginCycle, TypeOK
  <2>2. \/ SourceSeen' \in {SourceSeen, Never}
        \/ SourceSeen' = clock
    <3>1. \/ snap' = snap
          \/ ~Healthy(snap')
          \/ snap'.success = clock
      BY <2>1, RefreshAtEffect
    <3> QED
      BY <2>1, <3>1 DEF SourceSeen, Service, Healthy
  <2>3. \/ SourceSeen' \in {SourceSeen, Never}
        \/ SourceSeen' \in Int /\ SourceSeen' <= clock + 0
    BY <2>1, <2>2
  <2>4. Promise!Begin
    BY <1>c, <2>1, <2>3 DEF Promise!Begin, SourceSeen, VerdictSeen, Service
  <2> QED
    BY <2>4 DEF Promise!Next
<1>2. ASSUME NEW s \in Symbol, Decide(s)
      PROVE  Promise!Answer(s)
  <2>1. snap' = snap /\ UNCHANGED <<clock, moment, settings>> /\ moment # Never
    BY <1>2, DecideKeepsSnapshot DEF Decide
  <2>2. SourceSeen' = SourceSeen
    BY <2>1 DEF SourceSeen, Service, Healthy
  <2>3. PICK answer \in Verdict \ {"unasked"} :
            /\ verdict' = [verdict EXCEPT ![s] = answer]
            /\ Service /\ answer = "cleared" => Usable(snap, moment)
    <3> DEFINE answer == Decision(s, moment, snap')
    <3>1. answer \in Verdict \ {"unasked"}
      BY DecisionType
    <3>2. Service /\ answer = "cleared" => Usable(snap', moment)
      BY DEF Decision, Ruling, Unenforceable, Service
    <3>3. Usable(snap', moment) <=> Usable(snap, moment)
      BY <2>1 DEF Usable, Healthy
    <3>4. verdict' = [verdict EXCEPT ![s] = answer]
      BY <1>2 DEF Decide
    <3> HIDE DEF answer
    <3> QED
      BY <3>1, <3>2, <3>3, <3>4
  <2>4. VerdictSeen' = [VerdictSeen EXCEPT ![s] = IF Service /\ answer = "cleared"
                                                 THEN "cleared" ELSE "blocked"]
    BY <2>1, <2>3 DEF VerdictSeen, Service, TypeOK, Verdict
  <2>5. Service /\ answer = "cleared" => Promise!Usable
    BY <2>3 DEF Promise!Usable, Usable, Service
  <2>6. CASE Service /\ answer = "cleared"
    BY <2>1, <2>2, <2>4, <2>5, <2>6 DEF Promise!Answer, SourceSeen, VerdictSeen, Service
  <2>7. CASE ~(Service /\ answer = "cleared")
    BY <2>1, <2>2, <2>4, <2>7 DEF Promise!Answer, SourceSeen, VerdictSeen, Service
  <2> QED
    BY <2>6, <2>7
<1>3. CASE EndCycle \/ Restart
  <2>1. moment' = Never /\ verdict' = Unasked /\ clock' = clock
    BY <1>3 DEF EndCycle, Restart
  <2>2. (snap' = snap /\ settings' = settings) \/ ~Healthy(snap')
    BY <1>3, RestartEffect DEF EndCycle
  <2>3. SourceSeen' \in {SourceSeen, Never}
    BY <2>2 DEF SourceSeen, Service, Healthy
  <2>4. Promise!End
    BY <1>c, <2>1, <2>3 DEF Promise!End, SourceSeen, VerdictSeen, Service
  <2> QED
    BY <2>4 DEF Promise!Next
<1>4. CASE Tick
  <2>1. UNCHANGED <<moment, snap, verdict, settings>> /\ clock' = clock + 1
    BY <1>4 DEF Tick, engine
  <2>2. SourceSeen' = SourceSeen /\ VerdictSeen' = VerdictSeen
    BY <2>1 DEF SourceSeen, VerdictSeen, Service, Healthy
  <2>3. Promise!Tick
    BY <2>1, <2>2 DEF Promise!Tick, SourceSeen, VerdictSeen, Service
  <2> QED
    BY <2>3 DEF Promise!Next
<1>5. CASE Publish \/ UNCHANGED vars
  <2>1. UNCHANGED <<clock, moment, snap, verdict, settings>>
    BY <1>5 DEF Publish, vars, engine
  <2>2. SourceSeen' = SourceSeen /\ VerdictSeen' = VerdictSeen
    BY <2>1 DEF SourceSeen, VerdictSeen, Service, Healthy
  <2> QED
    BY <1>a, <1>b, <2>1, <2>2
<1> QED
  BY <1>1, <1>2, <1>3, <1>4, <1>5 DEF Next, Promise!Next

\* With the service, a symbol is cleared only on a calendar this process fetched
\* itself, within the limit; the other providers clear nobody on a calendar.
THEOREM PromiseKept == Spec => KeepsPromise
<1>1. Init => Promise!Init
  <2> SUFFICES ASSUME Init
               PROVE  Promise!Init
    OBVIOUS
  <2>1. ~Healthy(snap)
    BY RestoredUnhealthy DEF Init
  <2>2. VerdictSeen = Promise!Unasked
    BY DEF Init, Unasked, VerdictSeen, Promise!Unasked
  <2> QED
    BY <2>1, <2>2 DEF Init, Promise!Init, VerdictSeen, Service
<1>2. CycleInv /\ [Next]_vars => [Promise!Next]_(Promise!vars)
  BY PromiseStep
<1> QED
  BY <1>1, <1>2, CycleInvariant, PTL DEF Spec, KeepsPromise, Promise!Spec

=============================================================================
