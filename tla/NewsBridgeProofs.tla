--------------------------- MODULE NewsBridgeProofs ---------------------------
(***************************************************************************)
(* Proofs about NewsBridge: type correctness, the refinement of            *)
(* CalendarPromise, and that a clearance is safe.                          *)
(***************************************************************************)
EXTENDS NewsBridge, TLAPS

-----------------------------------------------------------------------------
(* Type correctness *)

\* A file WriteSnapshot left
Written == [status : {"OK", "DEGRADED"}, generated : Int, mtime : Int, rows : SUBSET Row]

LEMMA ReadsWritten ==
    ASSUME TypeOK, NEW now \in Int, NEW timed \in BOOLEAN, Read(now, timed) = "read"
    PROVE  /\ file \in Written /\ file.status = "OK"
           /\ now - file.generated <= MaxAge
           /\ file.generated - now <= Tolerance
           /\ timed => Within(file.generated, file.mtime, Tolerance)
<1>1. file # NoFile /\ file # Spoiled /\ ParseBridge(file, now, timed) = "read"
  BY DEF Read
<1>2. file \in Written
  BY <1>1 DEF TypeOK, Files, Written
<1>3. /\ file.status # "DEGRADED"
      /\ ~(now - file.generated > MaxAge)
      /\ ~(now - file.generated < -Tolerance)
      /\ timed => Within(file.generated, file.mtime, Tolerance)
  BY <1>1 DEF ParseBridge
<1> QED
  BY <1>2, <1>3, DurationAssumption DEF Written

LEMMA RefreshedType ==
    ASSUME TypeOK, NEW now \in Int, NEW timed \in BOOLEAN
    PROVE  Refreshed(snap, now, timed) \in Snapshot
<1>1. snap \in Snapshot /\ now \in Instant
  BY DEF TypeOK, Instant
<1>2. CASE ~Due(snap, now)
  BY <1>1, <1>2 DEF Refreshed
<1>3. CASE Due(snap, now) /\ Read(now, timed) = "read"
  <2>1. file.generated \in Int /\ file.rows \in SUBSET Row
    BY <1>3, ReadsWritten DEF Written
  <2>2. Kept(file) \in SUBSET Row
    BY <2>1 DEF Kept
  <2> QED
    BY <1>1, <1>3, <2>1, <2>2 DEF Refreshed, Snapshot, State, Instant
<1>4. CASE Due(snap, now) /\ Read(now, timed) # "read"
  <2>1. Refreshed(snap, now, timed) = Fail(snap, Read(now, timed), now)
    BY <1>4 DEF Refreshed
  <2>2. \A outcome : Fail(snap, outcome, now) \in Snapshot
    BY <1>1 DEF Fail, Snapshot, State
  <2> QED
    BY <2>1, <2>2
<1> QED
  BY <1>2, <1>3, <1>4

LEMMA RefreshAtType ==
    ASSUME TypeOK, NEW now \in Int, RefreshAt(now)
    PROVE  /\ \E timed \in BOOLEAN : snap' = Refreshed(snap, now, timed)
           /\ snap' \in Snapshot /\ cache' \in SUBSET Row
<1>1. PICK timed \in BOOLEAN : snap' = Refreshed(snap, now, timed)
  BY DEF RefreshAt
<1>2. snap' \in Snapshot
  BY <1>1, RefreshedType
<1>3. snap.rows' \in SUBSET Row
  BY <1>2 DEF Snapshot
<1>4. cache' \in {cache, snap.rows'}
  BY DEF RefreshAt, Save
<1> QED
  BY <1>1, <1>2, <1>3, <1>4 DEF TypeOK

LEMMA UnaskedType == Unasked \in [Symbol -> Verdict]
BY DEF Unasked, Verdict

LEMMA RestoreType == ASSUME NEW rows \in SUBSET Row PROVE Restore(rows) \in Snapshot
BY DEF Restore, Snapshot, State, Instant

LEMMA RestoredUnhealthy == \A rows : ~Healthy(Restore(rows))
BY DEF Restore, Healthy

LEMMA WriteSnapshotType ==
    ASSUME TypeOK, WriteSnapshot
    PROVE  /\ file' \in Written /\ lastWrite' = clock
           /\ file.mtime' = clock
           /\ UNCHANGED <<clock, skew, published, engine>>
<1>1. PICK failed \in SUBSET Currency, undescribed \in SUBSET Opaque, orphans \in SUBSET Opaque :
          LET held == {e \in Schedule \ undescribed :
                         published[e] # Never /\ e.currency \notin failed}
          IN  file' = [status |-> IF failed = {} THEN "OK" ELSE "DEGRADED",
                       generated |-> clock + skew, mtime |-> clock,
                       rows |-> {Exported(e, e \notin orphans) : e \in held}]
  BY DEF WriteSnapshot
<1>2. clock \in Nat /\ skew \in Int
  BY SkewAssumption DEF TypeOK
<1>3. \A e \in Schedule, attributed \in BOOLEAN : Exported(e, attributed) \in Row
  <2> SUFFICES ASSUME NEW e \in Schedule, NEW attributed \in BOOLEAN
               PROVE  Exported(e, attributed) \in Row
    OBVIOUS
  <2>1. e.currency \in Currency /\ e.impact \in Impact /\ e.at \in Int
    BY ScheduleAssumption
  <2> QED
    BY <1>2, <2>1 DEF Exported, Row
<1>4. file' \in Written /\ file'.mtime = clock
  <2> DEFINE held == {e \in Schedule \ undescribed :
                        published[e] # Never /\ e.currency \notin failed}
             rows == {Exported(e, e \notin orphans) : e \in held}
  <2>1. rows \in SUBSET Row
    BY <1>3
  <2>2. clock + skew \in Int /\ clock \in Int
    BY <1>2
  <2>3. file' = [status |-> IF failed = {} THEN "OK" ELSE "DEGRADED",
                 generated |-> clock + skew, mtime |-> clock, rows |-> rows]
    BY <1>1
  <2> HIDE DEF rows
  <2> QED
    BY <2>1, <2>2, <2>3 DEF Written
<1> QED
  BY <1>4 DEF WriteSnapshot

\* TypeOK holds in every reachable state.
THEOREM TypeCorrect == Spec => []TypeOK
<1>1. Init => TypeOK
  <2> SUFFICES ASSUME Init
               PROVE  TypeOK
    OBVIOUS
  <2>1. Restore({}) \in Snapshot
    BY RestoreType
  <2>2. published \in [Schedule -> Instant]
    BY DEF Init, Instant
  <2> QED
    BY <2>1, <2>2, UnaskedType DEF Init, TypeOK, Files, Instant
<1>2. TypeOK /\ [Next]_vars => TypeOK'
  <2> SUFFICES ASSUME TypeOK, [Next]_vars
               PROVE  TypeOK'
    OBVIOUS
  <2>1. CASE OnInit \/ OnTimer
    <3>1. WriteSnapshot
      BY <2>1 DEF OnInit, OnTimer
    <3>2. file' \in Files /\ lastWrite' \in Instant
      BY <3>1, WriteSnapshotType DEF Written, Files, Instant, TypeOK
    <3> QED
      BY <3>1, <3>2, WriteSnapshotType DEF TypeOK, engine
  <2>2. CASE Publish
    <3>1. published' \in [Schedule -> Instant]
      BY <2>2 DEF Publish, TypeOK, Instant
    <3> QED
      BY <2>2, <3>1 DEF Publish, TypeOK, engine
  <2>3. CASE SetTerminalClock
    BY <2>3 DEF SetTerminalClock, TypeOK, engine
  <2>4. CASE Spoil
    <3>1. file' \in Files
      BY <2>4 DEF Spoil, Files
    <3> QED
      BY <2>4, <3>1 DEF Spoil, TypeOK, engine
  <2>5. CASE BeginCycle
    <3>1. clock \in Int /\ RefreshAt(clock)
      BY <2>5 DEF BeginCycle, TypeOK
    <3>2. snap' \in Snapshot /\ cache' \in SUBSET Row
      BY <3>1, RefreshAtType
    <3> QED
      BY <2>5, <3>1, <3>2, UnaskedType DEF BeginCycle, TypeOK, terminal, Instant
  <2>6. ASSUME NEW s \in Symbol, Decide(s)
        PROVE  TypeOK'
    <3>1. moment \in Int /\ RefreshAt(moment)
      BY <2>6 DEF Decide, TypeOK, Instant
    <3>2. snap' \in Snapshot /\ cache' \in SUBSET Row
      BY <3>1, RefreshAtType
    <3>3. Ruling(Usable(snap', moment), snap'.rows, s, moment) \in Verdict
      BY DEF Ruling, Unenforceable, Verdict
    <3>4. verdict' \in [Symbol -> Verdict]
      BY <2>6, <3>3 DEF Decide, TypeOK
    <3> QED
      BY <2>6, <3>2, <3>4 DEF Decide, TypeOK, terminal
  <2>7. CASE EndCycle
    BY <2>7, UnaskedType DEF EndCycle, TypeOK, terminal, Instant
  <2>8. CASE Restart
    <3>1. snap' \in Snapshot
      BY <2>8, RestoreType DEF Restart, TypeOK
    <3> QED
      BY <2>8, <3>1, UnaskedType DEF Restart, TypeOK, terminal, Instant
  <2>9. CASE Tick \/ UNCHANGED vars
    BY <2>9 DEF Tick, TypeOK, vars, terminal, engine
  <2> QED
    BY <2>1, <2>2, <2>3, <2>4, <2>5, <2>6, <2>7, <2>8, <2>9 DEF Next
<1> QED
  BY <1>1, <1>2, PTL DEF Spec

-----------------------------------------------------------------------------
(* The refinement of CalendarPromise *)

\* Within a cycle the snapshot is not due again: every symbol is asked of the
\* calendar the cycle began with.
OneCalendar == moment # Never => moment \in Int /\ moment <= clock /\ ~Due(snap, moment)

\* A healthy snapshot knows when its calendar was made.
Dated == Healthy(snap) => snap.generated \in Int

\* A cleared symbol had no blocking row in a usable calendar.
ClearedByRows ==
    \A s \in Symbol : verdict[s] = "cleared" =>
        /\ moment # Never /\ Usable(snap, moment)
        /\ Blocking(snap.rows, s, moment) = {}

CycleInv == TypeOK /\ OneCalendar /\ Dated /\ ClearedByRows

LEMMA NotDueAgain ==
    ASSUME TypeOK, NEW now \in Int, NEW timed \in BOOLEAN
    PROVE  ~Due(Refreshed(snap, now, timed), now)
<1>1. now # Never /\ now - now = 0
  BY NeverAssumption
<1>2. CASE ~Due(snap, now)
  BY <1>2 DEF Refreshed
<1>3. CASE Due(snap, now)
  <2>1. Refreshed(snap, now, timed).attempt = now
    <3>1. CASE Read(now, timed) = "read"
      BY <1>3, <3>1 DEF Refreshed
    <3>2. CASE Read(now, timed) # "read"
      <4>1. Refreshed(snap, now, timed) = Fail(snap, Read(now, timed), now)
        BY <1>3, <3>2 DEF Refreshed
      <4> QED
        BY <4>1 DEF Fail, TypeOK, Snapshot
    <3> QED
      BY <3>1, <3>2
  <2>2. 0 < ReadEvery /\ 0 < RetryEvery
    BY DurationAssumption
  <2> QED
    BY <1>1, <2>1, <2>2, DurationAssumption DEF Due
<1> QED
  BY <1>2, <1>3

\* A refresh leaves a calendar of its own making, or none that is healthy.
LEMMA RefreshedSource ==
    ASSUME TypeOK, Dated, NEW now \in Int, NEW timed \in BOOLEAN
    PROVE  \/ Refreshed(snap, now, timed) = snap
           \/ ~Healthy(Refreshed(snap, now, timed))
           \/ /\ Read(now, timed) = "read"
              /\ Refreshed(snap, now, timed).generated = file.generated
              /\ Refreshed(snap, now, timed).rows = Kept(file)
              /\ Refreshed(snap, now, timed).compared = timed
              /\ file.generated \in Int /\ file.generated <= now + Tolerance
<1>1. CASE ~Due(snap, now)
  BY <1>1 DEF Refreshed
<1>2. CASE Due(snap, now) /\ Read(now, timed) = "read"
  <2>1. file \in Written /\ file.generated - now <= Tolerance
    BY <1>2, ReadsWritten
  <2>2. file.generated \in Int /\ file.generated <= now + Tolerance
    BY <2>1, DurationAssumption DEF Written
  <2> QED
    BY <1>2, <2>2 DEF Refreshed
<1>3. CASE Due(snap, now) /\ Read(now, timed) # "read"
  <2>1. Refreshed(snap, now, timed) = Fail(snap, Read(now, timed), now)
    BY <1>3 DEF Refreshed
  <2> QED
    BY <2>1 DEF Fail, Healthy, TypeOK, Snapshot
<1> QED
  BY <1>1, <1>2, <1>3

LEMMA CycleInvInit == Init => CycleInv
<1> SUFFICES ASSUME Init
             PROVE  CycleInv
  OBVIOUS
<1>1. TypeOK
  <2>1. published \in [Schedule -> Instant]
    BY DEF Init, Instant
  <2> QED
    BY <2>1, RestoreType, UnaskedType DEF Init, TypeOK, Files, Instant
<1>2. OneCalendar /\ Dated /\ ClearedByRows
  BY DEF Init, OneCalendar, Dated, ClearedByRows, Restore, Healthy, Unasked
<1> QED
  BY <1>1, <1>2 DEF CycleInv

LEMMA DecideKeepsSnapshot ==
    ASSUME CycleInv, NEW s \in Symbol, Decide(s)
    PROVE  snap' = snap
BY RefreshAtType DEF CycleInv, OneCalendar, Decide, Refreshed

LEMMA CycleInvNext == TypeOK' /\ CycleInv /\ [Next]_vars => CycleInv'
<1> SUFFICES ASSUME TypeOK', CycleInv, [Next]_vars
             PROVE  OneCalendar' /\ Dated' /\ ClearedByRows'
  BY DEF CycleInv
<1> USE DEF CycleInv
<1>1. CASE OnInit \/ OnTimer \/ Publish \/ SetTerminalClock \/ Spoil \/ UNCHANGED vars
  <2>1. UNCHANGED <<clock, engine>>
    BY <1>1 DEF OnInit, OnTimer, WriteSnapshot, Publish, SetTerminalClock, Spoil, vars
  <2> QED
    BY <2>1 DEF engine, OneCalendar, Dated, ClearedByRows
<1>2. CASE BeginCycle
  <2>1. clock \in Int /\ RefreshAt(clock) /\ moment' = clock /\ clock' = clock
    BY <1>2 DEF BeginCycle, TypeOK
  <2>2. PICK timed \in BOOLEAN : snap' = Refreshed(snap, clock, timed)
    BY <2>1, RefreshAtType
  <2>3. ~Due(snap', clock)
    BY <2>1, <2>2, NotDueAgain
  <2>4. OneCalendar'
    BY <2>1, <2>3 DEF OneCalendar, Due, Healthy
  <2>5. Dated'
    BY <2>1, <2>2, RefreshedSource DEF Dated
  <2>6. ClearedByRows'
    BY <1>2 DEF BeginCycle, ClearedByRows, Unasked
  <2> QED
    BY <2>4, <2>5, <2>6
<1>3. ASSUME NEW s \in Symbol, Decide(s)
      PROVE  OneCalendar' /\ Dated' /\ ClearedByRows'
  <2>1. snap' = snap
    BY <1>3, DecideKeepsSnapshot
  <2>2. UNCHANGED <<clock, moment>> /\ moment # Never
    BY <1>3 DEF Decide
  <2>3. ClearedByRows'
    <3> SUFFICES ASSUME NEW t \in Symbol, verdict'[t] = "cleared"
                 PROVE  /\ moment # Never /\ Usable(snap, moment)
                        /\ Blocking(snap.rows, t, moment) = {}
      BY <2>1, <2>2 DEF ClearedByRows, Usable, Healthy
    <3>1. CASE t = s
      <4>1. verdict'[s] = Ruling(Usable(snap, moment), snap.rows, s, moment)
        BY <1>3, <2>1 DEF Decide, TypeOK, Usable, Healthy
      <4> QED
        BY <2>2, <3>1, <4>1 DEF Ruling, Unenforceable
    <3>2. CASE t # s
      BY <1>3, <3>2 DEF Decide, TypeOK, ClearedByRows
    <3> QED
      BY <3>1, <3>2
  <2>4. OneCalendar' /\ Dated'
    BY <2>1, <2>2 DEF OneCalendar, Dated, Due, Healthy
  <2> QED
    BY <2>3, <2>4
<1>4. CASE EndCycle
  BY <1>4 DEF EndCycle, OneCalendar, Dated, ClearedByRows, Unasked, Healthy
<1>5. CASE Restart
  <2>1. moment' = Never /\ verdict' = Unasked /\ ~Healthy(snap')
    BY <1>5, RestoredUnhealthy DEF Restart
  <2> QED
    BY <2>1 DEF OneCalendar, Dated, ClearedByRows, Unasked, Healthy
<1>6. CASE Tick
  BY <1>6 DEF Tick, engine, OneCalendar, Dated, ClearedByRows, Due, Healthy, Usable, TypeOK
<1> QED
  BY <1>1, <1>2, <1>3, <1>4, <1>5, <1>6 DEF Next

LEMMA CycleInvariant == Spec => []CycleInv
<1>1. TypeOK /\ CycleInv /\ TypeOK' /\ [Next]_vars => CycleInv'
  BY CycleInvNext
<1> QED
  BY <1>1, CycleInvInit, TypeCorrect, PTL DEF Spec

\* What the abstract provider sees of the state: the names KeepsPromise gives
\* to CalendarPromise.
SourceSeen  == IF Healthy(snap) THEN snap.generated ELSE Never
VerdictSeen == [s \in Symbol |-> IF verdict[s] = "cleared" THEN "cleared"
                                 ELSE IF verdict[s] = "unasked" THEN "unasked" ELSE "blocked"]

LEMMA UnaskedSeen == ASSUME verdict = Unasked PROVE VerdictSeen = Promise!Unasked
BY DEF Unasked, VerdictSeen, Promise!Unasked

LEMMA PromiseStep ==
    ASSUME CycleInv, CycleInv', [Next]_vars
    PROVE  [Promise!Next]_(Promise!vars)
<1> USE DEF CycleInv
<1>a. Promise!vars = <<clock, moment, SourceSeen, VerdictSeen>>
  BY DEF Promise!vars, SourceSeen, VerdictSeen
<1>b. Promise!vars' = <<clock', moment', SourceSeen', VerdictSeen'>>
  BY DEF Promise!vars, SourceSeen, VerdictSeen
<1>1. CASE OnInit \/ OnTimer \/ Publish \/ SetTerminalClock \/ Spoil \/ UNCHANGED vars
  <2>1. UNCHANGED <<clock, moment, snap, verdict>>
    BY <1>1 DEF OnInit, OnTimer, WriteSnapshot, Publish, SetTerminalClock, Spoil, vars, engine
  <2>2. SourceSeen' = SourceSeen /\ VerdictSeen' = VerdictSeen
    BY <2>1 DEF SourceSeen, VerdictSeen, Healthy
  <2> QED
    BY <1>a, <1>b, <2>1, <2>2
<1>2. CASE BeginCycle
  <2>1. clock \in Int /\ RefreshAt(clock) /\ moment' = clock /\ clock' = clock
        /\ verdict' = Unasked
    BY <1>2 DEF BeginCycle, TypeOK
  <2>2. PICK timed \in BOOLEAN : snap' = Refreshed(snap, clock, timed)
    BY <2>1, RefreshAtType
  <2>3. VerdictSeen' = Promise!Unasked
    BY <2>1 DEF Unasked, VerdictSeen, Promise!Unasked
  <2>4. \/ SourceSeen' \in {SourceSeen, Never}
        \/ SourceSeen' \in Int /\ SourceSeen' <= clock + Tolerance
    BY <2>1, <2>2, RefreshedSource DEF SourceSeen, Healthy
  <2>5. Promise!Begin
    BY <2>1, <2>3, <2>4 DEF Promise!Begin, SourceSeen, VerdictSeen
  <2> QED
    BY <2>5 DEF Promise!Next
<1>3. ASSUME NEW s \in Symbol, Decide(s)
      PROVE  Promise!Answer(s)
  <2>1. snap' = snap /\ UNCHANGED <<clock, moment>> /\ moment # Never
    BY <1>3, DecideKeepsSnapshot DEF Decide
  <2>2. SourceSeen' = SourceSeen
    BY <2>1 DEF SourceSeen, Healthy
  <2>3. PICK answer \in Verdict \ {"unasked"} :
            /\ verdict' = [verdict EXCEPT ![s] = answer]
            /\ answer = "cleared" => Usable(snap, moment)
    <3> DEFINE answer == Ruling(Usable(snap', moment), snap'.rows, s, moment)
    <3>1. answer \in Verdict \ {"unasked"} /\ (answer = "cleared" => Usable(snap', moment))
      BY DEF Ruling, Unenforceable, Verdict
    <3>2. verdict' = [verdict EXCEPT ![s] = answer]
      BY <1>3 DEF Decide
    <3> HIDE DEF answer
    <3> QED
      BY <2>1, <3>1, <3>2
  <2>4. VerdictSeen' = [VerdictSeen EXCEPT ![s] = IF answer = "cleared" THEN "cleared"
                                                 ELSE "blocked"]
    BY <2>3 DEF VerdictSeen, TypeOK, Verdict
  <2>5. Usable(snap, moment) =>
            SourceSeen # Never /\ moment - SourceSeen <= MaxAge
    BY DEF Usable, SourceSeen
  <2>6. answer = "cleared" => Promise!Usable
    BY <2>3, <2>5 DEF Promise!Usable, SourceSeen
  <2>7. CASE answer = "cleared"
    BY <2>1, <2>2, <2>4, <2>6, <2>7 DEF Promise!Answer, SourceSeen, VerdictSeen
  <2>8. CASE answer # "cleared"
    BY <2>1, <2>2, <2>4, <2>8 DEF Promise!Answer, SourceSeen, VerdictSeen
  <2> QED
    BY <2>7, <2>8
<1>4. CASE EndCycle \/ Restart
  <2>1. moment' = Never /\ verdict' = Unasked /\ clock' = clock
    BY <1>4 DEF EndCycle, Restart
  <2>2. snap' = snap \/ ~Healthy(snap')
    BY <1>4, RestoredUnhealthy DEF EndCycle, Restart
  <2>3. SourceSeen' \in {SourceSeen, Never}
    BY <2>2 DEF SourceSeen, Healthy
  <2>4. VerdictSeen' = Promise!Unasked
    BY <2>1 DEF Unasked, VerdictSeen, Promise!Unasked
  <2>5. Promise!End
    BY <2>1, <2>3, <2>4 DEF Promise!End, SourceSeen, VerdictSeen
  <2> QED
    BY <2>5 DEF Promise!Next
<1>5. CASE Tick
  <2>1. UNCHANGED <<moment, snap, verdict>> /\ clock' = clock + 1
    BY <1>5 DEF Tick, engine
  <2>2. SourceSeen' = SourceSeen /\ VerdictSeen' = VerdictSeen
    BY <2>1 DEF SourceSeen, VerdictSeen, Healthy
  <2>3. Promise!Tick
    BY <2>1, <2>2 DEF Promise!Tick, SourceSeen, VerdictSeen
  <2> QED
    BY <2>3 DEF Promise!Next
<1> QED
  BY <1>1, <1>2, <1>3, <1>4, <1>5 DEF Next, Promise!Next

\* The provider of the bridge is one of CalendarPromise: in every behaviour it
\* clears a symbol only on a calendar it read itself, whose heartbeat is within
\* the limit, whatever the terminal, the file and the store do to it.
THEOREM PromiseKept == Spec => KeepsPromise
<1>1. Init => Promise!Init
  BY UnaskedSeen DEF Init, Promise!Init, Restore, Healthy, VerdictSeen
<1>2. CycleInv /\ CycleInv' /\ [Next]_vars => [Promise!Next]_(Promise!vars)
  BY PromiseStep
<1> QED
  BY <1>1, <1>2, CycleInvariant, PTL DEF Spec, KeepsPromise, Promise!Spec

-----------------------------------------------------------------------------
(* A clearance is safe *)

\* The rows hold every release that can be read and was on the terminal's calendar `pub`
\* before `when`, moved by `shift`.
Holds(pub, rows, when, shift) ==
    \A e \in Schedule \ Opaque : (pub[e] # Never /\ pub[e] < when) =>
        \E r \in rows : /\ r.currency = e.currency /\ r.impact = e.impact
                       /\ r.at = e.at + shift

PublishedInv == \A e \in Schedule : published[e] # Never => published[e] <= clock

FileInv == file \in Written =>
    /\ file.mtime <= clock
    /\ file.status = "OK" => Holds(published, file.rows, file.mtime, file.generated - file.mtime)

\* A healthy snapshot compared with the file's time is a file written at some g, of a
\* terminal clock that was wrong by no more than the tolerance.
SnapInv == (Healthy(snap) /\ snap.compared) =>
    \E g \in Int : /\ g <= clock /\ Within(snap.generated, g, Tolerance)
                  /\ Holds(published, snap.rows, g, snap.generated - g)

CalendarInv == CycleInv /\ PublishedInv /\ FileInv /\ SnapInv

\* What was written before stays held when a release is published later on.
LEMMA HoldsLater ==
    ASSUME Publish, TypeOK, NEW rows, NEW when \in Int, NEW shift, when <= clock,
           Holds(published, rows, when, shift)
    PROVE  Holds(published', rows, when, shift)
<1>1. PICK e \in Schedule : published' = [published EXCEPT ![e] = clock]
  BY DEF Publish
<1>2. \A d \in Schedule : d # e => published'[d] = published[d]
  BY <1>1 DEF TypeOK
<1>3. published'[e] = clock /\ clock \in Int
  BY <1>1 DEF TypeOK
<1>4. \A d \in Schedule : (published'[d] # Never /\ published'[d] < when)
                            => published[d] # Never /\ published[d] < when
  BY <1>2, <1>3
<1> QED
  BY <1>4 DEF Holds

LEMMA WriteSnapshotHolds ==
    ASSUME TypeOK, PublishedInv, WriteSnapshot
    PROVE  file'.status = "OK" => Holds(published', file'.rows, file'.mtime, file'.generated - file'.mtime)
<1>1. PICK failed \in SUBSET Currency, undescribed \in SUBSET Opaque, orphans \in SUBSET Opaque :
          LET held == {e \in Schedule \ undescribed :
                         published[e] # Never /\ e.currency \notin failed}
          IN  file' = [status |-> IF failed = {} THEN "OK" ELSE "DEGRADED",
                       generated |-> clock + skew, mtime |-> clock,
                       rows |-> {Exported(e, e \notin orphans) : e \in held}]
  BY DEF WriteSnapshot
<1> SUFFICES ASSUME file'.status = "OK"
             PROVE  Holds(published', file'.rows, file'.mtime, file'.generated - file'.mtime)
  OBVIOUS
<1>2. failed = {}
  BY <1>1
<1>3. clock \in Int /\ skew \in Int
  BY SkewAssumption DEF TypeOK
<1>4. /\ file'.rows = {Exported(e, e \notin orphans) :
                         e \in {d \in Schedule \ undescribed : published[d] # Never}}
      /\ file'.generated = clock + skew /\ file'.mtime = clock
  BY <1>1, <1>2
<1>5. published' = published
  BY DEF WriteSnapshot
<1>6. file'.generated - file'.mtime = skew
  BY <1>3, <1>4
<1> SUFFICES ASSUME NEW e \in Schedule \ Opaque, published'[e] # Never
             PROVE  \E r \in file'.rows : /\ r.currency = e.currency /\ r.impact = e.impact
                                         /\ r.at = e.at + (file'.generated - file'.mtime)
  BY Zenon DEF Holds
<1>7. Exported(e, e \notin orphans) \in file'.rows /\ e \notin orphans
  BY <1>4, <1>5
<1> QED
  BY <1>6, <1>7 DEF Exported

LEMMA CalendarInvNext ==
    ASSUME CalendarInv, CycleInv', [Next]_vars
    PROVE  CalendarInv'
<1> USE DEF CalendarInv, CycleInv
<1>t. TypeOK /\ TypeOK'
  OBVIOUS
<1>c. clock \in Int /\ (clock' = clock \/ clock' = clock + 1)
  <2>1. clock \in Int
    BY <1>t DEF TypeOK
  <2>2. clock' = clock \/ clock' = clock + 1
    BY DEF Next, OnInit, OnTimer, WriteSnapshot, Publish, SetTerminalClock, Spoil,
           BeginCycle, Decide, EndCycle, Restart, Tick, vars
  <2> QED
    BY <2>1, <2>2
<1>1. CASE OnInit \/ OnTimer
  <2>1. WriteSnapshot
    BY <1>1 DEF OnInit, OnTimer
  <2>2. file'.mtime = clock /\ clock' = clock /\ published' = published /\ snap' = snap
    BY <2>1, WriteSnapshotType DEF engine
  <2>3. FileInv'
    <3>1. file'.mtime <= clock'
      BY <1>c, <2>2
    <3>2. file'.status = "OK" => Holds(published', file'.rows, file'.mtime, file'.generated - file'.mtime)
      BY <2>1, WriteSnapshotHolds
    <3> QED
      BY <3>1, <3>2 DEF FileInv
  <2> QED
    BY <2>2, <2>3 DEF PublishedInv, SnapInv, Holds, Healthy
<1>2. CASE Publish
  <2>1. clock' = clock /\ file' = file /\ snap' = snap
    BY <1>2 DEF Publish, engine
  <2>2. PublishedInv'
    BY <1>2, <1>c, <2>1 DEF Publish, PublishedInv, TypeOK
  <2>3. FileInv'
    <3> SUFFICES ASSUME file \in Written
                 PROVE  /\ file.mtime <= clock
                        /\ file.status = "OK" =>
                              Holds(published', file.rows, file.mtime, file.generated - file.mtime)
      BY <2>1 DEF FileInv, Holds
    <3>1. file.mtime \in Int /\ file.mtime <= clock
      BY DEF Written, FileInv
    <3>2. ASSUME file.status = "OK"
          PROVE  Holds(published', file.rows, file.mtime, file.generated - file.mtime)
      <4>1. Holds(published, file.rows, file.mtime, file.generated - file.mtime)
        BY <3>2 DEF FileInv
      <4> QED
        BY <1>2, <3>1, <4>1, HoldsLater
    <3> QED
      BY <3>1, <3>2
  <2>4. SnapInv'
    <3> SUFFICES ASSUME Healthy(snap), snap.compared
                 PROVE  \E g \in Int : /\ g <= clock /\ Within(snap.generated, g, Tolerance)
                                      /\ Holds(published', snap.rows, g, snap.generated - g)
      BY <2>1 DEF SnapInv, Holds, Healthy
    <3>1. PICK g \in Int : /\ g <= clock /\ Within(snap.generated, g, Tolerance)
                          /\ Holds(published, snap.rows, g, snap.generated - g)
      BY DEF SnapInv
    <3>2. Holds(published', snap.rows, g, snap.generated - g)
      BY <1>2, <3>1, HoldsLater
    <3> QED
      BY <3>1, <3>2, <2>1 DEF Holds
  <2> QED
    BY <2>2, <2>3, <2>4
<1>3. CASE SetTerminalClock
  BY <1>3 DEF SetTerminalClock, engine, PublishedInv, FileInv, SnapInv, Holds, Healthy
<1>4. CASE Spoil
  <2>1. file' \notin Written
    <3>1. file' \in {Spoiled, NoFile}
      BY <1>4 DEF Spoil
    <3>2. Spoiled \notin Written /\ NoFile \notin Written
      BY DEF Spoiled, NoFile, Written
    <3> QED
      BY <3>1, <3>2
  <2> QED
    BY <1>4, <2>1 DEF Spoil, engine, PublishedInv, FileInv, SnapInv, Holds, Healthy
<1>5. CASE BeginCycle
  <2>1. RefreshAt(clock) /\ UNCHANGED <<clock, published, file>>
    BY <1>5 DEF BeginCycle, terminal
  <2>2. PICK timed \in BOOLEAN : snap' = Refreshed(snap, clock, timed)
    BY <2>1, <1>c, RefreshAtType
  <2>3. PublishedInv' /\ FileInv'
    BY <2>1 DEF PublishedInv, FileInv, Holds
  <2>4. SnapInv'
    <3>1. CASE snap' = snap
      BY <2>1, <3>1 DEF SnapInv, Holds, Healthy
    <3>2. CASE ~Healthy(snap') \/ ~snap'.compared
      BY <3>2 DEF SnapInv, Healthy
    <3>3. CASE /\ Read(clock, timed) = "read" /\ snap'.generated = file.generated
               /\ snap'.rows = Kept(file) /\ snap'.compared = timed /\ timed
      <4>1. file \in Written /\ file.status = "OK"
            /\ Within(file.generated, file.mtime, Tolerance)
        BY <1>c, <3>3, ReadsWritten
      <4>2. file.mtime \in Int /\ file.mtime <= clock
            /\ Holds(published, file.rows, file.mtime, file.generated - file.mtime)
        BY <4>1 DEF FileInv, Written
      <4>3. \A e \in Schedule \ Opaque : e.currency \in Currency
        BY ScheduleAssumption
      <4>4. Holds(published, Kept(file), file.mtime, file.generated - file.mtime)
        BY <4>2, <4>3 DEF Holds, Kept
      <4>5. Holds(published', snap'.rows, file.mtime, snap'.generated - file.mtime)
        BY <2>1, <3>3, <4>4 DEF Holds
      <4>6. Within(snap'.generated, file.mtime, Tolerance)
        BY <3>3, <4>1
      <4> QED
        BY <2>1, <4>2, <4>5, <4>6 DEF SnapInv, Holds
    <3> QED
      BY <1>c, <2>2, <3>1, <3>2, <3>3, RefreshedSource
  <2> QED
    BY <2>3, <2>4
<1>6. ASSUME NEW s \in Symbol, Decide(s)
      PROVE  CalendarInv'
  <2>1. snap' = snap /\ UNCHANGED <<clock, published, file>>
    BY <1>6, DecideKeepsSnapshot DEF Decide, terminal
  <2> QED
    BY <2>1 DEF PublishedInv, FileInv, SnapInv, Holds, Healthy
<1>7. CASE EndCycle \/ Restart
  <2>1. UNCHANGED <<clock, published, file>> /\ (snap' = snap \/ ~Healthy(snap'))
    BY <1>7, RestoredUnhealthy DEF EndCycle, Restart, terminal
  <2>2. PublishedInv' /\ FileInv'
    BY <2>1 DEF PublishedInv, FileInv, Holds
  <2>3. SnapInv'
    BY <2>1 DEF SnapInv, Holds, Healthy
  <2> QED
    BY <2>2, <2>3
<1>8. CASE Tick
  <2>1. UNCHANGED <<published, file, snap>> /\ clock' = clock + 1
    BY <1>8 DEF Tick, terminal, engine
  <2>2. PublishedInv'
    BY <1>c, <2>1 DEF PublishedInv, TypeOK, Instant
  <2>3. FileInv'
    BY <1>c, <2>1 DEF FileInv, Holds, Written
  <2>4. SnapInv'
    BY <1>c, <2>1 DEF SnapInv, Holds, Healthy
  <2> QED
    BY <2>2, <2>3, <2>4
<1>9. CASE UNCHANGED vars
  BY <1>9 DEF vars, terminal, engine, PublishedInv, FileInv, SnapInv, Holds, Healthy
<1> QED
  BY <1>1, <1>2, <1>3, <1>4, <1>5, <1>6, <1>7, <1>8, <1>9 DEF Next

LEMMA ClearedSafely == CalendarInv => ClearedIsSafe
<1> SUFFICES ASSUME CalendarInv,
                    NEW s \in Symbol, verdict[s] = "cleared", snap.compared,
                    NEW e \in Schedule \ Opaque, published[e] # Never,
                    published[e] + MaxAge + Tolerance < moment,
                    e.impact = "high", e.currency \in PairCurrencies(s),
                    Within(e.at, clock, Window - Tolerance - (clock - moment))
             PROVE  FALSE
  BY DEF ClearedIsSafe
<1> USE DEF CalendarInv, CycleInv
<1>1. moment # Never /\ Usable(snap, moment) /\ Blocking(snap.rows, s, moment) = {}
  BY DEF ClearedByRows
<1>2. moment \in Int /\ moment <= clock /\ clock \in Int
  BY <1>1 DEF OneCalendar, TypeOK
<1>3. PICK g \in Int : /\ g <= clock /\ Within(snap.generated, g, Tolerance)
                      /\ Holds(published, snap.rows, g, snap.generated - g)
  BY <1>1 DEF Usable, SnapInv
<1>4. snap.generated \in Int /\ moment - snap.generated <= MaxAge
  BY <1>1 DEF Usable, Dated
<1>5. published[e] \in Int /\ e.at \in Int
  BY ScheduleAssumption DEF TypeOK, Instant
<1>6. Tolerance \in Nat /\ MaxAge \in Nat /\ Window \in Nat
  BY DurationAssumption, WindowAssumption
<1>7. published[e] < g
  BY <1>2, <1>3, <1>4, <1>5, <1>6 DEF Within
<1>8. PICK r \in snap.rows : /\ r.currency = e.currency /\ r.impact = e.impact
                            /\ r.at = e.at + (snap.generated - g)
  BY <1>3, <1>7 DEF Holds
<1>9. Within(r.at, moment, Window)
  BY <1>2, <1>3, <1>4, <1>5, <1>6, <1>8 DEF Within
<1> QED
  BY <1>1, <1>8, <1>9 DEF Blocking

\* A symbol is cleared only when no high impact release of its currencies is near,
\* whatever happens to the file, the store and the terminal's clock, as far as the
\* terminal can read the release's event and country and the file's time could be
\* compared with its heartbeat.
THEOREM ClearanceSafe == Spec => []ClearedIsSafe
<1>1. Init => CalendarInv
  <2> SUFFICES ASSUME Init
               PROVE  PublishedInv /\ FileInv /\ SnapInv
    BY CycleInvInit DEF CalendarInv
  <2>1. ~Healthy(snap) /\ file \notin Written
    BY RestoredUnhealthy DEF Init, NoFile, Written
  <2> QED
    BY <2>1 DEF Init, PublishedInv, FileInv, SnapInv
<1>2. CalendarInv /\ CycleInv' /\ [Next]_vars => CalendarInv'
  BY CalendarInvNext
<1> QED
  BY <1>1, <1>2, ClearedSafely, CycleInvariant, PTL DEF Spec

-----------------------------------------------------------------------------
(* An outage ends by itself *)

\* The last attempt lies in the past, of the cycle as of the clock.
AttemptPast == snap.attempt # Never =>
    /\ snap.attempt <= clock
    /\ moment # Never => snap.attempt <= moment

\* A file that was there at a failed attempt, and still is, was not readable then.
FailedForAReason ==
    (/\ ~Healthy(snap) /\ snap.attempt # Never
     /\ file \in Written /\ file.mtime < snap.attempt) => Read(snap.attempt, TRUE) # "read"

OutageInv == CycleInv /\ AttemptPast /\ FailedForAReason

\* A refresh is an attempt: it succeeds, or the file could not be read just now.
LEMMA RefreshAttempts ==
    ASSUME TypeOK, NEW now \in Int, NEW timed \in BOOLEAN
    PROVE  \/ Refreshed(snap, now, timed) = snap
           \/ /\ Refreshed(snap, now, timed).attempt = now
              /\ Healthy(Refreshed(snap, now, timed)) \/ Read(now, TRUE) # "read"
<1>1. CASE ~Due(snap, now)
  BY <1>1 DEF Refreshed
<1>2. CASE Due(snap, now) /\ Read(now, timed) = "read"
  BY <1>2 DEF Refreshed, Healthy
<1>3. CASE Due(snap, now) /\ Read(now, timed) # "read"
  <2>1. Refreshed(snap, now, timed) = Fail(snap, Read(now, timed), now)
    BY <1>3 DEF Refreshed
  <2>2. Fail(snap, Read(now, timed), now).attempt = now
    BY DEF Fail, TypeOK, Snapshot
  <2>3. Read(now, TRUE) # "read"
    BY <1>3 DEF Read, ParseBridge
  <2> QED
    BY <2>1, <2>2, <2>3
<1> QED
  BY <1>1, <1>2, <1>3

\* A file can be read at any time between two at which it can: it does not get
\* younger, and its heartbeat is not ahead of a clock past its writing.
LEMMA ReadableBefore ==
    ASSUME TypeOK, NEW now \in Int, NEW then \in Int, Read(now, TRUE) = "read",
           then <= now, file.mtime < then
    PROVE  Read(then, TRUE) = "read"
<1>1. /\ file \in Written /\ file.status = "OK"
      /\ now - file.generated <= MaxAge
      /\ Within(file.generated, file.mtime, Tolerance)
  BY ReadsWritten
<1>2. Kept(file) # {} /\ file # NoFile /\ file # Spoiled
  BY DEF Read, ParseBridge
<1>3. file.generated \in Int /\ file.mtime \in Int
  BY <1>1 DEF Written
<1>4. /\ ~(then - file.generated > MaxAge)
      /\ ~(then - file.generated < -Tolerance)
  BY <1>1, <1>3, DurationAssumption DEF Within
<1> QED
  BY <1>1, <1>2, <1>4 DEF Read, ParseBridge

LEMMA OutageInvNext == OutageInv /\ CycleInv' /\ [Next]_vars => OutageInv'
<1> SUFFICES ASSUME OutageInv, CycleInv', [Next]_vars
             PROVE  AttemptPast' /\ FailedForAReason'
  BY DEF OutageInv
<1> USE DEF OutageInv, CycleInv
<1>t. clock \in Int /\ (snap.attempt # Never => snap.attempt \in Int)
  BY DEF TypeOK, Snapshot, Instant
<1>1. CASE OnInit \/ OnTimer
  <2>1. WriteSnapshot
    BY <1>1 DEF OnInit, OnTimer
  <2>2. file'.mtime = clock /\ UNCHANGED <<clock, snap, moment>>
    BY <2>1, WriteSnapshotType DEF engine
  <2>3. AttemptPast'
    BY <2>2 DEF AttemptPast
  <2>4. FailedForAReason'
    BY <1>t, <2>2 DEF AttemptPast, FailedForAReason
  <2> QED
    BY <2>3, <2>4
<1>2. CASE Publish \/ SetTerminalClock \/ EndCycle \/ UNCHANGED vars
  <2>1. UNCHANGED <<clock, snap, file>> /\ moment' \in {moment, Never}
    BY <1>2 DEF Publish, SetTerminalClock, EndCycle, engine, terminal, vars
  <2>2. AttemptPast'
    BY <2>1 DEF AttemptPast
  <2>3. FailedForAReason'
    BY <2>1 DEF FailedForAReason, Healthy, Read, ParseBridge, Kept
  <2> QED
    BY <2>2, <2>3
<1>3. CASE Spoil
  <2>1. file' \in {Spoiled, NoFile} /\ UNCHANGED <<clock, snap, moment>>
    BY <1>3 DEF Spoil, engine
  <2>2. file' \notin Written
    BY <2>1 DEF Spoiled, NoFile, Written
  <2> QED
    BY <2>1, <2>2 DEF AttemptPast, FailedForAReason
<1>4. CASE BeginCycle
  <2>1. RefreshAt(clock) /\ UNCHANGED <<clock, file>> /\ moment' = clock
    BY <1>4 DEF BeginCycle, terminal
  <2>2. PICK timed \in BOOLEAN : snap' = Refreshed(snap, clock, timed)
    BY <1>t, <2>1, RefreshAtType
  <2>3. CASE snap' = snap
    BY <2>1, <2>3 DEF AttemptPast, FailedForAReason, Healthy, Read, ParseBridge, Kept
  <2>4. CASE /\ snap'.attempt = clock
             /\ Healthy(snap') \/ Read(clock, TRUE) # "read"
    <3>1. AttemptPast'
      BY <1>t, <2>1, <2>4 DEF AttemptPast
    <3>2. FailedForAReason'
      BY <2>1, <2>4 DEF FailedForAReason, Healthy, Read, ParseBridge, Kept
    <3> QED
      BY <3>1, <3>2
  <2> QED
    BY <1>t, <2>2, <2>3, <2>4, RefreshAttempts
<1>5. ASSUME NEW s \in Symbol, Decide(s)
      PROVE  AttemptPast' /\ FailedForAReason'
  <2>1. snap' = snap /\ UNCHANGED <<clock, file, moment>>
    BY <1>5, DecideKeepsSnapshot DEF Decide, terminal
  <2> QED
    BY <2>1 DEF AttemptPast, FailedForAReason, Healthy, Read, ParseBridge, Kept
<1>6. CASE Restart
  <2>1. \A rows : Restore(rows).attempt = Never
    BY DEF Restore
  <2>2. snap'.attempt = Never
    BY <1>6, <2>1 DEF Restart
  <2> QED
    BY <2>2 DEF AttemptPast, FailedForAReason
<1>7. CASE Tick
  <2>1. UNCHANGED <<file, snap, moment>> /\ clock' = clock + 1
    BY <1>7 DEF Tick, terminal, engine
  <2>2. AttemptPast'
    BY <1>t, <2>1 DEF AttemptPast
  <2>3. FailedForAReason'
    BY <2>1 DEF FailedForAReason, Healthy, Read, ParseBridge, Kept
  <2> QED
    BY <2>2, <2>3
<1> QED
  BY <1>1, <1>2, <1>3, <1>4, <1>5, <1>6, <1>7 DEF Next

LEMMA OutageEnds == OutageInv => RecoversPromptly
<1> SUFFICES ASSUME OutageInv, moment # Never, Read(moment, TRUE) = "read",
                    file.mtime + RetryEvery <= moment, ~Healthy(snap)
             PROVE  FALSE
  BY DEF RecoversPromptly
<1> USE DEF OutageInv, CycleInv
<1>1. moment \in Int /\ ~Due(snap, moment)
  BY DEF OneCalendar
<1>2. file \in Written /\ file.mtime \in Int
  BY <1>1, ReadsWritten DEF Written
<1>3. snap.attempt # Never /\ ~(moment - snap.attempt >= RetryEvery)
  BY <1>1 DEF Due
<1>4. snap.attempt \in Int /\ snap.attempt <= moment
  BY <1>3 DEF TypeOK, Snapshot, Instant, AttemptPast
<1>5. file.mtime < snap.attempt
  BY <1>1, <1>2, <1>3, <1>4, DurationAssumption
<1>6. Read(snap.attempt, TRUE) # "read"
  BY <1>2, <1>3, <1>5 DEF FailedForAReason
<1> QED
  BY <1>1, <1>4, <1>5, <1>6, ReadableBefore

\* However the provider failed before, it is healthy in every cycle that begins
\* RetryEvery after the readable file was written: backing off never outlasts
\* the outage by more than that.
THEOREM OutageIsShort == Spec => []RecoversPromptly
<1>1. Init => OutageInv
  BY CycleInvInit DEF Init, OutageInv, AttemptPast, FailedForAReason, Restore
<1>2. OutageInv /\ CycleInv' /\ [Next]_vars => OutageInv'
  BY OutageInvNext
<1> QED
  BY <1>1, <1>2, OutageEnds, CycleInvariant, PTL DEF Spec

=============================================================================
