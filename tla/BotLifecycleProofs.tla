-------------------------- MODULE BotLifecycleProofs --------------------------
(***************************************************************************)
(* Proofs about BotLifecycle: type correctness, and that the persisted     *)
(* lock lets one late order through at most.                               *)
(***************************************************************************)
EXTENDS BotLifecycle, TLAPS

-----------------------------------------------------------------------------
(* Type correctness *)

LEMMA PersistLockType ==
    ASSUME TypeOK, PersistLock
    PROVE  lock' \in BOOLEAN /\ late' \in 0..MaxLate
BY DEF TypeOK, PersistLock

LEMMA SchedulerStopType ==
    ASSUME TypeOK, NEW c \in Caller, SchedulerStop(c)
    PROVE  /\ running' \in BOOLEAN /\ stopping' \in BOOLEAN
           /\ thread' \in Thread \cup {Nobody}
           /\ joined' \in [Caller -> Thread \cup {Nobody}]
BY DEF TypeOK, SchedulerStop

LEMMA JoinedType ==
    ASSUME TypeOK, NEW c \in Caller, Joined(c)
    PROVE  /\ running' \in BOOLEAN /\ stopping' \in BOOLEAN
           /\ thread' \in Thread \cup {Nobody}
           /\ joined' \in [Caller -> Thread \cup {Nobody}]
BY DEF TypeOK, Joined

LEMMA StepType ==
    ASSUME TypeOK, NEW c \in Caller, NEW next \in Request, Step(c, next)
    PROVE  pc' \in [Caller -> Request]
BY DEF TypeOK, Step

LEMMA GoType ==
    ASSUME TypeOK, NEW t \in Thread, NEW place \in Place, Go(t, place)
    PROVE  loc' \in [Thread -> Place]
BY DEF TypeOK, Go

LEMMA AsksType ==
    ASSUME TypeOK, NEW c \in Caller, Asks(c)
    PROVE  TypeOK'
<1>1. CASE StartBegin(c)
  <2>1. pc' \in [Caller -> Request]
    BY <1>1, StepType DEF StartBegin, Request, TypeOK
  <2>2. bot' \in BotState
    BY <1>1 DEF StartBegin, BotState
  <2> QED
    BY <1>1, <2>1, <2>2 DEF StartBegin, TypeOK, sched, loops
<1>2. CASE StopBegin(c)
  <2>1. pc' \in [Caller -> Request]
    BY <1>2, StepType DEF StopBegin, Request
  <2> QED
    BY <1>2, <2>1, SchedulerStopType DEF StopBegin, TypeOK, loops
<1>3. CASE EmergencyBegin(c)
  <2>1. pc' \in [Caller -> Request]
    BY <1>3, StepType DEF EmergencyBegin, Request
  <2>2. bot' \in BotState
    BY <1>3 DEF EmergencyBegin, BotState
  <2> QED
    BY <1>3, <2>1, <2>2, SchedulerStopType DEF EmergencyBegin, TypeOK, loops
<1>4. CASE EmergencyReset(c)
  <2>1. lock' \in BOOLEAN
    BY <1>4, Zenon DEF EmergencyReset
  <2>2. bot' \in BotState /\ late' \in 0..MaxLate
    BY <1>4 DEF EmergencyReset, BotState, MaxLate
  <2>3. UNCHANGED <<sched, loops, reqs>>
    BY <1>4 DEF EmergencyReset
  <2> QED
    BY <2>1, <2>2, <2>3 DEF TypeOK, sched, loops, reqs
<1> QED
  BY <1>1, <1>2, <1>3, <1>4 DEF Asks

LEMMA RefreshType ==
    ASSUME TypeOK, NEW c \in Caller, Refresh(c)
    PROVE  TypeOK'
<1>1. CASE RefreshRead(c)
  <2>1. pc' \in [Caller -> Request]
    BY <1>1, StepType DEF RefreshRead, Request
  <2>2. Readings \subseteq Reading
    BY DEF Readings, Reading
  <2>3. saw' \in [Caller -> Reading]
    BY <1>1, <2>2 DEF RefreshRead, TypeOK
  <2> QED
    BY <1>1, <2>1, <2>3 DEF RefreshRead, TypeOK, sched, loops
<1>2. CASE RefreshWrite(c)
  <2>1. pc' \in [Caller -> Request]
    BY <1>2, StepType DEF RefreshWrite, Request
  <2>2. saw' \in [Caller -> Reading] /\ bot' \in BotState
    BY <1>2 DEF RefreshWrite, TypeOK, Reading, BotState
  <2> QED
    BY <1>2, <2>1, <2>2 DEF RefreshWrite, TypeOK, sched, loops
<1> QED
  BY <1>1, <1>2 DEF Refresh

LEMMA GoesOnType ==
    ASSUME TypeOK, NEW c \in Caller, GoesOn(c)
    PROVE  TypeOK'
<1>1. CASE StartValidate(c)
  <2>1. pc' \in [Caller -> Request]
    BY <1>1, StepType DEF StartValidate, Request
  <2>2. lock' \in BOOLEAN /\ late' \in 0..MaxLate
    BY <1>1, PersistLockType DEF StartValidate, TypeOK
  <2>3. bot' \in BotState
    BY <1>1 DEF StartValidate, TypeOK, BotState
  <2> QED
    BY <1>1, <2>1, <2>2, <2>3 DEF StartValidate, TypeOK, sched, loops
<1>2. CASE StartLaunch(c)
  <2>1. pc' \in [Caller -> Request]
    BY <1>2, StepType DEF StartLaunch, Request
  <2>2. bot' \in BotState
    BY <1>2 DEF StartLaunch, TypeOK, BotState
  <2>3. /\ loc' \in [Thread -> Place] /\ thread' \in Thread \cup {Nobody}
        /\ stopping' \in BOOLEAN /\ running' \in BOOLEAN
    BY <1>2 DEF StartLaunch, TypeOK, Place, sched
  <2> QED
    BY <1>2, <2>1, <2>2, <2>3 DEF StartLaunch, TypeOK
<1>3. CASE StartEnter(c)
  <2>1. pc' \in [Caller -> Request]
    BY <1>3, StepType DEF StartEnter, Request
  <2> QED
    BY <1>3, <2>1 DEF StartEnter, TypeOK, BotState, sched, loops
<1>4. CASE StopJoined(c)
  <2>1. pc' \in [Caller -> Request]
    BY <1>4, StepType DEF StopJoined, Request
  <2> QED
    BY <1>4, <2>1, JoinedType DEF StopJoined, TypeOK, loops
<1>5. CASE StopSettle(c)
  <2>1. pc' \in [Caller -> Request]
    BY <1>5, StepType DEF StopSettle, Request
  <2>2. bot' \in BotState
    BY <1>5 DEF StopSettle, Readings, BotState
  <2> QED
    BY <1>5, <2>1, <2>2 DEF StopSettle, TypeOK, sched, loops
<1>6. CASE EmergencyJoined(c)
  <2>1. pc' \in [Caller -> Request]
    BY <1>6, StepType DEF EmergencyJoined, Request
  <2> QED
    BY <1>6, <2>1, JoinedType DEF EmergencyJoined, TypeOK, loops
<1>7. CASE EmergencyPersist(c)
  <2>1. pc' \in [Caller -> Request]
    BY <1>7, StepType DEF EmergencyPersist, Request
  <2> QED
    BY <1>7, <2>1, PersistLockType DEF EmergencyPersist, TypeOK, sched, loops
<1>8. CASE EmergencyClose(c)
  <2>1. pc' \in [Caller -> Request]
    BY <1>8, StepType DEF EmergencyClose, Request
  <2> QED
    BY <1>8, <2>1 DEF EmergencyClose, TypeOK, sched, loops
<1> QED
  BY <1>1, <1>2, <1>3, <1>4, <1>5, <1>6, <1>7, <1>8 DEF GoesOn

LEMMA LoopType ==
    ASSUME TypeOK, NEW t \in Thread, Loop(t)
    PROVE  TypeOK'
<1> USE DEF Place
<1>1. loc' \in [Thread -> Place]
  BY GoType DEF Loop, LoopTop, WaitEnds, Gate, Scan, Assess, Send, CycleEnds, EndCycle, TypeOK
<1>2. busy' \in Thread \cup {Nobody}
  BY DEF Loop, LoopTop, WaitEnds, Gate, Scan, Assess, Send, CycleEnds, EndCycle, TypeOK
<1>3. lock' \in BOOLEAN
  BY PersistLockType DEF Loop, LoopTop, WaitEnds, Gate, Scan, Assess, Send, CycleEnds, TypeOK
<1>4. late' \in 0..MaxLate
  <2>1. CASE Scan(t)
    BY <2>1, PersistLockType DEF Scan, TypeOK
  <2>2. CASE Send(t)
    BY <2>2 DEF Send, TypeOK, MaxLate
  <2>3. CASE LoopTop(t) \/ WaitEnds(t) \/ Gate(t) \/ Assess(t) \/ CycleEnds(t)
    BY <2>3 DEF LoopTop, WaitEnds, Gate, Assess, CycleEnds, TypeOK
  <2> QED
    BY <2>1, <2>2, <2>3 DEF Loop
<1>5. UNCHANGED <<bot, sched, reqs>>
  BY DEF Loop, LoopTop, WaitEnds, Gate, Scan, Assess, Send, CycleEnds
<1> QED
  BY <1>1, <1>2, <1>3, <1>4, <1>5 DEF TypeOK, sched, reqs

LEMMA CrashType == ASSUME TypeOK, Crash PROVE TypeOK'
BY DEF Crash, TypeOK, BotState, Place, Request, Reading

\* TypeOK holds in every reachable state.
THEOREM TypeCorrect == Spec => []TypeOK
<1>1. Init => TypeOK
  <2> SUFFICES ASSUME Init PROVE TypeOK
    OBVIOUS
  <2>1. lock \in BOOLEAN /\ running \in BOOLEAN /\ stopping \in BOOLEAN
    BY Zenon DEF Init
  <2>2. bot \in BotState /\ late \in 0..MaxLate
    BY DEF Init, BotState, MaxLate
  <2>3. /\ thread \in Thread \cup {Nobody} /\ busy \in Thread \cup {Nobody}
        /\ loc \in [Thread -> Place]
    BY DEF Init, Place
  <2>4. /\ pc \in [Caller -> Request] /\ joined \in [Caller -> Thread \cup {Nobody}]
        /\ saw \in [Caller -> Reading]
    BY DEF Init, Request, Reading
  <2> QED
    BY <2>1, <2>2, <2>3, <2>4 DEF TypeOK
<1>2. TypeOK /\ [Next]_vars => TypeOK'
  <2>1. ASSUME TypeOK, UNCHANGED vars
        PROVE  TypeOK'
    BY <2>1 DEF TypeOK, vars, sched, loops, reqs
  <2> QED
    BY <2>1, AsksType, RefreshType, GoesOnType, LoopType, CrashType DEF Next
<1> QED
  BY <1>1, <1>2, PTL DEF Spec

-----------------------------------------------------------------------------
(* One late order at most *)

InCycle == {"gate", "scan", "assess", "send"}

\* A cycle is under way in one thread at most, the one that holds the lock of the
\* process.
OneCycle == \A t \in Thread : loc[t] \in InCycle => busy = t

\* No order is late while the lock is clear, and one that was late was the last: no
\* thread is past its risk check any more.
LastWasLate ==
    /\ ~lock => late = 0
    /\ late <= 1
    /\ late > 0 => \A t \in Thread : loc[t] # "send"

LateInv == OneCycle /\ LastWasLate

\* The lock alone, or the counter with it, changes only like this outside Send.
LEMMA LockStep ==
    ASSUME TypeOK, LastWasLate, UNCHANGED late, lock' = lock \/ lock' = TRUE,
           \A t \in Thread : loc'[t] = "send" => loc[t] = "send" \/ ~lock
    PROVE  LastWasLate'
BY DEF LastWasLate, TypeOK

LEMMA LateNext ==
    ASSUME TypeOK, LateInv, [Next]_vars
    PROVE  LateInv'
<1> USE DEF LateInv
<1>1. ASSUME NEW c \in Caller, Asks(c) \/ Refresh(c) \/ GoesOn(c)
      PROVE  LateInv'
  <2>1. \A t \in Thread : loc'[t] = loc[t] \/ loc'[t] = "loop"
    BY <1>1 DEF Asks, Refresh, GoesOn, StartBegin, StopBegin, EmergencyBegin, EmergencyReset,
                RefreshRead, RefreshWrite, StartValidate, StartLaunch, StartEnter, StopJoined,
                StopSettle, EmergencyJoined, EmergencyPersist, EmergencyClose, loops, TypeOK
  <2>2. busy' = busy
    BY <1>1 DEF Asks, Refresh, GoesOn, StartBegin, StopBegin, EmergencyBegin, EmergencyReset,
                RefreshRead, RefreshWrite, StartValidate, StartLaunch, StartEnter, StopJoined,
                StopSettle, EmergencyJoined, EmergencyPersist, EmergencyClose, loops
  <2>3. OneCycle'
    BY <2>1, <2>2 DEF OneCycle, InCycle
  <2>4. CASE EmergencyReset(c)
    <3>1. late' = 0
      BY <2>4 DEF EmergencyReset
    <3>2. LastWasLate'
      BY <3>1 DEF LastWasLate
    <3> QED
      BY <2>3, <3>2
  <2>5. CASE ~EmergencyReset(c)
    <3>1. late' = late /\ (lock' = lock \/ lock' = TRUE)
      BY <1>1, <2>5 DEF Asks, Refresh, GoesOn, StartBegin, StopBegin, EmergencyBegin,
                RefreshRead, RefreshWrite, StartValidate, StartLaunch, StartEnter, StopJoined,
                StopSettle, EmergencyJoined, EmergencyPersist, EmergencyClose, PersistLock
    <3>2. \A t \in Thread : loc'[t] = "send" => loc[t] = "send"
      BY <2>1
    <3> QED
      BY <2>3, <3>1, <3>2, LockStep
  <2> QED
    BY <2>3, <2>4, <2>5
<1>2. ASSUME NEW t \in Thread, Loop(t)
      PROVE  LateInv'
  <2>1. \A u \in Thread \ {t} : loc'[u] = loc[u]
    BY <1>2 DEF Loop, LoopTop, WaitEnds, Gate, Scan, Assess, Send, CycleEnds, EndCycle, Go, TypeOK
  <2>2. OneCycle'
    <3>1. CASE LoopTop(t)
      BY <2>1, <3>1, NobodyAssumption DEF LoopTop, Go, OneCycle, InCycle, TypeOK
    <3>2. CASE WaitEnds(t)
      BY <2>1, <3>2 DEF WaitEnds, Go, OneCycle, InCycle, TypeOK
    <3>3. CASE Gate(t) \/ Scan(t) \/ Assess(t) \/ Send(t) \/ CycleEnds(t)
      <4>1. loc[t] \in InCycle
        BY <3>3 DEF Gate, Scan, Assess, Send, CycleEnds, InCycle
      <4>2. busy = t
        BY <4>1 DEF OneCycle
      <4>3. \A u \in Thread \ {t} : loc[u] \notin InCycle
        BY <4>2 DEF OneCycle
      <4>4. busy' = t \/ loc'[t] = "wait"
        BY <3>3, <4>2 DEF Gate, Scan, Assess, Send, CycleEnds, EndCycle, Go, TypeOK
      <4> QED
        BY <2>1, <4>3, <4>4 DEF OneCycle, InCycle
    <3> QED
      BY <1>2, <3>1, <3>2, <3>3 DEF Loop
  <2>3. LastWasLate'
    <3>1. CASE Send(t)
      <4>1. busy = t /\ loc[t] = "send" /\ loc'[t] = "scan"
        BY <3>1 DEF Send, Go, OneCycle, InCycle, TypeOK
      <4>2. \A u \in Thread : loc'[u] # "send"
        BY <2>1, <4>1 DEF OneCycle, InCycle
      <4>3. late = 0
        BY <4>1 DEF LastWasLate, TypeOK, MaxLate
      <4> QED
        BY <3>1, <4>2, <4>3 DEF Send, LastWasLate, MaxLate
    <3>2. CASE ~Send(t)
      <4>1. late' = late /\ (lock' = lock \/ lock' = TRUE)
        BY <1>2, <3>2 DEF Loop, LoopTop, WaitEnds, Gate, Scan, Assess, CycleEnds, PersistLock
      <4>2. loc'[t] = "send" => ~lock
        BY <1>2, <3>2 DEF Loop, LoopTop, WaitEnds, Gate, Scan, Assess, CycleEnds, EndCycle, Go,
                          TypeOK
      <4> QED
        BY <2>1, <4>1, <4>2, LockStep
    <3> QED
      BY <3>1, <3>2
  <2> QED
    BY <2>2, <2>3
<1>3. CASE Crash
  BY <1>3 DEF Crash, OneCycle, LastWasLate, InCycle
<1>4. CASE UNCHANGED vars
  BY <1>4 DEF vars, loops, OneCycle, LastWasLate
<1> QED
  BY <1>1, <1>2, <1>3, <1>4 DEF Next

\* Whatever is stopped, timed out, started again or crashed, and however many
\* threads and requests there are, at most one order leaves after the lock was
\* persisted.
THEOREM OneLateOrder == Spec => []AtMostOneLateOrder
<1>1. Init => LateInv
  BY DEF Init, LateInv, OneCycle, LastWasLate, InCycle
<1>2. TypeOK /\ LateInv /\ [Next]_vars => LateInv'
  BY LateNext
<1>3. LateInv => AtMostOneLateOrder
  BY DEF LateInv, LastWasLate, AtMostOneLateOrder
<1> QED
  BY <1>1, <1>2, <1>3, TypeCorrect, PTL DEF Spec

=============================================================================
