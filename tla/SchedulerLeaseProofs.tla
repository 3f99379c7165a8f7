------------------------- MODULE SchedulerLeaseProofs -------------------------
(***************************************************************************)
(* Proofs about SchedulerLease for any set of processes and of threads,    *)
(* any lease duration, any slowness and any hardship.                      *)
(***************************************************************************)
EXTENDS SchedulerLease, TLAPS

\* The thread inside a cycle holds the process lock.
LockHeld == \A p \in Proc : \A t \in Thread : InCycle(p, t) => busy[p] = t

LockInv == TypeOK /\ LockHeld

-----------------------------------------------------------------------------
(* Moves of one thread *)

\* A thread's move leaves the other threads and processes where they are.
LEMMA GoEffect ==
  ASSUME TypeOK, NEW p \in Proc, NEW t \in Thread, NEW place \in Place, Go(p, t, place)
  PROVE  /\ loc' \in [Proc -> [Thread -> Place]]
         /\ loc'[p][t] = place
         /\ \A u \in Thread : u # t => loc'[p][u] = loc[p][u]
         /\ \A q \in Proc : q # p => loc'[q] = loc[q]
  BY DEF TypeOK, Go

\* Ending a cycle frees the process lock and takes the thread out of the cycle.
LEMMA EndCycleEffect ==
  ASSUME LockInv, NEW p \in Proc, NEW t \in Thread, InCycle(p, t), EndCycle(p, t)
  PROVE  /\ loc' \in [Proc -> [Thread -> Place]]
         /\ busy' \in [Proc -> Thread \cup {Nobody}]
         /\ LockHeld'
<1> TypeOK /\ "wait" \in Place
  BY DEF LockInv, Place
<1>1. Go(p, t, "wait")
  BY DEF EndCycle
<1>2. /\ busy' \in [Proc -> Thread \cup {Nobody}]
      /\ \A q \in Proc : q # p => busy'[q] = busy[q]
  BY DEF EndCycle, TypeOK
<1>3. \A u \in Thread : u # t => ~InCycle(p, u)
  BY DEF LockInv, LockHeld
<1>4. LockHeld'
  BY <1>1, <1>2, <1>3, GoEffect DEF LockInv, LockHeld, InCycle
<1>5. QED
  BY <1>1, <1>2, <1>4, GoEffect

\* Going on within a cycle keeps the process lock held.
LEMMA GoOnEffect ==
  ASSUME LockInv, NEW p \in Proc, NEW t \in Thread, InCycle(p, t),
         NEW place \in Place, Go(p, t, place), busy' = busy
  PROVE  /\ loc' \in [Proc -> [Thread -> Place]]
         /\ busy' \in [Proc -> Thread \cup {Nobody}]
         /\ LockHeld'
<1> TypeOK
  BY DEF LockInv
<1>1. LockHeld'
  BY GoEffect DEF LockInv, LockHeld, InCycle
<1>2. QED
  BY <1>1, GoEffect DEF TypeOK

-----------------------------------------------------------------------------
(* The inductive step *)

\* Every step keeps the types and the process lock.
LEMMA LockStep ==
  ASSUME LockInv, [Next]_vars
  PROVE  LockInv'
<1> USE DEF row, control, call
<1> TypeOK
  BY DEF LockInv
<1>w. /\ "loop" \in Place /\ "wait" \in Place /\ "lease" \in Place /\ "none" \in Place
      /\ "insert" \in Place /\ "renew" \in Place /\ "takeover" \in Place
      /\ "scan" \in Place
      /\ "none" \in Role /\ "leader" \in Role /\ "standby" \in Role
      /\ 0 \in 0..MaxPeriod /\ 0 \in 0..MaxAge
      /\ \A d \in 0..MaxPeriod : d \in 0..MaxAge
  BY TimeAssumption DEF Place, Role, MaxAge
<1>1. ASSUME NEW p \in Proc, Start(p)
      PROVE  LockInv'
  <2>1. PICK t \in Thread : /\ ~ThreadAlive(p, t)
                            /\ thread' = [thread EXCEPT ![p] = t]
                            /\ loc' = [loc EXCEPT ![p][t] = "loop"]
    BY <1>1 DEF Start
  <2>2. thread' \in [Proc -> Thread \cup {Nobody}]
    BY <2>1 DEF TypeOK
  <2>3. Go(p, t, "loop")
    BY <2>1 DEF Go
  <2>4. delay' \in [Proc -> 0..MaxPeriod]
    BY <1>1, <1>w DEF TypeOK, Start
  <2>5. /\ stopping' = [stopping EXCEPT ![p] = FALSE]
        /\ running' = [running EXCEPT ![p] = TRUE]
        /\ UNCHANGED <<row, up, busy, role, call>>
    BY <1>1 DEF Start
  <2>6. TypeOK'
    BY <1>w, <2>2, <2>3, <2>4, <2>5, GoEffect DEF TypeOK
  <2>7. LockHeld'
    BY <1>w, <2>3, <2>5, GoEffect DEF LockInv, LockHeld, InCycle
  <2>8. QED
    BY <2>6, <2>7 DEF LockInv
<1>2. ASSUME NEW p \in Proc, StopBegin(p)
      PROVE  LockInv'
  <2>1. /\ stopping' = [stopping EXCEPT ![p] = TRUE]
        /\ joined' = [joined EXCEPT ![p] = thread[p]]
        /\ thread' = [thread EXCEPT ![p] = Nobody]
        /\ api' = [api EXCEPT ![p] = "join"]
        /\ UNCHANGED <<row, up, running, busy, loc, delay, role>>
    BY <1>2 DEF StopBegin
  <2>2. TypeOK'
    BY <2>1 DEF TypeOK
  <2>3. QED
    BY <2>1, <2>2 DEF LockInv, LockHeld, InCycle
<1>3. ASSUME NEW p \in Proc, StopJoin(p)
      PROVE  LockInv'
  <2>1. /\ running' = [running EXCEPT ![p] = FALSE]
        /\ joined' = [joined EXCEPT ![p] = Nobody]
        /\ api' = [api EXCEPT ![p] = "release"]
        /\ UNCHANGED <<row, up, stopping, thread, busy, loc, delay, role>>
    BY <1>3 DEF StopJoin
  <2>2. TypeOK'
    BY <2>1 DEF TypeOK
  <2>3. QED
    BY <2>1, <2>2 DEF LockInv, LockHeld, InCycle
<1>4. ASSUME NEW p \in Proc, ReleaseRead(p) \/ ReleaseDelete(p)
      PROVE  LockInv'
  <2>1. /\ api' = [api EXCEPT ![p] = "idle"] \/ api' = [api EXCEPT ![p] = "delete"]
        /\ role' = role \/ role' = [role EXCEPT ![p] = "none"]
        /\ (owner' = Nobody /\ age' = 0) \/ UNCHANGED row
    BY <1>4 DEF ReleaseRead, ReleaseDelete, StopReturns
  <2>2. UNCHANGED <<up, control, busy, loc, delay, joined>>
    BY <1>4 DEF ReleaseRead, ReleaseDelete
  <2>3. api' \in [Proc -> {"idle", "join", "release", "delete"}]
    BY <2>1 DEF TypeOK
  <2>4. role' \in [Proc -> Role]
    BY <1>w, <2>1 DEF TypeOK
  <2>5. owner' \in Proc \cup {Nobody} /\ age' \in 0..MaxAge
    BY <1>w, <2>1 DEF TypeOK
  <2>6. TypeOK'
    BY <2>2, <2>3, <2>4, <2>5 DEF TypeOK
  <2>7. QED
    BY <2>2, <2>6 DEF LockInv, LockHeld, InCycle
<1>5. ASSUME NEW p \in Proc, NEW t \in Thread, LoopTop(p, t) \/ WaitEnds(p, t)
      PROVE  LockInv'
  <2>1. UNCHANGED <<row, up, control, role, call>>
    BY <1>5 DEF LoopTop, WaitEnds
  <2>2. CASE /\ UNCHANGED <<busy, delay>>
             /\ \E place \in {"none", "wait", "loop"} : Go(p, t, place)
    <3>1. PICK place \in {"none", "wait", "loop"} : Go(p, t, place)
      BY <2>2
    <3>2. TypeOK'
      BY <1>w, <2>1, <2>2, <3>1, GoEffect DEF TypeOK
    <3>3. LockHeld'
      BY <1>w, <2>2, <3>1, GoEffect DEF LockInv, LockHeld, InCycle
    <3>4. QED
      BY <3>2, <3>3 DEF LockInv
  <2>3. CASE /\ busy[p] = Nobody
             /\ Go(p, t, "lease")
             /\ busy' = [busy EXCEPT ![p] = t]
             /\ delay' = [delay EXCEPT ![p] = 0]
    <3>1. TypeOK'
      BY <1>w, <2>1, <2>3, GoEffect DEF TypeOK
    <3>2. \A u \in Thread : ~InCycle(p, u)
      BY <2>3, NobodyAssumption DEF LockInv, LockHeld
    <3>3. /\ busy'[p] = t
          /\ \A q \in Proc : q # p => busy'[q] = busy[q]
      BY <2>3 DEF TypeOK
    <3>4. LockHeld'
      BY <1>w, <2>3, <3>2, <3>3, GoEffect DEF LockInv, LockHeld, InCycle
    <3>5. QED
      BY <3>1, <3>4 DEF LockInv
  <2>4. QED
    BY <1>5, <2>2, <2>3 DEF LoopTop, WaitEnds
<1>6. ASSUME NEW p \in Proc, NEW t \in Thread, LeaseRead(p, t) \/ LeaseWrite(p, t)
      PROVE  LockInv'
  <2>1. InCycle(p, t)
    BY <1>6 DEF LeaseRead, LeaseWrite, LeaseInsert, LeaseRenew, LeaseTakeover, InCycle
  <2>2. UNCHANGED <<up, control, delay, call>>
    BY <1>6 DEF LeaseRead, LeaseWrite, LeaseInsert, LeaseRenew, LeaseTakeover
  <2>3. /\ owner' \in Proc \cup {Nobody}
        /\ age' = age \/ age' = delay[p]
    BY <1>6 DEF TypeOK, LeaseRead, LeaseWrite, LeaseInsert, LeaseRenew, LeaseTakeover
  <2>4. age' \in 0..MaxAge
    BY <1>w, <2>3 DEF TypeOK
  <2>5. \/ EndCycle(p, t)
        \/ /\ \E place \in {"insert", "renew", "takeover", "scan"} : Go(p, t, place)
           /\ busy' = busy
    BY <1>6 DEF LeaseRead, LeaseWrite, LeaseInsert, LeaseRenew, LeaseTakeover, Standby,
       Lead
  <2>6. \/ role' = role
        \/ role' = [role EXCEPT ![p] = "leader"]
        \/ role' = [role EXCEPT ![p] = "standby"]
    BY <1>6 DEF LeaseRead, LeaseWrite, LeaseInsert, LeaseRenew, LeaseTakeover, Standby,
       Lead
  <2>7. role' \in [Proc -> Role]
    BY <1>w, <2>6 DEF TypeOK
  <2>8. /\ loc' \in [Proc -> [Thread -> Place]]
        /\ busy' \in [Proc -> Thread \cup {Nobody}]
        /\ LockHeld'
    BY <1>w, <2>1, <2>5, EndCycleEffect, GoOnEffect
  <2>9. TypeOK'
    BY <2>2, <2>3, <2>4, <2>7, <2>8 DEF TypeOK
  <2>10. QED
    BY <2>8, <2>9 DEF LockInv
<1>7. ASSUME NEW p \in Proc, NEW t \in Thread, ScanEnds(p, t) \/ CycleFails(p, t)
      PROVE  LockInv'
  <2>1. InCycle(p, t) /\ EndCycle(p, t)
    BY <1>7 DEF ScanEnds, CycleFails, InCycle
  <2>2. UNCHANGED <<row, up, control, delay, role, call>>
    BY <1>7 DEF ScanEnds, CycleFails
  <2>3. /\ loc' \in [Proc -> [Thread -> Place]]
        /\ busy' \in [Proc -> Thread \cup {Nobody}]
        /\ LockHeld'
    BY <2>1, EndCycleEffect
  <2>4. QED
    BY <2>2, <2>3 DEF LockInv, TypeOK
<1>8. ASSUME NEW p \in Proc, Crash(p)
      PROVE  LockInv'
  <2>1. loc' = [loc EXCEPT ![p] = [t \in Thread |-> "none"]]
    BY <1>8 DEF Crash
  <2>2. /\ loc' \in [Proc -> [Thread -> Place]]
        /\ \A t \in Thread : loc'[p][t] = "none"
        /\ \A q \in Proc : q # p => loc'[q] = loc[q]
    BY <1>w, <2>1 DEF TypeOK
  <2>3. /\ busy' = [busy EXCEPT ![p] = Nobody]
        /\ UNCHANGED row
    BY <1>8 DEF Crash
  <2>4. LockHeld'
    BY <2>2, <2>3 DEF TypeOK, LockInv, LockHeld, InCycle
  <2>5. /\ up' \subseteq Proc
        /\ running' \in [Proc -> BOOLEAN]
        /\ stopping' \in [Proc -> BOOLEAN]
        /\ thread' \in [Proc -> Thread \cup {Nobody}]
        /\ joined' \in [Proc -> Thread \cup {Nobody}]
        /\ busy' \in [Proc -> Thread \cup {Nobody}]
    BY <1>8 DEF TypeOK, Crash
  <2>6. /\ delay' \in [Proc -> 0..MaxPeriod]
        /\ role' \in [Proc -> Role]
        /\ api' \in [Proc -> {"idle", "join", "release", "delete"}]
    BY <1>8, <1>w DEF TypeOK, Crash
  <2>7. QED
    BY <2>2, <2>3, <2>4, <2>5, <2>6 DEF LockInv, TypeOK
<1>9. CASE Tick
  <2>1. UNCHANGED <<owner, up, control, busy, loc, role, call>>
    BY <1>9 DEF Tick
  <2>2. delay' \in [Proc -> 0..MaxPeriod]
    BY <1>9, TimeAssumption DEF TypeOK, Tick
  <2>3. age' \in 0..MaxAge
    BY <1>9, TimeAssumption DEF TypeOK, Tick, MaxAge
  <2>4. QED
    BY <2>1, <2>2, <2>3 DEF LockInv, TypeOK, LockHeld, InCycle
<1>10. CASE UNCHANGED vars
  BY <1>10 DEF LockInv, TypeOK, LockHeld, InCycle, vars
<1>11. QED
  BY <1>1, <1>2, <1>3, <1>4, <1>5, <1>6, <1>7, <1>8, <1>9, <1>10
  DEF Next, Loop, StopGoesOn

\* The types and the process lock hold in every reachable state.
LEMMA LockInvariant == Spec => []LockInv
<1>1. Init => LockInv
  BY TimeAssumption DEF Init, LockInv, TypeOK, LockHeld, InCycle, Place, Role, MaxAge
<1>2. LockInv /\ [Next]_vars => LockInv'
  BY LockStep
<1>3. QED
  BY <1>1, <1>2, PTL DEF Spec

\* Type correctness: the clocks stay within their caps, and the lease names a
\* process that exists or nobody.
THEOREM LeaseTypeCorrect == Spec => []TypeOK
<1>1. LockInv => TypeOK
  BY DEF LockInv
<1>2. QED
  BY <1>1, LockInvariant, PTL

\* The process lock: two loops of one process are never inside a cycle together,
\* whatever was stopped, started again, interrupted or overlapped.
THEOREM OneCycleAtATime == Spec => []OneCyclePerProcess
<1>1. LockInv => OneCyclePerProcess
  BY DEF LockInv, LockHeld, OneCyclePerProcess
<1>2. QED
  BY <1>1, LockInvariant, PTL

-----------------------------------------------------------------------------
(* Only a crashed leader is given up, under the conditions that make it so *)

\* No statement fails, no join times out, start() never overlaps stop(); and a standby
\* waits for three periods at least.
Timely == Hardship = {} /\ 3 * MaxPeriod <= TTL

\* A process has one loop: the one it runs, or the one its stop() waits for.
Alone ==
    \A p \in Proc : \A t \in Thread : ThreadAlive(p, t) =>
        /\ p \in up
        /\ \/ api[p] = "idle" /\ thread[p] = t /\ running[p] /\ ~stopping[p]
           \/ api[p] = "join" /\ joined[p] = t

Calls == \A p \in Proc : api[p] # "idle" => p \in up

\* An owner that has not crashed has a loop, or is about to give the lease back.
Kept == owner \in up => Active(owner)

\* Who is about to write its name into the row is not in it yet.
Aspirant ==
    \A p \in Proc : \A t \in Thread : loc[p][t] \in {"insert", "takeover"} => owner # p

\* The heartbeat of an owner that has not crashed is at most one period older than its
\* latest cycle (a former owner's late UPDATE may have made it so), and one more while
\* that cycle has not renewed it yet.
Recent ==
    owner \in up =>
        age <= IF \E t \in Thread : loc[owner][t] \in {"lease", "renew"}
               THEN delay[owner] + MaxPeriod + MaxPeriod ELSE delay[owner] + MaxPeriod

LeadInv == LockInv /\ Alone /\ Calls /\ Kept /\ Aspirant /\ Recent

\* A step of a loop changes nothing about who has which loop.
LEMMA MoveAlone ==
    ASSUME LeadInv, NEW p \in Proc, NEW t \in Thread, NEW place \in Place,
           ThreadAlive(p, t), Go(p, t, place), UNCHANGED <<up, control, call>>
    PROVE  /\ Alone' /\ Calls'
           /\ p \in up
           /\ \A u \in Thread : u # t => loc[p][u] = "none" /\ loc'[p][u] = "none"
           /\ Active(p)' \/ (place = "none" /\ api[p] # "join")
           /\ \A q \in Proc : q # p => (Active(q)' <=> Active(q))
<1> TypeOK
  BY DEF LeadInv, LockInv
<1>1. /\ loc' \in [Proc -> [Thread -> Place]]
      /\ loc'[p][t] = place
      /\ \A u \in Thread : u # t => loc'[p][u] = loc[p][u]
      /\ \A q \in Proc : q # p => loc'[q] = loc[q]
  BY GoEffect
<1>2. \A q \in Proc, u \in Thread : ThreadAlive(q, u)' => ThreadAlive(q, u)
  BY <1>1 DEF ThreadAlive
<1>3. Alone' /\ Calls'
  BY <1>2 DEF LeadInv, Alone, Calls, control, call
<1>4. p \in up /\ \A u \in Thread : u # t => loc[p][u] = "none"
  BY DEF LeadInv, Alone, ThreadAlive
<1>5. Active(p)' \/ (place = "none" /\ api[p] # "join")
  BY <1>1 DEF Active, HasThread, ThreadAlive, call
<1>6. \A q \in Proc : q # p => (Active(q)' <=> Active(q))
  BY <1>1 DEF Active, HasThread, ThreadAlive, call
<1> QED
  BY <1>1, <1>3, <1>4, <1>5, <1>6

\* A step of a loop that leaves the row alone, and the process Active, keeps the rest
\* if it goes on to write its own name only where another is.
LEMMA MoveKeeps ==
    ASSUME LeadInv, NEW p \in Proc, NEW t \in Thread, NEW place \in Place,
           ThreadAlive(p, t), Go(p, t, place), UNCHANGED <<row, up, control, call, delay>>,
           place = "none" => api[p] = "join",
           place \in {"insert", "takeover"} => owner # p,
           loc[p][t] \in {"lease", "renew"} => place = "renew" \/ owner # p
    PROVE  Alone' /\ Calls' /\ Kept' /\ Aspirant' /\ Recent'
<1> TypeOK
  BY DEF LeadInv, LockInv
<1> USE DEF row, call
<1>1. /\ loc' \in [Proc -> [Thread -> Place]]
      /\ loc'[p][t] = place
      /\ \A u \in Thread : u # t => loc'[p][u] = loc[p][u]
      /\ \A q \in Proc : q # p => loc'[q] = loc[q]
  BY GoEffect
<1>2. Alone' /\ Calls'
  BY MoveAlone
<1>3. Kept'
  BY MoveAlone DEF LeadInv, Kept, TypeOK
<1>4. Aspirant'
  BY <1>1 DEF LeadInv, Aspirant
<1>5. Recent'
  <2>1. CASE owner = p
    <3>1. age \in Nat /\ delay[p] \in Nat /\ MaxPeriod \in Nat
      BY TimeAssumption DEF TypeOK, MaxAge
    <3>2. CASE \E u \in Thread : loc[p][u] \in {"lease", "renew"}
      <4>1. loc[p][t] \in {"lease", "renew"}
        BY <3>2, MoveAlone
      <4>2. loc'[p][t] = "renew"
        BY <1>1, <2>1, <4>1
      <4> QED
        BY <2>1, <3>2, <4>2 DEF LeadInv, Recent
    <3>3. CASE ~\E u \in Thread : loc[p][u] \in {"lease", "renew"}
      BY <2>1, <3>1, <3>3 DEF LeadInv, Recent
    <3> QED
      BY <3>2, <3>3
  <2>2. CASE owner # p
    BY <1>1, <2>2 DEF LeadInv, Recent, TypeOK
  <2> QED
    BY <2>1, <2>2
<1> QED
  BY <1>2, <1>3, <1>4, <1>5

\* So does one that writes its heartbeat, with its own name or under another's.
LEMMA LeadKeeps ==
    ASSUME LeadInv, NEW p \in Proc, NEW t \in Thread,
           ThreadAlive(p, t), Go(p, t, "scan"), UNCHANGED <<up, control, call, delay>>,
           owner' \in {p, owner}, age' = delay[p]
    PROVE  Alone' /\ Calls' /\ Kept' /\ Aspirant' /\ Recent'
<1> TypeOK /\ "scan" \in Place
  BY DEF LeadInv, LockInv, Place
<1> USE DEF call
<1>1. /\ loc' \in [Proc -> [Thread -> Place]]
      /\ loc'[p][t] = "scan"
      /\ \A u \in Thread : u # t => loc'[p][u] = loc[p][u]
      /\ \A q \in Proc : q # p => loc'[q] = loc[q]
  BY GoEffect
<1>2. /\ Alone' /\ Calls' /\ Active(p)'
      /\ \A u \in Thread : u # t => loc'[p][u] = "none"
      /\ \A q \in Proc : q # p => (Active(q)' <=> Active(q))
  BY MoveAlone
<1>3. Kept'
  BY <1>2 DEF LeadInv, Kept, TypeOK
<1>4. Aspirant'
  BY <1>1, <1>2 DEF LeadInv, Aspirant
<1>5. Recent'
  <2>1. ~\E u \in Thread : loc'[p][u] \in {"lease", "renew"}
    BY <1>1, <1>2
  <2>2. /\ MaxPeriod \in Nat
        /\ \A q \in Proc : delay[q] \in Nat /\ delay[q] <= MaxPeriod
    BY TimeAssumption DEF TypeOK
  <2>3. CASE owner' = p
    <3>1. delay[p] <= delay[p] + MaxPeriod
      BY <2>2
    <3> QED
      BY <2>1, <2>3, <3>1 DEF Recent
  <2>4. CASE owner' # p /\ owner' = owner
    <3>1. ASSUME owner \in up
          PROVE  /\ delay[p] <= delay[owner] + MaxPeriod
                 /\ delay[p] <= delay[owner] + MaxPeriod + MaxPeriod
      <4>1. delay[owner] \in Nat
        BY <2>2, <3>1 DEF TypeOK
      <4> QED
        BY <2>2, <4>1
    <3> QED
      BY <2>4, <3>1 DEF Recent
  <2> QED
    BY <2>3, <2>4
<1> QED
  BY <1>2, <1>3, <1>4, <1>5

\* Every step keeps the invariant.
LEMMA LeadNext == Timely /\ LeadInv /\ [Next]_vars => LeadInv'
<1> SUFFICES ASSUME Timely, LeadInv, [Next]_vars
             PROVE  LeadInv'
  OBVIOUS
<1>a. TypeOK /\ LockInv /\ LockInv'
  BY LockStep DEF LeadInv, LockInv
<1>b. Alone /\ Calls /\ Kept /\ Aspirant /\ Recent /\ Hardship = {}
  BY DEF LeadInv, Timely
<1> USE <1>a, <1>b DEF row, control, call
<1>1. ASSUME NEW p \in Proc, Start(p)
      PROVE  LeadInv'
  <2>1. /\ p \in up /\ api[p] = "idle" /\ ~running[p]
        /\ UNCHANGED <<row, up, busy, role, call>>
    BY <1>1 DEF Start
  <2>2. \A u \in Thread : ~ThreadAlive(p, u)
    BY <2>1 DEF Alone
  <2>3. PICK t \in Thread : /\ thread' = [thread EXCEPT ![p] = t]
                            /\ loc' = [loc EXCEPT ![p][t] = "loop"]
    BY <1>1 DEF Start
  <2>4. /\ \A q \in Proc : q # p => /\ loc'[q] = loc[q] /\ thread'[q] = thread[q]
                                    /\ running'[q] = running[q] /\ stopping'[q] = stopping[q]
        /\ loc'[p][t] = "loop" /\ \A u \in Thread : u # t => loc'[p][u] = "none"
        /\ thread'[p] = t /\ running'[p] /\ ~stopping'[p]
    BY <1>1, <2>2, <2>3 DEF TypeOK, Start, ThreadAlive
  <2>5. owner # p
    BY <2>1, <2>2 DEF Kept, Active, HasThread
  <2>6. Alone' /\ Calls' /\ Kept'
    <3>1. Alone'
      BY <2>1, <2>4 DEF Alone, ThreadAlive
    <3>2. Calls'
      BY <2>1 DEF Calls
    <3>3. Kept'
      BY <2>1, <2>4, <2>5 DEF Kept, Active, HasThread, ThreadAlive, TypeOK
    <3> QED
      BY <3>1, <3>2, <3>3
  <2>7. Aspirant'
    BY <2>1, <2>4 DEF Aspirant
  <2>8. Recent'
    <3>1. owner \in up => owner \in Proc \ {p} /\ delay'[owner] = delay[owner]
      BY <1>1, <2>5 DEF TypeOK, Start
    <3> QED
      BY <2>1, <2>4, <3>1 DEF Recent
  <2> QED
    BY <2>6, <2>7, <2>8 DEF LeadInv
<1>2. ASSUME NEW p \in Proc, StopBegin(p)
      PROVE  LeadInv'
  <2>1. /\ p \in up /\ api[p] = "idle"
        /\ UNCHANGED <<row, up, running, busy, loc, delay, role>>
        /\ joined' = [joined EXCEPT ![p] = thread[p]]
        /\ api' = [api EXCEPT ![p] = "join"]
    BY <1>2 DEF StopBegin
  <2>2. /\ joined'[p] = thread[p] /\ api'[p] = "join"
        /\ \A q \in Proc : q # p => /\ joined'[q] = joined[q] /\ api'[q] = api[q]
                                    /\ thread'[q] = thread[q] /\ stopping'[q] = stopping[q]
    BY <1>2, <2>1 DEF StopBegin, TypeOK
  <2>3. Alone' /\ Calls'
    BY <2>1, <2>2 DEF Alone, Calls, ThreadAlive
  <2>4. Kept' /\ Aspirant' /\ Recent'
    BY <2>1, <2>2 DEF Kept, Active, HasThread, ThreadAlive, Aspirant, Recent
  <2> QED
    BY <2>3, <2>4 DEF LeadInv
<1>3. ASSUME NEW p \in Proc, StopJoin(p)
      PROVE  LeadInv'
  <2>1. /\ api[p] = "join"
        /\ UNCHANGED <<row, up, stopping, thread, busy, loc, delay, role>>
        /\ joined[p] # Nobody => ~ThreadAlive(p, joined[p])
        /\ running' = [running EXCEPT ![p] = FALSE]
        /\ joined' = [joined EXCEPT ![p] = Nobody]
        /\ api' = [api EXCEPT ![p] = "release"]
    BY <1>3 DEF StopJoin
  <2>2. /\ api'[p] = "release"
        /\ \A q \in Proc : q # p => /\ joined'[q] = joined[q] /\ api'[q] = api[q]
                                    /\ running'[q] = running[q]
    BY <2>1 DEF TypeOK
  <2>3. \A t \in Thread : ~ThreadAlive(p, t)
    BY <2>1, NobodyAssumption DEF Alone
  <2>4. Alone' /\ Calls'
    BY <2>1, <2>2, <2>3 DEF Alone, Calls, ThreadAlive
  <2>5. Kept' /\ Aspirant' /\ Recent'
    BY <2>1, <2>2 DEF Kept, Active, HasThread, ThreadAlive, Aspirant, Recent
  <2> QED
    BY <2>4, <2>5 DEF LeadInv
<1>4. ASSUME NEW p \in Proc, ReleaseRead(p)
      PROVE  LeadInv'
  <2>1. /\ api[p] = "release"
        /\ UNCHANGED <<row, up, control, busy, loc, delay, joined>>
        /\ \/ owner = p /\ api' = [api EXCEPT ![p] = "delete"]
           \/ owner # p /\ api' = [api EXCEPT ![p] = "idle"]
    BY <1>4 DEF ReleaseRead, StopReturns
  <2>2. /\ \/ owner = p /\ api'[p] = "delete"
           \/ owner # p /\ api'[p] = "idle"
        /\ \A q \in Proc : q # p => api'[q] = api[q]
    BY <2>1 DEF TypeOK
  <2>3. \A t \in Thread : ~ThreadAlive(p, t)
    BY <2>1 DEF Alone
  <2>4. Alone' /\ Calls'
    BY <2>1, <2>2, <2>3 DEF Alone, Calls, ThreadAlive
  <2>5. Kept'
    BY <2>1, <2>2 DEF Kept, Active, HasThread, ThreadAlive, TypeOK
  <2>6. Aspirant' /\ Recent'
    BY <2>1 DEF Aspirant, Recent
  <2> QED
    BY <2>4, <2>5, <2>6 DEF LeadInv
<1>5. ASSUME NEW p \in Proc, ReleaseDelete(p)
      PROVE  LeadInv'
  <2>1. /\ api[p] = "delete" /\ p \in up
        /\ UNCHANGED <<up, control, busy, loc, delay, joined>>
        /\ owner' = Nobody
        /\ api' = [api EXCEPT ![p] = "idle"]
    BY <1>5 DEF ReleaseDelete, StopReturns, Calls
  <2>2. /\ api'[p] = "idle"
        /\ \A q \in Proc : q # p => api'[q] = api[q]
    BY <2>1 DEF TypeOK
  <2>3. \A t \in Thread : ~ThreadAlive(p, t)
    BY <2>1 DEF Alone
  <2>4. Alone' /\ Calls'
    BY <2>1, <2>2, <2>3 DEF Alone, Calls, ThreadAlive
  <2>5. Nobody \notin up
    BY NobodyAssumption DEF TypeOK
  <2>6. Kept' /\ Recent'
    BY <2>1, <2>5 DEF Kept, Recent
  <2>7. Aspirant'
    BY <2>1, NobodyAssumption DEF Aspirant
  <2> QED
    BY <2>4, <2>6, <2>7 DEF LeadInv
<1>6. ASSUME NEW p \in Proc, NEW t \in Thread, LoopTop(p, t)
      PROVE  LeadInv'
  <2>1. loc[p][t] = "loop" /\ ThreadAlive(p, t) /\ UNCHANGED <<row, up, control, call>>
    BY <1>6 DEF LoopTop, ThreadAlive
  <2>2. CASE UNCHANGED delay /\ ((stopping[p] /\ Go(p, t, "none")) \/ Go(p, t, "wait"))
    <3>1. PICK place \in {"none", "wait"} : Go(p, t, place) /\ (place = "none" => stopping[p])
      BY <2>2
    <3>2. place = "none" => api[p] = "join"
      BY <2>1, <3>1 DEF Alone
    <3>3. Alone' /\ Calls' /\ Kept' /\ Aspirant' /\ Recent'
      BY <2>1, <2>2, <3>1, <3>2, MoveKeeps DEF Place
    <3> QED
      BY <3>3 DEF LeadInv
  <2>3. CASE Go(p, t, "lease") /\ delay' = [delay EXCEPT ![p] = 0]
    <3> "lease" \in Place
      BY DEF Place
    <3>1. /\ loc'[p][t] = "lease"
          /\ \A u \in Thread : u # t => loc'[p][u] = loc[p][u]
          /\ \A q \in Proc : q # p => loc'[q] = loc[q]
      BY <2>3, GoEffect
    <3>2. /\ Alone' /\ Calls' /\ Active(p)'
          /\ \A q \in Proc : q # p => (Active(q)' <=> Active(q))
          /\ \A u \in Thread : u # t => loc[p][u] = "none"
      BY <2>1, <2>3, MoveAlone
    <3>3. Kept'
      BY <2>1, <3>2 DEF Kept, TypeOK
    <3>4. Aspirant'
      BY <2>1, <3>1 DEF Aspirant
    <3>5. Recent'
      <4>1. delay'[p] = 0 /\ \A q \in Proc : q # p => delay'[q] = delay[q]
        BY <2>3 DEF TypeOK
      <4>2. /\ age \in Nat /\ MaxPeriod \in Nat
            /\ \A q \in Proc : delay[q] \in Nat /\ delay[q] <= MaxPeriod
        BY TimeAssumption DEF TypeOK, MaxAge
      <4>3. CASE owner = p
        <5>1. ~\E u \in Thread : loc[p][u] \in {"lease", "renew"}
          BY <2>1, <3>2
        <5>2. p \in up => age <= delay[p] + MaxPeriod
          BY <4>3, <5>1 DEF Recent
        <5>3. p \in up => age <= 0 + MaxPeriod + MaxPeriod
          BY <4>2, <5>2
        <5>4. \E u \in Thread : loc'[p][u] \in {"lease", "renew"}
          BY <3>1
        <5> QED
          BY <2>1, <4>1, <4>3, <5>3, <5>4 DEF Recent
      <4>4. CASE owner # p
        BY <2>1, <3>1, <4>1, <4>4 DEF Recent, TypeOK
      <4> QED
        BY <4>3, <4>4
    <3> QED
      BY <3>2, <3>3, <3>4, <3>5 DEF LeadInv
  <2> QED
    BY <1>6, <2>2, <2>3 DEF LoopTop
<1>7. ASSUME NEW p \in Proc, NEW t \in Thread, WaitEnds(p, t) \/ ScanEnds(p, t)
      PROVE  LeadInv'
  <2>1. /\ loc[p][t] \in {"wait", "scan"} /\ ThreadAlive(p, t)
        /\ UNCHANGED <<row, up, control, call, delay>>
    BY <1>7 DEF WaitEnds, ScanEnds, ThreadAlive
  <2>2. PICK place \in {"loop", "wait"} : Go(p, t, place)
    BY <1>7 DEF WaitEnds, ScanEnds, EndCycle
  <2>3. Alone' /\ Calls' /\ Kept' /\ Aspirant' /\ Recent'
    BY <2>1, <2>2, MoveKeeps DEF Place
  <2> QED
    BY <2>3 DEF LeadInv
<1>8. ASSUME NEW p \in Proc, NEW t \in Thread, LeaseRead(p, t)
      PROVE  LeadInv'
  <2>1. /\ loc[p][t] = "lease" /\ ThreadAlive(p, t)
        /\ UNCHANGED <<row, up, control, call, delay>>
    BY <1>8 DEF LeaseRead, ThreadAlive
  <2>2. PICK place \in {"insert", "renew", "takeover", "wait"} :
          /\ Go(p, t, place)
          /\ place # "renew" => owner # p
    BY <1>8, NobodyAssumption DEF LeaseRead, Standby, EndCycle, TypeOK
  <2>3. Alone' /\ Calls' /\ Kept' /\ Aspirant' /\ Recent'
    BY <2>1, <2>2, MoveKeeps DEF Place
  <2> QED
    BY <2>3 DEF LeadInv
<1>9. ASSUME NEW p \in Proc, NEW t \in Thread, LeaseWrite(p, t)
      PROVE  LeadInv'
  <2>1. /\ loc[p][t] \in {"insert", "renew", "takeover"} /\ ThreadAlive(p, t)
        /\ UNCHANGED <<up, control, call, delay>>
    BY <1>9 DEF LeaseWrite, LeaseInsert, LeaseRenew, LeaseTakeover, ThreadAlive
  <2>2. CASE owner' \in {p, owner} /\ age' = delay[p] /\ Go(p, t, "scan")
    <3>1. Alone' /\ Calls' /\ Kept' /\ Aspirant' /\ Recent'
      BY <2>1, <2>2, LeadKeeps
    <3> QED
      BY <3>1 DEF LeadInv
  <2>3. CASE Go(p, t, "wait") /\ UNCHANGED row /\ owner # p
    <3>1. Alone' /\ Calls' /\ Kept' /\ Aspirant' /\ Recent'
      BY <2>1, <2>3, MoveKeeps DEF Place
    <3> QED
      BY <3>1 DEF LeadInv
  <2>4. (owner' \in {p, owner} /\ age' = delay[p] /\ Go(p, t, "scan"))
        \/ (Go(p, t, "wait") /\ UNCHANGED row /\ owner # p)
    <3>1. CASE LeaseInsert(p, t)
      BY <3>1 DEF LeaseInsert, Lead, Standby, EndCycle, Aspirant
    <3>2. CASE LeaseRenew(p, t)
      BY <3>2, NobodyAssumption DEF LeaseRenew, Lead, EndCycle
    <3>3. CASE LeaseTakeover(p, t)
      BY <3>3, NobodyAssumption DEF LeaseTakeover, Lead, EndCycle
    <3> QED
      BY <1>9, <3>1, <3>2, <3>3 DEF LeaseWrite
  <2> QED
    BY <2>2, <2>3, <2>4
<1>10. ASSUME NEW p \in Proc, Crash(p)
      PROVE  LeadInv'
  <2>1. /\ up' = up \ {p} /\ UNCHANGED row
        /\ loc' = [loc EXCEPT ![p] = [t \in Thread |-> "none"]]
        /\ api' = [api EXCEPT ![p] = "idle"]
        /\ joined' = [joined EXCEPT ![p] = Nobody]
        /\ thread' = [thread EXCEPT ![p] = Nobody]
        /\ running' = [running EXCEPT ![p] = FALSE]
        /\ stopping' = [stopping EXCEPT ![p] = FALSE]
        /\ delay' = [delay EXCEPT ![p] = 0]
    BY <1>10 DEF Crash
  <2>2. /\ \A t \in Thread : loc'[p][t] = "none"
        /\ api'[p] = "idle"
        /\ \A q \in Proc : q # p =>
             /\ loc'[q] = loc[q] /\ api'[q] = api[q] /\ joined'[q] = joined[q]
             /\ thread'[q] = thread[q] /\ running'[q] = running[q]
             /\ stopping'[q] = stopping[q] /\ delay'[q] = delay[q]
    BY <2>1 DEF TypeOK
  <2>3. Alone' /\ Calls'
    BY <2>1, <2>2 DEF Alone, Calls, ThreadAlive
  <2>4. Kept'
    BY <2>1, <2>2 DEF Kept, Active, HasThread, ThreadAlive, TypeOK
  <2>5. Aspirant'
    BY <2>1, <2>2 DEF Aspirant
  <2>6. Recent'
    BY <2>1, <2>2 DEF Recent, TypeOK
  <2> QED
    BY <2>3, <2>4, <2>5, <2>6 DEF LeadInv
<1>11. CASE Tick
  <2>1. UNCHANGED <<owner, up, control, busy, loc, role, call>>
    BY <1>11 DEF Tick
  <2>2. Alone' /\ Calls' /\ Kept' /\ Aspirant'
    BY <2>1 DEF Alone, Calls, Kept, Active, HasThread, ThreadAlive, Aspirant
  <2>3. Recent'
    <3> SUFFICES ASSUME owner \in up
                 PROVE  age' <= IF \E t \in Thread : loc[owner][t] \in {"lease", "renew"}
                                THEN delay'[owner] + MaxPeriod + MaxPeriod
                                ELSE delay'[owner] + MaxPeriod
      BY <2>1 DEF Recent
    <3>1. owner \in Proc /\ Active(owner)
      BY DEF Kept, TypeOK
    <3>2. delay'[owner] = delay[owner] + 1
      BY <1>11, <3>1 DEF Tick
    <3>3. age' = age \/ age' = age + 1
      BY <1>11 DEF Tick
    <3>4. age \in Nat /\ delay[owner] \in Nat /\ MaxPeriod \in Nat
      BY <3>1, TimeAssumption DEF TypeOK, MaxAge
    <3>5. age <= IF \E t \in Thread : loc[owner][t] \in {"lease", "renew"}
                 THEN delay[owner] + MaxPeriod + MaxPeriod ELSE delay[owner] + MaxPeriod
      BY DEF Recent
    <3> QED
      BY <3>2, <3>3, <3>4, <3>5
  <2> QED
    BY <2>2, <2>3 DEF LeadInv
<1>12. CASE UNCHANGED vars
  <2>1. Alone' /\ Calls' /\ Kept' /\ Aspirant' /\ Recent'
    BY <1>12 DEF vars, Alone, Calls, Kept, Active, HasThread, ThreadAlive, Aspirant, Recent
  <2> QED
    BY <2>1 DEF LeadInv
<1>13. \A p \in Proc, t \in Thread : ~CycleFails(p, t)
  BY DEF CycleFails
<1> QED
  BY <1>1, <1>2, <1>3, <1>4, <1>5, <1>6, <1>7, <1>8, <1>9, <1>10, <1>11, <1>12, <1>13
  DEF Next, StopGoesOn, Loop

\* Under Timely the invariant holds in every reachable state.
LEMMA LeadInvariant == Timely => (Spec => []LeadInv)
<1> SUFFICES ASSUME Timely
             PROVE  Spec => []LeadInv
  OBVIOUS
<1>1. Init => LeadInv
  <2>1. Init => LockInv
    BY TimeAssumption DEF Init, LockInv, TypeOK, LockHeld, InCycle, Place, Role, MaxAge
  <2> QED
    BY <2>1, NobodyAssumption DEF Init, LeadInv, Alone, Calls, Kept, Aspirant, Recent,
       ThreadAlive
<1>2. LeadInv /\ [Next]_vars => LeadInv'
  BY LeadNext
<1> QED
  BY <1>1, <1>2, PTL DEF Spec

\* A read that goes on to take the lease over has found the heartbeat older than any a
\* live owner's can be.
LEMMA StaleOwner ==
    ASSUME Timely, LeadInv, NEW p \in Proc, NEW t \in Thread, [Next]_vars,
           loc[p][t] = "lease", loc'[p][t] = "takeover"
    PROVE  owner \notin up
<1>a. TypeOK /\ Recent
  BY DEF LeadInv, LockInv
<1>1. owner \notin {p, Nobody} /\ ~Fresh(p)
  <2> USE <1>a
  <2>1. ~UNCHANGED loc
    OBVIOUS
  <2>2. \A q \in Proc, u \in Thread, place \in Place :
           Go(q, u, place) => (q = p /\ u = t /\ place = "takeover")
    BY GoEffect
  <2>3. {"none", "loop", "wait", "lease", "insert", "renew", "takeover", "scan"} = Place
    BY DEF Place
  <2>4. \A q \in Proc : ~Start(q) /\ ~Crash(q)
    <3> SUFFICES ASSUME NEW q \in Proc
                 PROVE  ~Start(q) /\ ~Crash(q)
      OBVIOUS
    <3>1. "loop" \in Place \ {"takeover"}
      BY DEF Place
    <3>2. ~\E u \in Thread : Go(q, u, "loop")
      BY <2>2, <3>1
    <3>3. ~Start(q)
      BY <3>2 DEF Start, Go
    <3>4. ~Crash(q)
      BY DEF Crash, TypeOK
    <3> QED
      BY <3>3, <3>4
  <2>5. \A q \in Proc : ~StopBegin(q) /\ ~StopGoesOn(q)
    BY <2>1 DEF StopBegin, StopGoesOn, StopJoin, ReleaseRead, ReleaseDelete
  <2>6. \A q \in Proc, u \in Thread : ~Loop(q, u) /\ ~LeaseWrite(q, u) /\ ~CycleFails(q, u)
    <3> SUFFICES ASSUME NEW q \in Proc, NEW u \in Thread
                 PROVE  ~Loop(q, u) /\ ~LeaseWrite(q, u) /\ ~CycleFails(q, u)
      OBVIOUS
    <3>1. ~\E place \in Place \ {"takeover"} : Go(q, u, place)
      BY <2>2
    <3> QED
      BY <2>3, <3>1 DEF Loop, LoopTop, WaitEnds, ScanEnds, EndCycle, LeaseWrite, LeaseInsert,
         LeaseRenew, LeaseTakeover, Lead, Standby, CycleFails
  <2>7. ~Tick
    BY <2>1 DEF Tick
  <2>8. PICK q \in Proc, u \in Thread : LeaseRead(q, u)
    BY <2>1, <2>4, <2>5, <2>6, <2>7 DEF Next, vars
  <2>9. ~\E place \in Place \ {"takeover"} : Go(q, u, place)
    BY <2>2
  <2>10. owner \notin {q, Nobody} /\ ~Fresh(q) /\ Go(q, u, "takeover")
    BY <2>3, <2>8, <2>9 DEF LeaseRead, Standby, EndCycle
  <2> QED
    BY <2>2, <2>3, <2>10
<1>2. SUFFICES ASSUME owner \in up
               PROVE  FALSE
  OBVIOUS
<1>3. /\ age \in Nat /\ delay[p] \in Nat /\ MaxPeriod \in Nat /\ TTL \in Nat
      /\ 3 * MaxPeriod <= TTL
  BY <1>a, TimeAssumption DEF TypeOK, Timely, MaxAge
<1>4. delay[owner] \in Nat /\ delay[owner] <= MaxPeriod
  BY <1>a, <1>2, TimeAssumption DEF TypeOK
<1>5. age <= delay[owner] + MaxPeriod + MaxPeriod
  BY <1>a, <1>2, <1>3, <1>4 DEF Recent
<1> QED
  BY <1>1, <1>3, <1>4, <1>5 DEF Fresh

\* No leader is pushed out while it lives: as long as statements do not fail, a stop() is
\* waited for and cycles begin at least three times per TTL, a lease is found stale only
\* when its owner has crashed, with any number of incarnations and whatever they did to
\* the row meanwhile.  With hardships, or longer cycles, a live leader may be judged dead.
THEOREM OnlyCrashedReplaced == Timely => (Spec => StaleMeansCrashed)
<1> SUFFICES ASSUME Timely
             PROVE  Spec => StaleMeansCrashed
  OBVIOUS
<1>1. Spec => []LeadInv
  BY LeadInvariant
<1>2. LeadInv /\ [Next]_vars =>
        [\A p \in Proc : \A t \in Thread :
           loc[p][t] = "lease" /\ loc'[p][t] = "takeover" => owner \notin up]_vars
  BY StaleOwner
<1> QED
  BY <1>1, <1>2, PTL DEF Spec, StaleMeansCrashed

=============================================================================
