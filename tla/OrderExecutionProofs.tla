------------------------ MODULE OrderExecutionProofs ------------------------
(***************************************************************************)
(* Proofs about OrderExecution for any set of processes, any set of signal *)
(* identities, live or not, and any number of authorizations.              *)
(***************************************************************************)
EXTENDS OrderExecution, FiniteSetTheorems, TLAPS

-----------------------------------------------------------------------------
(* The inductive invariant *)

\* A process away from idle and reconciliation has a candidate at hand.
HasCandidate ==
    \A p \in Proc : pc[p] \notin {"idle", "judge", "retire"} => cur[p] \in Signal

\* A process about to record an answer has one.
HasAnswer == \A p \in Proc : pc[p] = "finish" => outcome[p] \in Answer

\* An order that went out has a guard row, and went out once.
Fenced == \A s \in Signal : /\ sends[s] > 0 => guard[s] # Absent
                            /\ sends[s] <= 1

\* A process about to send holds the guard of an identity nothing was sent for,
\* and no other process is about to send for it.
SoleSender ==
    \A p \in Proc : pc[p] = "send" =>
        /\ guard[cur[p]] # Absent
        /\ sends[cur[p]] = 0
        /\ \A q \in Proc : q # p /\ pc[q] = "send" => cur[q] # cur[p]

\* Every authorization held by a process or spent on an order was given, and the
\* latest one is neither while the authorization row is unspent.
GrantsGiven ==
    /\ grants > 0
    /\ \A p \in Proc : held[p] <= grants
    /\ \A s \in Signal : paid[s] <= grants
    /\ consumedBy = NoSignal =>
         /\ \A p \in Proc : held[p] < grants
         /\ \A s \in Signal : paid[s] < grants

\* No authorization is at two places.
GrantsDistinct ==
    /\ \A p, q \in Proc : p # q /\ held[p] # 0 => held[p] # held[q]
    /\ \A p \in Proc, s \in Signal : held[p] # 0 => held[p] # paid[s]
    /\ \A s, t \in Signal : s # t /\ paid[s] # 0 => paid[s] # paid[t]

\* A live order has an authorization before and after it goes out.
LiveIsPaid ==
    Live => /\ \A p \in Proc : pc[p] \in {"reserve", "send"} => held[p] # 0
            /\ \A s \in Signal : sends[s] > 0 => paid[s] # 0

\* An answer at hand agrees with what the broker holds.
AnswerHonest ==
    \A p \in Proc : pc[p] = "finish" =>
        /\ sends[cur[p]] > 0
        /\ outcome[p] \in Answers(broker[cur[p]])

\* An accepted trade record stands for an order that went out, a closed one for
\* some order that was filled.
TradeHonest ==
    /\ \A s \in Signal : trade[s] \in Accepted =>
         /\ sends[s] > 0
         /\ trade[s] \in Answers(broker[s])
    /\ \A s \in Signal : trade[s] \in Settled => \E t \in Signal : broker[t] = "filled"

\* The broker holds nothing that was not sent.
BrokerFollows == \A s \in Signal : broker[s] # "none" => sends[s] > 0

FenceInv == TypeOK /\ HasCandidate /\ HasAnswer /\ Fenced /\ SoleSender
GrantInv == GrantsGiven /\ GrantsDistinct /\ LiveIsPaid

-----------------------------------------------------------------------------
(* Type correctness *)

\* What the handlers write belongs to the vocabulary of the column it goes to.
LEMMA Vocabulary ==
  /\ \A a \in Answer : a \in SignalStatus /\ a \in TradeStatus /\ a \in GuardStatus
  /\ \A a \in Settled : a \in TradeStatus
  /\ Absent \in SignalStatus /\ Absent \in GuardStatus
  /\ "NEW" \in SignalStatus /\ "REJECTED" \in SignalStatus
  /\ "RISK_REJECTED" \in SignalStatus /\ "DUPLICATE" \in SignalStatus
  /\ "ABANDONED" \in SignalStatus
  /\ "PENDING" \in GuardStatus /\ "RETIRED" \in GuardStatus
  /\ Absent \in TradeStatus /\ "REJECTED" \in TradeStatus
  /\ "idle" \in Location /\ "insert" \in Location /\ "levels" \in Location
  /\ "assess" \in Location /\ "submit" \in Location
  /\ "authorize" \in Location /\ "reject" \in Location
  /\ "reserve" \in Location /\ "send" \in Location /\ "finish" \in Location
  /\ "complete" \in Location /\ "stamp" \in Location /\ "judge" \in Location
  /\ "retire" \in Location
  BY DEF SignalStatus, TradeStatus, GuardStatus, Answer, Settled, Absent, Location

\* Every answer recorded for an order is one of the four of ExecutionService.
LEMMA AnswersType ==
  ASSUME NEW b \in BrokerState
  PROVE  \A a \in Answers(b) : a \in Answer
  BY DEF Answers, Answer, BrokerState

\* Counting a call keeps a table of counters one.
LEMMA Increment ==
  ASSUME NEW S, NEW f \in [S -> Nat], NEW x
  PROVE  [f EXCEPT ![x] = @ + 1] \in [S -> Nat]
<1> DEFINE g == [f EXCEPT ![x] = @ + 1]
<1>1. ASSUME NEW y \in S
      PROVE  g[y] \in Nat
  BY SMT
<1>2. QED
  BY <1>1

\* Wherever a call goes on or returns, the process's own variables keep their types.
LEMMA MoveType ==
  ASSUME TypeOK, NEW p \in Proc,
         Leave(p) \/ \E l \in Location : Goto(p, l)
  PROVE  /\ pc' \in [Proc -> Location]
         /\ cur' \in [Proc -> Signal \cup {NoSignal}]
         /\ outcome' \in [Proc -> Answer \cup {Absent}]
         /\ held' \in [Proc -> Nat]
<1>1. CASE Leave(p)
  BY <1>1, Vocabulary DEF TypeOK, Leave
<1>2. CASE \E l \in Location : Goto(p, l)
  BY <1>2 DEF TypeOK, Goto
<1>3. QED
  BY <1>1, <1>2

\* Every step keeps every variable in its type.
LEMMA TypeStep ==
  ASSUME TypeOK, [Next]_vars
  PROVE  TypeOK'
<1> USE Vocabulary, MoveType DEF db, clocks, recon, ledger
<1>1. ASSUME NEW p \in Proc, NEW s \in Signal, SelectCandidate(p, s)
      PROVE  TypeOK'
  <2>1. pc' \in [Proc -> Location]
    BY <1>1 DEF TypeOK, SelectCandidate
  <2>2. QED
    BY <1>1, <2>1 DEF TypeOK, SelectCandidate
<1>2. ASSUME NEW p \in Proc, PersistSignal(p)
      PROVE  TypeOK'
  <2>1. Leave(p) \/ \E l \in Location : Goto(p, l)
    BY <1>2 DEF PersistSignal
  <2>2. sig' \in [Signal -> SignalStatus]
    BY <1>2 DEF TypeOK, PersistSignal
  <2>3. UNCHANGED <<trade, guard, consumedBy, clocks, broker, recon, sends, grants,
                    paid>>
    BY <1>2 DEF PersistSignal
  <2>4. QED
    BY <2>1, <2>2, <2>3 DEF TypeOK
<1>3. ASSUME NEW p \in Proc, Levels(p)
      PROVE  TypeOK'
  <2>1. Leave(p) \/ \E l \in Location : Goto(p, l)
    BY <1>3 DEF Levels, RejectSignal
  <2>2. sig' \in [Signal -> SignalStatus]
    BY <1>3 DEF TypeOK, Levels, RejectSignal
  <2>3. UNCHANGED <<trade, guard, consumedBy, clocks, broker, recon, sends, grants,
                    paid>>
    BY <1>3 DEF Levels, RejectSignal
  <2>4. QED
    BY <2>1, <2>2, <2>3 DEF TypeOK
<1>4. ASSUME NEW p \in Proc, Assess(p)
      PROVE  TypeOK'
  <2>1. Leave(p) \/ \E l \in Location : Goto(p, l)
    BY <1>4 DEF Assess, RejectSignal
  <2>2. sig' \in [Signal -> SignalStatus]
    BY <1>4 DEF TypeOK, Assess, RejectSignal
  <2>3. UNCHANGED <<trade, guard, consumedBy, clocks, broker, recon, sends, grants,
                    paid>>
    BY <1>4 DEF Assess, RejectSignal
  <2>4. QED
    BY <2>1, <2>2, <2>3 DEF TypeOK
<1>5. ASSUME NEW p \in Proc, Submit(p)
      PROVE  TypeOK'
  <2>1. Leave(p) \/ \E l \in Location : Goto(p, l)
    BY <1>5 DEF Submit
  <2>2. UNCHANGED <<db, consumedBy, clocks, broker, recon, sends, grants, paid>>
    BY <1>5 DEF Submit
  <2>3. QED
    BY <2>1, <2>2 DEF TypeOK
<1>6. ASSUME NEW p \in Proc, ReserveAuthorization(p)
      PROVE  TypeOK'
  <2>1. CASE Goto(p, "reject") /\ UNCHANGED consumedBy
    BY <1>6, <2>1 DEF TypeOK, ReserveAuthorization
  <2>2. CASE /\ consumedBy' = cur[p]
             /\ held' = [held EXCEPT ![p] = grants]
             /\ pc' = [pc EXCEPT ![p] = "reserve"]
             /\ UNCHANGED <<cur, outcome>>
    <3>1. UNCHANGED <<db, clocks, broker, recon, sends, grants, paid>>
      BY <1>6 DEF ReserveAuthorization
    <3>2. QED
      BY <2>2, <3>1 DEF TypeOK
  <2>3. QED
    BY <1>6, <2>1, <2>2 DEF ReserveAuthorization
<1>7. ASSUME NEW p \in Proc, PersistRejection(p)
      PROVE  TypeOK'
  <2>1. Leave(p) \/ \E l \in Location : Goto(p, l)
    BY <1>7 DEF PersistRejection
  <2>2. trade' \in [Signal -> TradeStatus]
    BY <1>7 DEF TypeOK, PersistRejection
  <2>3. sig' \in [Signal -> SignalStatus]
    BY <1>7 DEF TypeOK, PersistRejection
  <2>4. UNCHANGED <<guard, consumedBy, clocks, broker, recon, sends, grants, paid>>
    BY <1>7 DEF PersistRejection
  <2>5. QED
    BY <2>1, <2>2, <2>3, <2>4 DEF TypeOK
<1>8. ASSUME NEW p \in Proc, Reserve(p)
      PROVE  TypeOK'
  <2>1. Leave(p) \/ \E l \in Location : Goto(p, l)
    BY <1>8 DEF Reserve
  <2>2. guard' \in [Signal -> GuardStatus]
    BY <1>8 DEF TypeOK, Reserve
  <2>3. UNCHANGED <<sig, trade, consumedBy, clocks, broker, recon, sends, grants,
                    paid>>
    BY <1>8 DEF Reserve
  <2>4. QED
    BY <2>1, <2>2, <2>3 DEF TypeOK
<1>9. ASSUME NEW p \in Proc, OrderSend(p)
      PROVE  TypeOK'
  <2>1. PICK b \in BrokerState :
          /\ broker' = [broker EXCEPT ![cur[p]] = b]
          /\ \E a \in Answers(b) : outcome' = [outcome EXCEPT ![p] = a]
    BY <1>9 DEF OrderSend
  <2>2. PICK a \in Answers(b) : outcome' = [outcome EXCEPT ![p] = a]
    BY <2>1
  <2> a \in Answer
    BY AnswersType
  <2>3. /\ broker' \in [Signal -> BrokerState]
        /\ outcome' \in [Proc -> Answer \cup {Absent}]
    BY <2>1, <2>2 DEF TypeOK
  <2>4. /\ sends' = [sends EXCEPT ![cur[p]] = @ + 1]
        /\ paid' = [paid EXCEPT ![cur[p]] = held[p]]
        /\ pc' = [pc EXCEPT ![p] = "finish"]
        /\ held' = [held EXCEPT ![p] = 0]
    BY <1>9 DEF OrderSend
  <2>5. sends' \in [Signal -> Nat]
    BY <2>4, Increment DEF TypeOK
  <2>6. paid' \in [Signal -> Nat]
    <3>1. held[p] \in Nat
      BY DEF TypeOK
    <3>2. QED
      BY <2>4, <3>1 DEF TypeOK
  <2>7. /\ pc' \in [Proc -> Location]
        /\ held' \in [Proc -> Nat]
    BY <2>4 DEF TypeOK
  <2>8. UNCHANGED <<db, consumedBy, clocks, cur, recon, grants>>
    BY <1>9 DEF OrderSend
  <2>9. QED
    BY <2>3, <2>5, <2>6, <2>7, <2>8 DEF TypeOK
<1>10. ASSUME NEW p \in Proc, Finish(p)
      PROVE  TypeOK'
  <2>1. Leave(p) \/ \E l \in Location : Goto(p, l)
    BY <1>10 DEF Finish
  <2> /\ outcome[p] \in TradeStatus
      /\ outcome[p] \in GuardStatus
      /\ outcome[p] \in SignalStatus
    BY DEF TypeOK
  <2>2. trade' \in [Signal -> TradeStatus]
    BY <1>10 DEF TypeOK, Finish
  <2>3. guard' \in [Signal -> GuardStatus]
    BY <1>10 DEF TypeOK, Finish
  <2>4. sig' \in [Signal -> SignalStatus]
    BY <1>10 DEF TypeOK, Finish
  <2>5. UNCHANGED <<consumedBy, aged, broker, recon, sends, grants, paid>>
    BY <1>10 DEF Finish
  <2>6. guardAged' \subseteq Signal
    BY <1>10 DEF TypeOK, Finish, ForgetGuardAge
  <2>7. QED
    BY <2>1, <2>2, <2>3, <2>4, <2>5, <2>6 DEF TypeOK
<1>11. ASSUME NEW p \in Proc, Complete(p)
      PROVE  TypeOK'
  <2>1. Leave(p) \/ \E l \in Location : Goto(p, l)
    BY <1>11 DEF Complete
  <2>2. UNCHANGED <<db, consumedBy, clocks, broker, recon, sends, grants, paid>>
    BY <1>11 DEF Complete
  <2>3. QED
    BY <2>1, <2>2 DEF TypeOK
<1>12. ASSUME NEW p \in Proc, Stamp(p)
      PROVE  TypeOK'
  <2>1. Leave(p) \/ \E l \in Location : Goto(p, l)
    BY <1>12 DEF Stamp, RejectSignal
  <2>2. sig' \in [Signal -> SignalStatus]
    BY <1>12 DEF TypeOK, Stamp, RejectSignal
  <2>3. UNCHANGED <<trade, guard, consumedBy, clocks, broker, recon, sends, grants,
                    paid>>
    BY <1>12 DEF Stamp, RejectSignal
  <2>4. QED
    BY <2>1, <2>2, <2>3 DEF TypeOK
<1>13. ASSUME NEW p \in Proc, ReconcileRead(p)
      PROVE  TypeOK'
  BY <1>13 DEF TypeOK, ReconcileRead
<1>14. ASSUME NEW p \in Proc, JudgeGuards(p)
      PROVE  TypeOK'
  <2>1. \A s \in Signal : VerdictOn(s, seen[p]) \in GuardStatus
    BY DEF VerdictOn, Accepted, Answer, GuardStatus
  <2>2. QED
    BY <1>14, <2>1 DEF TypeOK, JudgeGuards
<1>15. ASSUME NEW p \in Proc, RetireGuards(p)
      PROVE  TypeOK'
  BY <1>15 DEF TypeOK, RetireGuards, ForgetGuardAge, NoVerdict
<1>16. ASSUME NEW p \in Proc, Crash(p)
      PROVE  TypeOK'
  BY <1>16 DEF TypeOK, Crash, NoVerdict
<1>17. ASSUME NEW s \in Signal, AgeSignal(s) \/ AgeGuard(s) \/ BrokerFill(s)
      PROVE  TypeOK'
  BY <1>17 DEF TypeOK, AgeSignal, AgeGuard, BrokerFill, BrokerState
<1>18. CASE AuthorizeOneTrade
  BY <1>18 DEF TypeOK, AuthorizeOneTrade
<1>19. CASE UNCHANGED vars
  BY <1>19 DEF TypeOK, vars
<1>20. ASSUME NEW p \in Proc, NEW r \in Signal, ApplyRow(p, r)
       PROVE  TypeOK'
  BY <1>20 DEF TypeOK, ApplyRow
<1>21. QED
  BY <1>1, <1>2, <1>3, <1>4, <1>5, <1>6, <1>7, <1>8, <1>9, <1>10, <1>11, <1>12,
     <1>13, <1>14, <1>15, <1>16, <1>17, <1>18, <1>19, <1>20
  DEF Next, Candidate, Reconcile

\* Type correctness: no handler writes a status outside the vocabulary the
\* readers of the tables test for.
THEOREM TypeCorrect == Spec => []TypeOK
<1>1. Init => TypeOK
  BY MaxGrantsAssumption DEF Init, TypeOK, Absent, SignalStatus, Answer, Settled, TradeStatus,
     GuardStatus, BrokerState, Location, NoVerdict
<1>2. TypeOK /\ [Next]_vars => TypeOK'
  BY TypeStep
<1>3. QED
  BY <1>1, <1>2, PTL DEF Spec

-----------------------------------------------------------------------------
(* One order per signal *)

\* What a move of p does to every process's place and candidate.
LEMMA MoveEffect ==
  ASSUME TypeOK, NEW p \in Proc
  PROVE  /\ Leave(p) => pc'[p] = "idle" /\ held'[p] = 0
         /\ \A l : Goto(p, l) => pc'[p] = l /\ cur'[p] = cur[p] /\ held'[p] = held[p]
         /\ Leave(p) \/ (\E l : Goto(p, l)) =>
              \A q \in Proc : q # p =>
                /\ pc'[q] = pc[q] /\ cur'[q] = cur[q]
                /\ held'[q] = held[q] /\ outcome'[q] = outcome[q]
<1>1. CASE Leave(p)
  BY <1>1 DEF TypeOK, Leave, Goto
<1>2. ASSUME NEW l, Goto(p, l)
      PROVE  /\ pc'[p] = l /\ cur'[p] = cur[p] /\ held'[p] = held[p]
             /\ \A q \in Proc : q # p =>
                  /\ pc'[q] = pc[q] /\ cur'[q] = cur[q]
                  /\ held'[q] = held[q] /\ outcome'[q] = outcome[q]
  BY <1>2 DEF TypeOK, Goto
<1>3. QED
  BY <1>1, <1>2

\* A step that sends nothing, drops no guard and brings no process to the point
\* of sending keeps the fence.
LEMMA QuietStep ==
  ASSUME FenceInv, TypeOK', NEW p \in Proc,
         \A q \in Proc : q # p => /\ pc'[q] = pc[q] /\ cur'[q] = cur[q]
                                 /\ outcome'[q] = outcome[q],
         pc'[p] \notin {"send", "finish"},
         pc'[p] \in {"idle", "judge", "retire"} \/ cur'[p] \in Signal,
         sends' = sends,
         \A s \in Signal : guard[s] # Absent => guard'[s] # Absent
  PROVE  FenceInv'
<1>1. HasCandidate'
  BY DEF FenceInv, HasCandidate
<1>2. Fenced'
  BY DEF FenceInv, Fenced
<1>3. SoleSender'
  <2>1. SUFFICES ASSUME NEW q \in Proc, pc'[q] = "send"
                 PROVE  /\ guard'[cur'[q]] # Absent
                        /\ sends'[cur'[q]] = 0
                        /\ \A r \in Proc : r # q /\ pc'[r] = "send" => cur'[r] # cur'[q]
    BY DEF SoleSender
  <2>2. q # p /\ pc[q] = "send" /\ cur'[q] = cur[q] /\ cur[q] \in Signal
    BY <2>1 DEF FenceInv, HasCandidate
  <2>3. QED
    BY <2>1, <2>2 DEF FenceInv, SoleSender
<1>4. HasAnswer'
  BY DEF FenceInv, HasAnswer
<1>5. QED
  BY <1>1, <1>2, <1>3, <1>4 DEF FenceInv

\* The fence is kept by every step.
LEMMA FenceStep ==
  ASSUME FenceInv, [Next]_vars
  PROVE  FenceInv'
<1> USE MoveEffect DEF db, clocks, recon, ledger
<1> TypeOK /\ TypeOK'
  BY TypeStep DEF FenceInv
<1>1. ASSUME NEW p \in Proc, NEW s \in Signal, SelectCandidate(p, s)
      PROVE  FenceInv'
  <2>1. /\ pc'[p] \in {"insert", "levels"} /\ cur'[p] = s
        /\ \A q \in Proc : q # p => pc'[q] = pc[q] /\ cur'[q] = cur[q]
        /\ UNCHANGED <<sends, guard, outcome>>
    BY <1>1 DEF TypeOK, SelectCandidate
  <2>2. QED
    BY <2>1, QuietStep
<1>2. ASSUME NEW p \in Proc,
             PersistSignal(p) \/ Levels(p) \/ Assess(p) \/ Submit(p)
               \/ PersistRejection(p) \/ Complete(p) \/ Stamp(p)
      PROVE  FenceInv'
  <2>1. cur[p] \in Signal
    BY <1>2 DEF FenceInv, HasCandidate, At, PersistSignal, Levels, Assess, Submit,
       PersistRejection, Complete, Stamp
  <2>2. UNCHANGED <<sends, guard>>
    BY <1>2 DEF PersistSignal, Levels, Assess, Submit, PersistRejection, Complete,
       Stamp, RejectSignal
  <2>3. \/ Leave(p)
        \/ \E l \in {"levels", "assess", "submit", "complete", "reject", "authorize",
                     "reserve", "stamp"} : Goto(p, l)
    BY <1>2 DEF PersistSignal, Levels, Assess, Submit, PersistRejection, Complete,
       Stamp, RejectSignal
  <2>4. QED
    BY <2>1, <2>2, <2>3, QuietStep
<1>3. ASSUME NEW p \in Proc, ReserveAuthorization(p)
      PROVE  FenceInv'
  <2>1. cur[p] \in Signal
    BY <1>3 DEF FenceInv, HasCandidate, At, ReserveAuthorization
  <2>2. UNCHANGED <<sends, guard, cur, outcome>>
    BY <1>3 DEF ReserveAuthorization, Goto
  <2>3. \E l \in {"reserve", "reject"} : pc' = [pc EXCEPT ![p] = l]
    BY <1>3 DEF ReserveAuthorization, Goto
  <2>4. /\ pc'[p] \notin {"send", "finish"}
        /\ \A q \in Proc : q # p => pc'[q] = pc[q]
    BY <2>3 DEF TypeOK
  <2>5. QED
    BY <2>1, <2>2, <2>4, QuietStep
<1>4. ASSUME NEW p \in Proc, Reserve(p)
      PROVE  FenceInv'
  <2>1. cur[p] \in Signal
    BY <1>4 DEF FenceInv, HasCandidate, At, Reserve
  <2>2. UNCHANGED sends
    BY <1>4 DEF Reserve
  <2>3. CASE guard[cur[p]] # Absent
    <3>1. Goto(p, "complete") /\ UNCHANGED guard
      BY <1>4, <2>3 DEF Reserve
    <3>2. QED
      BY <2>1, <2>2, <3>1, QuietStep
  <2>4. CASE guard[cur[p]] = Absent
    <3>1. Goto(p, "send") /\ guard' = [guard EXCEPT ![cur[p]] = "PENDING"]
      BY <1>4, <2>4 DEF Reserve
    <3>2. /\ guard'[cur[p]] # Absent
          /\ \A s \in Signal : s # cur[p] => guard'[s] = guard[s]
      BY <2>1, <3>1 DEF TypeOK, Absent
    <3>3. sends[cur[p]] = 0
      BY <2>1, <2>4 DEF TypeOK, FenceInv, Fenced
    <3>4. \A q \in Proc : q # p /\ pc[q] = "send" => cur[q] # cur[p]
      BY <2>4 DEF FenceInv, SoleSender
    <3>5. /\ pc'[p] = "send" /\ cur'[p] = cur[p]
          /\ \A q \in Proc : q # p => pc'[q] = pc[q] /\ cur'[q] = cur[q]
      BY <3>1
    <3>6. HasCandidate'
      BY <2>1, <3>5 DEF FenceInv, HasCandidate
    <3>7. Fenced'
      BY <2>2, <3>2 DEF FenceInv, Fenced
    <3>8. SoleSender'
      <4>1. ASSUME NEW q \in Proc, pc'[q] = "send", q # p
            PROVE  /\ pc[q] = "send" /\ cur'[q] = cur[q] /\ cur[q] \in Signal
                   /\ cur[q] # cur[p] /\ guard'[cur[q]] # Absent /\ sends[cur[q]] = 0
        BY <3>2, <3>4, <3>5, <4>1 DEF FenceInv, HasCandidate, SoleSender
      <4>2. ASSUME NEW q \in Proc, NEW r \in Proc, pc'[q] = "send", pc'[r] = "send", r # q
            PROVE  cur'[r] # cur'[q]
        BY <3>5, <4>1, <4>2 DEF FenceInv, SoleSender
      <4>3. QED
        BY <2>2, <3>2, <3>3, <3>5, <4>1, <4>2 DEF SoleSender
    <3>9. HasAnswer'
      BY <3>1, <3>5 DEF FenceInv, HasAnswer
    <3>10. QED
      BY <3>6, <3>7, <3>8, <3>9 DEF FenceInv
  <2>5. QED
    BY <2>3, <2>4
<1>5. ASSUME NEW p \in Proc, OrderSend(p)
      PROVE  FenceInv'
  <2>1. /\ cur[p] \in Signal /\ guard[cur[p]] # Absent /\ sends[cur[p]] = 0
        /\ \A q \in Proc : q # p /\ pc[q] = "send" => cur[q] # cur[p]
    BY <1>5 DEF FenceInv, HasCandidate, SoleSender, At, OrderSend
  <2>2. /\ sends' = [sends EXCEPT ![cur[p]] = @ + 1]
        /\ pc' = [pc EXCEPT ![p] = "finish"]
        /\ UNCHANGED <<guard, cur>>
    BY <1>5 DEF OrderSend
  <2>3. /\ sends'[cur[p]] = 1
        /\ \A s \in Signal : s # cur[p] => sends'[s] = sends[s]
    BY <2>1, <2>2 DEF TypeOK
  <2>4. /\ pc'[p] = "finish"
        /\ \A q \in Proc : q # p => pc'[q] = pc[q]
    BY <2>2 DEF TypeOK
  <2>5. HasCandidate'
    BY <2>1, <2>2, <2>4 DEF FenceInv, HasCandidate
  <2>6. Fenced'
    BY <2>1, <2>2, <2>3 DEF FenceInv, Fenced
  <2>7. SoleSender'
    <3>1. ASSUME NEW q \in Proc, pc'[q] = "send"
          PROVE  q # p /\ pc[q] = "send" /\ cur[q] \in Signal /\ cur[q] # cur[p]
      BY <2>1, <2>4, <3>1 DEF FenceInv, HasCandidate
    <3>2. QED
      BY <2>2, <2>3, <3>1 DEF FenceInv, SoleSender
  <2>8. HasAnswer'
    <3>1. PICK b \in BrokerState : \E a \in Answers(b) : outcome' = [outcome EXCEPT ![p] = a]
      BY <1>5 DEF OrderSend
    <3>2. outcome'[p] \in Answer /\ \A q \in Proc : q # p => outcome'[q] = outcome[q]
      BY <3>1, AnswersType DEF TypeOK
    <3>3. QED
      BY <2>4, <3>2 DEF FenceInv, HasAnswer
  <2>9. QED
    BY <2>5, <2>6, <2>7, <2>8 DEF FenceInv
<1>6. ASSUME NEW p \in Proc, Finish(p)
      PROVE  FenceInv'
  <2>1. Leave(p) /\ UNCHANGED sends
    BY <1>6 DEF Finish
  <2>2. outcome[p] # Absent
    BY <1>6 DEF FenceInv, HasAnswer, At, Finish, Answer, Absent
  <2>3. \A s \in Signal : guard[s] # Absent => guard'[s] # Absent
    BY <1>6, <2>2 DEF TypeOK, Finish
  <2>4. QED
    BY <2>1, <2>3, QuietStep
<1>7. ASSUME NEW p \in Proc, ReconcileRead(p) \/ JudgeGuards(p)
      PROVE  FenceInv'
  <2>1. /\ pc'[p] \in {"judge", "retire"}
        /\ \A q \in Proc : q # p => pc'[q] = pc[q]
        /\ UNCHANGED <<sends, guard, cur, outcome>>
    BY <1>7 DEF TypeOK, ReconcileRead, JudgeGuards
  <2>2. QED
    BY <2>1, QuietStep
<1>8. ASSUME NEW p \in Proc, RetireGuards(p)
      PROVE  FenceInv'
  <2>1. Leave(p) /\ UNCHANGED sends
    BY <1>8 DEF RetireGuards
  <2>2. \A s \in Signal : guard[s] # Absent => guard'[s] # Absent
    BY <1>8 DEF RetireGuards
  <2>3. QED
    BY <2>1, <2>2, QuietStep
<1>9. ASSUME NEW p \in Proc, Crash(p)
      PROVE  FenceInv'
  <2>1. Leave(p) /\ UNCHANGED <<sends, guard>>
    BY <1>9 DEF Crash
  <2>2. QED
    BY <2>1, QuietStep
<1>10. CASE UNCHANGED <<pc, cur, outcome, sends, guard>>
  BY <1>10 DEF FenceInv, HasCandidate, HasAnswer, Fenced, SoleSender
<1>11. ASSUME NEW s \in Signal,
             AgeSignal(s) \/ AgeGuard(s) \/ BrokerFill(s)
               \/ \E p \in Proc : ApplyRow(p, s)
       PROVE  FenceInv'
  BY <1>10, <1>11 DEF AgeSignal, AgeGuard, BrokerFill, ApplyRow
<1>12. CASE AuthorizeOneTrade
  BY <1>10, <1>12 DEF AuthorizeOneTrade
<1>13. CASE UNCHANGED vars
  BY <1>10, <1>13 DEF vars
<1>14. QED
  BY <1>1, <1>2, <1>3, <1>4, <1>5, <1>6, <1>7, <1>8, <1>9, <1>11, <1>12, <1>13
  DEF Next, Candidate, Reconcile

\* The fence holds initially.
LEMMA FenceInit == Init => FenceInv
<1>1. Init => TypeOK
  BY MaxGrantsAssumption DEF Init, TypeOK, Absent, SignalStatus, Answer, Settled, TradeStatus,
     GuardStatus, BrokerState, Location, NoVerdict
<1>2. Init => HasCandidate /\ HasAnswer /\ Fenced /\ SoleSender
  BY DEF Init, HasCandidate, HasAnswer, Fenced, SoleSender
<1>3. QED
  BY <1>1, <1>2 DEF FenceInv

\* One order per signal, ever: whatever the number of processes, of signals and of
\* authorizations, no crash, retry or guard retirement makes a second order_send.
THEOREM AtMostOnce == Spec => []AtMostOneSend
<1>1. FenceInv /\ [Next]_vars => FenceInv'
  BY FenceStep
<1>2. FenceInv => AtMostOneSend
  BY DEF FenceInv, Fenced, AtMostOneSend
<1>3. QED
  BY FenceInit, <1>1, <1>2, PTL DEF Spec

-----------------------------------------------------------------------------
(* One authorization per live order *)

\* A step that spends nothing, gives nothing, and brings a process to the
\* reservation only with an authorization it already holds keeps the books.
LEMMA GrantQuiet ==
  ASSUME FenceInv, GrantInv, NEW p \in Proc,
         \A q \in Proc : q # p => pc'[q] = pc[q] /\ held'[q] = held[q],
         held'[p] = 0 \/ held'[p] = held[p],
         Live /\ pc'[p] \in {"reserve", "send"} => held'[p] # 0,
         UNCHANGED <<sends, paid, grants, consumedBy>>
  PROVE  GrantInv'
<1> /\ \A q \in Proc : held[q] \in Nat
    /\ \A s \in Signal : paid[s] \in Nat
    /\ grants \in Nat
  BY DEF FenceInv, TypeOK
<1>1. \A q \in Proc : held'[q] = 0 \/ held'[q] = held[q]
  OBVIOUS
<1>2. GrantsGiven'
  BY <1>1 DEF GrantInv, GrantsGiven
<1>3. GrantsDistinct'
  BY <1>1 DEF GrantInv, GrantsDistinct
<1>4. LiveIsPaid'
  BY DEF GrantInv, LiveIsPaid
<1>5. QED
  BY <1>2, <1>3, <1>4 DEF GrantInv

\* The books of the authorizations are kept by every step.
LEMMA GrantStep ==
  ASSUME FenceInv, GrantInv, [Next]_vars
  PROVE  GrantInv'
<1> USE MoveEffect DEF db, clocks, recon, ledger
<1> TypeOK
  BY DEF FenceInv
<1>t. /\ \A q \in Proc : held[q] \in Nat
      /\ \A s \in Signal : paid[s] \in Nat
      /\ grants \in Nat
  BY DEF TypeOK
<1>1. ASSUME NEW p \in Proc, NEW s \in Signal, SelectCandidate(p, s)
      PROVE  GrantInv'
  <2>1. /\ pc'[p] \in {"insert", "levels"}
        /\ \A q \in Proc : q # p => pc'[q] = pc[q]
        /\ UNCHANGED <<sends, paid, grants, held, consumedBy>>
    BY <1>1 DEF TypeOK, SelectCandidate
  <2>2. QED
    BY <2>1, GrantQuiet
<1>2. ASSUME NEW p \in Proc,
             PersistSignal(p) \/ Levels(p) \/ Assess(p) \/ PersistRejection(p)
               \/ Complete(p) \/ Stamp(p) \/ Finish(p) \/ RetireGuards(p) \/ Crash(p)
      PROVE  GrantInv'
  <2>1. UNCHANGED <<sends, paid, grants, consumedBy>>
    BY <1>2 DEF PersistSignal, Levels, Assess, PersistRejection, Complete, Stamp,
       RejectSignal, Finish, RetireGuards, Crash
  <2>2. \/ Leave(p)
        \/ \E l \in {"levels", "assess", "submit", "stamp"} : Goto(p, l)
    BY <1>2 DEF PersistSignal, Levels, Assess, PersistRejection, Complete, Stamp,
       RejectSignal, Finish, RetireGuards, Crash
  <2>3. QED
    BY <2>1, <2>2, GrantQuiet
<1>3. ASSUME NEW p \in Proc, Submit(p)
      PROVE  GrantInv'
  <2>1. UNCHANGED <<sends, paid, grants, consumedBy>>
    BY <1>3 DEF Submit
  <2>2. \/ \E l \in {"complete", "reject", "authorize"} : Goto(p, l)
        \/ ~Live /\ Goto(p, "reserve")
    BY <1>3, LiveAssumption DEF Submit
  <2>3. QED
    BY <2>1, <2>2, GrantQuiet
<1>4. ASSUME NEW p \in Proc, ReserveAuthorization(p)
      PROVE  GrantInv'
  <2>1. UNCHANGED <<sends, paid, grants>>
    BY <1>4 DEF ReserveAuthorization
  <2>2. cur[p] \in Signal
    BY <1>4 DEF FenceInv, HasCandidate, At, ReserveAuthorization
  <2>3. CASE Goto(p, "reject") /\ UNCHANGED consumedBy
    BY <2>1, <2>3, GrantQuiet
  <2>4. CASE /\ consumedBy = NoSignal
             /\ consumedBy' = cur[p]
             /\ held' = [held EXCEPT ![p] = grants]
             /\ pc' = [pc EXCEPT ![p] = "reserve"]
    <3>1. /\ consumedBy' # NoSignal
          /\ held'[p] = grants
          /\ \A q \in Proc : q # p => held'[q] = held[q] /\ pc'[q] = pc[q]
      BY <2>2, <2>4, NoSignalAssumption DEF TypeOK
    <3>2. /\ grants > 0
          /\ \A q \in Proc : held[q] < grants
          /\ \A s \in Signal : paid[s] < grants
      BY <2>4 DEF GrantInv, GrantsGiven
    <3>3. GrantsGiven'
      BY <1>t, <2>1, <3>1, <3>2 DEF GrantsGiven
    <3>4. GrantsDistinct'
      BY <1>t, <2>1, <3>1, <3>2 DEF GrantInv, GrantsDistinct
    <3>5. LiveIsPaid'
      BY <1>t, <2>1, <3>1, <3>2 DEF GrantInv, LiveIsPaid
    <3>6. QED
      BY <3>3, <3>4, <3>5 DEF GrantInv
  <2>5. QED
    BY <1>4, <2>3, <2>4 DEF ReserveAuthorization
<1>5. ASSUME NEW p \in Proc, Reserve(p)
      PROVE  GrantInv'
  <2>1. UNCHANGED <<sends, paid, grants, consumedBy>>
    BY <1>5 DEF Reserve
  <2>2. Goto(p, "send") \/ Goto(p, "complete")
    BY <1>5 DEF Reserve
  <2>3. Live => held[p] # 0
    BY <1>5 DEF GrantInv, LiveIsPaid, At, Reserve
  <2>4. QED
    BY <2>1, <2>2, <2>3, GrantQuiet
<1>6. ASSUME NEW p \in Proc, OrderSend(p)
      PROVE  GrantInv'
  <2>1. cur[p] \in Signal /\ (Live => held[p] # 0)
    BY <1>6 DEF FenceInv, HasCandidate, GrantInv, LiveIsPaid, At, OrderSend
  <2>2. /\ sends' = [sends EXCEPT ![cur[p]] = @ + 1]
        /\ paid' = [paid EXCEPT ![cur[p]] = held[p]]
        /\ pc' = [pc EXCEPT ![p] = "finish"]
        /\ held' = [held EXCEPT ![p] = 0]
        /\ UNCHANGED <<grants, consumedBy>>
    BY <1>6 DEF OrderSend
  <2>3. /\ held'[p] = 0 /\ pc'[p] = "finish"
        /\ \A q \in Proc : q # p => held'[q] = held[q] /\ pc'[q] = pc[q]
    BY <2>2 DEF TypeOK
  <2>4. /\ paid'[cur[p]] = held[p]
        /\ \A s \in Signal : s # cur[p] => paid'[s] = paid[s] /\ sends'[s] = sends[s]
    BY <2>1, <2>2 DEF TypeOK
  <2>5. GrantsGiven'
    BY <1>t, <2>2, <2>3, <2>4 DEF GrantInv, GrantsGiven
  <2>6. GrantsDistinct'
    BY <1>t, <2>3, <2>4 DEF GrantInv, GrantsDistinct
  <2>7. LiveIsPaid'
    BY <2>1, <2>3, <2>4 DEF GrantInv, LiveIsPaid
  <2>8. QED
    BY <2>5, <2>6, <2>7 DEF GrantInv
<1>7. ASSUME NEW p \in Proc, ReconcileRead(p) \/ JudgeGuards(p)
      PROVE  GrantInv'
  <2>1. /\ pc'[p] \in {"judge", "retire"}
        /\ \A q \in Proc : q # p => pc'[q] = pc[q]
        /\ UNCHANGED <<sends, paid, grants, held, consumedBy>>
    BY <1>7 DEF TypeOK, ReconcileRead, JudgeGuards
  <2>2. QED
    BY <2>1, GrantQuiet
<1>8. CASE UNCHANGED <<pc, sends, paid, grants, held, consumedBy>>
  BY <1>8 DEF GrantInv, GrantsGiven, GrantsDistinct, LiveIsPaid
<1>9. ASSUME NEW s \in Signal,
             AgeSignal(s) \/ AgeGuard(s) \/ BrokerFill(s)
               \/ \E p \in Proc : ApplyRow(p, s)
      PROVE  GrantInv'
  BY <1>8, <1>9 DEF AgeSignal, AgeGuard, BrokerFill, ApplyRow
<1>10. CASE AuthorizeOneTrade
  <2>1. /\ grants' = grants + 1
        /\ UNCHANGED <<pc, sends, paid, held>>
    BY <1>10 DEF AuthorizeOneTrade
  <2>2. GrantsGiven'
    BY <1>t, <2>1 DEF GrantInv, GrantsGiven
  <2>3. QED
    BY <2>1, <2>2 DEF GrantInv, GrantsDistinct, LiveIsPaid
<1>11. CASE UNCHANGED vars
  BY <1>8, <1>11 DEF vars
<1>12. QED
  BY <1>1, <1>2, <1>3, <1>4, <1>5, <1>6, <1>7, <1>9, <1>10, <1>11
  DEF Next, Candidate, Reconcile

\* Every live order was paid for by an authorization the operator gave, and no two
\* by the same one.
THEOREM OneTradePerAuthorization == Spec => []OneSendPerGrant
<1>1. Init => GrantInv
  BY DEF Init, GrantInv, GrantsGiven, GrantsDistinct, LiveIsPaid
<1>2. FenceInv /\ GrantInv /\ [Next]_vars => FenceInv' /\ GrantInv'
  BY FenceStep, GrantStep
<1>3. FenceInv /\ GrantInv => OneSendPerGrant
  BY DEF FenceInv, TypeOK, GrantInv, GrantsGiven, GrantsDistinct, LiveIsPaid,
     OneSendPerGrant
<1>4. QED
  BY FenceInit, <1>1, <1>2, <1>3, PTL DEF Spec

-----------------------------------------------------------------------------
(* Recorded outcomes against the broker's *)

HonestInv == AnswerHonest /\ TradeHonest /\ BrokerFollows

\* Answers only grow more precise where nothing was sent: a step that neither sends
\* nor records an accepted trade nor brings a process to recording is honest.
LEMMA HonestQuiet ==
  ASSUME FenceInv, HonestInv, NEW p \in Proc,
         \A q \in Proc : q # p => /\ pc'[q] = pc[q] /\ cur'[q] = cur[q]
                                 /\ outcome'[q] = outcome[q],
         pc'[p] # "finish",
         UNCHANGED <<sends, broker>>,
         \A s \in Signal : trade'[s] = trade[s] \/ trade'[s] = "REJECTED"
  PROVE  HonestInv'
<1>1. AnswerHonest'
  BY DEF HonestInv, AnswerHonest
<1>2. TradeHonest'
  BY DEF HonestInv, TradeHonest, Accepted, Settled
<1>3. BrokerFollows'
  BY DEF HonestInv, BrokerFollows
<1>4. QED
  BY <1>1, <1>2, <1>3 DEF HonestInv

\* Every step keeps the recorded outcomes honest.
LEMMA HonestStep ==
  ASSUME FenceInv, HonestInv, [Next]_vars
  PROVE  HonestInv'
<1> USE MoveEffect DEF db, clocks, recon, ledger
<1> TypeOK
  BY DEF FenceInv
<1>1. ASSUME NEW p \in Proc, NEW s \in Signal, SelectCandidate(p, s)
      PROVE  HonestInv'
  <2>1. /\ pc'[p] \in {"insert", "levels"}
        /\ \A q \in Proc : q # p => pc'[q] = pc[q] /\ cur'[q] = cur[q]
        /\ UNCHANGED <<sends, broker, trade, outcome>>
    BY <1>1 DEF TypeOK, SelectCandidate
  <2>2. QED
    BY <2>1, HonestQuiet
<1>2. ASSUME NEW p \in Proc,
             PersistSignal(p) \/ Levels(p) \/ Assess(p) \/ Submit(p) \/ Reserve(p)
               \/ Complete(p) \/ Stamp(p) \/ RetireGuards(p) \/ Crash(p)
      PROVE  HonestInv'
  <2>1. UNCHANGED <<sends, broker, trade>>
    BY <1>2 DEF PersistSignal, Levels, Assess, Submit, Reserve, Complete, Stamp,
       RejectSignal, RetireGuards, Crash
  <2>2. \/ Leave(p)
        \/ \E l \in Location \ {"finish"} : Goto(p, l)
    <3> {"levels", "assess", "submit", "complete", "reject", "authorize", "reserve",
         "send", "stamp"} \subseteq Location \ {"finish"}
      BY DEF Location
    <3> QED
      BY <1>2 DEF PersistSignal, Levels, Assess, Submit, Reserve, Complete, Stamp,
         RejectSignal, RetireGuards, Crash
  <2>3. QED
    BY <2>1, <2>2, HonestQuiet
<1>3. ASSUME NEW p \in Proc, ReserveAuthorization(p)
      PROVE  HonestInv'
  <2>1. UNCHANGED <<sends, broker, trade, cur, outcome>>
    BY <1>3 DEF ReserveAuthorization, Goto
  <2>2. \E l \in {"reserve", "reject"} : pc' = [pc EXCEPT ![p] = l]
    BY <1>3 DEF ReserveAuthorization, Goto
  <2>3. /\ pc'[p] # "finish"
        /\ \A q \in Proc : q # p => pc'[q] = pc[q]
    BY <2>2 DEF TypeOK
  <2>4. QED
    BY <2>1, <2>3, HonestQuiet
<1>4. ASSUME NEW p \in Proc, PersistRejection(p)
      PROVE  HonestInv'
  <2>1. Leave(p) /\ UNCHANGED <<sends, broker>>
    BY <1>4 DEF PersistRejection
  <2>2. \A s \in Signal : trade'[s] = trade[s] \/ trade'[s] = "REJECTED"
    BY <1>4 DEF TypeOK, PersistRejection
  <2>3. QED
    BY <2>1, <2>2, HonestQuiet
<1>5. ASSUME NEW p \in Proc, OrderSend(p)
      PROVE  HonestInv'
  <2>1. cur[p] \in Signal /\ sends[cur[p]] = 0
    BY <1>5 DEF FenceInv, HasCandidate, SoleSender, At, OrderSend
  <2>2. /\ sends' = [sends EXCEPT ![cur[p]] = @ + 1]
        /\ pc' = [pc EXCEPT ![p] = "finish"]
        /\ UNCHANGED <<trade, cur>>
    BY <1>5 DEF OrderSend
  <2>3. PICK b \in BrokerState :
          /\ broker' = [broker EXCEPT ![cur[p]] = b]
          /\ \E a \in Answers(b) : outcome' = [outcome EXCEPT ![p] = a]
    BY <1>5 DEF OrderSend
  <2>4. PICK a \in Answers(b) : outcome' = [outcome EXCEPT ![p] = a]
    BY <2>3
  <2>5. /\ sends'[cur[p]] = 1 /\ broker'[cur[p]] = b
        /\ \A s \in Signal : s # cur[p] => sends'[s] = sends[s] /\ broker'[s] = broker[s]
    BY <2>1, <2>2, <2>3 DEF TypeOK
  <2>6. /\ outcome'[p] = a /\ pc'[p] = "finish"
        /\ \A q \in Proc : q # p => outcome'[q] = outcome[q] /\ pc'[q] = pc[q]
    BY <2>2, <2>4 DEF TypeOK
  <2>7. AnswerHonest'
    <3>1. SUFFICES ASSUME NEW q \in Proc, pc'[q] = "finish"
                   PROVE  /\ sends'[cur[q]] > 0
                          /\ outcome'[q] \in Answers(broker'[cur[q]])
      BY <2>2 DEF AnswerHonest, Answers
    <3>2. CASE q = p
      BY <2>4, <2>5, <2>6, <3>2
    <3>3. CASE q # p
      <4>1. /\ pc[q] = "finish" /\ cur[q] \in Signal
            /\ sends[cur[q]] > 0 /\ outcome[q] \in Answers(broker[cur[q]])
        BY <2>6, <3>1, <3>3 DEF FenceInv, HasCandidate, HonestInv, AnswerHonest
      <4>2. cur[q] # cur[p]
        BY <2>1, <4>1
      <4>3. QED
        BY <2>5, <2>6, <3>3, <4>1, <4>2
    <3>4. QED
      BY <3>2, <3>3
  <2>8. TradeHonest'
    <3>1. ASSUME NEW s \in Signal, trade[s] \in Accepted
          PROVE  /\ sends'[s] > 0
                 /\ trade[s] \in Answers(broker'[s])
      <4>1. sends[s] > 0 /\ trade[s] \in Answers(broker[s])
        BY <3>1 DEF HonestInv, TradeHonest
      <4>2. s # cur[p]
        BY <2>1, <4>1
      <4>3. QED
        BY <2>5, <4>1, <4>2
    <3>2. ASSUME NEW s \in Signal, trade[s] \in Settled
          PROVE  \E t \in Signal : broker'[t] = "filled"
      <4>1. PICK t \in Signal : broker[t] = "filled"
        BY <3>2 DEF HonestInv, TradeHonest
      <4>2. t # cur[p]
        BY <2>1, <4>1 DEF HonestInv, BrokerFollows
      <4>3. QED
        BY <2>5, <4>1, <4>2
    <3>3. QED
      BY <2>2, <3>1, <3>2 DEF TradeHonest, Answers
  <2>9. BrokerFollows'
    BY <2>5 DEF HonestInv, BrokerFollows
  <2>10. QED
    BY <2>7, <2>8, <2>9 DEF HonestInv
<1>6. ASSUME NEW p \in Proc, Finish(p)
      PROVE  HonestInv'
  <2>1. Leave(p) /\ UNCHANGED <<sends, broker>>
    BY <1>6 DEF Finish
  <2>2. /\ cur[p] \in Signal /\ sends[cur[p]] > 0
        /\ outcome[p] \in Answers(broker[cur[p]])
    BY <1>6 DEF FenceInv, HasCandidate, HonestInv, AnswerHonest, At, Finish
  <2>3. trade' = trade \/ trade' = [trade EXCEPT ![cur[p]] = outcome[p]]
    BY <1>6 DEF Finish
  <2>4. AnswerHonest'
    BY <2>1 DEF HonestInv, AnswerHonest
  <2>5. outcome[p] \notin Settled
    <3>1. broker[cur[p]] \in BrokerState
      BY <2>2 DEF TypeOK
    <3>2. QED
      BY <2>2, <3>1, AnswersType DEF Answer, Settled
  <2>6. TradeHonest'
    BY <2>1, <2>2, <2>3, <2>5 DEF TypeOK, HonestInv, TradeHonest
  <2>7. BrokerFollows'
    BY <2>1 DEF HonestInv, BrokerFollows
  <2>8. QED
    BY <2>4, <2>6, <2>7 DEF HonestInv
<1>7. ASSUME NEW p \in Proc, ReconcileRead(p) \/ JudgeGuards(p)
      PROVE  HonestInv'
  <2>1. /\ pc'[p] \in {"judge", "retire"}
        /\ \A q \in Proc : q # p => pc'[q] = pc[q]
        /\ UNCHANGED <<sends, broker, trade, cur, outcome>>
    BY <1>7 DEF TypeOK, ReconcileRead, JudgeGuards
  <2>2. QED
    BY <2>1, HonestQuiet
<1>8. CASE UNCHANGED <<pc, cur, outcome, sends, broker, trade>>
  BY <1>8 DEF HonestInv, AnswerHonest, TradeHonest, BrokerFollows
<1>9. ASSUME NEW s \in Signal, AgeSignal(s) \/ AgeGuard(s)
      PROVE  HonestInv'
  BY <1>8, <1>9 DEF AgeSignal, AgeGuard
<1>10. CASE AuthorizeOneTrade
  BY <1>8, <1>10 DEF AuthorizeOneTrade
<1>11. CASE UNCHANGED vars
  BY <1>8, <1>11 DEF vars
<1>12. ASSUME NEW r \in Signal, BrokerFill(r)
       PROVE  HonestInv'
  <2>1. /\ broker[r] = "placed" /\ broker'[r] = "filled"
        /\ \A s \in Signal : s # r => broker'[s] = broker[s]
        /\ UNCHANGED <<pc, cur, outcome, sends, trade>>
    BY <1>12 DEF TypeOK, BrokerFill
  <2>2. \A s \in Signal : \A a \in Answers(broker[s]) : a \in Answers(broker'[s])
    BY <2>1 DEF Answers
  <2>3. AnswerHonest'
    BY <2>1, <2>2 DEF HonestInv, AnswerHonest, FenceInv, HasCandidate
  <2>4. TradeHonest'
    BY <2>1, <2>2 DEF HonestInv, TradeHonest
  <2>5. BrokerFollows'
    BY <2>1 DEF HonestInv, BrokerFollows
  <2>6. QED
    BY <2>3, <2>4, <2>5 DEF HonestInv
<1>13. ASSUME NEW p \in Proc, NEW r \in Signal, ApplyRow(p, r)
       PROVE  HonestInv'
  <2>1. /\ UNCHANGED <<pc, cur, outcome, sends, broker>>
        /\ \E t \in Signal : broker[t] = "filled"
    BY <1>13 DEF ApplyRow
  <2>2. \A s \in Signal : trade'[s] = trade[s] \/ trade'[s] \in Settled
    BY <1>13 DEF TypeOK, ApplyRow
  <2>3. TradeHonest'
    BY <2>1, <2>2 DEF HonestInv, TradeHonest, Accepted, Settled
  <2>4. AnswerHonest' /\ BrokerFollows'
    BY <2>1 DEF HonestInv, AnswerHonest, BrokerFollows
  <2>5. QED
    BY <2>3, <2>4 DEF HonestInv
<1>14. QED
  BY <1>1, <1>2, <1>3, <1>4, <1>5, <1>6, <1>7, <1>9, <1>10, <1>11, <1>12, <1>13
  DEF Next, Candidate, Reconcile

\* No recorded outcome claims more than the broker holds: every EXECUTED row stands
\* for a filled order of its signal, every SUBMITTED row for one the broker took, and
\* no row is closed unless some order of the bot was filled.
THEOREM RecordsAreHonest == Spec => []NoInventedTrade
<1>1. Init => HonestInv
  BY DEF Init, HonestInv, AnswerHonest, TradeHonest, BrokerFollows, Accepted, Settled, Absent
<1>2. FenceInv /\ HonestInv /\ [Next]_vars => FenceInv' /\ HonestInv'
  BY FenceStep, HonestStep
<1>3. FenceInv /\ HonestInv => NoInventedTrade
  <2>1. SUFFICES ASSUME FenceInv, HonestInv, NEW s \in Signal, trade[s] \in Accepted
                 PROVE  /\ trade[s] = "EXECUTED" => broker[s] = "filled"
                        /\ trade[s] = "SUBMITTED" => broker[s] # "none"
    BY DEF NoInventedTrade, Accepted, HonestInv, TradeHonest
  <2>2. trade[s] \in Answers(broker[s]) /\ broker[s] \in BrokerState
    BY <2>1 DEF HonestInv, TradeHonest, FenceInv, TypeOK
  <2>3. QED
    BY <2>2 DEF Answers, BrokerState
<1>4. QED
  BY FenceInit, <1>1, <1>2, <1>3, PTL DEF Spec

-----------------------------------------------------------------------------
(* The order path implements the order ledger *)

\* The signals an order went out for.
Sent == {s \in Signal : sends[s] > 0}

\* Live orders already sent, and one more about to be, fit into the authorizations
\* given: the one that paid for an order tells them apart.
LEMMA SentBelowGrants ==
  ASSUME FenceInv, GrantInv, Live, NEW p \in Proc, pc[p] = "send"
  PROVE  Cardinality(Sent) < grants
<1> DEFINE s == cur[p]
           With == Sent \cup {s}
           pays == [t \in With |-> IF t = s THEN held[p] ELSE paid[t]]
<1>1. s \in Signal /\ s \notin Sent
  BY DEF FenceInv, HasCandidate, SoleSender, Sent
<1>2. /\ \A q \in Proc : held[q] \in Nat
      /\ \A t \in Signal : paid[t] \in Nat
      /\ grants \in Nat
  BY DEF FenceInv, TypeOK
<1>3. held[p] # 0 /\ \A t \in Sent : paid[t] # 0 /\ paid[t] # held[p]
  BY DEF GrantInv, LiveIsPaid, GrantsDistinct, Sent
<1>4. pays \in [With -> 1..grants]
  BY <1>1, <1>2, <1>3 DEF GrantInv, GrantsGiven, Sent
<1>5. \A t, u \in With : pays[t] = pays[u] => t = u
  BY <1>1, <1>3 DEF GrantInv, GrantsDistinct, Sent
<1>6. pays \in Injection(With, 1..grants)
  BY <1>4, <1>5 DEF Injection, IsInjective
<1>7. IsFiniteSet(1..grants) /\ Cardinality(1..grants) = grants
  BY <1>2, FS_Interval
<1>8. IsFiniteSet(With) /\ Cardinality(With) <= grants
  BY <1>6, <1>7, FS_Injection
<1>9. IsFiniteSet(Sent)
  BY <1>8, FS_Subset
<1>10. Cardinality(With) = Cardinality(Sent) + 1 /\ Cardinality(Sent) \in Nat
  BY <1>1, <1>9, FS_AddElement, FS_CardinalityType
<1>11. QED
  BY <1>2, <1>8, <1>10

\* A step of the order path is a step of the ledger or leaves it alone.
LEMMA LedgerStep ==
  ASSUME FenceInv, GrantInv, [Next]_vars
  PROVE  [Ledger!Next]_<<sends, grants>>
<1> USE DEF db, clocks, recon, ledger
<1>1. ASSUME NEW p \in Proc, OrderSend(p)
      PROVE  Ledger!Send(cur[p])
  <2>1. cur[p] \in Signal /\ sends[cur[p]] = 0 /\ pc[p] = "send"
    BY <1>1 DEF FenceInv, HasCandidate, SoleSender, At, OrderSend
  <2>2. sends' = [sends EXCEPT ![cur[p]] = @ + 1] /\ grants' = grants
    BY <1>1 DEF OrderSend
  <2>3. sends' = [sends EXCEPT ![cur[p]] = 1]
    BY <2>1, <2>2 DEF FenceInv, TypeOK
  <2>4. Live => Cardinality(Sent) < grants
    BY <2>1, SentBelowGrants
  <2>5. Ledger!Cardinality(Sent) = Cardinality(Sent)
    BY Zenon DEF Cardinality, Ledger!Cardinality
  <2>6. QED
    BY <2>1, <2>2, <2>3, <2>4, <2>5 DEF Ledger!Send, Sent
<1>2. CASE AuthorizeOneTrade
  BY <1>2 DEF AuthorizeOneTrade, Ledger!Next, Ledger!Grant
<1>3. ASSUME NEW p \in Proc, NEW s \in Signal, SelectCandidate(p, s)
      PROVE  UNCHANGED <<sends, grants>>
  BY <1>3 DEF SelectCandidate
<1>4. ASSUME NEW p \in Proc,
             PersistSignal(p) \/ Levels(p) \/ Assess(p) \/ Submit(p)
               \/ ReserveAuthorization(p) \/ PersistRejection(p) \/ Reserve(p)
               \/ Finish(p) \/ Complete(p) \/ Stamp(p) \/ Crash(p)
      PROVE  UNCHANGED <<sends, grants>>
  BY <1>4 DEF PersistSignal, Levels, Assess, Submit, ReserveAuthorization,
     PersistRejection, Reserve, Finish, Complete, Stamp, Crash, RejectSignal
<1>5. ASSUME NEW p \in Proc, Reconcile(p) \/ \E r \in Signal : ApplyRow(p, r)
      PROVE  UNCHANGED <<sends, grants>>
  BY <1>5 DEF Reconcile, ReconcileRead, JudgeGuards, RetireGuards, ApplyRow
<1>6. ASSUME NEW s \in Signal, AgeSignal(s) \/ AgeGuard(s) \/ BrokerFill(s)
      PROVE  UNCHANGED <<sends, grants>>
  BY <1>6 DEF AgeSignal, AgeGuard, BrokerFill
<1>7. CASE UNCHANGED <<sends, grants>>
  BY <1>7
<1>8. ASSUME NEW p \in Proc, OrderSend(p)
      PROVE  Ledger!Next
  <2>1. cur[p] \in Signal
    BY <1>8 DEF FenceInv, HasCandidate, At, OrderSend
  <2>2. QED
    BY <1>1, <1>8, <2>1 DEF Ledger!Next
<1>9. CASE UNCHANGED vars
  BY <1>7, <1>9 DEF vars
<1>10. QED
  BY <1>2, <1>3, <1>4, <1>5, <1>6, <1>7, <1>8, <1>9 DEF Next, Candidate

\* The order path implements the ledger: every history of processes, crashes and
\* retries is, call by call, one order per signal and per authorization; a second
\* call for a signal would be no step of the ledger.
THEOREM ImplementsLedger == Spec => LedgerSpec
<1>1. Init => Ledger!Init
  BY DEF Init, Ledger!Init
<1>2. Init => GrantInv
  BY DEF Init, GrantInv, GrantsGiven, GrantsDistinct, LiveIsPaid
<1>3. FenceInv /\ GrantInv /\ [Next]_vars => FenceInv' /\ GrantInv'
  BY FenceStep, GrantStep
<1>4. FenceInv /\ GrantInv /\ [Next]_vars => [Ledger!Next]_<<sends, grants>>
  BY LedgerStep
<1>5. QED
  BY FenceInit, <1>1, <1>2, <1>3, <1>4, PTL DEF Spec, LedgerSpec, Ledger!Spec

-----------------------------------------------------------------------------
(* A single process, across its crashes *)

\* The market lease leaves one process on this path.
Alone == \A p, q \in Proc : p = q

\* The signal of the candidate at hand is open until the call returns.
OpenAtHand ==
    \A p \in Proc : pc[p] \notin {"idle", "insert", "judge", "retire"} =>
        sig[cur[p]] = "NEW"

\* What refused or reserves the candidate finds its key free, what sends it holds the key.
KeyAtHand ==
    \A p \in Proc :
        /\ pc[p] \in {"authorize", "reject", "reserve"} => guard[cur[p]] = Absent
        /\ pc[p] = "send" => guard[cur[p]] = "PENDING"

\* Reconciliation judges pending guards and abandons open signals only.
JudgedFairly ==
    \A p \in Proc : /\ \A s \in Signal : verdict[p][s] # Absent => guard[s] = "PENDING"
                    /\ \A s \in abandon[p] : sig[s] = "NEW"

SoloInv == /\ SignalReflectsOutcome /\ OwnRefusalsUnsent
           /\ OpenAtHand /\ KeyAtHand /\ JudgedFairly

\* Nothing is recorded for an open signal.
LEMMA OpenIsUnrecorded ==
  ASSUME TypeOK, SignalReflectsOutcome, NEW s \in Signal, sig[s] \in {Absent, "NEW"}
  PROVE  trade[s] = Absent
BY DEF TypeOK, SignalReflectsOutcome, TradeStatus, Answer, Settled, Absent

\* A move that writes at most an open signal's row, and no trade, guard or order.
LEMMA SoloMove ==
  ASSUME FenceInv, SoloInv, Alone, NEW p \in Proc,
         Leave(p) \/ \E l : Goto(p, l),
         UNCHANGED <<trade, guard, sends, recon>>,
         \A s \in Signal : sig'[s] # sig[s] => sig[s] \in {Absent, "NEW"},
         abandon[p] = {} \/ sig' = sig,
         pc'[p] \notin {"idle", "insert", "judge", "retire"} => sig'[cur[p]] = "NEW",
         pc'[p] \in {"authorize", "reject", "reserve"} => guard[cur[p]] = Absent,
         pc'[p] # "send"
  PROVE  SoloInv'
<1> USE DEF recon
<1>1. \A q \in Proc : q = p
  BY DEF Alone
<1>2. SignalReflectsOutcome'
  <2>1. \A s \in Signal : sig'[s] = sig[s] \/ trade[s] = Absent
    BY OpenIsUnrecorded DEF SoloInv, FenceInv
  <2>2. QED
    BY <2>1 DEF SoloInv, SignalReflectsOutcome, Answer, Settled, Absent
<1>3. OwnRefusalsUnsent'
  BY DEF SoloInv, OwnRefusalsUnsent
<1>4. CASE Leave(p)
  <2>1. pc'[p] = "idle"
    BY <1>4, MoveEffect DEF FenceInv
  <2>2. OpenAtHand' /\ KeyAtHand'
    BY <1>1, <2>1 DEF OpenAtHand, KeyAtHand
  <2>3. JudgedFairly'
    BY <1>1 DEF SoloInv, JudgedFairly
  <2>4. QED
    BY <1>2, <1>3, <2>2, <2>3 DEF SoloInv
<1>5. CASE \E l : Goto(p, l)
  <2>1. cur' = cur
    BY <1>5 DEF Goto
  <2>2. OpenAtHand' /\ KeyAtHand'
    BY <1>1, <2>1 DEF OpenAtHand, KeyAtHand
  <2>3. JudgedFairly'
    BY <1>1 DEF SoloInv, JudgedFairly
  <2>4. QED
    BY <1>2, <1>3, <2>2, <2>3 DEF SoloInv
<1>6. QED
  BY <1>4, <1>5

\* Reconciliation's plans are dropped with the candidate they were made before.
PlansAreFresh ==
    \A p \in Proc : pc[p] # "retire" => abandon[p] = {} /\ verdict[p] = NoVerdict

\* Every step of the single process keeps the records consistent.
LEMMA SoloStep ==
  ASSUME FenceInv, HonestInv, SoloInv, PlansAreFresh, Alone, [Next]_vars
  PROVE  SoloInv'
<1> USE MoveEffect DEF db, clocks, recon, ledger, At
<1>0. TypeOK /\ \A p, q \in Proc : p = q
  BY DEF FenceInv, Alone
<1>1. ASSUME NEW p \in Proc, NEW s \in Signal, SelectCandidate(p, s)
      PROVE  SoloInv'
  <2>1. /\ UNCHANGED <<sig, trade, guard, sends, recon>>
        /\ cur'[p] = s
        /\ \/ pc'[p] = "insert"
           \/ pc'[p] = "levels" /\ sig[s] = "NEW"
    BY <1>0, <1>1 DEF TypeOK, SelectCandidate, Retryable
  <2>2. OpenAtHand' /\ KeyAtHand'
    BY <1>0, <2>1 DEF OpenAtHand, KeyAtHand
  <2>3. QED
    BY <2>1, <2>2 DEF SoloInv, SignalReflectsOutcome, OwnRefusalsUnsent, JudgedFairly
<1>2. ASSUME NEW p \in Proc, PersistSignal(p)
      PROVE  SoloInv'
  <2>1. cur[p] \in Signal /\ abandon[p] = {}
    BY <1>2 DEF FenceInv, HasCandidate, PlansAreFresh, PersistSignal
  <2>2. UNCHANGED <<trade, guard, sends, recon>>
    BY <1>2 DEF PersistSignal
  <2>3. \/ Leave(p) /\ sig' = sig
        \/ /\ sig[cur[p]] = Absent
           /\ sig' = [sig EXCEPT ![cur[p]] = "NEW"]
           /\ Goto(p, "levels")
    BY <1>2 DEF PersistSignal
  <2>4. \A s \in Signal : sig'[s] # sig[s] => sig[s] \in {Absent, "NEW"}
    BY <1>0, <2>1, <2>3 DEF TypeOK
  <2>5. \/ pc'[p] = "idle"
        \/ pc'[p] = "levels" /\ sig'[cur[p]] = "NEW"
    BY <1>0, <2>1, <2>3 DEF TypeOK
  <2>6. QED
    BY <2>1, <2>2, <2>3, <2>4, <2>5, SoloMove
<1>3. ASSUME NEW p \in Proc, NEW status,
             pc[p] \notin {"idle", "insert", "judge", "retire"},
             RejectSignal(p, status)
      PROVE  SoloInv'
  <2>1. cur[p] \in Signal /\ abandon[p] = {} /\ sig[cur[p]] = "NEW"
    BY <1>3 DEF FenceInv, HasCandidate, PlansAreFresh, SoloInv, OpenAtHand
  <2>2. /\ UNCHANGED <<trade, guard, sends, recon>>
        /\ sig' = [sig EXCEPT ![cur[p]] = status]
        /\ Leave(p)
    BY <1>3 DEF RejectSignal
  <2>3. \A s \in Signal : sig'[s] # sig[s] => sig[s] \in {Absent, "NEW"}
    BY <1>0, <2>1, <2>2 DEF TypeOK
  <2>4. pc'[p] = "idle"
    BY <1>0, <2>2
  <2>5. QED
    BY <2>1, <2>2, <2>3, <2>4, SoloMove
<1>4. ASSUME NEW p \in Proc, NEW l \in Location, Goto(p, l), UNCHANGED <<db, sends, recon>>,
             pc[p] \notin {"idle", "insert", "judge", "retire"},
             l \notin {"insert", "send"},
             l \in {"authorize", "reject", "reserve"} => guard[cur[p]] = Absent
      PROVE  SoloInv'
  <2>1. sig[cur[p]] = "NEW"
    BY <1>4 DEF SoloInv, OpenAtHand
  <2>2. pc'[p] = l
    BY <1>0, <1>4
  <2>3. QED
    BY <1>4, <2>1, <2>2, SoloMove
<1>5. ASSUME NEW p \in Proc, Levels(p) \/ Assess(p) \/ Stamp(p)
      PROVE  SoloInv'
  BY <1>3, <1>4, <1>5, Vocabulary DEF Levels, Assess, Stamp
<1>6. ASSUME NEW p \in Proc, Submit(p)
      PROVE  SoloInv'
  BY <1>4, <1>6, Vocabulary DEF Submit, DuplicateOrderExists
<1>7. ASSUME NEW p \in Proc, ReserveAuthorization(p)
      PROVE  SoloInv'
  <2>1. /\ UNCHANGED <<sig, trade, guard, sends, recon, cur>>
        /\ pc'[p] \in {"reserve", "reject"}
    BY <1>0, <1>7 DEF TypeOK, ReserveAuthorization, Goto
  <2>2. sig[cur[p]] = "NEW" /\ guard[cur[p]] = Absent
    BY <1>7 DEF SoloInv, OpenAtHand, KeyAtHand, ReserveAuthorization
  <2>3. OpenAtHand' /\ KeyAtHand'
    BY <1>0, <2>1, <2>2 DEF OpenAtHand, KeyAtHand
  <2>4. QED
    BY <2>1, <2>3 DEF SoloInv, SignalReflectsOutcome, OwnRefusalsUnsent, JudgedFairly
<1>8. ASSUME NEW p \in Proc, PersistRejection(p)
      PROVE  SoloInv'
  <2>1. /\ cur[p] \in Signal /\ abandon[p] = {}
        /\ sig[cur[p]] = "NEW" /\ guard[cur[p]] = Absent
    BY <1>8 DEF FenceInv, HasCandidate, PlansAreFresh, SoloInv, OpenAtHand, KeyAtHand,
       PersistRejection
  <2>2. ~(sends[cur[p]] > 0) /\ sends[cur[p]] \in Nat /\ trade[cur[p]] = Absent
    BY <1>0, <2>1, OpenIsUnrecorded DEF SoloInv, FenceInv, Fenced, TypeOK
  <2>3. /\ trade' = [trade EXCEPT ![cur[p]] = "REJECTED"]
        /\ sig' = [sig EXCEPT ![cur[p]] = "REJECTED"]
        /\ UNCHANGED <<guard, sends, recon>>
        /\ pc'[p] = "idle"
    BY <1>0, <1>8, <2>2 DEF PersistRejection
  <2>4. /\ trade'[cur[p]] = "REJECTED" /\ sig'[cur[p]] = "REJECTED"
        /\ \A s \in Signal : s # cur[p] => trade'[s] = trade[s] /\ sig'[s] = sig[s]
    BY <1>0, <2>1, <2>3 DEF TypeOK
  <2>5. SignalReflectsOutcome'
    BY <2>4 DEF SoloInv, SignalReflectsOutcome, Settled
  <2>6. OwnRefusalsUnsent'
    BY <2>2, <2>3, <2>4 DEF SoloInv, OwnRefusalsUnsent
  <2>7. OpenAtHand' /\ KeyAtHand' /\ JudgedFairly'
    BY <1>0, <2>1, <2>3 DEF SoloInv, OpenAtHand, KeyAtHand, JudgedFairly
  <2>8. QED
    BY <2>5, <2>6, <2>7 DEF SoloInv
<1>9. ASSUME NEW p \in Proc, Reserve(p)
      PROVE  SoloInv'
  <2>1. /\ cur[p] \in Signal /\ abandon[p] = {}
        /\ sig[cur[p]] = "NEW" /\ guard[cur[p]] = Absent
    BY <1>9 DEF FenceInv, HasCandidate, PlansAreFresh, SoloInv, OpenAtHand, KeyAtHand, Reserve
  <2>2. /\ guard' = [guard EXCEPT ![cur[p]] = "PENDING"]
        /\ UNCHANGED <<sig, trade, sends, recon, cur>>
        /\ pc'[p] = "send"
    BY <1>0, <1>9, <2>1 DEF Reserve, Goto
  <2>3. /\ guard'[cur[p]] = "PENDING"
        /\ \A s \in Signal : s # cur[p] => guard'[s] = guard[s]
    BY <1>0, <2>1, <2>2 DEF TypeOK
  <2>9. trade[cur[p]] = Absent
    BY <1>0, <2>1, OpenIsUnrecorded DEF SoloInv
  <2>4. OwnRefusalsUnsent'
    BY <2>2, <2>3, <2>9 DEF SoloInv, OwnRefusalsUnsent, Absent
  <2>5. OpenAtHand' /\ KeyAtHand'
    BY <1>0, <2>1, <2>2, <2>3 DEF OpenAtHand, KeyAtHand
  <2>6. JudgedFairly'
    BY <1>0, <1>9, <2>2, <2>3 DEF SoloInv, JudgedFairly, PlansAreFresh, NoVerdict, Reserve
  <2>7. QED
    BY <2>2, <2>4, <2>5, <2>6 DEF SoloInv, SignalReflectsOutcome
<1>10. ASSUME NEW p \in Proc, OrderSend(p)
      PROVE  SoloInv'
  <2>1. /\ cur[p] \in Signal /\ sig[cur[p]] = "NEW" /\ guard[cur[p]] = "PENDING"
    BY <1>10 DEF FenceInv, HasCandidate, SoloInv, OpenAtHand, KeyAtHand, OrderSend
  <2>2. trade[cur[p]] = Absent
    BY <1>0, <2>1, OpenIsUnrecorded DEF SoloInv
  <2>3. /\ UNCHANGED <<sig, trade, guard, recon, cur>>
        /\ \A s \in Signal : s # cur[p] => sends'[s] = sends[s]
        /\ pc'[p] = "finish"
    BY <1>0, <1>10 DEF TypeOK, OrderSend
  <2>4. OwnRefusalsUnsent'
    BY <2>1, <2>2, <2>3 DEF SoloInv, OwnRefusalsUnsent, Absent
  <2>5. OpenAtHand' /\ KeyAtHand'
    BY <1>0, <2>1, <2>3 DEF OpenAtHand, KeyAtHand
  <2>6. QED
    BY <2>3, <2>4, <2>5 DEF SoloInv, SignalReflectsOutcome, JudgedFairly
<1>11. ASSUME NEW p \in Proc, Finish(p)
      PROVE  SoloInv'
  <2>1. /\ cur[p] \in Signal /\ sig[cur[p]] = "NEW" /\ abandon[p] = {}
        /\ outcome[p] \in Answer /\ outcome[p] \in Answers(broker[cur[p]])
    BY <1>11 DEF FenceInv, HasCandidate, HasAnswer, SoloInv, OpenAtHand, PlansAreFresh,
       HonestInv, AnswerHonest, Finish
  <2>2. trade[cur[p]] = Absent /\ broker[cur[p]] \in BrokerState
    BY <1>0, <2>1, OpenIsUnrecorded DEF SoloInv, TypeOK
  <2>3. /\ trade' = [trade EXCEPT ![cur[p]] = outcome[p]]
        /\ guard' = [guard EXCEPT ![cur[p]] = outcome[p]]
        /\ sig' = [sig EXCEPT ![cur[p]] = outcome[p]]
        /\ UNCHANGED <<sends, recon>>
        /\ pc'[p] = "idle"
    BY <1>0, <1>11, <2>2 DEF Finish
  <2>4. /\ trade'[cur[p]] = outcome[p] /\ guard'[cur[p]] = outcome[p]
        /\ sig'[cur[p]] = outcome[p]
        /\ \A s \in Signal : s # cur[p] =>
             trade'[s] = trade[s] /\ guard'[s] = guard[s] /\ sig'[s] = sig[s]
    BY <1>0, <2>1, <2>3 DEF TypeOK
  <2>5. outcome[p] \notin Settled
    BY <2>1 DEF Answer, Settled
  <2>6. SignalReflectsOutcome'
    BY <2>4, <2>5 DEF SoloInv, SignalReflectsOutcome
  <2>7. OwnRefusalsUnsent'
    BY <2>3, <2>4 DEF SoloInv, OwnRefusalsUnsent
  <2>8. OpenAtHand' /\ KeyAtHand'
    BY <1>0, <2>3 DEF OpenAtHand, KeyAtHand
  <2>9. JudgedFairly'
    <3>1. verdict[p] = NoVerdict
      BY <1>11 DEF PlansAreFresh, Finish
    <3>2. verdict' = verdict /\ abandon' = abandon
      BY <2>3
    <3>3. QED
      BY <1>0, <2>1, <3>1, <3>2 DEF JudgedFairly, NoVerdict
  <2>10. QED
    BY <2>6, <2>7, <2>8, <2>9 DEF SoloInv
<1>12. ASSUME NEW p \in Proc, Complete(p)
      PROVE  SoloInv'
  <2>1. sig[cur[p]] = "NEW"
    BY <1>12 DEF SoloInv, OpenAtHand, Complete
  <2>2. Goto(p, "stamp") /\ UNCHANGED <<db, sends, recon>>
    BY <1>12, <2>1 DEF Complete
  <2>3. QED
    BY <1>4, <1>12, <2>2, Vocabulary DEF Complete
<1>13. ASSUME NEW p \in Proc, ReconcileRead(p)
      PROVE  SoloInv'
  <2>1. pc'[p] = "judge" /\ UNCHANGED <<db, sends, verdict, abandon>>
    BY <1>0, <1>13 DEF TypeOK, ReconcileRead
  <2>2. OpenAtHand' /\ KeyAtHand' /\ JudgedFairly'
    BY <1>0, <2>1 DEF SoloInv, OpenAtHand, KeyAtHand, JudgedFairly
  <2>3. QED
    BY <2>1, <2>2 DEF SoloInv, SignalReflectsOutcome, OwnRefusalsUnsent
<1>14. ASSUME NEW p \in Proc, JudgeGuards(p)
      PROVE  SoloInv'
  <2>1. pc'[p] = "retire" /\ UNCHANGED <<db, sends>>
    BY <1>0, <1>14 DEF TypeOK, JudgeGuards
  <2>2. /\ verdict'[p] = [s \in Signal |-> VerdictOn(s, seen[p])]
        /\ \A s \in abandon'[p] : sig[s] = "NEW"
    BY <1>0, <1>14 DEF TypeOK, JudgeGuards
  <2>3. \A s \in Signal : VerdictOn(s, seen[p]) # Absent => guard[s] = "PENDING"
    BY DEF VerdictOn, Absent
  <2>4. OpenAtHand' /\ KeyAtHand' /\ JudgedFairly'
    BY <1>0, <2>1, <2>2, <2>3 DEF OpenAtHand, KeyAtHand, JudgedFairly
  <2>5. QED
    BY <2>1, <2>4 DEF SoloInv, SignalReflectsOutcome, OwnRefusalsUnsent
<1>15. ASSUME NEW p \in Proc, RetireGuards(p)
      PROVE  SoloInv'
  <2>1. /\ pc'[p] = "idle" /\ UNCHANGED <<trade, sends>>
        /\ \A s \in Signal : guard'[s] = IF verdict[p][s] = Absent THEN guard[s]
                                                                  ELSE verdict[p][s]
        /\ \A s \in Signal : sig'[s] = IF s \in abandon[p] THEN "ABANDONED" ELSE sig[s]
        /\ verdict'[p] = NoVerdict /\ abandon'[p] = {}
    BY <1>0, <1>15 DEF TypeOK, RetireGuards
  <2>2. SignalReflectsOutcome'
    BY <1>0, <2>1, OpenIsUnrecorded
    DEF SoloInv, SignalReflectsOutcome, JudgedFairly, Answer, Settled, Absent
  <2>3. OwnRefusalsUnsent'
    BY <2>1 DEF SoloInv, OwnRefusalsUnsent, JudgedFairly
  <2>4. OpenAtHand' /\ KeyAtHand' /\ JudgedFairly'
    BY <1>0, <2>1 DEF OpenAtHand, KeyAtHand, JudgedFairly, NoVerdict, Absent
  <2>5. QED
    BY <2>2, <2>3, <2>4 DEF SoloInv
<1>16. ASSUME NEW p \in Proc, Crash(p)
      PROVE  SoloInv'
  <2>1. /\ pc'[p] = "idle" /\ UNCHANGED <<db, sends>>
        /\ verdict'[p] = NoVerdict /\ abandon'[p] = {}
    BY <1>0, <1>16 DEF TypeOK, Crash
  <2>2. OpenAtHand' /\ KeyAtHand' /\ JudgedFairly'
    BY <1>0, <2>1 DEF OpenAtHand, KeyAtHand, JudgedFairly, NoVerdict, Absent
  <2>3. QED
    BY <2>1, <2>2 DEF SoloInv, SignalReflectsOutcome, OwnRefusalsUnsent
<1>17. CASE UNCHANGED <<db, sends, pc, cur, recon>>
  BY <1>17 DEF SoloInv, SignalReflectsOutcome, OwnRefusalsUnsent, OpenAtHand, KeyAtHand,
     JudgedFairly
<1>18. ASSUME NEW s \in Signal, AgeSignal(s) \/ AgeGuard(s)
      PROVE  SoloInv'
  BY <1>17, <1>18 DEF AgeSignal, AgeGuard
<1>19. CASE AuthorizeOneTrade
  BY <1>17, <1>19 DEF AuthorizeOneTrade
<1>20. CASE UNCHANGED vars
  BY <1>17, <1>20 DEF vars
<1>21. ASSUME NEW r \in Signal, BrokerFill(r)
       PROVE  SoloInv'
  BY <1>17, <1>21 DEF BrokerFill
<1>22. ASSUME NEW p \in Proc, NEW r \in Signal, ApplyRow(p, r)
       PROVE  SoloInv'
  <2>1. /\ UNCHANGED <<sig, guard, sends, pc, cur, recon>>
        /\ trade[r] \in Matchable /\ trade'[r] \in Settled
        /\ \A s \in Signal : s # r => trade'[s] = trade[s]
    BY <1>0, <1>22 DEF TypeOK, ApplyRow
  <2>2. SignalReflectsOutcome'
    BY <2>1 DEF SoloInv, SignalReflectsOutcome, Matchable, Answer, Settled
  <2>3. OwnRefusalsUnsent'
    BY <2>1 DEF SoloInv, OwnRefusalsUnsent, Settled
  <2>4. OpenAtHand' /\ KeyAtHand' /\ JudgedFairly'
    BY <2>1 DEF SoloInv, OpenAtHand, KeyAtHand, JudgedFairly
  <2>5. QED
    BY <2>2, <2>3, <2>4 DEF SoloInv
<1>23. QED
  BY <1>1, <1>2, <1>5, <1>6, <1>7, <1>8, <1>9, <1>10, <1>11, <1>12, <1>13, <1>14, <1>15,
     <1>16, <1>18, <1>19, <1>20, <1>21, <1>22
  DEF Next, Candidate, Reconcile

\* Plans exist between the judgement and its commit, and a crash drops them.
LEMMA PlansStep ==
  ASSUME TypeOK, PlansAreFresh, [Next]_vars
  PROVE  PlansAreFresh'
<1> USE MoveEffect DEF db, clocks, recon, ledger, At
<1>1. ASSUME NEW p \in Proc, pc[p] # "retire", UNCHANGED <<abandon, verdict>>,
             \A q \in Proc : q # p => pc'[q] = pc[q]
      PROVE  PlansAreFresh'
  BY <1>1 DEF PlansAreFresh
<1>2. ASSUME NEW p \in Proc, NEW s \in Signal, SelectCandidate(p, s)
      PROVE  PlansAreFresh'
  <2>1. \A q \in Proc : q # p => pc'[q] = pc[q]
    BY <1>2 DEF TypeOK, SelectCandidate
  <2>2. QED
    BY <1>1, <1>2, <2>1 DEF SelectCandidate
<1>3. ASSUME NEW p \in Proc,
             PersistSignal(p) \/ Levels(p) \/ Assess(p) \/ Submit(p) \/ PersistRejection(p)
               \/ Reserve(p) \/ Finish(p) \/ Complete(p) \/ Stamp(p)
      PROVE  PlansAreFresh'
  <2>1. /\ Leave(p) \/ \E l : Goto(p, l)
        /\ pc[p] # "retire" /\ UNCHANGED <<abandon, verdict>>
    BY <1>3 DEF PersistSignal, Levels, Assess, Submit, PersistRejection, Reserve, Finish,
       Complete, Stamp, RejectSignal
  <2>2. \A q \in Proc : q # p => pc'[q] = pc[q]
    BY <2>1
  <2>3. QED
    BY <1>1, <2>1, <2>2
<1>4. ASSUME NEW p \in Proc, ReserveAuthorization(p) \/ OrderSend(p) \/ ReconcileRead(p)
      PROVE  PlansAreFresh'
  <2>1. pc[p] # "retire" /\ UNCHANGED <<abandon, verdict>>
    BY <1>4 DEF ReserveAuthorization, OrderSend, ReconcileRead
  <2>2. \A q \in Proc : q # p => pc'[q] = pc[q]
    BY <1>4 DEF TypeOK, ReserveAuthorization, Goto, OrderSend, ReconcileRead
  <2>3. QED
    BY <1>1, <2>1, <2>2
<1>5. ASSUME NEW p \in Proc, JudgeGuards(p)
      PROVE  PlansAreFresh'
  <2>1. /\ pc'[p] = "retire"
        /\ \A q \in Proc : q # p => /\ pc'[q] = pc[q] /\ abandon'[q] = abandon[q]
                                     /\ verdict'[q] = verdict[q]
    BY <1>5 DEF TypeOK, JudgeGuards
  <2>2. QED
    BY <2>1 DEF PlansAreFresh
<1>6. ASSUME NEW p \in Proc, RetireGuards(p) \/ Crash(p)
      PROVE  PlansAreFresh'
  <2>1. /\ Leave(p) /\ abandon' = [abandon EXCEPT ![p] = {}]
        /\ verdict' = [verdict EXCEPT ![p] = NoVerdict]
    BY <1>6 DEF RetireGuards, Crash
  <2>2. /\ abandon'[p] = {} /\ verdict'[p] = NoVerdict
        /\ \A q \in Proc : q # p => /\ pc'[q] = pc[q] /\ abandon'[q] = abandon[q]
                                     /\ verdict'[q] = verdict[q]
    BY <2>1 DEF TypeOK
  <2>3. QED
    BY <2>2 DEF PlansAreFresh
<1>7. CASE UNCHANGED <<pc, abandon, verdict>>
  BY <1>7 DEF PlansAreFresh
<1>8. ASSUME NEW s \in Signal,
             AgeSignal(s) \/ AgeGuard(s) \/ BrokerFill(s)
               \/ \E p \in Proc : ApplyRow(p, s)
      PROVE  PlansAreFresh'
  BY <1>7, <1>8 DEF AgeSignal, AgeGuard, BrokerFill, ApplyRow
<1>9. CASE AuthorizeOneTrade
  BY <1>7, <1>9 DEF AuthorizeOneTrade
<1>10. CASE UNCHANGED vars
  BY <1>7, <1>10 DEF vars
<1>11. QED
  BY <1>2, <1>3, <1>4, <1>5, <1>6, <1>8, <1>9, <1>10 DEF Next, Candidate, Reconcile

AloneInv == FenceInv /\ HonestInv /\ SoloInv /\ PlansAreFresh

\* The records are consistent at first, and every step keeps them so.
LEMMA AloneInit == Init => AloneInv
<1>1. Init => FenceInv
  BY FenceInit
<1>2. Init => HonestInv
  BY DEF Init, HonestInv, AnswerHonest, TradeHonest, BrokerFollows, Accepted, Settled, Absent
<1>3. Init => SoloInv /\ PlansAreFresh
  BY DEF Init, SoloInv, SignalReflectsOutcome, OwnRefusalsUnsent, OpenAtHand, KeyAtHand,
     JudgedFairly, PlansAreFresh, NoVerdict, Absent, Answer, Settled
<1>4. QED
  BY <1>1, <1>2, <1>3 DEF AloneInv

LEMMA AloneNext ==
  ASSUME Alone, AloneInv, [Next]_vars
  PROVE  AloneInv'
<1>1. TypeOK
  BY DEF AloneInv, FenceInv
<1>2. QED
  BY <1>1, FenceStep, HonestStep, SoloStep, PlansStep DEF AloneInv

\* An order goes out for an open signal without a record.
LEMMA SendsOpen ==
  ASSUME AloneInv, [Next]_vars, NEW s \in Signal, sends'[s] # sends[s]
  PROVE  sig[s] = "NEW" /\ trade[s] = Absent
<1> USE DEF db, clocks, recon, ledger, At
<1>0. TypeOK
  BY DEF AloneInv, FenceInv
<1>1. ASSUME NEW p \in Proc, OrderSend(p)
      PROVE  sig[s] = "NEW" /\ trade[s] = Absent
  <2>1. s = cur[p]
    BY <1>0, <1>1 DEF TypeOK, OrderSend
  <2>2. sig[s] = "NEW"
    BY <1>1, <2>1 DEF AloneInv, SoloInv, OpenAtHand, OrderSend
  <2>3. QED
    BY <1>0, <2>2, OpenIsUnrecorded DEF AloneInv, SoloInv
<1>2. ASSUME NEW p \in Proc, NEW t \in Signal, SelectCandidate(p, t)
      PROVE  FALSE
  BY <1>2 DEF SelectCandidate
<1>3. ASSUME NEW p \in Proc,
             PersistSignal(p) \/ Levels(p) \/ Assess(p) \/ Submit(p)
               \/ ReserveAuthorization(p) \/ PersistRejection(p) \/ Reserve(p)
               \/ Finish(p) \/ Complete(p) \/ Stamp(p) \/ Crash(p)
      PROVE  FALSE
  BY <1>3 DEF PersistSignal, Levels, Assess, Submit, ReserveAuthorization,
     PersistRejection, Reserve, Finish, Complete, Stamp, Crash, RejectSignal
<1>4. ASSUME NEW p \in Proc, Reconcile(p) \/ \E r \in Signal : ApplyRow(p, r)
      PROVE  FALSE
  BY <1>4 DEF Reconcile, ReconcileRead, JudgeGuards, RetireGuards, ApplyRow
<1>5. ASSUME NEW t \in Signal, AgeSignal(t) \/ AgeGuard(t) \/ BrokerFill(t)
      PROVE  FALSE
  BY <1>5 DEF AgeSignal, AgeGuard, BrokerFill
<1>6. CASE AuthorizeOneTrade
  BY <1>6 DEF AuthorizeOneTrade
<1>7. CASE UNCHANGED vars
  BY <1>7 DEF vars
<1>8. QED
  BY <1>1, <1>2, <1>3, <1>4, <1>5, <1>6, <1>7 DEF Next, Candidate

\* While one process runs the loop, the signal of every recorded trade shows the
\* answer of its order, whatever crashed or was retired around it, and goes on
\* showing one when reconciliation has closed the trade.
THEOREM SignalsReflect == Alone => (Spec => []SignalReflectsOutcome)
<1> SUFFICES ASSUME Alone
             PROVE  Spec => []SignalReflectsOutcome
  OBVIOUS
<1>1. AloneInv /\ [Next]_vars => AloneInv'
  BY AloneNext
<1>2. AloneInv => SignalReflectsOutcome
  BY DEF AloneInv, SoloInv
<1>3. QED
  BY AloneInit, <1>1, <1>2, PTL DEF Spec

\* While one process runs the loop, no refusal of the bot's own is on the books for
\* a signal that an order went out for, over crashes, retries and retired guards.
THEOREM RefusedMeansUnsent == Alone => (Spec => []OwnRefusalsUnsent)
<1> SUFFICES ASSUME Alone
             PROVE  Spec => []OwnRefusalsUnsent
  OBVIOUS
<1>1. AloneInv /\ [Next]_vars => AloneInv'
  BY AloneNext
<1>2. AloneInv => OwnRefusalsUnsent
  BY DEF AloneInv, SoloInv
<1>3. QED
  BY AloneInit, <1>1, <1>2, PTL DEF Spec

\* While one process runs the loop, an order leaves only for a signal that is still
\* open and has no record.
THEOREM SentWhileOpen == Alone => (Spec => OnlyOpenSignalsSent)
<1> SUFFICES ASSUME Alone
             PROVE  Spec => OnlyOpenSignalsSent
  OBVIOUS
<1>1. AloneInv /\ [Next]_vars => AloneInv'
  BY AloneNext
<1>2. AloneInv /\ [Next]_vars =>
        [\A s \in Signal : sends'[s] # sends[s] => sig[s] = "NEW" /\ trade[s] = Absent]_vars
  BY SendsOpen
<1>3. QED
  BY AloneInit, <1>1, <1>2, PTL DEF Spec, OnlyOpenSignalsSent

=============================================================================
