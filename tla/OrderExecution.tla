--------------------------- MODULE OrderExecution ---------------------------
(***************************************************************************)
(* The path of one candidate from the market loop to the broker:           *)
(* MarketScheduler._submit_candidate (services/scheduler.py),              *)
(* ExecutionService.submit (execution/service.py), the single live-trade   *)
(* authorization (risk/state.py), and what reconciliation writes over its  *)
(* records: closed trades and retired guards (services/reconciliation.py). *)
(*                                                                         *)
(* A step is what happens between two database commits (or around the one  *)
(* call of gateway.order_send), so that any number of engine processes     *)
(* interleave, crash and restart exactly where the code lets them.  The    *)
(* market lease normally leaves one process on this path; nothing here     *)
(* relies on it, because the fences below are what the code relies on      *)
(* when the lease is lost.                                                 *)
(*                                                                         *)
(* A signal stands for one signal identity: the code uses it as signal id, *)
(* trade id and idempotency key at once.  Time is abstracted to what the   *)
(* code compares it with: whether stale_guard_seconds have passed.         *)
(*                                                                         *)
(* Operators introduced by "Fault:" are not the code and not part of the   *)
(* specification.  Each one is a plausible defect of the definition after  *)
(* it, and some property of this module fails when it takes its place.     *)
(***************************************************************************)
EXTENDS Naturals, FiniteSets

CONSTANTS
    Proc,       \* engine processes, each with one thread that runs cycles
    Signal,     \* signal identities the strategies produce
    NoSignal,   \* no candidate at hand, or an unspent authorization
    Live,       \* settings.live_orders_permitted
    MaxGrants   \* bound: live authorizations ever given, the first included

ASSUME NoSignalAssumption == NoSignal \notin Signal
ASSUME LiveAssumption == Live \in BOOLEAN
ASSUME MaxGrantsAssumption == MaxGrants \in Nat \ {0}

VARIABLES
    sig,        \* SignalRecord.status of every identity
    trade,      \* TradeRecord.status
    guard,      \* ExecutionGuardRecord.status
    consumedBy, \* the trade that consumed the authorization, NoSignal if unspent
    aged,       \* identities whose candle closed over stale_guard_seconds ago
    guardAged,  \* PENDING guards created over stale_guard_seconds ago
    broker,     \* what the broker holds for the identity
    pc,         \* where each process is
    cur,        \* the candidate a process is working on
    outcome,    \* the broker's answer a process has not recorded yet
    seen,       \* identities a reconciling process found at the broker
    verdict,    \* the guard statuses it is about to write
    abandon,    \* the signals it is about to abandon
    sends,      \* history: calls of order_send per identity
    grants,     \* history: number of the latest authorization given
    held,       \* history: the authorization a process holds, 0 if none
    paid        \* history: the authorization that paid for the order, 0 if none

db       == <<sig, trade, guard>>
clocks   == <<aged, guardAged>>
recon    == <<seen, verdict, abandon>>
ledger   == <<grants, held, paid>>
vars     == <<db, consumedBy, clocks, broker, pc, cur, outcome, recon, sends, ledger>>

Absent == "ABSENT"   \* the row does not exist

SignalStatus == {Absent, "NEW", "REJECTED", "RISK_REJECTED", "DUPLICATE",
                 "FAILED", "EXECUTED", "SUBMITTED", "ABANDONED"}
Answer       == {"EXECUTED", "SUBMITTED", "REJECTED", "FAILED"}
Settled      == {"CLOSED", "PARTIALLY_CLOSED"}
TradeStatus  == Answer \cup Settled \cup {Absent}
GuardStatus  == Answer \cup {Absent, "PENDING", "RETIRED"}
BrokerState  == {"none", "placed", "filled"}
Accepted     == {"EXECUTED", "SUBMITTED"}
Location     == {"idle", "insert", "levels", "assess", "submit", "authorize",
                 "reject", "reserve", "send", "finish", "complete", "stamp",
                 "judge", "retire"}

NoVerdict == [s \in Signal |-> Absent]

TypeOK ==
    /\ sig \in [Signal -> SignalStatus]
    /\ trade \in [Signal -> TradeStatus]
    /\ guard \in [Signal -> GuardStatus]
    /\ consumedBy \in Signal \cup {NoSignal}
    /\ aged \subseteq Signal
    /\ guardAged \subseteq Signal
    /\ broker \in [Signal -> BrokerState]
    /\ pc \in [Proc -> Location]
    /\ cur \in [Proc -> Signal \cup {NoSignal}]
    /\ outcome \in [Proc -> Answer \cup {Absent}]
    /\ seen \in [Proc -> SUBSET Signal]
    /\ verdict \in [Proc -> [Signal -> GuardStatus]]
    /\ abandon \in [Proc -> SUBSET Signal]
    /\ sends \in [Signal -> Nat]
    /\ grants \in Nat
    /\ held \in [Proc -> Nat]
    /\ paid \in [Signal -> Nat]

Init ==
    /\ sig = [s \in Signal |-> Absent]
    /\ trade = [s \in Signal |-> Absent]
    /\ guard = [s \in Signal |-> Absent]
    /\ consumedBy = NoSignal
    /\ aged = {}
    /\ guardAged = {}
    /\ broker = [s \in Signal |-> "none"]
    /\ pc = [p \in Proc |-> "idle"]
    /\ cur = [p \in Proc |-> NoSignal]
    /\ outcome = [p \in Proc |-> Absent]
    /\ seen = [p \in Proc |-> {}]
    /\ verdict = [p \in Proc |-> NoVerdict]
    /\ abandon = [p \in Proc |-> {}]
    /\ sends = [s \in Signal |-> 0]
    /\ grants = 1
    /\ held = [p \in Proc |-> 0]
    /\ paid = [s \in Signal |-> 0]

-----------------------------------------------------------------------------
(* The candidate: MarketScheduler._submit_candidate *)

At(p, l) == pc[p] = l

\* Control moves on with the same candidate; nothing else local changes.
Goto(p, l) ==
    /\ pc' = [pc EXCEPT ![p] = l]
    /\ UNCHANGED <<cur, outcome, held>>

\* The call returns or raises: the process holds nothing of the candidate any more.
Leave(p) ==
    /\ pc' = [pc EXCEPT ![p] = "idle"]
    /\ cur' = [cur EXCEPT ![p] = NoSignal]
    /\ outcome' = [outcome EXCEPT ![p] = Absent]
    /\ held' = [held EXCEPT ![p] = 0]

\* Only the age of a PENDING guard is ever asked for, and none becomes PENDING twice.
ForgetGuardAge == guardAged' = {s \in guardAged : guard'[s] = "PENDING"}

\* Fault: the age is checked, the status is not.
RetryableAnyStatus(s) == s \in aged

\* _retryable: a crash left the signal NEW and its candle is old enough.
Retryable(s) == sig[s] = "NEW" /\ s \in aged

\* A strategy votes for s and the signal row is read. A recorded signal that is
\* not retryable is a DUPLICATE: the call returns without changing anything.
SelectCandidate(p, s) ==
    /\ At(p, "idle")
    /\ \/ sig[s] = Absent /\ pc' = [pc EXCEPT ![p] = "insert"]
       \/ Retryable(s) /\ pc' = [pc EXCEPT ![p] = "levels"]
    /\ cur' = [cur EXCEPT ![p] = s]
    /\ UNCHANGED <<db, consumedBy, clocks, broker, outcome, recon, sends, ledger>>

\* _persist_signal: signal_id is unique, so a row that appeared since the read
\* makes the insert raise and ends the cycle.
PersistSignal(p) ==
    /\ At(p, "insert")
    /\ IF sig[cur[p]] = Absent
       THEN /\ sig' = [sig EXCEPT ![cur[p]] = "NEW"]
            /\ Goto(p, "levels")
       ELSE /\ Leave(p)
            /\ UNCHANGED sig
    /\ UNCHANGED <<trade, guard, consumedBy, clocks, broker, recon, sends, grants, paid>>

\* _reject_signal writes the status whatever the row says by now.
RejectSignal(p, status) ==
    /\ sig' = [sig EXCEPT ![cur[p]] = status]
    /\ Leave(p)
    /\ UNCHANGED <<trade, guard, consumedBy, clocks, broker, recon, sends, grants, paid>>

\* _levels: the bracket is re-anchored to the market, or the candidate is rejected.
Levels(p) ==
    /\ At(p, "levels")
    /\ \/ RejectSignal(p, "REJECTED")
       \/ /\ Goto(p, "assess")
          /\ UNCHANGED <<db, consumedBy, clocks, broker, recon, sends, grants, paid>>

\* _duplicate_order_exists
DuplicateOrderExists(s) == trade[s] # Absent \/ guard[s] # Absent

\* RiskEngine.assess: any of its checks may refuse; the one about this path,
\* no_duplicate, always does when the signal has a trade or a guard.
Assess(p) ==
    /\ At(p, "assess")
    /\ \/ RejectSignal(p, "RISK_REJECTED")
       \/ /\ ~DuplicateOrderExists(cur[p])
          /\ Goto(p, "submit")
          /\ UNCHANGED <<db, consumedBy, clocks, broker, recon, sends, grants, paid>>

-----------------------------------------------------------------------------
(* ExecutionService.submit *)

\* The two duplicate reads, then everything that can refuse the order before
\* anything is reserved: mode, universe, connection, account, margin, stops.
Submit(p) ==
    /\ At(p, "submit")
    /\ IF DuplicateOrderExists(cur[p])
       THEN Goto(p, "complete")
       ELSE \/ Goto(p, "reject")
            \/ Goto(p, IF Live THEN "authorize" ELSE "reserve")
    /\ UNCHANGED <<db, consumedBy, clocks, broker, recon, sends, grants, paid>>

\* Fault: the UPDATE lacks its condition on the consumed flag.
ReserveAuthorizationBlindly(p) ==
    /\ At(p, "authorize")
    /\ consumedBy' = cur[p]
    /\ held' = [held EXCEPT ![p] = grants]
    /\ pc' = [pc EXCEPT ![p] = "reserve"]
    /\ UNCHANGED <<db, clocks, broker, cur, outcome, recon, sends, grants, paid>>

\* _reserve_authorization: the conditional UPDATE is one statement. It is lost
\* when the authorization is spent, and counts as lost when the store raises.
ReserveAuthorization(p) ==
    /\ At(p, "authorize")
    /\ \/ /\ consumedBy = NoSignal
          /\ consumedBy' = cur[p]
          /\ held' = [held EXCEPT ![p] = grants]
          /\ pc' = [pc EXCEPT ![p] = "reserve"]
          /\ UNCHANGED <<cur, outcome>>
       \/ Goto(p, "reject") /\ UNCHANGED consumedBy
    /\ UNCHANGED <<db, clocks, broker, recon, sends, grants, paid>>

\* _persist_rejection: one commit, refused as a whole when the trade id exists.
PersistRejection(p) ==
    /\ At(p, "reject")
    /\ IF trade[cur[p]] = Absent
       THEN /\ trade' = [trade EXCEPT ![cur[p]] = "REJECTED"]
            /\ sig' = [sig EXCEPT ![cur[p]] = "REJECTED"]
       ELSE UNCHANGED <<trade, sig>>
    /\ Leave(p)
    /\ UNCHANGED <<guard, consumedBy, clocks, broker, recon, sends, grants, paid>>

\* Fault: the key is not unique, so the insert always succeeds.
ReserveWithoutUniqueKey(p) ==
    /\ At(p, "reserve")
    /\ guard' = [guard EXCEPT ![cur[p]] = "PENDING"]
    /\ Goto(p, "send")
    /\ UNCHANGED <<sig, trade, consumedBy, clocks, broker, recon, sends, grants, paid>>

\* _reserve: the unique key decides between processes that both came this far.
Reserve(p) ==
    /\ At(p, "reserve")
    /\ IF guard[cur[p]] = Absent
       THEN /\ guard' = [guard EXCEPT ![cur[p]] = "PENDING"]
            /\ Goto(p, "send")
       ELSE /\ Goto(p, "complete")
            /\ UNCHANGED guard
    /\ UNCHANGED <<sig, trade, consumedBy, clocks, broker, recon, sends, grants, paid>>

\* Fault: a missing answer is taken for a broker rejection, an unknown retcode for a fill.
AnswersTrusting(b) ==
    CASE b = "filled" -> {"EXECUTED", "REJECTED"}
      [] b = "placed" -> {"SUBMITTED", "REJECTED"}
      [] b = "none"   -> {"REJECTED", "EXECUTED"}

\* Fault: the terminal's own return code is stored as the status.
AnswersUntranslated(b) == {"DONE"}

\* How the answer is recorded, by what the broker really did. An exception, no
\* result or no retcode is FAILED: "order state unknown, failed closed". Every
\* retcode but DONE, DONE_PARTIAL and PLACED is REJECTED, a time-out and a lost
\* connection included, so an order that exists may be answered REJECTED.
Answers(b) ==
    CASE b = "filled" -> {"EXECUTED", "SUBMITTED", "REJECTED", "FAILED"}
      [] b = "placed" -> {"SUBMITTED", "REJECTED", "FAILED"}
      [] b = "none"   -> {"REJECTED", "FAILED"}

\* gateway.order_send: the broker acts at most once per call.
OrderSend(p) ==
    /\ At(p, "send")
    /\ LET s == cur[p] IN
       /\ sends' = [sends EXCEPT ![s] = @ + 1]
       /\ paid' = [paid EXCEPT ![s] = held[p]]
       /\ \E b \in BrokerState :
            /\ broker' = [broker EXCEPT ![s] = b]
            /\ \E a \in Answers(b) : outcome' = [outcome EXCEPT ![p] = a]
    /\ pc' = [pc EXCEPT ![p] = "finish"]
    /\ held' = [held EXCEPT ![p] = 0]
    /\ UNCHANGED <<db, consumedBy, clocks, cur, recon, grants>>

\* Fault: _sync_signal is left out.
FinishWithoutSignal(p) ==
    /\ At(p, "finish")
    /\ LET s == cur[p] IN
       IF trade[s] = Absent
       THEN /\ trade' = [trade EXCEPT ![s] = outcome[p]]
            /\ guard' = [guard EXCEPT ![s] = outcome[p]]
       ELSE UNCHANGED <<trade, guard>>
    /\ ForgetGuardAge
    /\ Leave(p)
    /\ UNCHANGED <<sig, consumedBy, aged, broker, recon, sends, grants, paid>>

\* _finish: guard, trade record and signal (_sync_signal) in one commit. The
\* trade id is unique: if it exists by now, nothing of the answer is recorded.
Finish(p) ==
    /\ At(p, "finish")
    /\ LET s == cur[p] IN
       IF trade[s] = Absent
       THEN /\ trade' = [trade EXCEPT ![s] = outcome[p]]
            /\ guard' = [guard EXCEPT ![s] = outcome[p]]
            /\ sig' = [sig EXCEPT ![s] = outcome[p]]
       ELSE UNCHANGED db
    /\ ForgetGuardAge
    /\ Leave(p)
    /\ UNCHANGED <<consumedBy, aged, broker, recon, sends, grants, paid>>

\* After submit returned DUPLICATE: the status is read, and stamped in a later
\* commit if it was NEW.
Complete(p) ==
    /\ At(p, "complete")
    /\ IF sig[cur[p]] = "NEW" THEN Goto(p, "stamp") ELSE Leave(p)
    /\ UNCHANGED <<db, consumedBy, clocks, broker, recon, sends, grants, paid>>

Stamp(p) ==
    /\ At(p, "stamp")
    /\ RejectSignal(p, "DUPLICATE")

\* The process dies, or an exception ends the cycle: what is committed stays.
Crash(p) ==
    /\ ~At(p, "idle")
    /\ Leave(p)
    /\ seen' = [seen EXCEPT ![p] = {}]
    /\ verdict' = [verdict EXCEPT ![p] = NoVerdict]
    /\ abandon' = [abandon EXCEPT ![p] = {}]
    /\ UNCHANGED <<db, consumedBy, clocks, broker, sends, grants, paid>>

-----------------------------------------------------------------------------
(* Reconciler.run: the closed trades and the stale guards *)

\* Statuses of the rows that reconciliation compares with the broker's deals.
Matchable == {"EXECUTED", "SUBMITTED", "FAILED"} \cup Settled

\* _match and _apply for one row: the row gets the status of the exits of the
\* position it matched, by ticket or by symbol, time and volume, so perhaps one
\* that another identity opened (which one is for the module Booking). Booking its
\* result commits the row; the signal is not touched. A run that finds no history,
\* or no exit, changes nothing here.
ApplyRow(p, r) ==
    /\ At(p, "idle")
    /\ trade[r] \in Matchable
    /\ \E t \in Signal : broker[t] = "filled"
    /\ \E status \in Settled : trade' = [trade EXCEPT ![r] = status]
    /\ UNCHANGED <<sig, guard, consumedBy, clocks, broker, pc, cur, outcome, recon,
                   sends, ledger>>

\* Deals, open orders and positions are read one after the other, and each read
\* answers () rather than None while the terminal is disconnected: an order
\* shows up unless the reads that would show it found no connection. A read that
\* answers None leaves the guards alone: the run ends without this step.
ReconcileRead(p) ==
    /\ At(p, "idle")
    /\ \E readable \in SUBSET {"placed", "filled"} :
         seen' = [seen EXCEPT ![p] = {s \in Signal : broker[s] \in readable}]
    /\ pc' = [pc EXCEPT ![p] = "judge"]
    /\ UNCHANGED <<db, consumedBy, clocks, broker, cur, outcome, verdict, abandon,
                   sends, ledger>>

\* Fault: a reservation without evidence is kept.
VerdictKeepsAll(s, found) == Absent

\* What a stale PENDING guard becomes: its trade's status if that is accepted,
\* unchanged if the broker knows the order, RETIRED otherwise.
VerdictOn(s, found) ==
    IF guard[s] # "PENDING" \/ s \notin guardAged THEN Absent
    ELSE IF trade[s] \in Accepted THEN trade[s]
    ELSE IF s \in found THEN Absent ELSE "RETIRED"

\* _retire_stale_guards up to its commit, with _abandon_signal for retired guards.
JudgeGuards(p) ==
    /\ At(p, "judge")
    /\ LET judged == [s \in Signal |-> VerdictOn(s, seen[p])] IN
       /\ verdict' = [verdict EXCEPT ![p] = judged]
       /\ abandon' = [abandon EXCEPT ![p] =
                        {s \in Signal : judged[s] = "RETIRED" /\ sig[s] = "NEW"}]
    /\ seen' = [seen EXCEPT ![p] = {}]
    /\ pc' = [pc EXCEPT ![p] = "retire"]
    /\ UNCHANGED <<db, consumedBy, clocks, broker, cur, outcome, sends, ledger>>

\* Fault: retirement deletes the guard, which frees its key.
DeleteGuards(p) ==
    /\ At(p, "retire")
    /\ guard' = [s \in Signal |->
                   IF verdict[p][s] = Absent THEN guard[s] ELSE Absent]
    /\ verdict' = [verdict EXCEPT ![p] = NoVerdict]
    /\ abandon' = [abandon EXCEPT ![p] = {}]
    /\ ForgetGuardAge
    /\ Leave(p)
    /\ UNCHANGED <<sig, trade, consumedBy, aged, broker, seen, sends, grants, paid>>

\* The commit of _retire_stale_guards.
RetireGuards(p) ==
    /\ At(p, "retire")
    /\ guard' = [s \in Signal |->
                   IF verdict[p][s] = Absent THEN guard[s] ELSE verdict[p][s]]
    /\ sig' = [s \in Signal |-> IF s \in abandon[p] THEN "ABANDONED" ELSE sig[s]]
    /\ verdict' = [verdict EXCEPT ![p] = NoVerdict]
    /\ abandon' = [abandon EXCEPT ![p] = {}]
    /\ ForgetGuardAge
    /\ Leave(p)
    /\ UNCHANGED <<trade, consumedBy, aged, broker, seen, sends, grants, paid>>

-----------------------------------------------------------------------------
(* Time, the broker and the operator *)

\* A working order is filled later, whoever watches.
BrokerFill(s) ==
    /\ broker[s] = "placed"
    /\ broker' = [broker EXCEPT ![s] = "filled"]
    /\ UNCHANGED <<db, consumedBy, clocks, pc, cur, outcome, recon, sends, ledger>>

\* stale_guard_seconds have passed since the candle of s closed. The row's
\* created_at is the candle's time, so this may precede the row itself.
AgeSignal(s) ==
    /\ s \notin aged
    /\ aged' = aged \cup {s}
    /\ UNCHANGED <<db, consumedBy, guardAged, broker, pc, cur, outcome, recon, sends, ledger>>

\* stale_guard_seconds have passed since the guard of s was inserted.
AgeGuard(s) ==
    /\ guard[s] = "PENDING" /\ s \notin guardAged
    /\ guardAged' = guardAged \cup {s}
    /\ UNCHANGED <<db, consumedBy, aged, broker, pc, cur, outcome, recon, sends, ledger>>

\* authorize_one_trade, called by hand only. Clearing an authorization that is
\* not spent gives nothing new.
AuthorizeOneTrade ==
    /\ consumedBy # NoSignal
    /\ grants < MaxGrants
    /\ consumedBy' = NoSignal
    /\ grants' = grants + 1
    /\ UNCHANGED <<db, clocks, broker, pc, cur, outcome, recon, sends, held, paid>>

-----------------------------------------------------------------------------
Candidate(p) ==
    \/ PersistSignal(p) \/ Levels(p) \/ Assess(p) \/ Submit(p)
    \/ ReserveAuthorization(p) \/ PersistRejection(p) \/ Reserve(p)
    \/ OrderSend(p) \/ Finish(p) \/ Complete(p) \/ Stamp(p)

Reconcile(p) == ReconcileRead(p) \/ JudgeGuards(p) \/ RetireGuards(p)

Next ==
    \/ \E p \in Proc :
         \/ \E s \in Signal : SelectCandidate(p, s) \/ ApplyRow(p, s)
         \/ Candidate(p) \/ Reconcile(p) \/ Crash(p)
    \/ \E s \in Signal : AgeSignal(s) \/ AgeGuard(s) \/ BrokerFill(s)
    \/ AuthorizeOneTrade

Spec == Init /\ [][Next]_vars

\* Time passes and a candidate at hand is worked on. Reconciliation is not fair:
\* the cycle returns before it while the emergency lock is persisted, and it leaves
\* the guards alone while MT5 answers None.
Fairness ==
    /\ \A s \in Signal : WF_vars(AgeGuard(s))
    /\ \A p \in Proc : WF_vars(Candidate(p))

FairSpec == Spec /\ Fairness

-----------------------------------------------------------------------------
(* Properties for any number of processes *)

\* "One order per signal, ever": no interleaving of processes, crash, retry or
\* guard retirement makes a second order_send for one signal identity.
AtMostOneSend == \A s \in Signal : sends[s] <= 1

\* Every live order was paid for by an authorization the operator gave, and no
\* two orders by the same one: a crash, a lost race or a failed send never
\* returns an authorization to the pool.
OneSendPerGrant ==
    Live => /\ \A s \in Signal : sends[s] > 0 => paid[s] \in 1..grants
            /\ \A s, t \in Signal :
                 s # t /\ sends[s] > 0 /\ sends[t] > 0 => paid[s] # paid[t]

\* No recorded outcome claims more than the broker holds, whoever wrote it and
\* whatever raced: EXECUTED and SUBMITTED rows stand for real orders of their own
\* signal, and a row is closed only after some order of the bot was filled.
NoInventedTrade ==
    \A s \in Signal :
        /\ trade[s] = "EXECUTED" => broker[s] = "filled"
        /\ trade[s] = "SUBMITTED" => broker[s] # "none"
        /\ trade[s] \in Settled => \E t \in Signal : broker[t] = "filled"

-----------------------------------------------------------------------------
(* Properties while a single process runs the loop, across its crashes *)

\* _sync_signal's promise, as far as it goes: once a trade record exists, whatever
\* crashed or was retried around it, the signal shows the answer that was recorded.
\* Reconciliation closes the trade without telling the signal, which goes on showing
\* the answer of the order: EXECUTED, SUBMITTED, or FAILED for an order that was
\* filled although no answer came.
SignalReflectsOutcome ==
    \A s \in Signal :
        /\ trade[s] \in Answer => sig[s] = trade[s]
        /\ trade[s] \in Settled => sig[s] \in {"EXECUTED", "SUBMITTED", "FAILED"}

\* A refusal of the bot's own (mode, margin, stops, a spent authorization) never
\* goes on the books for a signal that an order went out for: a REJECTED trade of
\* such a signal is the broker's answer, and its guard says so too. A crash before
\* the answer, the retry after it and the retirement of its guard come in between.
OwnRefusalsUnsent ==
    \A s \in Signal :
        trade[s] = "REJECTED" /\ guard[s] # "REJECTED" => sends[s] = 0

\* An order leaves only for a signal that is still open: after any final status
\* (a rejection, an abandonment by reconciliation) nothing is ever sent for it.
OnlyOpenSignalsSent ==
    [][\A s \in Signal : sends'[s] # sends[s] => sig[s] = "NEW" /\ trade[s] = Absent]_vars

\* A reservation the broker knows nothing of does not stay PENDING for ever, if
\* reconciliation gets to the end again and again (the lock is lifted, MT5 answers,
\* no crash cuts every run short): its process records an answer or it is retired.
PendingResolved ==
    ([]<><<\E p \in Proc : RetireGuards(p)>>_vars) =>
        \A s \in Signal :
            guard[s] = "PENDING" /\ broker[s] = "none"
                ~> guard[s] # "PENDING" \/ broker[s] # "none"

-----------------------------------------------------------------------------
(* What the sources say and a crash refutes *)

\* The reconciler's docstring: a stale guard is retired only after the broker
\* was queried and no order was found for it; if MT5 cannot be read, the guards
\* are left alone.
RetiredOnlyIfUnsent ==
    \A s \in Signal : guard[s] = "RETIRED" => broker[s] = "none"

-----------------------------------------------------------------------------
(* What the path promises: the order ledger over the calls really made *)

\* A second order for a signal is no step of the ledger.
Ledger == INSTANCE OrderLedger WITH orders <- sends, granted <- grants
LedgerSpec == Ledger!Spec

=============================================================================
