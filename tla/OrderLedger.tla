----------------------------- MODULE OrderLedger -----------------------------
(***************************************************************************)
(* What the order path promises to the account owner, with nothing of how: *)
(* an order goes out at most once per signal, and a live order only        *)
(* against an authorization that no other order has used.                  *)
(***************************************************************************)
EXTENDS Naturals, FiniteSets

CONSTANTS Signal, Live, MaxGrants

VARIABLES
    orders,   \* how many orders went to the broker for each signal
    granted   \* live authorizations given so far

Init ==
    /\ orders = [s \in Signal |-> 0]
    /\ granted = 1

\* One order for a signal that has none, covered by an unused authorization.
Send(s) ==
    /\ orders[s] = 0
    /\ Live => Cardinality({t \in Signal : orders[t] > 0}) < granted
    /\ orders' = [orders EXCEPT ![s] = 1]
    /\ UNCHANGED granted

\* The owner authorizes one more live trade.
Grant ==
    /\ granted < MaxGrants
    /\ granted' = granted + 1
    /\ UNCHANGED orders

Next == (\E s \in Signal : Send(s)) \/ Grant

Spec == Init /\ [][Next]_<<orders, granted>>

=============================================================================
