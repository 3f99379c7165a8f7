--------------------------- MODULE CalendarPromise ---------------------------
(***************************************************************************)
(* What a news provider promises to the market loop, with nothing of how:  *)
(* a symbol is cleared only by a calendar this process obtained itself and *)
(* that was no older than Limit when the cycle began.                      *)
(***************************************************************************)
EXTENDS Integers

CONSTANTS
    Symbol, Never,
    Limit,   \* how old the calendar of a clearance may be
    Ahead    \* how far its maker's clock may run ahead of ours

VARIABLES
    clock,    \* the present
    moment,   \* the `now` of the cycle, Never between cycles
    source,   \* when the calendar in use was made, Never when there is none
    verdict   \* the answer each symbol got in this cycle

vars == <<clock, moment, source, verdict>>

Unasked == [s \in Symbol |-> "unasked"]

Init ==
    /\ clock = 0 /\ moment = Never
    /\ source = Never /\ verdict = Unasked

Tick == clock' = clock + 1 /\ UNCHANGED <<moment, source, verdict>>

\* A cycle begins, with the calendar of the last one, another one, or none.
Begin ==
    /\ moment' = clock /\ verdict' = Unasked
    /\ \/ source' \in {source, Never}
       \/ source' \in Int /\ source' <= clock + Ahead
    /\ UNCHANGED clock

Usable == source # Never /\ moment - source <= Limit

Answer(s) ==
    /\ moment # Never
    /\ \/ Usable /\ verdict' = [verdict EXCEPT ![s] = "cleared"]
       \/ verdict' = [verdict EXCEPT ![s] = "blocked"]
    /\ UNCHANGED <<clock, moment, source>>

\* The cycle ends, or the process does and forgets its calendar.
End ==
    /\ moment' = Never /\ verdict' = Unasked
    /\ source' \in {source, Never}
    /\ UNCHANGED clock

Next == Tick \/ Begin \/ (\E s \in Symbol : Answer(s)) \/ End

Spec == Init /\ [][Next]_vars

=============================================================================
