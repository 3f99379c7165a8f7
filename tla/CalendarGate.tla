----------------------------- MODULE CalendarGate -----------------------------
(***************************************************************************)
(* The ruling both calendar providers give on a symbol (news/provider.py,  *)
(* news/mt5_calendar.py).  A symbol is the pair of codes its name is made  *)
(* of, an instant a number of ticks, and a calendar row a record           *)
(* [currency, impact, at].                                                 *)
(***************************************************************************)
EXTENDS Integers

CONSTANTS
    Symbol,         \* settings.symbols, each as its two halves
    KnownCurrency,  \* KNOWN_CURRENCIES
    Window,         \* settings.news_window_minutes, in ticks
    FailClosed,     \* settings.news_fail_closed
    Never           \* no instant

ASSUME WindowAssumption == Window \in Nat
ASSUME FailClosedAssumption == FailClosed \in BOOLEAN
ASSUME NeverAssumption == Never \notin Int

Impact  == {"low", "medium", "high"}
Verdict == {"unasked", "blocked", "cleared", "unenforced"}
Unasked == [s \in Symbol |-> "unasked"]

\* The currencies of a symbol; none when it cannot be mapped to an ISO pair.
PairCurrencies(s) ==
    IF {s[1], s[2]} \subseteq KnownCurrency /\ s[1] # s[2] THEN {s[1], s[2]} ELSE {}

Within(a, b, distance) == b - distance <= a /\ a <= b + distance

Blocking(rows, s, moment) ==
    {e \in rows : /\ e.impact = "high"
                  /\ e.currency \in PairCurrencies(s)
                  /\ Within(e.at, moment, Window)}

\* What a provider answers when protection cannot be enforced.
Unenforceable == IF FailClosed THEN "blocked" ELSE "unenforced"

Ruling(usable, rows, s, moment) ==
    IF ~usable \/ PairCurrencies(s) = {} THEN Unenforceable
    ELSE IF Blocking(rows, s, moment) # {} THEN "blocked" ELSE "cleared"

=============================================================================
