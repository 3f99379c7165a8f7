----------------------------- MODULE MCNewsBridge -----------------------------
(* Instances of NewsBridge for TLC. *)
EXTENDS NewsBridge

Pairs == {<<"EUR", "USD">>}
Codes == {"EUR", "USD"}
Euro  == {"EUR"}

Payrolls == [currency |-> "EUR", impact |-> "high", at |-> 5]
Survey   == [currency |-> "EUR", impact |-> "low", at |-> 1]
Releases == {Payrolls, Survey}
Surveys  == {Survey}

Errors == {1, 2}
=============================================================================
