---------------------------- MODULE MCNewsService ----------------------------
(* Instances of NewsService for TLC. *)
EXTENDS NewsService

Pairs     == {<<"EUR", "USD">>, <<"XAU", "USD">>}
Codes     == {"EUR", "USD"}
Countries == {"germany"}
Euro      == [c \in Countries |-> "EUR"]

\* A row with neither field, one known by its country, one of low impact.
Orphan   == [about |-> "USD", currency |-> Blank, country |-> Blank, impact |-> "high", at |-> 8]
Meeting == [about |-> "EUR", currency |-> Blank, country |-> "germany", impact |-> "high", at |-> 5]
Survey   == [about |-> "USD", currency |-> "USD", country |-> Blank, impact |-> "low", at |-> 1]
Releases == {Orphan, Meeting, Survey}

Every == {[provider |-> "trading_economics", listed |-> "absent"],
          [provider |-> "static", listed |-> "readable"],
          [provider |-> "static", listed |-> "unreadable"]}
=============================================================================
