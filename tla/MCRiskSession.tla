---------------------------- MODULE MCRiskSession ----------------------------
(* Instances of RiskSession for TLC. *)
EXTENDS RiskSession

Losses == {-1}
=============================================================================
