-------------------------- MODULE MCOrderExecution --------------------------
(* Instances of OrderExecution for TLC. *)
EXTENDS OrderExecution, TLC

\* Neither processes nor identities are told apart by the code.
Interchangeable == Permutations(Proc) \cup Permutations(Signal)
=============================================================================
