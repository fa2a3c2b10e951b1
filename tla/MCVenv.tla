------------------------------- MODULE MCVenv -------------------------------
(* Instances of VenvTransactions for TLC.                                  *)
EXTENDS VenvTransactions, TLC

CONSTANTS p, q, first, second, old, new

\* Sound where no liveness is checked.
Alike == Permutations(Procs) \cup Permutations(Ids) \cup Permutations(Interpreters)
=============================================================================
