----------------------------- MODULE MCCleanup -----------------------------
(* Instances of Cleanup for TLC.                                           *)
EXTENDS Cleanup

CONSTANTS a, b, x, y

OneOf == {{x}, {y}}

\* Project a was cloned with a lock, b is new.
CloneAndNew == {[r \in Roots |-> IF r = a THEN {x} ELSE None]}
=============================================================================
