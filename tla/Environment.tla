---------------------------- MODULE Environment ----------------------------
(***************************************************************************)
(* What a project sees of its .venv, however replacing one is interrupted: *)
(* the old environment or a complete new one.  Only the user takes one     *)
(* away, and what the user put there is not replaced.                      *)
(***************************************************************************)
EXTENDS Naturals

CONSTANTS Owned, External, None

VARIABLES env, users

Init == env \in Owned \cup {None, External} /\ users = 0

Replace == env # External /\ env' \in Owned /\ UNCHANGED users

\* A change that an unfinished transaction hides is not seen yet.
UserReplaces == env' \in {env, None, External} /\ users' = users + 1

Next == Replace \/ UserReplaces

Spec == Init /\ [][Next]_<<env, users>>
=============================================================================
