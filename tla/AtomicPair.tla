----------------------------- MODULE AtomicPair -----------------------------
(***************************************************************************)
(* What the journal of a project promises: the project has one current     *)
(* state, at most one replacement is being attempted at a time, and an     *)
(* attempt ends by taking effect as a whole or by leaving no trace.        *)
(***************************************************************************)
EXTENDS ProjectFiles

CONSTANT InitialFiles

VARIABLES
    current,   \* the project's configuration, lock and profile
    proposed   \* the replacement being attempted, or None

vars == <<current, proposed>>

Init ==
    /\ current \in InitialFiles
    /\ proposed = None

\* A project comes into being with nothing selected (pinset init).
Create ==
    /\ current.config = None
    /\ proposed = None
    /\ current' = [current EXCEPT !.config = NoTools]
    /\ UNCHANGED proposed

\* Only a configuration and a lock that fit each other are ever attempted.
Propose ==
    /\ proposed = None
    /\ \E next \in Files :
        /\ next.lock # None
        /\ Loadable(next.config, next.lock)
        /\ proposed' = next
    /\ UNCHANGED current

Accept ==
    /\ proposed # None
    /\ current' = proposed
    /\ proposed' = None

Reject ==
    /\ proposed # None
    /\ proposed' = None
    /\ UNCHANGED current

Next == Create \/ Propose \/ Accept \/ Reject

Spec == Init /\ [][Next]_vars

=============================================================================
