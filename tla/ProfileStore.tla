---------------------------- MODULE ProfileStore ----------------------------
(***************************************************************************)
(* What the commands on encrypted profiles promise: whatever else runs or  *)
(* dies, configuration and ciphertext change together, by one edit at a    *)
(* time, each made from what the one before it left.                       *)
(***************************************************************************)
CONSTANTS
    InitialContents,
    Pulled,           \* what a pull may bring
    Edits(_)          \* what one edit can make of the contents

VARIABLE store

Init == store \in InitialContents

Edit == store' \in Edits(store)

\* The files are under version control: a pull may bring others.
Pull == store' \in Pulled

Next == Edit \/ Pull

Spec == Init /\ [][Next]_store

=============================================================================
