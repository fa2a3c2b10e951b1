--------------------------- MODULE MCTransactions ---------------------------
(* Small contexts for TLC.                                                 *)
EXTENDS Transactions, TLC

Symmetry ==
    Permutations(Procs) \cup Permutations(Ids) \cup
    Permutations(Selectors) \cup Permutations(Versions)

Select(selector) == [t \in Tools |-> selector]
LockFor(selector, version) ==
    [t \in Tools |-> [requested |-> selector, version |-> version]]

Disk(config, lock) == [config |-> config, lock |-> lock, profile |-> None]

\* Nothing yet: an uninitialised directory, or a home without a selection.
Blank == {Disk(None, None)}

\* A directory without a project, an empty project, and clones of projects
\* that were committed with a configuration and its lock.
Consistent ==
    {Disk(None, None), Disk(NoTools, None)} \cup
    {Disk(Select(s), LockFor(s, v)) : s \in Selectors, v \in Versions}

\* The user has edited a selector by hand, or has not locked the tools yet.
HandEdited ==
    {Disk(Select(s), lock) : s \in Selectors,
        lock \in {None} \cup {LockFor(r, v) : r \in Selectors, v \in Versions}}
    \ Consistent

Everything == Consistent \cup HandEdited

AllInstalled == Tools \X Versions
NothingInstalled == {}
=============================================================================
