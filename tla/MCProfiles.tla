----------------------------- MODULE MCProfiles -----------------------------
(* Instances of Profiles for TLC.                                          *)
EXTENDS Profiles, TLC

CONSTANTS p, q, dev, test, url, pass, x, first, second, me, you, old, new

With(profiles, default, rest, f) ==
    [config |-> [profiles |-> profiles, default |-> default, rest |-> rest], files |-> f]

\* A project without profiles.
Empty == With([n \in Profiles |-> None], None, old, NoFiles)

Only(n, value) == [m \in Profiles |-> IF m = n THEN value ELSE None]

\* What a colleague has committed: a profile this machine may read, because the
\* first request was granted, or may not.
Theirs(r, default) ==
    LET keys == {you} \cup ({r[i] : i \in Requests} \ {None})
    IN  With(Only(dev, [owners |-> {you}, grants |-> r, recipients |-> keys]), default, new,
             Only(dev, [v \in Variables |-> [value |-> x, readers |-> keys]]))

\* What this machine may have made: a profile another key can read too.
Mine ==
    LET r == [i \in Requests |-> IF i = first THEN you ELSE None]
    IN  With(Only(dev, [owners |-> {me}, grants |-> r, recipients |-> {me, you}]), None, old,
             Only(dev, [v \in Variables |-> [value |-> x, readers |-> {me, you}]]))

Projects == {Empty, Mine}

Colleagues == {Empty} \cup {Theirs(r, dev) : r \in [Requests -> {me, None}]}

Symmetric == Permutations(Procs) \cup Permutations(Variables)
=============================================================================
