--------------------------- MODULE MCPublication ---------------------------
(* Instances of Publication for TLC.                                       *)
EXTENDS Publication, TLC

CONSTANTS r1, r2, r3, node, tool, p, q

InBin(release, command) ==
    [n \in Names |-> CASE n \in Pair -> release
                       [] n = node -> release
                       [] OTHER -> command]

Package(release) == [n \in Pair |-> release]

Recorded(cli, release) == [cli |-> cli, shim |-> release, commands |-> {node}]

State(b, s, g, places) == [bin |-> b, package |-> s, registry |-> g, from |-> places]

Empty == [n \in Names |-> None]

\* Installed in bin; or by a package manager, and nothing published yet,
\* or an earlier release, which may not have recorded its CLI, or something of
\* the same name as a command there.
FromOnePlace ==
    {State(InBin(r1, c), Package(r1), Recorded(r1, r1), {"bin"}) : c \in {None, External}}
    \cup {State(Empty, Package(r1), None, {"package"}),
          State(InBin(r1, None), Package(r2), Recorded(r1, r1), {"package"}),
          State(InBin(r1, None), Package(r2), Recorded(None, r1), {"package"})}

\* A package, and the pair that it published, both in use.
FromBoth == {State(InBin(r1, None), Package(r2), Recorded(r1, r1), {"bin", "package"})}

Alike == Permutations(Procs)
=============================================================================
