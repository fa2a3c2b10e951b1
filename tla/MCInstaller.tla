---------------------------- MODULE MCInstaller ----------------------------
(* Instances of Installer for TLC.                                         *)
EXTENDS Installer

CONSTANTS base, native, jdk, pnpm, p, q

File(path) == [path |-> path, kind |-> "file", to |-> <<>>]
Dir(path) == [path |-> path, kind |-> "dir", to |-> <<>>]
Link(path, to) == [path |-> path, kind |-> "link", to |-> to]

\* base repeats a directory and has links, one of which goes through another.
TwoArchives ==
    base :> [format |-> "tar",
             entries |-> <<Dir(<<"pkg", "bin">>), File(<<"pkg", "bin", "run">>),
                           Dir(<<"pkg", "bin">>),
                           Link(<<"pkg", "go">>, <<"now", "run">>),
                           Link(<<"pkg", "now">>, <<"bin">>)>>]
    @@ native :> [format |-> "zip",
                  entries |-> <<File(<<"pkg", "exe">>), File(<<"pkg", "LICENSE">>)>>]

Layers(digest, required) ==
    [digest |-> digest, strip |-> 1, prefixes |-> {}, required |-> required]

\* A JDK of one archive, and pnpm, whose native binary goes over its base.
TwoRequests ==
    jdk :> [layers |-> <<Layers(base, {<<"bin", "run">>})>>,
            required |-> {<<"bin", "run">>}, aliases |-> {}, native |-> TRUE]
    @@ pnpm :> [layers |-> <<Layers(base, {<<"go">>}), Layers(native, {})>>,
                required |-> {<<"exe">>}, aliases |-> {<<"pnpx">>}, native |-> TRUE]

\* pnpm is absent, changed, gutted, or not Pinset's.
Changed == [Whole(pnpm) EXCEPT !.intact = FALSE]
Gutted == [Whole(pnpm) EXCEPT !.files = {}]
External == [Whole(pnpm) EXCEPT !.receipt = None]
SomePnpm ==
    {[i \in Identities |-> IF i = pnpm THEN found ELSE None] :
        found \in {None, Changed, Gutted, External}}

\* A damaged JDK.
ChangedJdk == {[i \in Identities |-> [Whole(i) EXCEPT !.intact = FALSE]]}

\* Sound where no liveness is checked.
Processes == Permutations(Procs)

EmptyCache == {[d \in Digests |-> None]}
BadEntry == {[d \in Digests |-> IF d = base THEN "bad" ELSE None]}
NoPartial == {[d \in Digests |-> None]}
SomePartial ==
    {[d \in Digests |-> IF d = base THEN found ELSE None] :
        found \in {None, [length |-> 1, good |-> FALSE],
                   [length |-> MaxDownload + 1, good |-> FALSE]}}
=============================================================================
