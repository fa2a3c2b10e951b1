---------------------------- MODULE MCSelections ----------------------------
(***************************************************************************)
(* Instances for TLC.  A behaviour starts with the catalog of one vendor   *)
(* (Node's with pnpm's, python.org's with the standalone builds), so that  *)
(* its publications and the commands of two places meet in every order.    *)
(***************************************************************************)
EXTENDS Selections

Both == {"linux", "windows"}

Files(linux, windows) ==
    [t \in Both |-> IF t = "linux" THEN linux ELSE windows]

Everywhere(parts) == Files(parts, parts)

R(version, date, lts, offers) ==
    [version |-> version, date |-> date, lts |-> lts, build |-> "A",
     offers |-> offers]

Archive == Everywhere({"archive"})

NodeOld == R(<<20, 1, 0, 0>>, 0, TRUE, Archive)
NodeNew == R(<<21, 0, 0, 0>>, 1, FALSE, Archive)
PnpmOld == R(<<9, 0, 0, 0>>, 0, FALSE, Files({"script"}, {}))
PnpmNew == R(<<10, 0, 0, 0>>, 1, FALSE, Everywhere({"native"}))
PyOld == R(<<3, 1, 0, 0>>, 0, FALSE, Files({}, {"full-zip"}))
PyNew == R(<<3, 2, 0, 0>>, 1, FALSE, Files({}, {"msi-bundle"}))
PyEmpty == [PyNew EXCEPT !.offers = Everywhere({})]
PyBuild == R(<<3, 1, 0, 7>>, 0, FALSE, Archive)
PyBuildNew == R(<<3, 2, 0, 8>>, 1, FALSE, Archive)
JavaLts == R(<<21, 0, 1, 9>>, 0, TRUE, Archive)
JavaNext == R(<<21, 0, 2, 7>>, 1, TRUE, Archive)
JavaEmpty == R(<<22, 0, 0, 8>>, 0, FALSE, Everywhere({}))
RustOld == R(<<1, 80, 0, 0>>, 0, FALSE, Everywhere({"rustc", "clippy"}))
RustNew == R(<<1, 81, 0, 0>>, 1, FALSE, Everywhere({"rustc", "clippy"}))
Nightly == R(<<1, 82, 0, 0>>, 1, FALSE, Files({"rustc", "clippy"}, {"rustc"}))
FlutterOld == R(<<3, 1, 0, 0>>, 0, FALSE, Archive)
FlutterNew == R(<<3, 2, 0, 0>>, 1, FALSE, Archive)
GoOld == R(<<1, 20, 0, 0>>, 0, FALSE, Archive)
GoNew == R(<<1, 21, 0, 0>>, 0, FALSE, Archive)

Nothing == [s \in Sources |-> {}]

Select(parts) == [parts |-> parts, lts |-> FALSE, date |-> None]
Latest == Select(<<>>)
Lts == [Latest EXCEPT !.lts = TRUE]
OnDate == [Latest EXCEPT !.date = 1]

Node == [Nothing EXCEPT !["node"] = {NodeOld}, !["pnpm"] = {PnpmOld}]
Python == [Nothing EXCEPT !["python"] = {PyOld, PyEmpty},
                              !["standalone"] = {PyBuild}]
Java == [Nothing EXCEPT !["java"] = {JavaLts, JavaEmpty}]
Rust == [Nothing EXCEPT !["rust"] = {RustOld}, !["nightly"] = {Nightly}]
Flutter == [Nothing EXCEPT !["flutter"] = {FlutterOld, FlutterNew}]
Go == [Nothing EXCEPT !["go"] = {GoOld}]

Strict == [Anything EXCEPT !.strict = TRUE]
Proven == [Anything EXCEPT !.signed = TRUE]
Aged == [Anything EXCEPT !.age = 1]

World(c, rules, declared, machine, defaults) ==
    [catalog |-> c, policy |-> rules, platforms |-> declared, here |-> machine,
     defaults |-> defaults, now |-> IF rules.age = 0 THEN 1 ELSE 0]

NodeAndPnpm ==
    [NothingSelected EXCEPT !["node"] = Locked(Latest, NodeOld, Both),
                            !["pnpm"] = Locked(Latest, PnpmOld, Both)]

Scenes ==
    {World(Node, Strict, Both, "linux", NothingSelected),
     World(Node, Proven, {}, "windows", NodeAndPnpm),
     World(Python, Aged, {}, "windows", NothingSelected),
     World(Java, Anything, {}, "windows", NothingSelected),
     World(Rust, Anything, {}, "windows", NothingSelected),
     World(Flutter, Anything, Both, "linux", NothingSelected),
     World(Go, Aged, {}, "linux", NothingSelected)}

News ==
    [Nothing EXCEPT !["node"] = {NodeNew}, !["pnpm"] = {PnpmNew},
        !["python"] = {PyNew}, !["standalone"] = {PyBuildNew},
        !["java"] = {JavaNext}, !["rust"] = {RustNew}, !["go"] = {GoNew}]

AllVersions ==
    {r.version : r \in UNION {UNION {w.catalog[s] \cup News[s] : s \in Sources} :
                            w \in Scenes}}

AllSelectors ==
    {Latest, Lts, OnDate, Select(<<4>>), Select(<<9, 0, 0>>), Select(<<3, 1, 0, 7>>),
     Select(<<21, 0, 1>>)}

Requests ==
    {"node", "python", "java", "rust", "flutter", "go", "pnpm"} \X {Latest}
    \cup {<<"node", Lts>>, <<"java", Lts>>, <<"rust", OnDate>>,
          <<"pnpm", Select(<<9, 0, 0>>)>>, <<"python", Select(<<3, 1, 0, 7>>)>>,
          <<"python", Select(<<4>>)>>,
          <<"java", Select(<<21, 0, 1>>)>>}

Typed == {"pnpm", "python3.1", "make"}

Tools ==
    [c \in Typed |-> CASE c = "python3.1" -> "python"
                       [] c = "make" -> None
                       [] OTHER -> c]

OfVersion(command, version) == SubSeq(version, 1, 2) = <<3, 1>>
=============================================================================
