------------------------------ MODULE Catalogs ------------------------------
(***************************************************************************)
(* What the vendors publish and what a selector resolves to: the metadata  *)
(* clients of Node, Go, npm (pnpm and bun), Python, Java, Rust and         *)
(* Flutter, as functions of the documents they have read.                  *)
(*                                                                         *)
(* Python has two vendors, python.org and (the source "standalone")        *)
(* python-build-standalone; Rust's nightlies are a source of their own.    *)
(* A release is what its documents say once they are parsed: entries the   *)
(* parsers skip (foreign names, malformed digests, missing signatures)     *)
(* are not offered.                                                        *)
(***************************************************************************)
EXTENDS Naturals, Sequences, FiniteSets

CONSTANTS
    Targets,     \* platforms: operating system and architecture
    Builds,      \* what the files of a release contain
    Parts,       \* what a release offers for a platform: archives, components
    Versions,    \* sequences <<major, minor, patch, build>>
    Dates,
    Components,  \* the Rust components a project asks for
    Selectors,
    PageSize,    \* releases on a page of Adoptium's API
    MaxPages,    \* MAX_JAVA_PAGES
    None

CatalogTools == {"node", "go", "pnpm", "bun", "python", "java", "rust", "flutter"}
Sources == CatalogTools \cup {"standalone", "nightly"}

\* latest is the selector without parts; a date selects a nightly.
Selector == [parts : Seq(Nat), lts : BOOLEAN, date : Dates \cup {None}]

Release == [version : Versions, date : Dates, lts : BOOLEAN, build : Builds,
            offers : [Targets -> SUBSET Parts]]

Artifacts == [Targets -> Builds \cup {None}]

LockedTool == [requested : Selectors, version : Versions,
               date : Dates \cup {None}, artifacts : Artifacts]

ASSUME CatalogsAssumption ==
    /\ Selectors \subseteq Selector
    /\ Versions \subseteq [1 .. 4 -> Nat]
    /\ Dates \subseteq Nat /\ None \notin Dates
    /\ Components \subseteq Parts
    /\ PageSize \in Nat \ {0} /\ MaxPages \in Nat \ {0}
    /\ None \notin Builds /\ None \notin Versions /\ None \notin Selectors
    /\ None \notin LockedTool /\ None \notin Release

-----------------------------------------------------------------------------
\* The order of the tuples the clients sort by, newest first.
Later(v, w) ==
    \E i \in 1 .. Len(v) : v[i] > w[i] /\ \A j \in 1 .. i - 1 : v[j] = w[j]

Matches(release, selector) ==
    /\ Len(selector.parts) <= Len(release.version)
    /\ SubSeq(release.version, 1, Len(selector.parts)) = selector.parts
    /\ selector.lts => release.lts
    /\ selector.date # None => release.date = selector.date

\* The first match of a sorted list: one release, or none.
Newest(releases) ==
    {r \in releases : \A s \in releases :
        ~Later(s.version \o <<s.date>>, r.version \o <<r.date>>)}

\* Mutant: the oldest match is taken.
FirstUnsorted(releases, selector) ==
    {r \in releases : Matches(r, selector) /\
        \A s \in releases : Matches(s, selector) => ~Later(r.version, s.version)}

First(releases, selector) == Newest({r \in releases : Matches(r, selector)})

\* The platforms Flutter has an index of.
FlutterPlatforms == <<"linux", "windows", "macos">>

\* What a vendor offers: a version is listed once, a nightly has a date of its
\* own, a fourth part is a build number of Java and python-build-standalone,
\* and Flutter has no files but those of its indexes.
Listed(source, release) ==
    /\ source \notin {"java", "standalone"} => release.version[4] = 0
    /\ source = "flutter" => \A t \in Targets : release.offers[t] # {} =>
            \E i \in DOMAIN FlutterPlatforms : t = FlutterPlatforms[i]

Orderly(releases) ==
    \A s \in Sources :
        /\ IsFiniteSet(releases[s])
        /\ \A r \in releases[s] : Listed(s, r)
        /\ \A q, r \in releases[s] :
            q.version = r.version \/ (s = "nightly" /\ q.date = r.date) => q = r

\* What each client accepts: an lts alias, an exact build, a nightly date.
IsSelector(tool, selector) ==
    /\ selector.lts => tool \in {"node", "java"} /\ selector.parts = <<>>
    /\ Len(selector.parts) = 4 => tool \in {"python", "java"}
    /\ selector.date # None =>
            tool = "rust" /\ selector.parts = <<>> /\ ~selector.lts

\* An exact npm version and a nightly are read without an index.
NeedsIndex(tool, selector) ==
    /\ tool \in {"pnpm", "bun"} => Len(selector.parts) # 3
    /\ selector.date = None

\* The index that is read first.
Index(tool, selector) ==
    IF tool = "python" /\ Len(selector.parts) = 4 THEN "standalone"
    ELSE IF selector.date # None THEN "nightly" ELSE tool

-----------------------------------------------------------------------------
\* A client that locks every platform it finds a verified file for.
Offered(release) == {t \in Targets : release.offers[t] # {}}

\* Rust: every component the profile and the project ask for, or nothing.
Complete(release) == {t \in Targets : Components \subseteq release.offers[t]}

\* Parsers that drop a release with no file at all before they choose.
Usable(tool, releases) ==
    IF tool \in {"java", "standalone", "flutter"}
    THEN {r \in releases : Offered(r) # {}} ELSE releases

\* pnpm: a script runs on every platform, a native entry is a package each.
PnpmTargets(release) ==
    IF \E t \in Targets : "script" \in release.offers[t] THEN Targets
    ELSE Offered(release)

\* python.org's files are for Windows alone; the embeddable package and the
\* MSI are used when there is neither a full ZIP nor (3.5 to 3.12) its MSIs.
OfficialParts(release) ==
    {"full-zip", "embeddable-zip", "msi"} \cup
    (IF release.version[1] = 3 /\ release.version[2] \in 5 .. 12
     THEN {"msi-bundle"} ELSE {})

HasOfficial(release, target) ==
    /\ target = "windows"
    /\ release.offers[target] \cap OfficialParts(release) # {}

Locked(selector, release, targets) ==
    [requested |-> selector, version |-> release.version, date |-> release.date,
     artifacts |-> [t \in Targets |-> IF t \in targets THEN release.build
                                      ELSE None]]

\* go.dev publishes no date.
Undated(entry) == [entry EXCEPT !.date = None]

-----------------------------------------------------------------------------
\* Java: the feature releases to look through, the newest first, and when a
\* look stops before the last page.
Feature(release) == release.version[1]

MaxOf(S) == CHOOSE x \in S : \A y \in S : y <= x

Features(releases, selector) ==
    LET lts == {Feature(r) : r \in {s \in releases : s.lts}}
        all == {Feature(r) : r \in releases}
    IN IF selector.lts THEN {f \in lts : f = MaxOf(lts)}
       ELSE IF selector.parts # <<>> THEN all \cap {selector.parts[1]} ELSE all

Floating(selector) == Len(selector.parts) <= 2

InFeature(releases, feature) == {r \in releases : Feature(r) = feature}

\* How many versions of a feature come before this one, newest first.
Rank(releases, feature, version) ==
    Cardinality({v \in {s.version : s \in InFeature(releases, feature)} :
                    Later(v, version)})

\* One page of a feature's releases.
Page(releases, feature, page) ==
    {r \in InFeature(releases, feature) :
        /\ page * PageSize <= Rank(releases, feature, r.version)
        /\ Rank(releases, feature, r.version) < (page + 1) * PageSize}

-----------------------------------------------------------------------------
\* Flutter: the entries of three indexes, grouped by version; a version whose
\* platforms disagree about what it is made of is left out.
OnPlatform(release, target) ==
    [release EXCEPT !.offers = [t \in Targets |-> IF t = target THEN @[t]
                                                  ELSE {}]]

\* Mutant: the hashes of the platforms are not compared.
AgreeingOrNot(entries) == entries

Agreeing(entries) ==
    {e \in entries : \A d \in entries : d.version = e.version => d.build = e.build}

\* Every file that was read for a version, by platform.
FlutterArtifacts(entries, version) ==
    [t \in Targets |->
        LET files == {e \in entries : e.version = version /\ e.offers[t] # {}}
        IN IF files = {} THEN None ELSE (CHOOSE e \in files : TRUE).build]
=============================================================================
