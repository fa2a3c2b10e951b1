----------------------------- MODULE Selections -----------------------------
(***************************************************************************)
(* From a selector to a running command: `use` reads what a vendor has     *)
(* published, one document after the other, while the vendor goes on       *)
(* publishing; locks a release; and commands are routed by the lock while  *)
(* selections change, installations are repaired and cleaned.              *)
(*                                                                         *)
(* Commits and installations are single steps here, and commands that edit *)
(* do not die (Transactions, Installer and Cleanup have their files and    *)
(* their deaths); clean does, and what it left half removed may be taken   *)
(* for an installation.  Files that python.org and npm have published do   *)
(* not change.                                                             *)
(***************************************************************************)
EXTENDS Routing

CONSTANTS
    Worlds,         \* what a behaviour may start with: catalog, the project's
                    \* policy and platforms, the machine, the global selection,
                    \* the time
    Upcoming,       \* [Sources -> releases that may be published later]
    Asked,          \* <<tool, selector>> a user may ask for
    MaxNow,         \* bounds the clock
    MaxUses, MaxRuns,     \* bound the edits and the commands
    MaxNews         \* bounds what the vendors publish

\* An entry of a lock: all the platforms in it have one content, and it is
\* what was asked for.
OneRelease(entry, declared) ==
    /\ \A t \in declared : entry.artifacts[t] # None
    /\ Cardinality({entry.artifacts[t] : t \in Targets} \ {None}) = 1
    /\ Matches([version |-> entry.version, date |-> entry.date,
                lts |-> entry.requested.lts], entry.requested)

ASSUME SelectionsAssumption ==
    /\ Asked \subseteq CatalogTools \X Selectors
    /\ \A w \in Worlds :
        /\ w.policy \in Policy
        /\ w.platforms \subseteq Targets /\ w.here \in Targets
        /\ w.now \in 0 .. MaxNow
        /\ w.defaults \in Selection /\ NodeForPnpm(w.defaults)
        /\ \A t \in Selected(w.defaults) : OneRelease(w.defaults[t], {w.here})
        /\ w.catalog \in [Sources -> SUBSET Release] /\ Orderly(w.catalog)
    /\ Upcoming \in [Sources -> SUBSET Release]
    /\ \A s \in Sources : \A r \in Upcoming[s] : Listed(s, r)
    /\ {MaxNow, MaxUses, MaxRuns, MaxNews} \subseteq Nat

VARIABLES
    catalog,     \* what each source offers
    now,
    policy, platforms, here,   \* of the project, of the machine
    lock,        \* of the project and of the global selection
    whole,       \* installations
    broken,      \* partly removed, by a clean that may have died
    venv,        \* the installation .venv was made from
    repairing,   \* taken away by install --repair
    cleaning,    \* what clean still has to remove
    user,        \* the editing command: use or install
    runner,      \* exec or a shim
    uses, runs, news

fixed == <<policy, platforms, here>>
disk == <<lock, whole, broken, venv, repairing, cleaning>>
bounds == <<uses, runs, news>>
vars == <<catalog, now, fixed, disk, user, runner, bounds>>

User == [step : {"idle", "index", "pages", "details", "checksum", "fallback",
                 "resolved", "install"},
         place : Places, tool : CatalogTools \cup {None},
         selector : Selectors \cup {None},
         offered : SUBSET Release,    \* history: offered since it began
         read : SUBSET Release, features : SUBSET Nat, page : Nat,
         chosen : Release \cup {None}, entry : LockedTool \cup {None}]

Runner == [step : {"idle", "inherit", "check", "start", "running"},
           place : Places, command : Commands \cup {None},
           own : Selection,       \* as read
           lock : Selection,      \* with what it inherits
           sdk : [CatalogTools -> Installation \cup {None}],
           dropped : SUBSET Installation]   \* history: deselected meanwhile

Idle == [step |-> "idle", place |-> "global", tool |-> None, selector |-> None,
         offered |-> {}, read |-> {}, features |-> {}, page |-> 0,
         chosen |-> None, entry |-> None]

NotRunning == [step |-> "idle", place |-> "global", command |-> None,
               own |-> NothingSelected, lock |-> NothingSelected,
               sdk |-> [t \in CatalogTools |-> None], dropped |-> {}]

TypeOK ==
    /\ catalog \in [Sources -> SUBSET Release]
    /\ policy \in Policy /\ platforms \subseteq Targets /\ here \in Targets
    /\ now \in 0 .. MaxNow
    /\ lock \in [Places -> Selection]
    /\ whole \cup broken \cup repairing \cup cleaning \subseteq Installation
    /\ venv \in Installation \cup {None}
    /\ user \in User
    /\ runner \in Runner
    \* clean and every edit exclude each other, and nothing is in two places
    /\ cleaning # {} => user.step = "idle"
    /\ whole \cap broken = {} /\ whole \cap repairing = {}
    /\ NodeForPnpm(lock["project"]) /\ NodeForPnpm(lock["global"])

Init ==
    /\ \E w \in Worlds :
        /\ catalog = w.catalog
        /\ policy = w.policy
        /\ platforms = w.platforms
        /\ here = w.here
        /\ lock = [p \in Places |-> IF p = "global" THEN w.defaults
                                   ELSE NothingSelected]
        /\ whole = Installations(w.defaults, w.here)
        /\ now = w.now
    /\ broken = {} /\ repairing = {} /\ cleaning = {}
    /\ venv = None
    /\ user = Idle
    /\ runner = NotRunning
    /\ uses = 0 /\ runs = 0 /\ news = 0

PolicyAt(place) == IF place = "project" THEN policy ELSE Anything

\* Without declared platforms, and globally, the platform of the machine.
PlatformsAt(place) ==
    IF place = "project" /\ platforms # {} THEN platforms ELSE {here}

-----------------------------------------------------------------------------
\* The vendors: a release is announced with some of its files, files are
\* added, a release is built again.
Others == <<now, fixed, disk, user, runner, uses, runs>>

Announce(source) ==
    /\ news < MaxNews
    /\ \E r \in Upcoming[source], ready \in SUBSET Targets :
        /\ \A s \in catalog[source] :
            s.version # r.version /\ (source = "nightly" => s.date # r.date)
        /\ catalog' = [catalog EXCEPT ![source] = @ \cup
                {[r EXCEPT !.offers = [t \in Targets |-> IF t \in ready
                                       THEN @[t] ELSE {}]]}]
    /\ news' = news + 1
    /\ UNCHANGED Others

Upload(source) ==
    /\ \E r \in catalog[source], u \in Upcoming[source] :
        /\ u = [r EXCEPT !.offers = u.offers] /\ r.offers # u.offers
        /\ \A t \in Targets : r.offers[t] \subseteq u.offers[t]
        /\ catalog' = [catalog EXCEPT ![source] = (@ \ {r}) \cup {u}]
    /\ UNCHANGED <<Others, news>>

BuildAgain(source) ==
    /\ source \in {"rust", "flutter"}
    /\ news < MaxNews
    /\ \E r \in catalog[source] : \E b \in Builds \ {r.build} :
        /\ catalog' = [catalog EXCEPT ![source] =
                        (@ \ {r}) \cup {[r EXCEPT !.build = b]}]
        /\ user' = IF source = "flutter" /\ user.tool = "flutter"
                    THEN [user EXCEPT !.offered = {s \in @ : s.version # r.version}]
                    ELSE user
    /\ news' = news + 1
    /\ UNCHANGED <<now, fixed, disk, runner, uses, runs>>

Vendor == \E s \in Sources : Announce(s) \/ Upload(s) \/ BuildAgain(s)

Tick ==
    /\ now < MaxNow
    /\ now' = now + 1
    /\ UNCHANGED <<catalog, fixed, disk, user, runner, bounds>>

-----------------------------------------------------------------------------
\* `use`: under the lock of its place and the shared maintenance lock.
Reading == <<catalog, now, fixed, disk, runner, bounds>>

\* Mutant: the maintenance lock is not taken.
BeginUnlocked(place, tool, selector) ==
    /\ user.step = "idle"
    /\ uses < MaxUses
    /\ <<tool, selector>> \in Asked
    /\ uses' = uses + 1
    /\ user' = [Idle EXCEPT !.step = "index", !.place = place, !.tool = tool,
                            !.selector = selector]
    /\ UNCHANGED <<catalog, now, fixed, disk, runner, runs, news>>

Begin(place, tool, selector) ==
    /\ user.step = "idle" /\ cleaning = {}
    /\ uses < MaxUses
    /\ <<tool, selector>> \in Asked
    /\ IsSelector(tool, selector)
    /\ NodeForPnpm([lock[place] EXCEPT ![tool] = selector])
    /\ catalog[Index(tool, selector)] # {}
    /\ uses' = uses + 1
    /\ user' = [Idle EXCEPT
            !.step = IF tool \in {"java", "flutter"} THEN "pages"
                     ELSE IF NeedsIndex(tool, selector) THEN "index"
                     ELSE "details",
            !.place = place, !.tool = tool, !.selector = selector,
            !.offered = Usable(Index(tool, selector),
                               catalog[Index(tool, selector)]),
            !.features = IF tool = "java"
                         THEN Features(catalog[tool], selector) ELSE {}]
    /\ UNCHANGED <<catalog, now, fixed, disk, runner, runs, news>>

Entry(release, targets) == Locked(user.selector, release, targets)

Resolved(entry) == user' = [user EXCEPT !.step = "resolved", !.entry = entry]

\* One index lists every release: choose, and read the files of the choice,
\* unless (Go, python-build-standalone) the index has them.
ReadIndex ==
    LET source == Index(user.tool, user.selector) IN
    /\ user.step = "index"
    /\ \E r \in First(Usable(source, catalog[source]), user.selector) :
        \/ /\ user.tool = "go"
           /\ Offered(r) # {}
           /\ Resolved(Undated(Entry(r, Offered(r))))
        \/ /\ source = "standalone"
           /\ Resolved(Entry(r, Offered(r)))
        \/ /\ source \notin {"go", "standalone"}
           /\ user' = [user EXCEPT !.chosen = r, !.step = "details"]
    /\ UNCHANGED Reading

\* Python: a version python.org does not list may have a standalone build.
NotListed ==
    /\ user.step = "index" /\ user.tool = "python"
    /\ Index("python", user.selector) = "python"
    /\ \A r \in catalog["python"] : ~Matches(r, user.selector)
    /\ user' = [user EXCEPT !.step = "fallback"]
    /\ UNCHANGED Reading

\* Node: the signed manifest of the version, wherever it is by now; the date
\* is the index's.
ReadNodeManifest ==
    /\ user.step = "details" /\ user.tool = "node"
    /\ \E r \in catalog["node"] :
        /\ r.version = user.chosen.version
        /\ Offered(r) # {}
        /\ Resolved(Entry(r, Offered(r)))
    /\ UNCHANGED Reading

\* npm: times, signed manifest and, of bun and a native pnpm, the signed
\* package of each platform.
ReadPackages ==
    /\ user.step = "details" /\ user.tool \in {"pnpm", "bun"}
    /\ \E r \in catalog[user.tool] :
        /\ IF user.chosen # None THEN r.version = user.chosen.version
           ELSE Matches(r, user.selector)
        /\ Resolved(Entry(r, IF user.tool = "pnpm" THEN PnpmTargets(r)
                             ELSE Offered(r)))
    /\ UNCHANGED Reading

\* Rust: the manifest of the version, or of the nightly's date, which must be
\* the one the index named; then its checksum, a document of its own.
RustSource == IF user.selector.date = None THEN "rust" ELSE "nightly"

ReadRustManifest ==
    /\ user.step = "details" /\ user.tool = "rust"
    /\ \E r \in catalog[RustSource] :
        /\ IF user.selector.date # None THEN r.date = user.selector.date
           ELSE r.version = user.chosen.version /\ r.date = user.chosen.date
        /\ user' = [user EXCEPT !.chosen = r, !.step = "checksum"]
    /\ UNCHANGED Reading

ReadRustChecksum ==
    /\ user.step = "checksum"
    /\ \E r \in catalog[RustSource] :
        /\ r.version = user.chosen.version /\ r.build = user.chosen.build
        /\ Resolved(Entry(user.chosen, Complete(user.chosen)))
    /\ UNCHANGED Reading

\* Python: python.org's files for this machine, or else the newest standalone
\* build of the very version python.org lists.
ReadPythonFiles ==
    /\ user.step = "details" /\ user.tool = "python"
    /\ \E r \in catalog["python"] :
        /\ r.version = user.chosen.version
        /\ IF HasOfficial(r, here) THEN Resolved(Entry(r, {here}))
           ELSE user' = [user EXCEPT !.step = "fallback"]
    /\ UNCHANGED Reading

ReadStandalone ==
    /\ user.step = "fallback"
    /\ \E r \in First(Usable("standalone", catalog["standalone"]),
                      IF user.chosen = None THEN user.selector
                      ELSE [user.selector EXCEPT
                            !.parts = SubSeq(user.chosen.version, 1, 3)]) :
        Resolved(Entry(r, Offered(r)))
    /\ UNCHANGED Reading

\* Java: a page of the newest feature still to be looked through.
Choose(read) ==
    \E r \in First(read, user.selector) :
        user' = [user EXCEPT !.step = "resolved", !.chosen = r, !.read = read,
                             !.entry = Entry(r, Offered(r))]

ReadJavaPage ==
    /\ user.step = "pages" /\ user.tool = "java"
    /\ user.features # {}
    /\ LET feature == MaxOf(user.features)
           page == Page(catalog["java"], feature, user.page)
           read == user.read \cup {r \in Usable("java", page) :
                        \A s \in user.read : s.version # r.version}
           last == Cardinality(page) < PageSize
       IN IF Floating(user.selector) /\ read # {} THEN Choose(read)
          ELSE IF ~last
          THEN /\ user.page + 1 < MaxPages
               /\ user' = [user EXCEPT !.read = read, !.page = @ + 1]
          ELSE IF user.features # {feature}
          THEN user' = [user EXCEPT !.read = read, !.page = 0,
                                    !.features = @ \ {feature}]
          ELSE Choose(read)
    /\ UNCHANGED Reading

\* Flutter: the indexes of the platforms, one after the other.
ReadFlutterIndex ==
    /\ user.step = "pages" /\ user.tool = "flutter"
    /\ LET platform == FlutterPlatforms[user.page + 1]
           read == user.read \cup Usable("flutter",
                        {OnPlatform(r, platform) : r \in catalog["flutter"]})
       IN IF user.page + 1 < Len(FlutterPlatforms)
          THEN user' = [user EXCEPT !.read = read, !.page = @ + 1]
          ELSE \E r \in First(Agreeing(read), user.selector) :
                user' = [user EXCEPT
                    !.step = "resolved", !.chosen = r, !.read = read,
                    !.entry = [Entry(r, {}) EXCEPT
                        !.artifacts = FlutterArtifacts(read, r.version)]]
    /\ UNCHANGED Reading

\* The lock keeps the declared platforms, all of which must be there.
Retained(entry, place) ==
    [entry EXCEPT !.artifacts = [t \in Targets |->
        IF t \in PlatformsAt(place) THEN @[t] ELSE None]]

Covers(entry, place) ==
    \A t \in PlatformsAt(place) : entry.artifacts[t] # None

Free == user' = Idle

\* What the command is to select, and whether it may.
Wanted == [lock[user.place] EXCEPT ![user.tool] = Retained(user.entry, user.place)]

Approved ==
    /\ user.step = "resolved"
    /\ Covers(user.entry, user.place)
    /\ AllAllowed(PolicyAt(user.place), Wanted, now)

\* A request fails four times, nothing matches, documents contradict each
\* other, the policy refuses, an installation fails: the command ends and
\* selects nothing; what it has installed by then stays.
GiveUp ==
    /\ user.step \notin {"idle", "install"}
    /\ \E done \in SUBSET (IF Approved THEN Installations(Wanted, here) ELSE {}) :
        whole' = whole \cup (done \ broken)
    /\ Free
    /\ UNCHANGED <<catalog, now, fixed, lock, broken, venv, repairing, cleaning,
                   runner, bounds>>

\* What is no longer selected, for the commands that have read the old locks.
Deselected(next) ==
    LET before == UNION {Installations(lock[p], here) : p \in Places}
        after == UNION {Installations(next[p], here) : p \in Places}
    IN runner' = IF runner.step = "idle" THEN runner
                 ELSE [runner EXCEPT !.dropped = @ \cup (before \ after)]

\* An environment is made when there is none or the user asks for it; one
\* that was made from another installation stays until then.
Bound(place, selection, recreate) ==
    IF place = "project" /\ selection["python"] # None /\ (venv = None \/ recreate)
    THEN InstallationOf("python", selection["python"], here) ELSE venv

Installable(selection) ==
    \A t \in Selected(selection) : selection[t].artifacts[here] # None

\* use, with its installations and bindings unless it is `--no-install`.  What
\* a clean has left of one is taken for it, or the command ends.
Commit(bare) ==
    LET next == [lock EXCEPT ![user.place] = Wanted] IN
    /\ Approved
    /\ \/ /\ bare
          /\ UNCHANGED <<whole, venv>>
       \/ /\ ~bare
          /\ Installable(Wanted)
          /\ whole' = whole \cup (Installations(Wanted, here) \ broken)
          /\ venv' = Bound(user.place, Wanted, FALSE)
    /\ lock' = next
    /\ Deselected(next)
    /\ Free
    /\ UNCHANGED <<catalog, now, fixed, broken, repairing, cleaning, bounds>>

Remove(place, tool) ==
    LET next == [lock EXCEPT ![place] = [@ EXCEPT ![tool] = None]] IN
    /\ user.step = "idle" /\ cleaning = {}
    /\ uses < MaxUses
    /\ lock[place][tool] # None
    /\ NodeForPnpm(next[place])
    /\ AllAllowed(PolicyAt(place), next[place], now)
    /\ lock' = next
    /\ uses' = uses + 1
    /\ Deselected(next)
    /\ UNCHANGED <<catalog, now, fixed, whole, broken, venv, repairing,
                   cleaning, user, runs, news>>

\* install: with --repair those installations of a place that are found to be
\* damaged, what a clean has left or any other, are taken away before they are
\* made again.
StartInstall(place) ==
    /\ user.step = "idle" /\ cleaning = {}
    /\ uses < MaxUses
    /\ AllAllowed(PolicyAt(place), lock[place], now)
    /\ Installations(lock[place], here) # {}
    /\ \E damaged \in SUBSET ((whole \cup broken) \cap Installations(lock[place], here)) :
        /\ repairing' = damaged
        /\ whole' = whole \ damaged
    /\ UNCHANGED broken
    /\ user' = [Idle EXCEPT !.step = "install", !.place = place]
    /\ uses' = uses + 1
    /\ UNCHANGED <<catalog, now, fixed, lock, venv, cleaning, runner, runs, news>>

Install(recreate) ==
    /\ user.step = "install"
    /\ Installable(lock[user.place])
    /\ whole' = whole \cup (Installations(lock[user.place], here) \ (broken \ repairing))
    /\ broken' = broken \ repairing
    /\ repairing' = {}
    /\ venv' = Bound(user.place, lock[user.place], recreate)
    /\ Free
    /\ UNCHANGED <<catalog, now, fixed, lock, cleaning, runner, bounds>>

\* What was taken away is given back, what is done stays.
InstallFails ==
    /\ user.step = "install"
    /\ \E done \in SUBSET Installations(lock[user.place], here) :
        /\ whole' = whole \cup (repairing \ broken) \cup (done \ (broken \ repairing))
        /\ broken' = broken \ (done \cap repairing)
    /\ repairing' = {}
    /\ Free
    /\ UNCHANGED <<catalog, now, fixed, lock, venv, cleaning, runner, bounds>>

-----------------------------------------------------------------------------
\* clean: what no selection and no environment needs, or what is named of it,
\* while no edit runs; it may die between two removals, or within one.
Needed ==
    (UNION {Installations(lock[p], here) : p \in Places}) \cup ({venv} \ {None})

\* Mutant: only the project's lock is asked.
StartCleanOfProject ==
    /\ user.step = "idle" /\ cleaning = {}
    /\ cleaning' \in (SUBSET ((whole \cup broken)
                             \ Installations(lock["project"], here))) \ {{}}
    /\ UNCHANGED <<catalog, now, fixed, lock, whole, broken, venv, repairing,
                   user, runner, bounds>>

StartClean ==
    /\ user.step = "idle" /\ cleaning = {}
    /\ cleaning' \in (SUBSET ((whole \cup broken) \ Needed)) \ {{}}
    /\ UNCHANGED <<catalog, now, fixed, lock, whole, broken, venv, repairing,
                   user, runner, bounds>>

CleanStep(x) ==
    /\ x \in cleaning
    /\ \/ /\ x \in whole
          /\ whole' = whole \ {x} /\ broken' = broken \cup {x}
          /\ UNCHANGED cleaning
       \/ /\ x \in broken
          /\ broken' = broken \ {x} /\ cleaning' = cleaning \ {x}
          /\ UNCHANGED whole
    /\ UNCHANGED <<catalog, now, fixed, lock, venv, repairing, user, runner, bounds>>

CleanDies ==
    /\ cleaning # {}
    /\ cleaning' = {}
    /\ UNCHANGED <<catalog, now, fixed, lock, whole, broken, venv, repairing,
                   user, runner, bounds>>

-----------------------------------------------------------------------------
\* exec and the shims, without a lock.  The selection of the place is read
\* and validated first.
Tool == ToolOf[runner.command]

Routed == <<catalog, now, fixed, disk, user, uses, news>>

Load(place, command) ==
    /\ runner.step = "idle"
    /\ runs < MaxRuns
    /\ AllAllowed(PolicyAt(place), lock[place], now)
    /\ runs' = runs + 1
    /\ runner' = [NotRunning EXCEPT
            !.step = IF Inherits(place, PolicyAt(place), ToolOf[command], lock[place])
                     THEN "inherit" ELSE "check",
            !.place = place, !.command = command,
            !.own = lock[place], !.lock = lock[place]]
    /\ UNCHANGED Routed

\* Mutant: what is inherited is not held against the project's policy.
InheritUnchecked ==
    LET taken == Inherited(Tool, runner.own, lock["global"]) IN
    /\ runner.step = "inherit"
    /\ runner' = [runner EXCEPT !.step = "check",
                                !.lock = Overlaid(@, lock["global"], taken)]
    /\ UNCHANGED <<Routed, runs>>

\* The global selection fills in what is required and not selected; the
\* policy of the project applies to it.
InheritGlobal ==
    LET taken == Inherited(Tool, runner.own, lock["global"]) IN
    /\ runner.step = "inherit"
    /\ \A t \in taken : Allows(policy, t, lock["global"][t], now)
    /\ runner' = [runner EXCEPT !.step = "check",
                                !.lock = Overlaid(@, lock["global"], taken)]
    /\ UNCHANGED <<Routed, runs>>

\* A receipt that is there, and of a project's own Python its environment.
\* What clean is removing, or has left, may still have its receipt, or not.
Ready(tool, present) ==
    LET entry == runner.lock[tool] IN
    /\ entry # None
    /\ entry.artifacts[here] # None
    /\ InstallationOf(tool, entry, here) \in present
    /\ tool = "python" /\ runner.place = "project" /\ runner.own[tool] # None =>
            venv = InstallationOf(tool, entry, here)

\* Every tool that is ready gets its place in PATH and its variables; only
\* the tools the command requires must be.
Check ==
    /\ runner.step = "check"
    /\ Tool # None => runner.lock[Tool] # None
    /\ \E stale \in SUBSET (broken \ repairing) :
        LET ready == {t \in CatalogTools : Ready(t, whole \cup stale)} IN
        /\ Required(Tool) \subseteq ready
        /\ Tool # None => Provides(runner.lock[Tool], runner.command)
        /\ runner' = [runner EXCEPT !.step = "start",
                !.sdk = [t \in CatalogTools |-> IF t \in ready
                            THEN InstallationOf(t, runner.lock[t], here)
                            ELSE None]]
    /\ UNCHANGED <<Routed, runs>>

\* The executable is still there when the process is made.
Start ==
    /\ runner.step = "start"
    /\ Tool # None => runner.sdk[Tool] \in whole \cup (broken \ repairing)
    /\ runner' = [runner EXCEPT !.step = "running"]
    /\ UNCHANGED <<Routed, runs>>

End ==
    /\ runner.step # "idle"
    /\ runner' = NotRunning
    /\ UNCHANGED <<Routed, runs>>

-----------------------------------------------------------------------------
Use ==
    \/ \E p \in Places, a \in Asked : Begin(p, a[1], a[2])
    \/ ReadIndex \/ NotListed \/ ReadNodeManifest \/ ReadPackages
    \/ ReadRustManifest \/ ReadRustChecksum
    \/ ReadPythonFiles \/ ReadStandalone
    \/ ReadJavaPage \/ ReadFlutterIndex
    \/ GiveUp
    \/ \E bare \in BOOLEAN : Commit(bare)

Change ==
    \/ \E p \in Places, t \in CatalogTools : Remove(p, t)
    \/ \E p \in Places : StartInstall(p)
    \/ \E recreate \in BOOLEAN : Install(recreate)
    \/ InstallFails
    \/ StartClean
    \/ \E x \in Installation : CleanStep(x)
    \/ CleanDies

Execute ==
    \/ \E p \in Places, c \in Commands : Load(p, c)
    \/ InheritGlobal \/ Check \/ Start \/ End

Next == Vendor \/ Tick \/ Use \/ Change \/ Execute

Spec == Init /\ [][Next]_vars

-----------------------------------------------------------------------------
\* A lock never mixes builds: the artifacts of a tool have one content, all
\* the declared platforms have one, and the version is what was asked for,
\* however the vendor published between the requests of `use`.
LocksOneRelease ==
    \A p \in Places : \A t \in Selected(lock[p]) : OneRelease(lock[p][t], PlatformsAt(p))

\* What is resolved is never older than a matching release that was already
\* offered when the command began to read, with its pages or its platforms.
ResolvesToNewest ==
    user.step = "resolved" =>
        \A r \in user.offered : Matches(r, user.selector) =>
            ~Later(r.version, user.entry.version)

\* The project decides what its commands run from: its own selections always
\* win, also for the Node of an inherited pnpm, nothing but what the command
\* requires comes from elsewhere, and its policy covers what does.
RunsWhatIsSelected ==
    runner.step \in {"start", "running"} =>
        \A t \in CatalogTools : runner.sdk[t] # None =>
            /\ runner.own[t] # None =>
                    runner.sdk[t] = InstallationOf(t, runner.own[t], here)
            /\ runner.own[t] = None =>
                    /\ t \in Required(Tool)
                    /\ ~PolicyAt(runner.place).strict
            /\ Allows(PolicyAt(runner.place), t, runner.lock[t], now)

\* No lock protects a command, and yet clean never removes, or goes on to
\* remove, what it was routed to as long as that is selected, be it whole or
\* what a clean that died has left: only a repair takes it away, for a moment.
KeepsWhatRuns ==
    runner.step \in {"start", "running"} =>
        \A t \in CatalogTools : runner.sdk[t] # None =>
            \/ runner.sdk[t] \in (whole \cup broken \cup repairing) \ cleaning
            \/ runner.sdk[t] \in runner.dropped

\* A command that was routed to an installation which is still selected runs
\* from a whole one.  This is what routing's look at the receipt is for
\* (routing.rs:445) and it does not hold: when a clean dies inside
\* remove_dir_all, `use` takes what still has its receipt for an installation
\* (installer.rs:371), and commands run from it.
RunsFromWhole ==
    runner.step \in {"start", "running"} =>
        \A t \in CatalogTools : runner.sdk[t] # None =>
            runner.sdk[t] \in whole \cup repairing \cup runner.dropped

-----------------------------------------------------------------------------
(* The inductive invariant behind the safety properties.                   *)

Using == user.step \notin {"idle", "install"}

\* What the command has read so far is what it was asked for.
UserIsKnown ==
    LET selector == user.selector
        chosen == user.chosen
    IN
    /\ Using =>
        /\ user.tool # None /\ selector # None
        /\ IsSelector(user.tool, selector)
        /\ NodeForPnpm([lock[user.place] EXCEPT ![user.tool] = selector])
        /\ chosen # None => Matches(chosen, selector)
    /\ user.step = "details" =>
        /\ user.tool \in {"node", "python"} => chosen # None
        /\ user.tool = "rust" /\ selector.date = None => chosen # None
    /\ user.step = "checksum" => chosen # None
    /\ user.step = "fallback" => user.tool = "python"
    /\ user.step \in {"details", "fallback"} /\ user.tool = "python" /\ chosen # None =>
            Len(selector.parts) <= 3

\* What is resolved has one content, and is what was asked for.
ResolvedIsOne ==
    user.step = "resolved" =>
        LET entry == user.entry IN
        /\ entry # None /\ entry.requested = user.selector
        /\ \E b \in Builds : \A t \in Targets : entry.artifacts[t] \in {b, None}
        /\ Matches([version |-> entry.version, date |-> entry.date,
                    lts |-> entry.requested.lts], entry.requested)

\* An edit takes away what its place selects, and clean what nobody needs.
EditsAreAlone ==
    /\ repairing # {} =>
        user.step = "install" /\ repairing \subseteq Installations(lock[user.place], here)
    /\ cleaning \cap Needed = {}

\* A command runs from what it has read, which is selected or was dropped.
RunnerIsKnown ==
    LET own == runner.own
        read == runner.lock
        sdk == runner.sdk
        rules == PolicyAt(runner.place)
    IN
    runner.step # "idle" =>
        /\ runner.command # None
        /\ runner.step = "inherit" => runner.place = "project" /\ ~rules.strict /\ read = own
        /\ \A t \in CatalogTools :
            /\ own[t] # None => read[t] = own[t]
            /\ own[t] = None /\ read[t] # None => t \in Required(Tool) /\ ~rules.strict
            /\ read[t] # None =>
                /\ Allows(rules, t, read[t], now)
                /\ read[t].artifacts[here] # None =>
                    InstallationOf(t, read[t], here) \in runner.dropped
                        \cup UNION {Installations(lock[p], here) : p \in Places}
            /\ runner.step \in {"start", "running"} /\ sdk[t] # None =>
                /\ read[t] # None /\ read[t].artifacts[here] # None
                /\ sdk[t] = InstallationOf(t, read[t], here)
                /\ sdk[t] \in runner.dropped
                        \cup ((whole \cup broken \cup repairing) \ cleaning)

Known == TypeOK /\ UserIsKnown /\ ResolvedIsOne /\ EditsAreAlone /\ RunnerIsKnown

\* The same release, with more files.
Kept(r, c) ==
    /\ c.version = r.version /\ c.date = r.date /\ c.lts = r.lts
    /\ \A t \in Targets : r.offers[t] \subseteq c.offers[t]

\* What was offered still is, with more files; of Flutter's releases, what is
\* still remembered was not built again.
OffersStay ==
    /\ Orderly(catalog)
    /\ Using =>
        LET source == Index(user.tool, user.selector) IN
        \A r \in user.offered :
            /\ source \in {"java", "standalone", "flutter"} => Offered(r) # {}
            /\ \E c \in catalog[source] :
                Kept(r, c) /\ (source = "flutter" => c.build = r.build)

\* What was offered and answers the question.
Candidates == {r \in user.offered : Matches(r, user.selector)}

NoneLater(version) == \A r \in Candidates : ~Later(r.version, version)

\* Nothing that was offered is later than what is chosen.
ChoiceIsNewest ==
    LET chosen == user.chosen IN
    Using =>
        /\ user.step \in {"index", "pages"} => chosen = None
        /\ chosen # None => NoneLater(chosen.version)
        /\ user.step = "details" /\ chosen = None =>
                ~NeedsIndex(user.tool, user.selector)
        /\ user.step = "fallback" /\ chosen = None => Candidates = {}

\* Java's pages: what was offered of a feature is on a page still to be read,
\* or was read; of the features before it nothing was.
PagesAreTurned ==
    LET selector == user.selector
        features == user.features
    IN
    user.step = "pages" /\ user.tool = "java" =>
        /\ IsFiniteSet(features)
        /\ Floating(selector) => user.read = {}
        /\ selector.lts \/ selector.parts # <<>> => \A f, g \in features : f = g
        /\ \A r \in Candidates :
            /\ ~selector.lts => Feature(r) \in features
            /\ \E f \in features : Feature(r) <= f
            /\ Feature(r) = MaxOf(features) =>
                \/ \E e \in user.read : e.version = r.version
                \/ user.page * PageSize <=
                        Rank(catalog["java"], Feature(r), r.version)

\* Flutter's indexes: what was offered for a platform is in its index.
IndexesAreRead ==
    user.step = "pages" /\ user.tool = "flutter" =>
        /\ user.page < Len(FlutterPlatforms)
        /\ \A r \in user.offered :
            /\ \A e \in user.read : e.version = r.version => e.build = r.build
            /\ \A t \in Targets, i \in 1 .. user.page :
                t = FlutterPlatforms[i] /\ r.offers[t] # {} =>
                    \E e \in user.read : e.version = r.version

NewestInv ==
    /\ OffersStay /\ ChoiceIsNewest /\ PagesAreTurned /\ IndexesAreRead
    /\ ResolvesToNewest

IInv == Known /\ NewestInv
=============================================================================
